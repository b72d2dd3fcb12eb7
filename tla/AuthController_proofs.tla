----------------------- MODULE AuthController_proofs ------------------------
(***************************************************************************)
(* Proofs about AuthController, for every number of calls, any number of   *)
(* them under way, every lifetime and every number of attempts.  IInv is   *)
(* the inductive invariant.  A step of the call c keeps it because it      *)
(* keeps what concerns c (Preserved, one lemma per action), and because    *)
(* the tables only grow (Grows), which is what every other call relies on. *)
(***************************************************************************)
EXTENDS AuthController, FiniteSetTheorems, TLAPS

(* The bounds, the lifetimes and the attempts are positive. *)
LEMMA Constants ==
    /\ MaxCalls \in Nat \ {0} /\ MaxActive \in Nat \ {0} /\ MaxTime \in Nat \ {0}
    /\ RequestLifetime \in Nat \ {0} /\ SessionLifetime \in Nat \ {0}
    /\ MaxAttempts \in Nat \ {0}
BY AuthAssumption

(* The table f has an entry i. *)
Has(f, i) == i \in Calls /\ f[i] # Nothing

(* A session that differs from t at most in when it was revoked and replaced. *)
Copy(s, t) ==
    /\ s \in Session
    /\ s.user = t.user /\ s.request = t.request /\ s.previous = t.previous
    /\ s.expires = t.expires

(* The calls that begin with validateSessionKey. *)
KeyOps == {"revokeSession", "revokeAllSessions", "replaceSession", "updateUserInfo"}

(* The call works on the one account. *)
Known(c) == calls[c].id = address /\ address \in Calls

(* requestLogin: the request of the call is stored exactly from saveRequest *)
(* on.                                                                      *)
LoginInv(c) ==
    /\ calls[c].pc = "saveNewUser" => calls[c].id = c
    /\ calls[c].pc = "findAgain" => address \in Calls
    /\ calls[c].pc \in {"saveRequest", "setCurrent"} => Known(c)
    /\ requests[c] # Nothing => calls[c].pc \in Ended \cup {"setCurrent"}
    /\ calls[c].pc = "setCurrent" => requests[c] # Nothing
    /\ calls[c].op = "requestLogin" /\ calls[c].pc = "ok" => requests[c] # Nothing

(* completeLogin: the request exists, and is completed before the session is *)
(* saved.                                                                    *)
CompleteInv(c) ==
    calls[c].op = "completeLogin" =>
        /\ Has(requests, calls[c].key)
        /\ calls[c].pc \in {"saveSession", "ok"} => requests[calls[c].key].completed
        /\ calls[c].pc = "ok" => sessions[c] # Nothing

(* Calls with a session key: the sessions they name exist and are the *)
(* account's.                                                         *)
KeyInv(c) ==
    /\ calls[c].op \in KeyOps => Has(sessions, calls[c].key)
    /\ calls[c].op = "revokeSession" => Has(sessions, calls[c].target)
    /\ calls[c].pc \in {"findKey", "findKeyUser"} => calls[c].op \in KeyOps
    /\ calls[c].pc = "findKeyUser" =>
           calls[c].session \in Session /\ calls[c].session.user = address
    /\ calls[c].pc \in {"findTarget", "setRevokeAll", "findOwn", "saveTarget"} =>
           Known(c) /\ calls[c].time # 0

(* revokeSession holds a copy of the target, revoked, and has saved it when it *)
(* answers.                                                                    *)
RevokeInv(c) ==
    calls[c].op = "revokeSession" =>
        /\ calls[c].pc = "saveTarget" =>
               Copy(calls[c].session, sessions[calls[c].target]) /\ calls[c].session.revoked # 0
        /\ calls[c].pc = "ok" => sessions[calls[c].target].revoked # 0

(* replaceSession has revoked the old session before it saves the new one. *)
ReplaceInv(c) ==
    calls[c].op = "replaceSession" =>
        /\ calls[c].pc = "saveTarget" => Copy(calls[c].session, sessions[calls[c].key])
        /\ calls[c].pc = "saveSession" => Known(c)
        /\ calls[c].pc \in {"saveSession", "ok"} => sessions[calls[c].key].revoked # 0
        /\ calls[c].pc = "ok" => sessions[c] # Nothing

(* What the session was granted for is used up. *)
Granted(s) ==
    \/ /\ Has(requests, sessions[s].request)
       /\ requests[sessions[s].request].completed
    \/ /\ Has(sessions, sessions[s].previous)
       /\ sessions[sessions[s].previous].revoked # 0

(* Writers of the user record hold a user; a session is stored by the last *)
(* step.                                                                   *)
SaveInv(c) ==
    /\ calls[c].pc \in {"findUser", "saveUser"} =>
           address \in Calls /\ calls[c].op \in {"updateUserInfo", "handleStripeWebhook"}
    /\ calls[c].pc = "saveUser" => Known(c) /\ calls[c].user \in User
    /\ sessions[c] # Nothing => calls[c].pc = "ok" /\ Granted(c)

(* findLoginRequest's checks refuse every version of the login request. *)
RequestDead(r) ==
    \A v \in RequestVersions(r) \ {Nothing} :
        now >= v.expires \/ v.completed \/ v.attempts >= MaxAttempts

(* The checks on the session itself refuse its key, whatever version is read. *)
KeyDead(s) ==
    \A v \in SessionVersions(s) \ {Nothing} : now >= v.expires \/ v.revoked # 0

(* A call with a void key is refused, or has not yet looked and will be. *)
VoidInv(c) ==
    calls[c].void =>
        \/ calls[c].pc = "refused"
        \/ /\ calls[c].pc = "findRequest" /\ calls[c].op = "completeLogin"
           /\ RequestDead(calls[c].key)
        \/ calls[c].pc = "findKey" /\ KeyDead(calls[c].key)

(* The address names a user that exists, and everything stored is that user's. *)
AccountInv ==
    /\ OneAccount
    /\ address \in Calls => users[address] # Nothing

(* What each call c knows. *)
CallInv(c) ==
    /\ LoginInv(c) /\ CompleteInv(c) /\ KeyInv(c) /\ RevokeInv(c) /\ ReplaceInv(c)
    /\ SaveInv(c) /\ VoidInv(c)

(* The calls answered with a wrong code for the login request. *)
Wrong(r) == {d \in Answered("completeLogin", "wrongCode") : calls[d].key = r}

(* Every wrong code that was answered was counted before. *)
AttemptsInv ==
    \A r \in Calls : requests[r] # Nothing => Cardinality(Wrong(r)) <= requests[r].attempts

(* An earlier version differs from the record at most in what is updated. *)
OldInv ==
    \A i \in Calls :
        /\ \A v \in oldRequests[i] \ {Nothing} :
               requests[i] # Nothing /\ v.expires = requests[i].expires
        /\ \A v \in oldSessions[i] \ {Nothing} :
               sessions[i] # Nothing /\ Copy(v, sessions[i])

(* The inductive invariant. *)
IInv == TypeOK /\ AccountInv /\ AttemptsInv /\ OldInv /\ \A c \in Calls : CallInv(c)

(* Nothing is none of the records. *)
LEMMA NothingElse == Nothing \notin User /\ Nothing \notin LoginRequest /\ Nothing \notin Session
BY DEF Nothing, User, LoginRequest, Session

(* The inductive invariant holds initially. *)
LEMMA InitIInv == Init => IInv
<1> SUFFICES ASSUME Init PROVE IInv
  OBVIOUS
<1>1. TypeOK
  BY Constants DEF Init, TypeOK, NoCall, Call, Ids, Times, Ends, Labels, Ended, Calls,
        None, User, Session, Ops
<1>2. AccountInv
  BY DEF Init, AccountInv, OneAccount, None, Calls
<1>3. \A c \in Calls : CallInv(c)
  BY DEF Init, CallInv, LoginInv, CompleteInv, KeyInv, RevokeInv, ReplaceInv,
        SaveInv, VoidInv, NoCall, KeyOps, Known, Ended
<1>4. AttemptsInv
  BY DEF Init, AttemptsInv
<1>5. OldInv
  BY DEF Init, OldInv
<1> QED
  BY <1>1, <1>2, <1>3, <1>4, <1>5 DEF IInv

(* A step of one call. *)
CallStep(c) ==
    \/ CallRequestLogin(c) \/ CallCompleteLogin(c) \/ CallWithKey(c) \/ CallWebhook(c)
    \/ RequestLogin(c) \/ CompleteLogin(c) \/ ValidateSessionKey(c)
    \/ RevokeSession(c) \/ RevokeAllSessions(c) \/ ReplaceSession(c) \/ UpdateUser(c)
    \/ Fail(c)

(* A step of c keeps the login requests: they stay, stay completed, and count *)
(* up.                                                                        *)
RequestsGrow(c) ==
    \A i \in Calls :
        /\ requests[i] # Nothing =>
               /\ requests'[i] # Nothing
               /\ requests'[i].expires = requests[i].expires
               /\ requests[i].completed => requests'[i].completed
               /\ requests[i].attempts <= requests'[i].attempts
        /\ i # c /\ requests[i] = Nothing => requests'[i] = Nothing
        /\ oldRequests'[i] \subseteq RequestVersions(i)

(* A step of c keeps the sessions: they stay what they were, and stay revoked. *)
SessionsGrow(c) ==
    \A i \in Calls :
        /\ sessions[i] # Nothing =>
               /\ Copy(sessions'[i], sessions[i])
               /\ sessions[i].revoked # 0 => sessions'[i].revoked # 0
        /\ i # c /\ sessions[i] = Nothing => sessions'[i] = Nothing
        /\ oldSessions'[i] \subseteq SessionVersions(i)

(* What the other calls rely on in a step of c. *)
Grows(c) ==
    /\ now <= now'
    /\ address \in Calls => address' = address
    /\ \A d \in Calls : d # c => calls'[d] = calls[d]
    /\ RequestsGrow(c)
    /\ SessionsGrow(c)

(* A step of c that answers a wrong code has counted it. *)
Counted(c) ==
    /\ calls[c].pc \notin Ended
    /\ calls'[c].pc = "wrongCode" =>
           /\ calls[c].op = "completeLogin" /\ calls'[c].key = calls[c].key
           /\ requests'[calls[c].key].attempts = requests[calls[c].key].attempts + 1

(* What every step of c is shown to do. *)
Preserved(c) == TypeOK' /\ Grows(c) /\ AccountInv' /\ CallInv(c)' /\ Counted(c)

(* Become changes the record of one call. *)
LEMMA BecomeType ==
    ASSUME calls \in [Calls -> Call], NEW c \in Calls, NEW r \in Call, Become(c, r)
    PROVE  /\ calls' \in [Calls -> Call]
           /\ calls'[c] = r
           /\ \A d \in Calls : d # c => calls'[d] = calls[d]
BY DEF Become

(* What putting a record leaves in the tables. *)
LEMMA PutUserRecord ==
    ASSUME TypeOK, NEW u \in Calls, NEW v \in User, PutUser(u, v)
    PROVE  /\ users' \in [Calls -> User \cup {Nothing}] /\ users'[u] = v
           /\ \A i \in Calls : i # u => users'[i] = users[i]
           /\ oldUsers' \in [Calls -> SUBSET (User \cup {Nothing})]
BY DEF PutUser, Replaced, TypeOK

LEMMA PutRequestRecord ==
    ASSUME TypeOK, NEW k \in Calls, NEW v \in LoginRequest, PutRequest(k, v)
    PROVE  /\ requests' \in [Calls -> LoginRequest \cup {Nothing}] /\ requests'[k] = v
           /\ \A i \in Calls : i # k => requests'[i] = requests[i]
           /\ oldRequests' \in [Calls -> SUBSET (LoginRequest \cup {Nothing})]
           /\ \A i \in Calls : oldRequests'[i] \subseteq RequestVersions(i)
           /\ now' = now /\ address' = address /\ users' = users /\ sessions' = sessions
           /\ oldUsers' = oldUsers /\ oldSessions' = oldSessions
BY DEF PutRequest, Replaced, RequestVersions, TypeOK

LEMMA PutSessionRecord ==
    ASSUME TypeOK, NEW k \in Calls, NEW v \in Session, PutSession(k, v)
    PROVE  /\ sessions' \in [Calls -> Session \cup {Nothing}] /\ sessions'[k] = v
           /\ \A i \in Calls : i # k => sessions'[i] = sessions[i]
           /\ oldSessions' \in [Calls -> SUBSET (Session \cup {Nothing})]
           /\ \A i \in Calls : oldSessions'[i] \subseteq SessionVersions(i)
           /\ now' = now /\ address' = address /\ users' = users /\ requests' = requests
           /\ oldUsers' = oldUsers /\ oldRequests' = oldRequests
BY DEF PutSession, Replaced, SessionVersions, TypeOK

(* A table that is left alone grows. *)
LEMMA Same ==
    ASSUME IInv, NEW c \in Calls
    PROVE  /\ now' = now => now <= now'
           /\ requests' = requests /\ oldRequests' = oldRequests => RequestsGrow(c)
           /\ sessions' = sessions /\ oldSessions' = oldSessions => SessionsGrow(c)
<1>1. now \in Nat /\ \A i \in Calls : requests[i] # Nothing => requests[i].attempts \in Nat
  BY Constants DEF IInv, TypeOK, LoginRequest
<1>2. \A i \in Calls : sessions[i] # Nothing => sessions[i] \in Session
  BY DEF IInv, TypeOK
<1> QED
  BY <1>1, <1>2 DEF RequestsGrow, SessionsGrow, Copy, RequestVersions, SessionVersions

(* A login request or a session that is dead in all its versions stays so. *)
LEMMA DeadStays ==
    ASSUME IInv, TypeOK', NEW c \in Calls, Grows(c), NEW i \in Calls
    PROVE  /\ requests[i] # Nothing /\ RequestDead(i) => RequestDead(i)'
           /\ sessions[i] # Nothing /\ KeyDead(i) => KeyDead(i)'
<1>1. now \in Nat /\ now' \in Nat /\ now <= now'
  BY DEF IInv, TypeOK, Grows
<1>2. ASSUME requests[i] # Nothing, RequestDead(i),
             NEW v \in RequestVersions(i)', v # Nothing
      PROVE  now' >= v.expires \/ v.completed \/ v.attempts >= MaxAttempts
  <2>1. \A w \in RequestVersions(i) \ {Nothing} : w \in LoginRequest
    BY DEF RequestVersions, IInv, TypeOK
  <2>2. CASE v \in oldRequests'[i]
    <3>1. v \in RequestVersions(i) /\ v \in LoginRequest
      BY <1>2, <2>1, <2>2 DEF Grows, RequestsGrow
    <3>2. v.expires \in Nat
      BY <3>1, Constants DEF LoginRequest, Ends
    <3> QED
      BY <1>1, <1>2, <3>1, <3>2 DEF RequestDead
  <2>3. CASE v = requests'[i]
    <3>1. requests[i] \in LoginRequest /\ requests[i] \in RequestVersions(i)
      BY <1>2, <2>1 DEF RequestVersions
    <3>2. /\ now >= requests[i].expires \/ requests[i].completed
             \/ requests[i].attempts >= MaxAttempts
          /\ requests[i].expires \in Nat /\ requests[i].attempts \in Nat
      BY <1>2, <3>1, Constants DEF RequestDead, LoginRequest, Ends
    <3>3. v.attempts \in Nat /\ v.expires = requests[i].expires
          /\ (requests[i].completed => v.completed) /\ requests[i].attempts <= v.attempts
      BY <1>2, <2>3 DEF Grows, RequestsGrow, TypeOK, LoginRequest
    <3> QED
      BY <1>1, <3>2, <3>3, Constants
  <2> QED
    BY <1>2, <2>2, <2>3 DEF RequestVersions
<1>3. ASSUME sessions[i] # Nothing, KeyDead(i),
             NEW v \in SessionVersions(i)', v # Nothing
      PROVE  now' >= v.expires \/ v.revoked # 0
  <2>1. \A w \in SessionVersions(i) \ {Nothing} : w \in Session
    BY DEF SessionVersions, IInv, TypeOK
  <2>2. CASE v \in oldSessions'[i]
    <3>1. v \in SessionVersions(i) /\ v \in Session
      BY <1>3, <2>1, <2>2 DEF Grows, SessionsGrow
    <3>2. v.expires \in Nat
      BY <3>1, Constants DEF Session, Ends
    <3> QED
      BY <1>1, <1>3, <3>1, <3>2 DEF KeyDead
  <2>3. CASE v = sessions'[i]
    <3>1. sessions[i] \in Session /\ sessions[i] \in SessionVersions(i)
      BY <1>3, <2>1 DEF SessionVersions
    <3>2. /\ now >= sessions[i].expires \/ sessions[i].revoked # 0
          /\ sessions[i].expires \in Nat
      BY <1>3, <3>1, Constants DEF KeyDead, Session, Ends
    <3>3. v.expires = sessions[i].expires /\ (sessions[i].revoked # 0 => v.revoked # 0)
      BY <1>3, <2>3 DEF Grows, SessionsGrow, Copy
    <3> QED
      BY <1>1, <3>2, <3>3
  <2> QED
    BY <1>3, <2>2, <2>3 DEF SessionVersions
<1>4. requests[i] # Nothing /\ RequestDead(i) => RequestDead(i)'
  BY <1>2 DEF RequestDead
<1>5. sessions[i] # Nothing /\ KeyDead(i) => KeyDead(i)'
  BY <1>3 DEF KeyDead
<1> QED
  BY <1>4, <1>5

(* What the earlier versions agree with the record in is never changed. *)
LEMMA OldKept ==
    ASSUME IInv, TypeOK', NEW c \in Calls, Grows(c)
    PROVE  OldInv'
<1>1. ASSUME NEW i \in Calls, NEW v \in oldRequests'[i], v # Nothing
      PROVE  requests'[i] # Nothing /\ v.expires = requests'[i].expires
  <2>1. v \in RequestVersions(i)
    BY <1>1 DEF Grows, RequestsGrow
  <2>2. requests[i] # Nothing /\ v.expires = requests[i].expires
    BY <1>1, <2>1 DEF RequestVersions, IInv, OldInv
  <2> QED
    BY <2>2 DEF Grows, RequestsGrow
<1>2. ASSUME NEW i \in Calls, NEW v \in oldSessions'[i], v # Nothing
      PROVE  sessions'[i] # Nothing /\ Copy(v, sessions'[i])
  <2>1. v \in SessionVersions(i)
    BY <1>2 DEF Grows, SessionsGrow
  <2>2. sessions[i] # Nothing /\ Copy(v, sessions[i])
    BY <1>2, <2>1 DEF SessionVersions, IInv, OldInv, TypeOK, Copy
  <2>3. Copy(sessions'[i], sessions[i])
    BY <2>2 DEF Grows, SessionsGrow
  <2> QED
    BY <2>2, <2>3, NothingElse DEF Copy
<1> QED
  BY <1>1, <1>2 DEF OldInv

(* What the other calls know stays true. *)
LEMMA OthersKept ==
    ASSUME IInv, TypeOK', NEW c \in Calls, Grows(c), NEW d \in Calls, d # c
    PROVE  CallInv(d)'
<1>1. CallInv(d) /\ calls'[d] = calls[d] /\ calls[d] \in Call
  BY DEF IInv, Grows, RequestsGrow, SessionsGrow, TypeOK
<1>2. \A i \in Calls : sessions[i] # Nothing => sessions'[i] # Nothing
  BY NothingElse DEF Grows, RequestsGrow, SessionsGrow, Copy
<1>3. LoginInv(d)'
  BY <1>1 DEF CallInv, LoginInv, Known, Grows, RequestsGrow, SessionsGrow
<1>4. CompleteInv(d)'
  BY <1>1, <1>2 DEF CallInv, CompleteInv, Has, Grows, RequestsGrow, SessionsGrow
<1>5. KeyInv(d)'
  <2>1. address \in Calls => address' = address
    BY DEF Grows, RequestsGrow, SessionsGrow
  <2>2. calls[d].pc = "findKeyUser" => address \in Calls
    BY <1>1 DEF CallInv, KeyInv, Session
  <2> QED
    BY <1>1, <1>2, <2>1, <2>2 DEF CallInv, KeyInv, Has, Known
<1>6. RevokeInv(d)'
  BY <1>1 DEF CallInv, KeyInv, RevokeInv, Has, Grows, RequestsGrow, SessionsGrow, Copy
<1>7. ReplaceInv(d)'
  BY <1>1, <1>2 DEF CallInv, KeyInv, KeyOps, ReplaceInv, Has, Known, Grows, RequestsGrow,
        SessionsGrow, Copy
<1>8. SaveInv(d)'
  <2>1. sessions'[d] # Nothing => Granted(d)'
    BY <1>1, <1>2 DEF CallInv, SaveInv, Granted, Has, Grows, RequestsGrow, SessionsGrow, Copy
  <2>2. sessions'[d] # Nothing => sessions[d] # Nothing
    BY DEF Grows, SessionsGrow
  <2> QED
    BY <1>1, <2>1, <2>2 DEF CallInv, SaveInv, Known, Grows
<1>9. VoidInv(d)'
  <2>2. \A i \in Calls : requests[i] # Nothing /\ RequestDead(i) => RequestDead(i)'
    BY DeadStays
  <2>3. \A i \in Calls : sessions[i] # Nothing /\ KeyDead(i) => KeyDead(i)'
    BY DeadStays
  <2>4. calls[d].op = "completeLogin" => Has(requests, calls[d].key)
    BY <1>1 DEF CallInv, CompleteInv
  <2>5. calls[d].pc = "findKey" => Has(sessions, calls[d].key)
    BY <1>1 DEF CallInv, KeyInv
  <2> QED
    BY <1>1, <2>2, <2>3, <2>4, <2>5 DEF CallInv, VoidInv, Has
<1> QED
  BY <1>3, <1>4, <1>5, <1>6, <1>7, <1>8, <1>9 DEF CallInv

(* The store and the clock. *)
Tables == <<now, address, users, requests, sessions, oldUsers, oldRequests, oldSessions>>

(* A step that changes only the call's own variables is Preserved. *)
LEMMA LocalStep ==
    ASSUME IInv, NEW c \in Calls, UNCHANGED Tables, NEW r \in Call, Become(c, r), CallInv(c)',
           calls[c].pc \notin Ended, r.pc # "wrongCode"
    PROVE  Preserved(c)
<1>1. TypeOK'
  BY BecomeType DEF IInv, TypeOK, Tables
<1>2. Grows(c)
  <2>1. \A d \in Calls : d # c => calls'[d] = calls[d]
    BY BecomeType DEF IInv, TypeOK
  <2> QED
    BY <2>1, Same DEF Grows, Tables
<1>3. AccountInv'
  BY DEF IInv, AccountInv, OneAccount, Tables
<1>4. Counted(c)
  BY BecomeType DEF IInv, TypeOK, Counted
<1> QED
  BY <1>1, <1>2, <1>3, <1>4 DEF Preserved

(* What End leaves of a call. *)
LEMMA EndRecord ==
    ASSUME calls \in [Calls -> Call], NEW c \in Calls, NEW how \in Ended, End(c, how)
    PROVE  /\ calls' \in [Calls -> Call]
           /\ \A d \in Calls : d # c => calls'[d] = calls[d]
           /\ calls'[c].pc = how
           /\ calls'[c].void = calls[c].void
           /\ \/ calls'[c].op = "none"
              \/ /\ how # "refused" /\ calls'[c].op = calls[c].op
                 /\ calls'[c].key = calls[c].key /\ calls'[c].target = calls[c].target
           /\ how = "wrongCode" /\ calls[c].op = "completeLogin" => calls'[c].key = calls[c].key
<1> DEFINE dropped == [NoCall EXCEPT !.pc = how, !.void = calls[c].void]
           kept == [calls[c] EXCEPT !.pc = how, !.id = None, !.user = Nothing, !.session = Nothing,
                        !.time = IF calls[c].op = "revokeAllSessions" THEN @ ELSE 0]
           r == IF how = "refused" \/ calls[c].op \in {"updateUserInfo", "handleStripeWebhook"}
                THEN dropped ELSE kept
<1>1. how \in Labels /\ None \in Ids /\ 0 \in Times /\ calls[c] \in Call
  BY Constants DEF Labels, Ids, Times
<1>2. dropped \in Call
  BY <1>1, Constants DEF Call, NoCall, Ids, Times, None, Ops
<1>3. kept \in Call
  BY <1>1 DEF Call
<1>4. r \in Call
  BY <1>2, <1>3
<1>5. Become(c, r)
  BY DEF End
<1>6. /\ calls' \in [Calls -> Call] /\ calls'[c] = r
      /\ \A d \in Calls : d # c => calls'[d] = calls[d]
  <2> HIDE DEF r
  <2> QED BY <1>4, <1>5, BecomeType
<1>7. dropped.op = "none" /\ dropped.pc = how /\ dropped.void = calls[c].void
  BY DEF NoCall
<1>8. /\ kept.pc = how /\ kept.op = calls[c].op /\ kept.key = calls[c].key
      /\ kept.target = calls[c].target /\ kept.void = calls[c].void
  BY <1>1 DEF Call
<1> HIDE DEF dropped, kept
<1> QED
  BY <1>6, <1>7, <1>8

(* A call that ends having done what it answers keeps its part of the *)
(* invariant.                                                         *)
LEMMA EndInv ==
    ASSUME IInv, NEW c \in Calls, Grows(c), NEW how \in Ended, End(c, how),
           how = "ok" /\ calls[c].op = "requestLogin" => requests'[c] # Nothing,
           how = "ok" /\ calls[c].op = "completeLogin" =>
               requests'[calls[c].key].completed /\ sessions'[c] # Nothing,
           how = "ok" /\ calls[c].op = "revokeSession" => sessions'[calls[c].target].revoked # 0,
           how = "ok" /\ calls[c].op = "replaceSession" =>
               sessions'[calls[c].key].revoked # 0 /\ sessions'[c] # Nothing,
           sessions'[c] # Nothing => how = "ok" /\ Granted(c)',
           how # "refused" => calls[c].pc \notin {"findRequest", "findKey", "refused"}
    PROVE  CallInv(c)'
<1>1. CallInv(c) /\ calls \in [Calls -> Call]
  BY DEF IInv, TypeOK
<1>2. /\ calls'[c].pc = how /\ calls'[c].void = calls[c].void
      /\ \/ calls'[c].op = "none"
         \/ /\ how # "refused" /\ calls'[c].op = calls[c].op
            /\ calls'[c].key = calls[c].key /\ calls'[c].target = calls[c].target
  BY <1>1, EndRecord
<1>3. \A i \in Calls : sessions[i] # Nothing => sessions'[i] # Nothing
  BY NothingElse DEF Grows, RequestsGrow, SessionsGrow, Copy
<1>4. LoginInv(c)'
  BY <1>2 DEF LoginInv, Ended
<1>5. CompleteInv(c)'
  BY <1>1, <1>2 DEF CallInv, CompleteInv, Has, Grows, RequestsGrow, SessionsGrow, Ended
<1>6. KeyInv(c)'
  BY <1>1, <1>2, <1>3 DEF CallInv, KeyInv, KeyOps, Has, Ended
<1>7. RevokeInv(c)' /\ ReplaceInv(c)' /\ SaveInv(c)'
  BY <1>2 DEF RevokeInv, ReplaceInv, SaveInv, Ended
<1>8. VoidInv(c)'
  BY <1>1, <1>2 DEF CallInv, VoidInv, Ended
<1> QED
  BY <1>4, <1>5, <1>6, <1>7, <1>8 DEF CallInv

(* A call that ends without writing is Preserved. *)
LEMMA LocalEnd ==
    ASSUME IInv, NEW c \in Calls, UNCHANGED Tables, NEW how \in {"refused", "ok"}, End(c, how),
           calls[c].pc \notin Ended, sessions[c] = Nothing,
           how = "ok" => calls[c].op = "handleStripeWebhook" /\ calls[c].pc = "findUser"
    PROVE  Preserved(c)
<1>1. TypeOK'
  BY EndRecord DEF IInv, TypeOK, Tables, Ended
<1>2. Grows(c)
  <2>1. \A d \in Calls : d # c => calls'[d] = calls[d]
    BY EndRecord DEF IInv, TypeOK, Ended
  <2> QED
    BY <2>1, Same DEF Grows, Tables
<1>3. AccountInv'
  BY DEF IInv, AccountInv, OneAccount, Tables
<1>4. CallInv(c)'
  BY <1>2, EndInv DEF Ended, Tables
<1>5. Counted(c)
  BY EndRecord DEF IInv, TypeOK, Counted, Ended
<1> QED
  BY <1>1, <1>2, <1>3, <1>4, <1>5 DEF Preserved

-----------------------------------------------------------------------------
(* The types and the invariant of one call. *)
LEMMA Facts ==
    ASSUME IInv, NEW c \in Calls
    PROVE  /\ calls[c] \in Call /\ CallInv(c)
           /\ calls[c].key \in Ids /\ calls[c].target \in Ids /\ calls[c].id \in Ids
           /\ calls[c].time \in Times /\ calls[c].op \in Ops \cup {"none"}
           /\ now \in Times /\ now # 0
           /\ calls[c].pc # "ok" => sessions[c] = Nothing
           /\ calls[c].pc \notin {"findRequest", "findKey", "refused"} => ~calls[c].void
<1>1. calls[c] \in Call /\ CallInv(c)
  BY DEF IInv, TypeOK
<1>2. now \in Times /\ now # 0
  BY Constants DEF IInv, TypeOK, Times
<1> QED
  BY <1>1, <1>2 DEF Call, CallInv, SaveInv, VoidInv

(* What Goto leaves of a call. *)
LEMMA GotoRecord ==
    ASSUME calls \in [Calls -> Call], NEW c \in Calls, NEW label \in Labels, Goto(c, label)
    PROVE  /\ calls' \in [Calls -> Call]
           /\ \A d \in Calls : d # c => calls'[d] = calls[d]
           /\ calls'[c] \in Call
           /\ calls'[c] = [calls[c] EXCEPT !.pc = label]
           /\ calls'[c].pc = label /\ calls'[c].op = calls[c].op
           /\ calls'[c].key = calls[c].key /\ calls'[c].target = calls[c].target
           /\ calls'[c].id = calls[c].id /\ calls'[c].time = calls[c].time
           /\ calls'[c].void = calls[c].void /\ calls'[c].session = calls[c].session
           /\ calls'[c].user = calls[c].user
<1> DEFINE r == [calls[c] EXCEPT !.pc = label]
<1>1. r \in Call
  BY DEF Call
<1>2. Become(c, r)
  BY DEF Goto
<1>3. calls' \in [Calls -> Call] /\ calls'[c] = r /\ \A d \in Calls : d # c => calls'[d] = calls[d]
  <2> HIDE DEF r
  <2> QED BY <1>1, <1>2, BecomeType
<1>4. /\ r.pc = label /\ r.op = calls[c].op /\ r.key = calls[c].key /\ r.target = calls[c].target
      /\ r.id = calls[c].id /\ r.time = calls[c].time /\ r.void = calls[c].void
      /\ r.session = calls[c].session /\ r.user = calls[c].user
  BY DEF Call
<1> QED
  BY <1>1, <1>3, <1>4

(* A call may start on a login request or a session that exists. *)
LEMMA StartKeeps ==
    ASSUME IInv, NEW c \in Calls, NEW op \in Ops,
           NEW label \in {"findByAddress", "findRequest", "findKey", "findUser"},
           NEW key \in Ids, NEW target \in Ids, NEW void \in BOOLEAN,
           Start(c, op, label, key, target, void),
           op = "completeLogin" => Has(requests, key),
           op \in KeyOps => Has(sessions, key),
           op = "revokeSession" => Has(sessions, target),
           label = "findKey" => op \in KeyOps,
           label = "findUser" => address \in Calls /\ op = "handleStripeWebhook",
           void => \/ label = "findRequest" /\ op = "completeLogin" /\ RequestDead(key)
                   \/ label = "findKey" /\ KeyDead(key)
    PROVE  Preserved(c)
<1> DEFINE r == [NoCall EXCEPT !.op = op, !.pc = label, !.key = key, !.target = target,
                           !.void = void]
<1>1. r \in Call
  <2>1. NoCall \in Call
    BY Constants DEF Call, NoCall, Labels, Ids, Times, None
  <2>2. label \in Labels
    BY DEF Labels
  <2> QED
    BY <2>1, <2>2 DEF Call
<1>2. Become(c, r) /\ UNCHANGED Tables /\ calls[c].pc = "idle"
  BY DEF Start, Tables, latest, older
<1>3. calls'[c] = r
  <2> HIDE DEF r
  <2> QED BY <1>1, <1>2, BecomeType DEF IInv, TypeOK
<1>4. r.op = op /\ r.pc = label /\ r.key = key /\ r.target = target /\ r.void = void
  BY DEF NoCall
<1>5. sessions[c] = Nothing /\ requests[c] = Nothing
  BY <1>2, Facts DEF CallInv, LoginInv, Ended
<1> HIDE DEF r
<1>6. LoginInv(c)' /\ CompleteInv(c)'
  BY <1>2, <1>3, <1>4, <1>5 DEF LoginInv, CompleteInv, Has, Tables
<1>7. KeyInv(c)' /\ RevokeInv(c)' /\ ReplaceInv(c)' /\ SaveInv(c)'
  BY <1>2, <1>3, <1>4, <1>5 DEF KeyInv, RevokeInv, ReplaceInv, SaveInv, Has, Tables
<1>8. VoidInv(c)'
  BY <1>2, <1>3, <1>4 DEF VoidInv, RequestDead, KeyDead, RequestVersions, SessionVersions,
        Tables
<1> QED
  BY <1>1, <1>2, <1>4, <1>6, <1>7, <1>8, LocalStep DEF CallInv, Ended

(* The calls that start; a key that is void by the answers given is dead in *)
(* the store.                                                               *)
LEMMA CallRequestLoginKeeps ==
    ASSUME IInv, NEW c \in Calls, CallRequestLogin(c) PROVE Preserved(c)
BY StartKeeps DEF CallRequestLogin, Ops, Ids, KeyOps

(* The wrong codes can be counted. *)
LEMMA WrongFinite ==
    ASSUME NEW r PROVE IsFiniteSet(Wrong(r)) /\ Cardinality(Wrong(r)) \in Nat
<1>1. IsFiniteSet(Calls)
  BY Constants, FS_Interval DEF Calls
<1>2. Wrong(r) \subseteq Calls
  BY DEF Wrong, Answered
<1> QED
  BY <1>1, <1>2, FS_Subset, FS_CardinalityType

(* A login request that is void by the answers given is dead in the store. *)
LEMMA RequestVoidIsDead ==
    ASSUME IInv, NEW r, Has(requests, r), RequestVoid(r)
    PROVE  RequestDead(r)
<1>1. CASE now >= requests[r].expires
  <2>1. \A v \in RequestVersions(r) \ {Nothing} : v.expires = requests[r].expires
    BY DEF RequestVersions, Has, IInv, OldInv
  <2> QED
    BY <1>1, <2>1 DEF RequestDead
<1>2. CASE oldRequests[r] = {} /\ \E d \in Answered("completeLogin", "ok") : calls[d].key = r
  <2>1. requests[r].completed
    BY <1>2, Facts DEF Answered, CallInv, CompleteInv
  <2> QED
    BY <1>2, <2>1 DEF RequestDead, RequestVersions
<1>3. CASE /\ oldRequests[r] = {}
           /\ Cardinality({d \in Answered("completeLogin", "wrongCode") : calls[d].key = r})
                >= MaxAttempts
  <2>1. Cardinality(Wrong(r)) >= MaxAttempts /\ Cardinality(Wrong(r)) \in Nat
    BY <1>3, WrongFinite DEF Wrong
  <2>2. requests[r].attempts \in Nat /\ Cardinality(Wrong(r)) <= requests[r].attempts
    BY DEF Has, IInv, AttemptsInv, TypeOK, LoginRequest
  <2>3. requests[r].attempts >= MaxAttempts
    BY <2>1, <2>2, Constants
  <2> QED
    BY <1>3, <2>3 DEF RequestDead, RequestVersions
<1> QED
  BY <1>1, <1>2, <1>3 DEF RequestVoid

(* A session key that is void by the answers given is dead in the store. *)
LEMMA KeyVoidIsDead ==
    ASSUME IInv, NEW s, Has(sessions, s), KeyVoid(s)
    PROVE  KeyDead(s)
<1>1. CASE now >= sessions[s].expires
  <2>1. \A v \in SessionVersions(s) \ {Nothing} : v.expires = sessions[s].expires
    BY DEF SessionVersions, Has, IInv, OldInv, Copy
  <2> QED
    BY <1>1, <2>1 DEF KeyDead
<1>2. CASE /\ oldSessions[s] = {}
           /\ \/ \E d \in Answered("replaceSession", "ok") : calls[d].key = s
              \/ \E d \in Answered("revokeSession", "ok") : calls[d].target = s
  <2>1. sessions[s].revoked # 0
    BY <1>2, Facts DEF Answered, CallInv, ReplaceInv, RevokeInv
  <2> QED
    BY <1>2, <2>1 DEF KeyDead, SessionVersions
<1> QED
  BY <1>1, <1>2 DEF KeyVoid

LEMMA CallCompleteLoginKeeps ==
    ASSUME IInv, NEW c \in Calls, CallCompleteLogin(c) PROVE Preserved(c)
<1>1. PICK r \in Answered("requestLogin", "ok") :
          Start(c, "completeLogin", "findRequest", r, None, RequestVoid(r))
  BY DEF CallCompleteLogin
<1>2. Has(requests, r) /\ r \in Ids
  BY Facts DEF Answered, CallInv, LoginInv, Has, Ids
<1>3. RequestVoid(r) \in BOOLEAN
  BY DEF RequestVoid
<1>4. RequestVoid(r) => RequestDead(r)
  BY <1>2, RequestVoidIsDead
<1> QED
  BY <1>1, <1>2, <1>3, <1>4, StartKeeps DEF Ops, Ids, KeyOps

LEMMA CallWithKeyKeeps ==
    ASSUME IInv, NEW c \in Calls, CallWithKey(c) PROVE Preserved(c)
<1>1. PICK s \in Keys :
        \/ \E op \in {"revokeAllSessions", "replaceSession", "updateUserInfo"} :
              Start(c, op, "findKey", s, None, KeyVoid(s))
        \/ \E t \in {t \in Calls : sessions[t] # Nothing} :
              Start(c, "revokeSession", "findKey", s, t, KeyVoid(s))
  BY DEF CallWithKey
<1>2. Has(sessions, s) /\ s \in Ids
  BY Facts DEF Keys, Answered, CallInv, CompleteInv, ReplaceInv, Has, Ids
<1>3. KeyVoid(s) \in BOOLEAN /\ (KeyVoid(s) => KeyDead(s))
  BY <1>2, KeyVoidIsDead DEF KeyVoid
<1>4. CASE \E op \in {"revokeAllSessions", "replaceSession", "updateUserInfo"} :
              Start(c, op, "findKey", s, None, KeyVoid(s))
  BY <1>4, <1>2, <1>3, StartKeeps DEF Ops, Ids, KeyOps
<1>5. CASE \E t \in {t \in Calls : sessions[t] # Nothing} :
              Start(c, "revokeSession", "findKey", s, t, KeyVoid(s))
  BY <1>5, <1>2, <1>3, StartKeeps DEF Ops, Ids, KeyOps, Has
<1> QED
  BY <1>1, <1>4, <1>5

LEMMA CallWebhookKeeps ==
    ASSUME IInv, NEW c \in Calls, CallWebhook(c) PROVE Preserved(c)
<1>1. address \in Calls
  BY DEF CallWebhook, IInv, TypeOK, Ids
<1> QED
  BY <1>1, StartKeeps DEF CallWebhook, Ops, Ids, KeyOps

-----------------------------------------------------------------------------
(* The new record of the call. *)
LEMMA Becomes ==
    ASSUME IInv, NEW c \in Calls, NEW r \in Call, Become(c, r)
    PROVE  calls'[c] = r
BY DEF Become, IInv, TypeOK

(* The steps of requestLogin. *)
LEMMA FindUserByAddressKeeps ==
    ASSUME IInv, NEW c \in Calls, FindUserByAddress(c) PROVE Preserved(c)
<1>1. UNCHANGED Tables /\ calls[c].pc = "findByAddress" /\ calls[c].op = "requestLogin"
  BY DEF FindUserByAddress, Tables, latest, older, At
<1>2. CASE End(c, "refused")
  BY <1>1, <1>2, LocalEnd, Facts DEF Ended
<1>3. ASSUME NEW label \in Labels, NEW id \in Ids,
             Become(c, [calls[c] EXCEPT !.pc = label, !.id = id, !.time = now]),
             \/ label = "saveNewUser" /\ id = c
             \/ label = "saveRequest" /\ id = address /\ address # None
      PROVE  Preserved(c)
  <2> DEFINE r == [calls[c] EXCEPT !.pc = label, !.id = id, !.time = now]
  <2>1. now \in Times /\ calls[c] \in Call
    BY Facts DEF IInv, TypeOK
  <2>2. r \in Call /\ r.pc = label /\ r.id = id /\ r.op = "requestLogin" /\ r.void = calls[c].void
    BY <1>1, <2>1 DEF Call
  <2>3. calls'[c] = r
    <3> HIDE DEF r
    <3> QED BY <1>3, <2>2, Becomes DEF r
  <2>4. sessions[c] = Nothing /\ requests[c] = Nothing /\ ~calls[c].void
    BY <1>1, Facts DEF CallInv, LoginInv, Ended
  <2>5. address # None => address \in Calls
    BY DEF IInv, TypeOK, Ids
  <2> HIDE DEF r
  <2>6. CallInv(c)'
    BY <1>1, <1>3, <2>2, <2>3, <2>4, <2>5 DEF CallInv, LoginInv, CompleteInv, KeyInv, RevokeInv,
          ReplaceInv, SaveInv, VoidInv, KeyOps, Tables, Known
  <2> QED
    BY <1>1, <1>3, <2>2, <2>6, LocalStep DEF Ended, r
<1>4. "saveNewUser" \in Labels /\ "saveRequest" \in Labels /\ c \in Ids /\ address \in Ids
  BY DEF Labels, Ids, IInv, TypeOK
<1> QED
  BY <1>2, <1>3, <1>4 DEF FindUserByAddress

LEMMA FindAgainKeeps ==
    ASSUME IInv, NEW c \in Calls, FindAgain(c) PROVE Preserved(c)
<1> DEFINE r == [calls[c] EXCEPT !.pc = "saveRequest", !.id = address]
<1>1. /\ UNCHANGED Tables /\ calls[c].pc = "findAgain" /\ calls[c].op = "requestLogin"
      /\ Become(c, r)
  BY DEF FindAgain, Tables, latest, older, At
<1>2. /\ address \in Calls /\ address \in Ids /\ calls[c] \in Call /\ calls[c].time \in Times
      /\ sessions[c] = Nothing /\ requests[c] = Nothing /\ ~calls[c].void
  BY <1>1, Facts DEF CallInv, LoginInv, Ended, Ids
<1>3. /\ r \in Call /\ r.pc = "saveRequest" /\ r.id = address /\ r.op = "requestLogin"
      /\ r.void = calls[c].void
  BY <1>1, <1>2 DEF Call, Labels
<1> HIDE DEF r
<1>4. calls'[c] = r
  BY <1>1, <1>3, Becomes
<1>5. CallInv(c)'
  BY <1>1, <1>2, <1>3, <1>4 DEF CallInv, LoginInv, CompleteInv, KeyInv, RevokeInv, ReplaceInv,
        SaveInv, VoidInv, KeyOps, Tables, Known
<1> QED
  BY <1>1, <1>3, <1>5, LocalStep DEF Ended

LEMMA FailKeeps ==
    ASSUME IInv, NEW c \in Calls, Fail(c) PROVE Preserved(c)
BY LocalEnd, Facts DEF Fail, Tables, latest, older, Ended

-----------------------------------------------------------------------------
(* The address names a user. *)
LEMMA TheAccount ==
    ASSUME IInv, address \in Calls
    PROVE  users[address] \in User /\ \A u \in UserVersions(address) \ {Nothing} : u \in User
BY DEF IInv, TypeOK, AccountInv, UserVersions

LEMMA SaveNewUserKeeps ==
    ASSUME IInv, NEW c \in Calls, SaveNewUser(c) PROVE Preserved(c)
<1>1. calls[c].pc = "saveNewUser" /\ calls[c].op = "requestLogin" /\ now' = now
      /\ requests' = requests /\ sessions' = sessions
      /\ oldRequests' = oldRequests /\ oldSessions' = oldSessions
  BY DEF SaveNewUser, At
<1>2. /\ calls[c].id = c /\ sessions[c] = Nothing /\ requests[c] = Nothing
      /\ ~calls[c].void /\ calls \in [Calls -> Call]
  BY <1>1, Facts DEF CallInv, LoginInv, Ended, IInv, TypeOK
<1>3. "saveRequest" \in Labels /\ "findAgain" \in Labels
  BY DEF Labels
<1>4. CASE address = None
  <2>1. /\ address' = c /\ Goto(c, "saveRequest")
        /\ PutUser(c, [revokeAll |-> 0, current |-> None])
    BY <1>4 DEF SaveNewUser
  <2>2. [revokeAll |-> 0, current |-> None] \in User
    BY Constants DEF User, Times, Ids
  <2>3. /\ calls' \in [Calls -> Call] /\ \A d \in Calls : d # c => calls'[d] = calls[d]
        /\ calls'[c].pc = "saveRequest" /\ calls'[c].op = "requestLogin" /\ calls'[c].id = c
        /\ ~calls'[c].void
    BY <1>1, <1>2, <1>3, <2>1, GotoRecord
  <2>4. TypeOK'
    BY <1>1, <2>1, <2>2, <2>3, PutUserRecord DEF IInv, TypeOK, Ids
  <2>5. address \notin Calls
    BY <1>4 DEF None, Calls
  <2>6. Grows(c)
    BY <1>1, <2>3, <2>5, Same DEF Grows
  <2>7. AccountInv'
    <3>1. /\ \A u \in Calls : users[u] = Nothing
          /\ \A i \in Calls : requests[i] = Nothing /\ sessions[i] = Nothing
      BY <2>5, NothingElse DEF IInv, TypeOK, AccountInv, OneAccount, LoginRequest, Session
    <3>2. users' \in [Calls -> User \cup {Nothing}] /\ users'[c] # Nothing
          /\ \A u \in Calls : u # c => users'[u] = Nothing
      BY <2>1, <2>2, <3>1, NothingElse, PutUserRecord DEF IInv
    <3> QED
      BY <1>1, <2>1, <3>1, <3>2 DEF AccountInv, OneAccount
  <2>8. CallInv(c)'
    BY <1>1, <1>2, <2>1, <2>3 DEF CallInv, LoginInv, CompleteInv, KeyInv, RevokeInv, ReplaceInv,
          SaveInv, VoidInv, KeyOps, Known
  <2> QED
    BY <1>1, <2>3, <2>4, <2>6, <2>7, <2>8 DEF Preserved, Counted, Ended
<1>5. CASE address # None
  <2>1. /\ address' = address /\ users' = users /\ oldUsers' = oldUsers
        /\ Goto(c, "findAgain") /\ address \in Calls
    BY <1>5 DEF SaveNewUser, IInv, TypeOK, Ids
  <2>2. /\ calls'[c] \in Call /\ Become(c, calls'[c])
        /\ calls'[c].pc = "findAgain" /\ calls'[c].op = "requestLogin" /\ ~calls'[c].void
    BY <1>1, <1>2, <1>3, <2>1, GotoRecord DEF Goto
  <2>3. CallInv(c)'
    BY <1>1, <1>2, <2>1, <2>2 DEF CallInv, LoginInv, CompleteInv, KeyInv, RevokeInv, ReplaceInv,
          SaveInv, VoidInv, KeyOps, Known
  <2> QED
    BY <1>1, <2>1, <2>2, <2>3, LocalStep DEF Tables, Ended
<1> QED
  BY <1>4, <1>5

LEMMA SaveLoginRequestKeeps ==
    ASSUME IInv, NEW c \in Calls, SaveLoginRequest(c) PROVE Preserved(c)
<1> DEFINE r == [user |-> calls[c].id, attempts |-> 0, completed |-> FALSE,
                 expires |-> calls[c].time + RequestLifetime]
<1>1. /\ calls[c].pc = "saveRequest" /\ calls[c].op = "requestLogin"
      /\ PutRequest(c, r) /\ Goto(c, "setCurrent")
  BY DEF SaveLoginRequest, At
<1>2. /\ calls[c].id = address /\ address \in Calls /\ sessions[c] = Nothing
      /\ requests[c] = Nothing /\ calls \in [Calls -> Call] /\ calls[c].time \in Times
      /\ ~calls[c].void
  BY <1>1, Facts DEF CallInv, LoginInv, Known, Ended, IInv, TypeOK
<1>3. r \in LoginRequest /\ r # Nothing /\ r.user = address
  <2>1. calls[c].time + RequestLifetime \in Ends
    BY <1>2, Constants DEF Times, Ends
  <2>2. r \in LoginRequest /\ r.user = address
    BY <1>2, <2>1 DEF LoginRequest
  <2> QED
    BY <2>2, NothingElse
<1> HIDE DEF r
<1>4. /\ calls' \in [Calls -> Call] /\ \A d \in Calls : d # c => calls'[d] = calls[d]
      /\ calls'[c].pc = "setCurrent" /\ calls'[c].op = "requestLogin" /\ calls'[c].id = address
      /\ ~calls'[c].void
  <2>1. "setCurrent" \in Labels
    BY DEF Labels
  <2> QED BY <1>1, <1>2, <2>1, GotoRecord
<1>5. /\ requests' \in [Calls -> LoginRequest \cup {Nothing}] /\ requests'[c] = r
      /\ \A i \in Calls : i # c => requests'[i] = requests[i]
      /\ oldRequests' \in [Calls -> SUBSET (LoginRequest \cup {Nothing})]
      /\ \A i \in Calls : oldRequests'[i] \subseteq RequestVersions(i)
      /\ now' = now /\ address' = address /\ users' = users /\ sessions' = sessions
      /\ oldUsers' = oldUsers /\ oldSessions' = oldSessions
  BY <1>1, <1>3, PutRequestRecord DEF IInv
<1>6. TypeOK'
  BY <1>4, <1>5 DEF IInv, TypeOK
<1>7. Grows(c)
  <2>1. \A i \in Calls : requests[i] # Nothing => requests[i].attempts \in Nat
    BY DEF IInv, TypeOK, LoginRequest
  <2>2. RequestsGrow(c)
    BY <1>2, <1>5, <2>1 DEF RequestsGrow
  <2> QED
    BY <1>4, <1>5, <2>2, Same DEF Grows
<1>8. AccountInv'
  BY <1>1, <1>3, <1>5 DEF IInv, AccountInv, OneAccount
<1>9. CallInv(c)'
  BY <1>1, <1>2, <1>3, <1>4, <1>5 DEF CallInv, LoginInv, CompleteInv, KeyInv, RevokeInv,
        ReplaceInv, SaveInv, VoidInv, KeyOps, Known
<1> QED
  BY <1>1, <1>4, <1>6, <1>7, <1>8, <1>9 DEF Preserved, Counted, Ended

(* A call that saves the user record and ends is Preserved. *)
LEMMA UserSaved ==
    ASSUME IInv, NEW c \in Calls, NEW u \in User, address \in Calls,
           PutUser(address, u), address' = address, now' = now, requests' = requests,
           sessions' = sessions, oldRequests' = oldRequests, oldSessions' = oldSessions,
           End(c, "ok"),
           calls[c].op = "requestLogin" => requests[c] # Nothing,
           calls[c].op \notin {"completeLogin", "revokeSession", "replaceSession"},
           sessions[c] = Nothing, calls[c].pc \in {"setCurrent", "setRevokeAll", "saveUser"}
    PROVE  Preserved(c)
<1>1. calls \in [Calls -> Call] /\ "ok" \in Ended
  BY DEF IInv, TypeOK, Ended
<1>2. /\ calls' \in [Calls -> Call] /\ \A d \in Calls : d # c => calls'[d] = calls[d]
      /\ calls'[c].pc = "ok"
  BY <1>1, EndRecord
<1>3. /\ users' \in [Calls -> User \cup {Nothing}] /\ users'[address] # Nothing
      /\ \A i \in Calls : i # address => users'[i] = users[i]
      /\ oldUsers' \in [Calls -> SUBSET (User \cup {Nothing})]
  BY NothingElse, PutUserRecord DEF IInv
<1>4. TypeOK'
  BY <1>2, <1>3 DEF IInv, TypeOK
<1>5. Grows(c)
  BY <1>2, Same DEF Grows
<1>6. AccountInv'
  BY <1>3 DEF IInv, AccountInv, OneAccount
<1>7. CallInv(c)'
  BY <1>1, <1>5, EndInv
<1> QED
  BY <1>2, <1>4, <1>5, <1>6, <1>7 DEF Preserved, Counted, Ended

LEMMA SetCurrentLoginRequestKeeps ==
    ASSUME IInv, NEW c \in Calls, SetCurrentLoginRequest(c) PROVE Preserved(c)
<1>1. calls[c].pc = "setCurrent" /\ calls[c].op = "requestLogin"
  BY DEF SetCurrentLoginRequest, At
<1>2. /\ calls[c].id = address /\ address \in Calls /\ requests[c] # Nothing
      /\ sessions[c] = Nothing
  BY <1>1, Facts DEF CallInv, LoginInv, Known
<1>3. [users[address] EXCEPT !.current = c] \in User
  BY <1>2, TheAccount DEF User, Ids
<1>4. PutUser(address, [users[address] EXCEPT !.current = c])
  BY <1>2 DEF SetCurrentLoginRequest
<1> QED
  BY <1>1, <1>2, <1>3, <1>4, UserSaved DEF SetCurrentLoginRequest

LEMMA RevokeAllSessionsKeeps ==
    ASSUME IInv, NEW c \in Calls, RevokeAllSessions(c) PROVE Preserved(c)
<1>1. calls[c].pc = "setRevokeAll" /\ calls[c].op = "revokeAllSessions"
  BY DEF RevokeAllSessions, At
<1>2. /\ calls[c].id = address /\ address \in Calls /\ calls[c].time \in Times
      /\ sessions[c] = Nothing
  BY <1>1, Facts DEF CallInv, KeyInv, Known
<1>3. [users[address] EXCEPT !.revokeAll = calls[c].time] \in User
  BY <1>2, TheAccount DEF User
<1>4. PutUser(address, [users[address] EXCEPT !.revokeAll = calls[c].time])
  BY <1>2 DEF RevokeAllSessions
<1> QED
  BY <1>1, <1>2, <1>3, <1>4, UserSaved DEF RevokeAllSessions

LEMMA FindUserKeeps ==
    ASSUME IInv, NEW c \in Calls, FindUser(c) PROVE Preserved(c)
<1>1. UNCHANGED Tables /\ calls[c].pc = "findUser"
  BY DEF FindUser, Tables, latest, older
<1>2. /\ address \in Calls /\ calls[c].op \in {"updateUserInfo", "handleStripeWebhook"}
      /\ sessions[c] = Nothing /\ requests[c] = Nothing /\ calls[c] \in Call /\ CallInv(c)
      /\ ~calls[c].void
  BY <1>1, Facts DEF CallInv, SaveInv, LoginInv, Ended
<1>3. ASSUME NEW u \in UserVersions(address) \ {Nothing},
             Become(c, [calls[c] EXCEPT !.pc = "saveUser", !.user = u, !.id = address])
      PROVE  Preserved(c)
  <2> DEFINE r == [calls[c] EXCEPT !.pc = "saveUser", !.user = u, !.id = address]
  <2>1. u \in User /\ address \in Ids /\ "saveUser" \in Labels
    BY <1>2, TheAccount DEF Ids, Labels
  <2>2. /\ r \in Call /\ r.pc = "saveUser" /\ r.op = calls[c].op /\ r.id = address
        /\ r.user = u /\ r.key = calls[c].key /\ r.target = calls[c].target
        /\ r.void = calls[c].void
    BY <1>2, <2>1 DEF Call
  <2> HIDE DEF r
  <2>3. calls'[c] = r
    BY <1>3, <2>2, Becomes DEF r
  <2>4. CallInv(c)'
    BY <1>1, <1>2, <2>1, <2>2, <2>3 DEF CallInv, LoginInv, CompleteInv, KeyInv, RevokeInv,
          ReplaceInv, SaveInv, VoidInv, KeyOps, Tables, Known, Has
  <2> QED
    BY <1>1, <1>3, <2>2, <2>4, LocalStep DEF Ended, r
<1>4. CASE calls[c].op = "handleStripeWebhook" /\ End(c, "ok")
  BY <1>1, <1>2, <1>4, LocalEnd DEF Ended
<1> QED
  BY <1>3, <1>4 DEF FindUser

LEMMA SaveUserKeeps ==
    ASSUME IInv, NEW c \in Calls, SaveUser(c) PROVE Preserved(c)
<1>1. /\ calls[c].id = address /\ address \in Calls /\ calls[c].user \in User
      /\ sessions[c] = Nothing
      /\ calls[c].op \in {"updateUserInfo", "handleStripeWebhook"}
  BY Facts DEF SaveUser, CallInv, SaveInv, Known
<1> QED
  BY <1>1, UserSaved DEF SaveUser

-----------------------------------------------------------------------------
(* The steps of completeLogin. *)
LEMMA FindLoginRequestKeeps ==
    ASSUME IInv, NEW c \in Calls, FindLoginRequest(c) PROVE Preserved(c)
<1>1. UNCHANGED Tables /\ calls[c].pc = "findRequest" /\ calls[c].op = "completeLogin"
  BY DEF FindLoginRequest, Tables, latest, older, At
<1>2. /\ sessions[c] = Nothing /\ requests[c] = Nothing /\ CallInv(c)
      /\ calls \in [Calls -> Call]
  BY <1>1, Facts DEF CallInv, LoginInv, Ended, IInv, TypeOK
<1>3. CASE End(c, "refused")
  BY <1>1, <1>2, <1>3, LocalEnd DEF Ended
<1>4. ASSUME NEW q \in RequestVersions(calls[c].key) \ {Nothing},
             now < q.expires /\ ~q.completed /\ q.attempts < MaxAttempts,
             \E label \in {"checkCurrent", "increment"} : Goto(c, label)
      PROVE  Preserved(c)
  <2>1. PICK label \in {"checkCurrent", "increment"} : Goto(c, label)
    BY <1>4
  <2>2. label \in Labels
    BY DEF Labels
  <2>3. /\ calls'[c] \in Call /\ Become(c, calls'[c]) /\ calls'[c].key = calls[c].key
        /\ calls'[c].pc = label /\ calls'[c].op = "completeLogin"
        /\ calls'[c].void = calls[c].void
    BY <1>1, <1>2, <2>1, <2>2, GotoRecord DEF Goto
  <2>4. ~calls[c].void
    <3>1. q \in LoginRequest
      BY <1>1, <1>2 DEF RequestVersions, CallInv, CompleteInv, Has, IInv, TypeOK
    <3>2. q.expires \in Nat /\ q.attempts \in Nat /\ now \in Nat
      BY <3>1, Constants DEF LoginRequest, Ends, IInv, TypeOK
    <3>3. ~RequestDead(calls[c].key)
      BY <1>4, <3>2, Constants DEF RequestDead
    <3> QED BY <1>1, <1>2, <3>3 DEF CallInv, VoidInv
  <2>5. CallInv(c)'
    BY <1>1, <1>2, <2>3, <2>4 DEF CallInv, LoginInv, CompleteInv, KeyInv, RevokeInv,
          ReplaceInv, SaveInv, VoidInv, KeyOps, Tables, Known, Has
  <2> QED
    BY <1>1, <2>3, <2>5, LocalStep DEF Ended
<1> QED
  BY <1>3, <1>4 DEF FindLoginRequest

LEMMA CheckCurrentKeeps ==
    ASSUME IInv, NEW c \in Calls, CheckCurrent(c) PROVE Preserved(c)
<1> DEFINE r == [calls[c] EXCEPT !.pc = "markComplete", !.time = now]
<1>1. UNCHANGED Tables /\ calls[c].pc = "checkCurrent" /\ calls[c].op = "completeLogin"
  BY DEF CheckCurrent, Tables, latest, older, At
<1>2. /\ sessions[c] = Nothing /\ requests[c] = Nothing /\ CallInv(c)
      /\ calls[c] \in Call /\ now \in Times /\ ~calls[c].void
  BY <1>1, Facts DEF CallInv, LoginInv, Ended
<1>3. CASE Become(c, r)
  <2>1. /\ r \in Call /\ r.pc = "markComplete" /\ r.op = "completeLogin" /\ r.key = calls[c].key
        /\ r.void = calls[c].void
    BY <1>1, <1>2 DEF Call, Labels
  <2> HIDE DEF r
  <2>2. calls'[c] = r
    BY <1>3, <2>1, Becomes
  <2>3. CallInv(c)'
    BY <1>1, <1>2, <2>1, <2>2 DEF CallInv, LoginInv, CompleteInv, KeyInv, RevokeInv,
          ReplaceInv, SaveInv, VoidInv, KeyOps, Tables, Known, Has
  <2> QED
    BY <1>1, <1>3, <2>1, <2>3, LocalStep DEF Ended
<1>4. CASE End(c, "refused")
  BY <1>1, <1>2, <1>4, LocalEnd DEF Ended
<1> QED
  BY <1>3, <1>4 DEF CheckCurrent

(* Saving a login request grows the table. *)
LEMMA RequestSaved ==
    ASSUME IInv, NEW c \in Calls, NEW k, Has(requests, k), NEW r \in LoginRequest,
           PutRequest(k, r),
           r.user = requests[k].user, r.expires = requests[k].expires,
           requests[k].completed => r.completed, requests[k].attempts <= r.attempts,
           calls' \in [Calls -> Call], \A d \in Calls : d # c => calls'[d] = calls[d]
    PROVE  TypeOK' /\ Grows(c) /\ AccountInv' /\ requests'[k] = r
<1>1. /\ requests' \in [Calls -> LoginRequest \cup {Nothing}] /\ requests'[k] = r
      /\ \A i \in Calls : i # k => requests'[i] = requests[i]
      /\ oldRequests' \in [Calls -> SUBSET (LoginRequest \cup {Nothing})]
      /\ \A i \in Calls : oldRequests'[i] \subseteq RequestVersions(i)
      /\ now' = now /\ address' = address /\ users' = users /\ sessions' = sessions
      /\ oldUsers' = oldUsers /\ oldSessions' = oldSessions
  BY PutRequestRecord DEF IInv, Has
<1>2. r # Nothing
  BY NothingElse
<1>3. TypeOK'
  BY <1>1 DEF IInv, TypeOK
<1>4. RequestsGrow(c)
  <2>1. \A i \in Calls : requests[i] # Nothing => requests[i].attempts \in Nat
    BY DEF IInv, TypeOK, LoginRequest
  <2> QED
    BY <1>1, <1>2, <2>1 DEF RequestsGrow, Has
<1>5. Grows(c)
  BY <1>1, <1>4, Same DEF Grows
<1>6. AccountInv'
  BY <1>1, <1>2 DEF IInv, AccountInv, OneAccount, Has
<1> QED
  BY <1>1, <1>3, <1>5, <1>6

LEMMA IncrementAttemptsKeeps ==
    ASSUME IInv, NEW c \in Calls, IncrementAttempts(c) PROVE Preserved(c)
<1> DEFINE k == calls[c].key
           r == [requests[k] EXCEPT !.attempts = requests[k].attempts + 1]
<1>1. /\ calls[c].pc = "increment" /\ calls[c].op = "completeLogin" /\ End(c, "wrongCode")
      /\ PutRequest(k, r) /\ sessions' = sessions
  BY DEF IncrementAttempts, At, PutRequest
<1>2. Has(requests, k) /\ requests[k] \in LoginRequest /\ sessions[c] = Nothing
  BY <1>1, Facts DEF CallInv, CompleteInv, Has, IInv, TypeOK
<1> HIDE DEF k
<1>3. /\ r \in LoginRequest /\ r.user = requests[k].user /\ r.expires = requests[k].expires
      /\ requests[k].completed => r.completed
      /\ requests[k].attempts <= r.attempts
      /\ r.attempts = requests[k].attempts + 1
  BY <1>2 DEF LoginRequest
<1>4. calls' \in [Calls -> Call] /\ \A d \in Calls : d # c => calls'[d] = calls[d]
  BY <1>1, EndRecord DEF IInv, TypeOK, Ended
<1> HIDE DEF r
<1>5. TypeOK' /\ Grows(c) /\ AccountInv' /\ requests'[k] = r
  <2>1. PutRequest(k, r) /\ Has(requests, k)
    BY <1>1, <1>2
  <2>2. /\ r \in LoginRequest /\ r.user = requests[k].user /\ r.expires = requests[k].expires
        /\ requests[k].completed => r.completed
        /\ requests[k].attempts <= r.attempts
    BY <1>3
  <2> QED
    BY ONLY IInv, c \in Calls, <2>1, <2>2, <1>4, RequestSaved
<1>6. CallInv(c)'
  BY <1>1, <1>2, <1>5, EndInv DEF Ended
<1>7. Counted(c)
  <2>1. calls'[c].pc = "wrongCode" /\ calls'[c].key = calls[c].key
    BY <1>1, EndRecord DEF IInv, TypeOK, Ended
  <2> QED
    BY <1>1, <1>3, <1>5, <2>1 DEF Counted, Ended, k
<1> QED
  BY <1>5, <1>6, <1>7 DEF Preserved

LEMMA MarkLoginRequestCompleteKeeps ==
    ASSUME IInv, NEW c \in Calls, MarkLoginRequestComplete(c) PROVE Preserved(c)
<1> DEFINE k == calls[c].key
           r == [requests[k] EXCEPT !.completed = TRUE]
<1>1. /\ calls[c].pc = "markComplete" /\ calls[c].op = "completeLogin" /\ Goto(c, "saveSession")
      /\ PutRequest(k, r) /\ sessions' = sessions
  BY DEF MarkLoginRequestComplete, At, PutRequest
<1>2. /\ Has(requests, k) /\ requests[k] \in LoginRequest /\ sessions[c] = Nothing
      /\ requests[c] = Nothing /\ ~calls[c].void
  BY <1>1, Facts DEF CallInv, CompleteInv, LoginInv, Ended, Has, IInv, TypeOK
<1>3. /\ calls' \in [Calls -> Call] /\ \A d \in Calls : d # c => calls'[d] = calls[d]
      /\ calls'[c].pc = "saveSession" /\ calls'[c].op = "completeLogin" /\ calls'[c].key = k
      /\ ~calls'[c].void
  <2>1. calls \in [Calls -> Call] /\ "saveSession" \in Labels
    BY DEF IInv, TypeOK, Labels
  <2> QED BY <1>1, <1>2, <2>1, GotoRecord
<1> HIDE DEF k
<1>4. /\ r \in LoginRequest /\ r.user = requests[k].user /\ r.expires = requests[k].expires
      /\ r.completed = TRUE
  BY <1>2 DEF LoginRequest
<1>5. requests[k].attempts <= r.attempts
  BY <1>2 DEF LoginRequest
<1> HIDE DEF r
<1>10. requests[k].completed => r.completed
  BY <1>4
<1>6. TypeOK' /\ Grows(c) /\ AccountInv' /\ requests'[k] = r
  <2>1. PutRequest(k, r) /\ Has(requests, k)
    BY <1>1, <1>2
  <2>2. calls' \in [Calls -> Call] /\ \A d \in Calls : d # c => calls'[d] = calls[d]
    BY <1>3
  <2>3. r \in LoginRequest /\ r.user = requests[k].user /\ r.expires = requests[k].expires
    BY <1>4
  <2> QED
    BY ONLY IInv, c \in Calls, <2>1, <2>2, <2>3, <1>5, <1>10, RequestSaved
<1>7. requests'[c] = Nothing
  BY <1>1, <1>2, <1>4, PutRequestRecord DEF Has, IInv
<1>8. k \in Calls /\ requests'[k] # Nothing
  BY <1>2, <1>4, <1>6, NothingElse DEF Has
<1>9. CallInv(c)'
  BY <1>1, <1>2, <1>4, <1>3, <1>6, <1>7, <1>8 DEF CallInv, LoginInv, CompleteInv, KeyInv,
        RevokeInv, ReplaceInv, SaveInv, VoidInv, KeyOps, Known, Has
<1> QED
  BY <1>1, <1>3, <1>6, <1>9 DEF Preserved, Counted, Ended

-----------------------------------------------------------------------------
(* A session that exists is the account's. *)
LEMMA TheSession ==
    ASSUME IInv, NEW k, Has(sessions, k)
    PROVE  sessions[k] \in Session /\ sessions[k].user = address /\ address \in Calls
<1>1. sessions[k] \in Session /\ sessions[k].user = address
  BY DEF IInv, TypeOK, AccountInv, OneAccount, Has
<1> QED
  BY <1>1 DEF Session

(* Every version of it that can be read is a copy of it. *)
LEMMA TheVersions ==
    ASSUME IInv, NEW k, Has(sessions, k), NEW v \in SessionVersions(k) \ {Nothing}
    PROVE  v \in Session /\ Copy(v, sessions[k]) /\ v.user = address /\ address \in Calls
<1>1. Copy(v, sessions[k])
  BY TheSession DEF SessionVersions, Copy, Has, IInv, OldInv
<1> QED
  BY <1>1, TheSession DEF Copy

(* Saving a new session, or a revoked copy of an old one, grows the table. *)
LEMMA SessionSaved ==
    ASSUME IInv, NEW c \in Calls, NEW k \in Calls, NEW r \in Session, r.user = address,
           PutSession(k, r),
           sessions[k] = Nothing => k = c,
           sessions[k] # Nothing => Copy(r, sessions[k]) /\ r.revoked # 0,
           calls' \in [Calls -> Call], \A d \in Calls : d # c => calls'[d] = calls[d]
    PROVE  TypeOK' /\ Grows(c) /\ AccountInv' /\ sessions'[k] = r /\ r # Nothing
<1>1. /\ sessions' \in [Calls -> Session \cup {Nothing}] /\ sessions'[k] = r
      /\ \A i \in Calls : i # k => sessions'[i] = sessions[i]
      /\ oldSessions' \in [Calls -> SUBSET (Session \cup {Nothing})]
      /\ \A i \in Calls : oldSessions'[i] \subseteq SessionVersions(i)
      /\ now' = now /\ address' = address /\ users' = users /\ requests' = requests
      /\ oldUsers' = oldUsers /\ oldRequests' = oldRequests
  BY PutSessionRecord DEF IInv
<1>2. r # Nothing
  BY NothingElse
<1>3. TypeOK'
  BY <1>1 DEF IInv, TypeOK
<1>4. SessionsGrow(c)
  <2>1. \A i \in Calls : sessions[i] # Nothing => Copy(sessions[i], sessions[i])
    BY DEF IInv, TypeOK, Copy
  <2> QED
    BY <1>1, <1>2, <2>1 DEF SessionsGrow
<1>5. Grows(c)
  BY <1>1, <1>4, Same DEF Grows
<1>6. AccountInv'
  BY <1>1, <1>2 DEF IInv, AccountInv, OneAccount
<1> QED
  BY <1>1, <1>2, <1>3, <1>5, <1>6

(* The fields of a new session. *)
LEMMA NewSessionType ==
    ASSUME IInv, NEW c \in Calls, NEW u \in Calls, NEW q \in Ids, NEW p \in Ids
    PROVE  /\ NewSession(c, u, q, p) \in Session /\ NewSession(c, u, q, p).user = u
           /\ NewSession(c, u, q, p).request = q /\ NewSession(c, u, q, p).previous = p
<1>1. calls[c].time \in Times /\ 0 \in Times /\ None \in Ids
  BY Facts, Constants DEF Times, Ids
<1>2. calls[c].time + SessionLifetime \in Ends
  BY <1>1, Constants DEF Times, Ends
<1> QED
  BY <1>1, <1>2 DEF NewSession, Session

LEMMA SaveSessionKeeps ==
    ASSUME IInv, NEW c \in Calls, SaveSession(c) PROVE Preserved(c)
<1> DEFINE k == calls[c].key
           r == NewSession(c, requests[k].user, k, None)
<1>1. /\ calls[c].pc = "saveSession" /\ calls[c].op = "completeLogin" /\ End(c, "ok")
      /\ PutSession(c, r) /\ requests' = requests /\ address' = address
  BY DEF SaveSession, At, PutSession
<1>2. Has(requests, k) /\ requests[k].completed /\ sessions[c] = Nothing
  BY <1>1, Facts DEF CallInv, CompleteInv
<1>3. requests[k] \in LoginRequest /\ requests[k].user = address
  BY <1>2 DEF Has, IInv, TypeOK, AccountInv, OneAccount
<1>4. r \in Session /\ r.user = address /\ r.request = k
  <2>1. requests[k].user \in Calls /\ k \in Ids /\ None \in Ids
    BY <1>2, <1>3 DEF LoginRequest, Has, Ids
  <2> QED BY <1>3, <2>1, NewSessionType
<1> HIDE DEF r
<1>5. /\ calls' \in [Calls -> Call] /\ \A d \in Calls : d # c => calls'[d] = calls[d]
      /\ calls'[c].pc = "ok"
  BY <1>1, EndRecord DEF IInv, TypeOK, Ended
<1>6. TypeOK' /\ Grows(c) /\ AccountInv' /\ sessions'[c] = r /\ r # Nothing
  BY <1>1, <1>2, <1>4, <1>5, SessionSaved
<1>7. Granted(c)'
  BY <1>1, <1>2, <1>4, <1>6 DEF Granted, Has
<1>8. CallInv(c)'
  BY <1>1, <1>2, <1>6, <1>7, EndInv DEF Ended
<1> QED
  BY <1>1, <1>5, <1>6, <1>8 DEF Preserved, Counted, Ended

LEMMA SaveNewSessionKeeps ==
    ASSUME IInv, NEW c \in Calls, SaveNewSession(c) PROVE Preserved(c)
<1> DEFINE k == calls[c].key
           r == NewSession(c, calls[c].id, None, k)
<1>1. /\ calls[c].pc = "saveSession" /\ calls[c].op = "replaceSession" /\ End(c, "ok")
      /\ PutSession(c, r) /\ requests' = requests /\ address' = address
  BY DEF SaveNewSession, At, PutSession
<1>2. /\ Has(sessions, k) /\ sessions[k].revoked # 0 /\ sessions[c] = Nothing
      /\ calls[c].id = address /\ address \in Calls /\ k \in Ids /\ None \in Ids
  BY <1>1, Facts DEF CallInv, KeyInv, KeyOps, ReplaceInv, Known, Ids
<1>3. r \in Session /\ r.user = address /\ r.previous = k
  BY <1>2, NewSessionType
<1> HIDE DEF r
<1>4. /\ calls' \in [Calls -> Call] /\ \A d \in Calls : d # c => calls'[d] = calls[d]
      /\ calls'[c].pc = "ok"
  BY <1>1, EndRecord DEF IInv, TypeOK, Ended
<1>5. TypeOK' /\ Grows(c) /\ AccountInv' /\ sessions'[c] = r /\ r # Nothing
  BY <1>1, <1>2, <1>3, <1>4, SessionSaved
<1>6. sessions'[k].revoked # 0
  BY <1>2, <1>5 DEF Grows, SessionsGrow, Has
<1>7. Granted(c)'
  <2>1. sessions'[k] # Nothing
    BY <1>2, <1>5, NothingElse DEF Grows, SessionsGrow, Copy, Has
  <2> QED BY <1>2, <1>3, <1>5, <1>6, <2>1 DEF Granted, Has
<1>8. CallInv(c)'
  BY <1>1, <1>2, <1>5, <1>6, <1>7, EndInv DEF Ended
<1> QED
  BY <1>1, <1>4, <1>5, <1>8 DEF Preserved, Counted, Ended

LEMMA SaveTargetKeeps ==
    ASSUME IInv, NEW c \in Calls, SaveTarget(c) PROVE Preserved(c)
<1> DEFINE t == calls[c].target
           r == calls[c].session
<1>1. /\ calls[c].pc = "saveTarget" /\ calls[c].op = "revokeSession" /\ End(c, "ok")
      /\ PutSession(t, r) /\ requests' = requests /\ address' = address
  BY DEF SaveTarget, At, PutSession
<1>2. Has(sessions, t) /\ Copy(r, sessions[t]) /\ r.revoked # 0 /\ sessions[c] = Nothing
  BY <1>1, Facts DEF CallInv, KeyInv, RevokeInv
<1>3. t \in Calls /\ t # c /\ r \in Session /\ r.user = address /\ sessions[t] # Nothing
  BY <1>2, TheSession DEF Copy, Has
<1> HIDE DEF r, t
<1>4. /\ calls' \in [Calls -> Call] /\ \A d \in Calls : d # c => calls'[d] = calls[d]
      /\ calls'[c].pc = "ok"
  BY <1>1, EndRecord DEF IInv, TypeOK, Ended
<1>5. TypeOK' /\ Grows(c) /\ AccountInv' /\ sessions'[t] = r
  BY <1>1, <1>2, <1>3, <1>4, SessionSaved
<1>6. sessions'[c] = Nothing
  BY <1>1, <1>2, <1>3 DEF IInv, TypeOK, PutSession
<1>7. CallInv(c)'
  <2>1. sessions'[calls[c].target].revoked # 0
    BY <1>2, <1>5 DEF t
  <2> QED
    BY <1>1, <2>1, <1>5, <1>6, EndInv DEF Ended
<1> QED
  BY <1>1, <1>4, <1>5, <1>7 DEF Preserved, Counted, Ended

LEMMA SaveOwnKeeps ==
    ASSUME IInv, NEW c \in Calls, SaveOwn(c) PROVE Preserved(c)
<1> DEFINE k == calls[c].key
           r == [calls[c].session EXCEPT !.next = c, !.revoked = calls[c].time]
<1>1. /\ calls[c].pc = "saveTarget" /\ calls[c].op = "replaceSession" /\ Goto(c, "saveSession")
      /\ PutSession(k, r) /\ requests' = requests /\ address' = address
  BY DEF SaveOwn, At, PutSession
<1>2. /\ Has(sessions, k) /\ Copy(calls[c].session, sessions[k]) /\ sessions[c] = Nothing
      /\ requests[c] = Nothing /\ calls[c].time # 0 /\ calls[c].time \in Times
      /\ calls[c].id = address /\ address \in Calls /\ c \in Ids /\ ~calls[c].void
  BY <1>1, Facts DEF CallInv, KeyInv, KeyOps, ReplaceInv, LoginInv, Ended, Known, Ids
<1>3. /\ calls' \in [Calls -> Call] /\ \A d \in Calls : d # c => calls'[d] = calls[d]
      /\ calls'[c].pc = "saveSession" /\ calls'[c].op = "replaceSession" /\ calls'[c].key = k
      /\ calls'[c].id = address /\ ~calls'[c].void
  <2>1. calls \in [Calls -> Call] /\ "saveSession" \in Labels
    BY DEF IInv, TypeOK, Labels
  <2> QED BY <1>1, <1>2, <2>1, GotoRecord
<1> HIDE DEF k
<1>4. k \in Calls /\ k # c /\ sessions[k] # Nothing /\ sessions[k].user = address
  BY <1>2, TheSession DEF Has
<1>5. r \in Session /\ Copy(r, sessions[k]) /\ r.revoked # 0 /\ r.user = address
  <2>1. calls[c].session \in Session
    BY <1>2 DEF Copy
  <2>2. /\ r \in Session /\ r.revoked = calls[c].time /\ r.user = calls[c].session.user
        /\ r.request = calls[c].session.request /\ r.previous = calls[c].session.previous
        /\ r.expires = calls[c].session.expires
    BY <1>2, <2>1 DEF Session
  <2> HIDE DEF r
  <2> QED BY <1>2, <1>4, <2>2 DEF Copy
<1> HIDE DEF r
<1>6. TypeOK' /\ Grows(c) /\ AccountInv' /\ sessions'[k] = r /\ r # Nothing
  <2>1. calls' \in [Calls -> Call] /\ \A d \in Calls : d # c => calls'[d] = calls[d]
    BY <1>3
  <2> QED BY <1>1, <1>4, <1>5, <2>1, SessionSaved
<1>7. sessions'[c] = Nothing
  BY <1>1, <1>2, <1>4 DEF IInv, TypeOK, PutSession
<1>8. CallInv(c)'
  BY <1>1, <1>2, <1>3, <1>4, <1>5, <1>6, <1>7 DEF CallInv, LoginInv, CompleteInv, KeyInv,
        RevokeInv, ReplaceInv, SaveInv, VoidInv, KeyOps, Known, Has
<1> QED
  BY <1>1, <1>3, <1>6, <1>8 DEF Preserved, Counted, Ended

-----------------------------------------------------------------------------
(* The steps of validateSessionKey and what follows it. *)
LEMMA FindKeyKeeps ==
    ASSUME IInv, NEW c \in Calls, FindKey(c) PROVE Preserved(c)
<1>1. UNCHANGED Tables /\ calls[c].pc = "findKey"
  BY DEF FindKey, Tables, latest, older
<1>2. /\ sessions[c] = Nothing /\ requests[c] = Nothing /\ CallInv(c) /\ calls[c] \in Call
      /\ calls[c].op \in KeyOps /\ Has(sessions, calls[c].key)
  BY <1>1, Facts DEF CallInv, LoginInv, KeyInv, Ended
<1>3. CASE End(c, "refused")
  BY <1>1, <1>2, <1>3, LocalEnd DEF Ended
<1>4. ASSUME NEW s \in SessionVersions(calls[c].key) \ {Nothing},
             ~(s.revoked # 0 \/ now >= s.expires),
             Become(c, [calls[c] EXCEPT !.pc = "findKeyUser", !.session = s])
      PROVE  Preserved(c)
  <2> DEFINE r == [calls[c] EXCEPT !.pc = "findKeyUser", !.session = s]
  <2>1. s \in Session /\ s.user = address
    BY <1>2, TheVersions
  <2>2. ~calls[c].void
    BY <1>1, <1>2, <1>4 DEF CallInv, VoidInv, KeyDead
  <2>3. /\ r \in Call /\ r.pc = "findKeyUser" /\ r.op = calls[c].op /\ r.key = calls[c].key
        /\ r.target = calls[c].target /\ r.session = s /\ r.void = calls[c].void
    BY <1>2, <2>1 DEF Call, Labels
  <2> HIDE DEF r
  <2>4. calls'[c] = r
    BY <1>4, <2>3, Becomes DEF r
  <2>5. CallInv(c)'
    BY <1>1, <1>2, <2>1, <2>2, <2>3, <2>4 DEF CallInv, LoginInv, CompleteInv, KeyInv, RevokeInv,
          ReplaceInv, SaveInv, VoidInv, KeyOps, Tables, Known, Has
  <2> QED
    BY <1>1, <1>4, <2>3, <2>5, LocalStep DEF Ended, r
<1> QED
  BY <1>3, <1>4 DEF FindKey

LEMMA FindKeyUserKeeps ==
    ASSUME IInv, NEW c \in Calls, FindKeyUser(c) PROVE Preserved(c)
<1> DEFINE label == AfterValidation[calls[c].op]
           r == [calls[c] EXCEPT !.pc = label, !.id = calls[c].session.user,
                                 !.session = Nothing, !.time = now]
<1>1. UNCHANGED Tables /\ calls[c].pc = "findKeyUser"
  BY DEF FindKeyUser, Tables, latest, older
<1>2. /\ sessions[c] = Nothing /\ requests[c] = Nothing /\ CallInv(c) /\ calls[c] \in Call
      /\ calls[c].op \in KeyOps /\ Has(sessions, calls[c].key) /\ ~calls[c].void
      /\ calls[c].session.user = address /\ now \in Times /\ now # 0
  BY <1>1, Facts DEF CallInv, LoginInv, KeyInv, Ended
<1>3. CASE End(c, "refused")
  BY <1>1, <1>2, <1>3, LocalEnd DEF Ended
<1>4. CASE Become(c, r)
  <2>1. address \in Calls
    BY <1>2, TheSession
  <2>2. /\ label \in Labels
        /\ calls[c].op = "revokeSession" => label = "findTarget"
        /\ calls[c].op = "revokeAllSessions" => label = "setRevokeAll"
        /\ calls[c].op = "replaceSession" => label = "findOwn"
        /\ calls[c].op = "updateUserInfo" => label = "findUser"
    BY <1>2 DEF AfterValidation, KeyOps, Labels
  <2>3. /\ r \in Call /\ r.pc = label /\ r.op = calls[c].op /\ r.key = calls[c].key
        /\ r.target = calls[c].target /\ r.void = calls[c].void /\ r.id = address /\ r.time = now
    <3> HIDE DEF label
    <3> QED BY <1>2, <2>1, <2>2 DEF Call, Ids
  <2> HIDE DEF r, label
  <2>4. calls'[c] = r
    BY <1>4, <2>3, Becomes
  <2>5. LoginInv(c)' /\ CompleteInv(c)' /\ VoidInv(c)' /\ SaveInv(c)'
    BY <1>1, <1>2, <2>1, <2>2, <2>3, <2>4 DEF LoginInv, CompleteInv, SaveInv,
          VoidInv, KeyOps, Tables
  <2>6. KeyInv(c)' /\ RevokeInv(c)' /\ ReplaceInv(c)'
    BY <1>1, <1>2, <2>1, <2>2, <2>3, <2>4 DEF CallInv, KeyInv, RevokeInv,
          ReplaceInv, KeyOps, Tables, Known, Has
  <2>7. r.pc # "wrongCode"
    BY <1>2, <2>2, <2>3 DEF KeyOps
  <2> QED
    BY <1>1, <1>4, <2>3, <2>5, <2>6, <2>7, LocalStep DEF Ended, CallInv
<1> QED
  BY <1>3, <1>4 DEF FindKeyUser

LEMMA FindTargetKeeps ==
    ASSUME IInv, NEW c \in Calls, FindTarget(c) PROVE Preserved(c)
<1>1. UNCHANGED Tables /\ calls[c].pc = "findTarget" /\ calls[c].op = "revokeSession"
  BY DEF FindTarget, Tables, latest, older, At
<1>2. /\ sessions[c] = Nothing /\ requests[c] = Nothing /\ CallInv(c) /\ calls[c] \in Call
      /\ Has(sessions, calls[c].key) /\ Has(sessions, calls[c].target) /\ ~calls[c].void
      /\ now \in Times /\ now # 0 /\ Known(c) /\ calls[c].time # 0
  BY <1>1, Facts DEF CallInv, LoginInv, KeyInv, KeyOps, Ended
<1>3. CASE End(c, "refused")
  BY <1>1, <1>2, <1>3, LocalEnd DEF Ended
<1>4. ASSUME NEW s \in SessionVersions(calls[c].target) \ {Nothing},
             Become(c, [calls[c] EXCEPT !.pc = "saveTarget",
                                        !.session = [s EXCEPT !.revoked = now]])
      PROVE  Preserved(c)
  <2> DEFINE t == [s EXCEPT !.revoked = now]
             r == [calls[c] EXCEPT !.pc = "saveTarget", !.session = t]
  <2>1. s \in Session /\ Copy(s, sessions[calls[c].target])
    BY <1>2, TheVersions
  <2>2. t \in Session /\ Copy(t, sessions[calls[c].target]) /\ t.revoked = now
    BY <1>2, <2>1 DEF Session, Copy
  <2>3. /\ r \in Call /\ r.pc = "saveTarget" /\ r.op = "revokeSession" /\ r.key = calls[c].key
        /\ r.target = calls[c].target /\ r.void = calls[c].void /\ r.id = calls[c].id
        /\ r.time = calls[c].time /\ r.session = t
    <3> HIDE DEF t
    <3> QED BY <1>1, <1>2, <2>2 DEF Call, Labels
  <2> HIDE DEF r, t
  <2>4. calls'[c] = r
    BY <1>4, <2>3, Becomes DEF r, t
  <2>5. LoginInv(c)' /\ CompleteInv(c)' /\ VoidInv(c)' /\ SaveInv(c)' /\ ReplaceInv(c)'
    BY <1>1, <1>2, <2>3, <2>4 DEF LoginInv, CompleteInv, SaveInv, VoidInv, ReplaceInv, Tables
  <2>6. KeyInv(c)' /\ RevokeInv(c)'
    BY <1>1, <1>2, <2>2, <2>3, <2>4 DEF KeyInv, RevokeInv, KeyOps, Tables, Known, Has
  <2> QED
    BY <1>1, <1>4, <2>3, <2>5, <2>6, LocalStep DEF Ended, CallInv, r, t
<1> QED
  BY <1>3, <1>4 DEF FindTarget

LEMMA FindOwnKeeps ==
    ASSUME IInv, NEW c \in Calls, FindOwn(c) PROVE Preserved(c)
<1>1. UNCHANGED Tables /\ calls[c].pc = "findOwn" /\ calls[c].op = "replaceSession"
  BY DEF FindOwn, Tables, latest, older, At
<1>2. /\ sessions[c] = Nothing /\ requests[c] = Nothing /\ calls[c] \in Call
      /\ Has(sessions, calls[c].key) /\ ~calls[c].void /\ Known(c) /\ calls[c].time # 0
  BY <1>1, Facts DEF CallInv, LoginInv, KeyInv, KeyOps, Ended
<1>3. CASE End(c, "refused")
  BY <1>1, <1>2, <1>3, LocalEnd DEF Ended
<1>4. ASSUME NEW s \in SessionVersions(calls[c].key) \ {Nothing},
             Become(c, [calls[c] EXCEPT !.pc = "saveTarget", !.session = s])
      PROVE  Preserved(c)
  <2> DEFINE r == [calls[c] EXCEPT !.pc = "saveTarget", !.session = s]
  <2>1. s \in Session /\ Copy(s, sessions[calls[c].key])
    BY <1>2, TheVersions
  <2>2. /\ r \in Call /\ r.pc = "saveTarget" /\ r.op = "replaceSession" /\ r.key = calls[c].key
        /\ r.void = calls[c].void /\ r.id = calls[c].id /\ r.time = calls[c].time
        /\ r.session = s
    BY <1>1, <1>2, <2>1 DEF Call, Labels
  <2> HIDE DEF r
  <2>3. calls'[c] = r
    BY <1>4, <2>2, Becomes DEF r
  <2>4. LoginInv(c)' /\ CompleteInv(c)' /\ VoidInv(c)' /\ SaveInv(c)' /\ RevokeInv(c)'
    BY <1>1, <1>2, <2>2, <2>3 DEF LoginInv, CompleteInv, SaveInv, VoidInv, RevokeInv, Tables
  <2>5. KeyInv(c)' /\ ReplaceInv(c)'
    BY <1>1, <1>2, <2>1, <2>2, <2>3 DEF KeyInv, ReplaceInv, KeyOps, Tables, Known, Has
  <2> QED
    BY <1>1, <1>4, <2>2, <2>4, <2>5, LocalStep DEF Ended, CallInv, r
<1> QED
  BY <1>3, <1>4 DEF FindOwn

-----------------------------------------------------------------------------
(* Every step of a call is Preserved. *)
LEMMA StepKeeps ==
    ASSUME IInv, NEW c \in Calls, CallStep(c) PROVE Preserved(c)
<1>1. CASE CallRequestLogin(c) \/ CallCompleteLogin(c) \/ CallWithKey(c) \/ CallWebhook(c)
  BY <1>1, CallRequestLoginKeeps, CallCompleteLoginKeeps, CallWithKeyKeeps, CallWebhookKeeps
<1>2. CASE RequestLogin(c)
  BY <1>2, FindUserByAddressKeeps, SaveNewUserKeeps, FindAgainKeeps, SaveLoginRequestKeeps,
     SetCurrentLoginRequestKeeps DEF RequestLogin
<1>3. CASE CompleteLogin(c)
  BY <1>3, FindLoginRequestKeeps, IncrementAttemptsKeeps, CheckCurrentKeeps,
     MarkLoginRequestCompleteKeeps, SaveSessionKeeps DEF CompleteLogin
<1>4. CASE ValidateSessionKey(c)
  BY <1>4, FindKeyKeeps, FindKeyUserKeeps DEF ValidateSessionKey
<1>5. CASE RevokeSession(c)
  BY <1>5, FindTargetKeeps, SaveTargetKeeps DEF RevokeSession
<1>6. CASE RevokeAllSessions(c)
  BY <1>6, RevokeAllSessionsKeeps
<1>7. CASE ReplaceSession(c)
  BY <1>7, FindOwnKeeps, SaveOwnKeeps, SaveNewSessionKeeps DEF ReplaceSession
<1>8. CASE UpdateUser(c)
  BY <1>8, FindUserKeeps, SaveUserKeeps DEF UpdateUser
<1>9. CASE Fail(c)
  BY <1>9, FailKeeps
<1> QED
  BY <1>1, <1>2, <1>3, <1>4, <1>5, <1>6, <1>7, <1>8, <1>9 DEF CallStep

(* No wrong code goes uncounted. *)
LEMMA AttemptsKept ==
    ASSUME IInv, NEW c \in Calls, Preserved(c) PROVE AttemptsInv'
<1> SUFFICES ASSUME NEW r \in Calls, requests'[r] # Nothing
             PROVE  Cardinality(Wrong(r)') <= requests'[r].attempts
  BY DEF AttemptsInv
<1>1. Wrong(r) = {d \in Calls : /\ calls[d].op = "completeLogin" /\ calls[d].pc = "wrongCode"
                                 /\ calls[d].key = r}
  BY DEF Wrong, Answered
<1>2. Wrong(r)' = {d \in Calls : /\ calls'[d].op = "completeLogin" /\ calls'[d].pc = "wrongCode"
                                  /\ calls'[d].key = r}
  BY DEF Wrong, Answered
<1>3. c \notin Wrong(r) /\ \A d \in Calls : d # c => calls'[d] = calls[d]
  BY <1>1 DEF Preserved, Counted, Ended, Grows
<1>4. IsFiniteSet(Wrong(r)) /\ Cardinality(Wrong(r)) \in Nat
  BY WrongFinite
<1>5. requests'[r].attempts \in Nat
  BY DEF Preserved, TypeOK, LoginRequest
<1>6. CASE c \in Wrong(r)'
  <2>1. Wrong(r)' = Wrong(r) \cup {c}
    BY <1>1, <1>2, <1>3, <1>6
  <2>2. Cardinality(Wrong(r)') = Cardinality(Wrong(r)) + 1
    BY <1>3, <1>4, <2>1, FS_AddElement
  <2>3. /\ calls[c].op = "completeLogin" /\ calls[c].key = r
        /\ requests'[r].attempts = requests[r].attempts + 1
    BY <1>2, <1>6 DEF Preserved, Counted
  <2>4. requests[r] # Nothing
    BY <2>3, Facts DEF CallInv, CompleteInv, Has
  <2>5. Cardinality(Wrong(r)) <= requests[r].attempts /\ requests[r].attempts \in Nat
    BY <2>4 DEF IInv, AttemptsInv, TypeOK, LoginRequest
  <2> QED
    BY <2>2, <2>3, <2>5, <1>4
<1>7. CASE c \notin Wrong(r)'
  <2>1. Wrong(r)' = Wrong(r)
    BY <1>1, <1>2, <1>3, <1>7
  <2>2. CASE requests[r] # Nothing
    <3>1. /\ Cardinality(Wrong(r)) <= requests[r].attempts
          /\ requests[r].attempts <= requests'[r].attempts
      BY <2>2 DEF IInv, AttemptsInv, Preserved, Grows, RequestsGrow
    <3>2. requests[r].attempts \in Nat
      BY <2>2 DEF IInv, TypeOK, LoginRequest
    <3> QED
      BY <1>4, <1>5, <2>1, <3>1, <3>2
  <2>3. CASE requests[r] = Nothing
    <3>1. Wrong(r) = {}
      BY <1>1, <2>3, Facts DEF CallInv, CompleteInv, Has
    <3> QED
      BY <1>5, <2>1, <3>1, FS_EmptySet
  <2> QED BY <2>2, <2>3
<1> QED BY <1>6, <1>7

(* A record that the replicas have caught up with has one version left to read. *)
LEMMA ReplicateKeeps ==
    ASSUME IInv, Replicate PROVE IInv'
<1>1. UNCHANGED <<now, address, users, requests, sessions, calls>>
  BY DEF Replicate, latest
<1>2. /\ oldUsers' \in [Calls -> SUBSET (User \cup {Nothing})]
      /\ oldRequests' \in [Calls -> SUBSET (LoginRequest \cup {Nothing})]
      /\ oldSessions' \in [Calls -> SUBSET (Session \cup {Nothing})]
      /\ \A i \in Calls : oldRequests'[i] \subseteq oldRequests[i]
                        /\ oldSessions'[i] \subseteq oldSessions[i]
  BY DEF Replicate, IInv, TypeOK
<1>3. TypeOK' /\ OldInv'
  BY <1>1, <1>2 DEF IInv, TypeOK, OldInv, Copy
<1>4. AccountInv' /\ AttemptsInv'
  BY <1>1 DEF IInv, AccountInv, OneAccount, AttemptsInv, Wrong, Answered
<1>5. ASSUME NEW c \in Calls PROVE CallInv(c)'
  <2>1. CallInv(c)
    BY DEF IInv
  <2>2. /\ LoginInv(c)' /\ CompleteInv(c)' /\ KeyInv(c)' /\ RevokeInv(c)' /\ ReplaceInv(c)'
        /\ SaveInv(c)'
    BY <1>1, <2>1 DEF CallInv, LoginInv, CompleteInv, KeyInv, RevokeInv, ReplaceInv, SaveInv,
          Known, Granted, Has
  <2>3. calls[c].pc = "findRequest" /\ calls[c].op = "completeLogin" => calls[c].key \in Calls
    BY <2>1 DEF CallInv, CompleteInv, Has
  <2>4. calls[c].pc = "findKey" => calls[c].key \in Calls
    BY <2>1 DEF CallInv, KeyInv, Has
  <2>5. \A i \in Calls : (RequestDead(i) => RequestDead(i)') /\ (KeyDead(i) => KeyDead(i)')
    BY <1>1, <1>2 DEF RequestDead, KeyDead, RequestVersions, SessionVersions
  <2>6. VoidInv(c)'
    BY <1>1, <2>1, <2>3, <2>4, <2>5 DEF CallInv, VoidInv
  <2> QED BY <2>2, <2>6 DEF CallInv
<1> QED BY <1>3, <1>4, <1>5 DEF IInv

(* The clock kills keys, and revives none. *)
LEMMA TickKeeps ==
    ASSUME IInv, Tick PROVE IInv'
<1>1. /\ UNCHANGED <<address, users, requests, sessions, oldUsers, oldRequests, oldSessions, calls>>
      /\ now \in Nat /\ now' = now + 1
  BY DEF Tick, latest, older, IInv, TypeOK
<1>2. TypeOK'
  BY <1>1, Constants DEF Tick, IInv, TypeOK
<1>3. AccountInv' /\ AttemptsInv' /\ OldInv'
  BY <1>1 DEF IInv, AccountInv, OneAccount, AttemptsInv, Wrong, Answered, OldInv, Copy
<1>4. ASSUME NEW c \in Calls PROVE CallInv(c)'
  <2>1. CallInv(c)
    BY DEF IInv
  <2>2. /\ LoginInv(c)' /\ CompleteInv(c)' /\ KeyInv(c)' /\ RevokeInv(c)' /\ ReplaceInv(c)'
        /\ SaveInv(c)'
    BY <1>1, <2>1 DEF CallInv, LoginInv, CompleteInv, KeyInv, RevokeInv, ReplaceInv, SaveInv,
          Known, Granted, Has
  <2>3. ASSUME NEW i \in Calls
        PROVE  (RequestDead(i) => RequestDead(i)') /\ (KeyDead(i) => KeyDead(i)')
    <3>1. /\ \A v \in RequestVersions(i) \ {Nothing} : v.expires \in Nat
          /\ \A v \in SessionVersions(i) \ {Nothing} : v.expires \in Nat
      BY Constants DEF RequestVersions, SessionVersions, IInv, TypeOK, LoginRequest, Session, Ends
    <3>2. RequestVersions(i)' = RequestVersions(i) /\ SessionVersions(i)' = SessionVersions(i)
      BY <1>1 DEF RequestVersions, SessionVersions
    <3> QED BY <1>1, <3>1, <3>2 DEF RequestDead, KeyDead
  <2>4. calls[c].pc = "findRequest" /\ calls[c].op = "completeLogin" => calls[c].key \in Calls
    BY <2>1 DEF CallInv, CompleteInv, Has
  <2>5. calls[c].pc = "findKey" => calls[c].key \in Calls
    BY <2>1 DEF CallInv, KeyInv, Has
  <2>6. VoidInv(c)'
    BY <1>1, <2>1, <2>3, <2>4, <2>5 DEF CallInv, VoidInv
  <2> QED BY <2>2, <2>6 DEF CallInv
<1> QED BY <1>2, <1>3, <1>4 DEF IInv

(* The next-state relation, by calls. *)
LEMMA NextIsStep ==
    Next => Tick \/ Replicate \/ \E c \in Calls : CallStep(c)
BY DEF Next, CallStep

(* IInv is inductive. *)
LEMMA IInvInductive ==
    IInv /\ [Next]_vars => IInv'
<1> SUFFICES ASSUME IInv, [Next]_vars PROVE IInv'
  OBVIOUS
<1>1. CASE Tick
  BY <1>1, TickKeeps
<1>4. CASE Replicate
  BY <1>4, ReplicateKeeps
<1>2. ASSUME NEW c \in Calls, CallStep(c) PROVE IInv'
  <2>1. Preserved(c)
    BY <1>2, StepKeeps
  <2>2. TypeOK' /\ AccountInv' /\ AttemptsInv' /\ Grows(c) /\ CallInv(c)'
    BY <2>1, AttemptsKept DEF Preserved
  <2>4. OldInv'
    BY <2>2, OldKept
  <2>3. \A d \in Calls : CallInv(d)'
    BY <2>2, OthersKept
  <2> QED
    BY <2>2, <2>3, <2>4 DEF IInv
<1>3. CASE UNCHANGED vars
  BY <1>3 DEF vars, latest, older, IInv, TypeOK, AccountInv, OneAccount, AttemptsInv, Wrong,
        Answered, OldInv, Copy, CallInv, LoginInv, CompleteInv, KeyInv, RevokeInv, ReplaceInv,
        SaveInv, VoidInv, Known, Granted, Has, RequestDead, KeyDead, RequestVersions,
        SessionVersions
<1> QED
  BY <1>1, <1>2, <1>3, <1>4, NextIsStep

(* IInv is an invariant. *)
LEMMA IInvHolds == Spec => []IInv
BY InitIInv, IInvInductive, PTL DEF Spec

(* Type correctness: the store and the local variables of every call keep *)
(* their types.                                                           *)
THEOREM TypeCorrect == Spec => []TypeOK
<1>1. IInv => TypeOK
  BY DEF IInv
<1> QED BY <1>1, IInvHolds, PTL

(* However many first logins with one address interleave, one account is saved *)
(* and every login request and session is that account's (requestLogin,        *)
(* saveNewUser).                                                               *)
THEOREM OneAccountHolds == Spec => []OneAccount
<1>1. IInv => OneAccount
  BY DEF IInv, AccountInv
<1> QED BY <1>1, IInvHolds, PTL

(* Whatever fails between two store operations, a stored session has used up *)
(* the login request or the session it was granted for (completeLogin,       *)
(* replaceSession).                                                          *)
THEOREM GrantedForSomethingHolds == Spec => []GrantedForSomething
<1>1. IInv => GrantedForSomething
  <2> SUFFICES ASSUME IInv, NEW s \in Calls, sessions[s] # Nothing PROVE Granted(s)
    BY DEF GrantedForSomething, Granted, Has, None, Calls
  <2> QED BY DEF IInv, CallInv, SaveInv
<1> QED BY <1>1, IInvHolds, PTL

(* A key that is void by the answers given before a call began is not honoured *)
(* by it, for any number of concurrent completeLogin, revokeSession and        *)
(* replaceSession calls that read any earlier version of a record until its    *)
(* replicas have caught up: from then on every version that can be read has    *)
(* what the answers say.                                                       *)
THEOREM VoidIsRefusedHolds == Spec => []VoidIsRefused
<1>1. IInv => VoidIsRefused
  BY DEF IInv, CallInv, VoidInv, VoidIsRefused
<1> QED BY <1>1, IInvHolds, PTL

(* No step of any call, nor a stale copy that is written back, revives a *)
(* revoked session (revokeSession, replaceSession).                      *)
THEOREM RevokedStaysRevokedHolds == Spec => RevokedStaysRevoked
<1> DEFINE Kept == \A s \in Calls : sessions[s] # Nothing /\ sessions[s].revoked # 0
                      => sessions'[s] # Nothing /\ sessions'[s].revoked # 0
<1>1. IInv /\ [Next]_vars => [Kept]_vars
  <2> SUFFICES ASSUME IInv, Next PROVE Kept
    OBVIOUS
  <2>1. CASE Tick \/ Replicate
    BY <2>1 DEF Tick, Replicate, latest
  <2>2. ASSUME NEW c \in Calls, CallStep(c) PROVE Kept
    BY <2>2, StepKeeps, NothingElse DEF Preserved, Grows, SessionsGrow, Copy
  <2> QED BY <2>1, <2>2, NextIsStep
<1> QED BY <1>1, IInvHolds, PTL DEF Spec, RevokedStaysRevoked
=============================================================================
