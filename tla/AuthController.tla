--------------------------- MODULE AuthController ---------------------------
(***************************************************************************)
(* Login requests and sessions of one account: AuthController over a store *)
(* without transactions (DynamoDBAuthStore), and the two places of         *)
(* SubscriptionController that write the same user record.                 *)
(*                                                                         *)
(* Every call is an invocation of its own.  An action is one store         *)
(* operation with what the call does up to the next one; the calls         *)
(* interleave in between, and any of them may fail there.  All calls are   *)
(* for one address.  A user, a login request and a session are named after *)
(* the call that creates them.                                             *)
(*                                                                         *)
(* No get of the store asks for a consistent read: until the replicas of a *)
(* record have caught up, a get may return any earlier version of it, or   *)
(* miss a new record.                                                      *)
(***************************************************************************)
EXTENDS Naturals, FiniteSets

CONSTANTS
    MaxCalls,         \* bound: the calls
    MaxActive,        \* bound: the calls under way at the same time
    MaxTime,          \* bound: the clock
    RequestLifetime,  \* LOGIN_REQUEST_LIFETIME_MS
    SessionLifetime,  \* SESSION_LIFETIME_MS
    MaxAttempts       \* MAX_LOGIN_REQUEST_ATTEMPTS

ASSUME AuthAssumption ==
    {MaxCalls, MaxActive, MaxTime, RequestLifetime, SessionLifetime, MaxAttempts}
        \subseteq Nat \ {0}

Calls == 1 .. MaxCalls     \* in the order in which they begin
None == 0
Nothing == [missing |-> TRUE]
Ids == Calls \cup {None}
Times == 0 .. MaxTime      \* 0: no such time yet
Ends == 0 .. (MaxTime + RequestLifetime + SessionLifetime)

User == [revokeAll : Times, current : Ids]
LoginRequest == [user : Calls, attempts : Nat, expires : Ends, completed : BOOLEAN]
Session == [user : Calls, request : Ids, granted : Times, expires : Ends,
            revoked : Times, previous : Ids, next : Ids]

Ops == {"requestLogin", "completeLogin", "revokeSession", "revokeAllSessions",
        "replaceSession", "updateUserInfo", "handleStripeWebhook"}
Ended == {"ok", "refused", "wrongCode"}
Labels == Ended \cup
    {"idle", "findByAddress", "saveNewUser", "findAgain", "saveRequest", "setCurrent",
     "findRequest", "increment", "checkCurrent", "markComplete", "saveSession",
     "findKey", "findKeyUser", "findTarget", "setRevokeAll", "findOwn", "saveTarget",
     "findUser", "saveUser"}

VARIABLES
    now,
    address,    \* the entry of the addresses table
    users, requests, sessions,
    oldUsers, oldRequests, oldSessions,  \* the earlier versions that a get may return
    calls       \* the local variables of each call

latest == <<address, users, requests, sessions>>
older == <<oldUsers, oldRequests, oldSessions>>
vars == <<now, latest, older, calls>>

(* key: the login request or the session whose key is given.  target: the     *)
(* session to revoke.  void is history: the key was void when the call began. *)
Call == [op : Ops \cup {"none"}, pc : Labels, key : Ids, target : Ids, void : BOOLEAN,
         id : Ids, time : Times, user : User \cup {Nothing}, session : Session \cup {Nothing}]

NoCall == [op |-> "none", pc |-> "idle", key |-> None, target |-> None, void |-> FALSE,
           id |-> None, time |-> 0, user |-> Nothing, session |-> Nothing]

Init ==
    /\ now = 1
    /\ address = None
    /\ users = [u \in Calls |-> Nothing]
    /\ requests = [r \in Calls |-> Nothing]
    /\ sessions = [s \in Calls |-> Nothing]
    /\ oldUsers = [u \in Calls |-> {}]
    /\ oldRequests = [r \in Calls |-> {}]
    /\ oldSessions = [s \in Calls |-> {}]
    /\ calls = [c \in Calls |-> NoCall]

-----------------------------------------------------------------------------
(* The versions of a record that a get may return, and the earlier ones after *)
(* the record of the table f became v.                                        *)
UserVersions(u) == {users[u]} \cup oldUsers[u]
RequestVersions(r) == {requests[r]} \cup oldRequests[r]
SessionVersions(s) == {sessions[s]} \cup oldSessions[s]
Replaced(old, f, i, v) == [old EXCEPT ![i] = (@ \cup {f[i]}) \ {v}]

PutUser(u, v) ==
    /\ users' = [users EXCEPT ![u] = v]
    /\ oldUsers' = Replaced(oldUsers, users, u, v)

PutRequest(r, v) ==
    /\ requests' = [requests EXCEPT ![r] = v]
    /\ oldRequests' = Replaced(oldRequests, requests, r, v)
    /\ UNCHANGED <<now, address, users, sessions, oldUsers, oldSessions>>

PutSession(s, v) ==
    /\ sessions' = [sessions EXCEPT ![s] = v]
    /\ oldSessions' = Replaced(oldSessions, sessions, s, v)
    /\ UNCHANGED <<now, address, users, requests, oldUsers, oldRequests>>

(* The replicas of a record have caught up. *)
Replicate ==
    /\ \E i \in Calls :
        \/ oldUsers[i] # {} /\ oldUsers' = [oldUsers EXCEPT ![i] = {}]
           /\ UNCHANGED <<oldRequests, oldSessions>>
        \/ oldRequests[i] # {} /\ oldRequests' = [oldRequests EXCEPT ![i] = {}]
           /\ UNCHANGED <<oldUsers, oldSessions>>
        \/ oldSessions[i] # {} /\ oldSessions' = [oldSessions EXCEPT ![i] = {}]
           /\ UNCHANGED <<oldUsers, oldRequests>>
    /\ UNCHANGED <<now, latest, calls>>

-----------------------------------------------------------------------------
(* What callers may start. *)

At(c, op, label) == calls[c].op = op /\ calls[c].pc = label
Become(c, call) == calls' = [calls EXCEPT ![c] = call]
Goto(c, label) == Become(c, [calls[c] EXCEPT !.pc = label])
(* The answer, kept as history; what a call was about matters only if it did it. *)
End(c, how) ==
    Become(c,
        IF how = "refused" \/ calls[c].op \in {"updateUserInfo", "handleStripeWebhook"}
        THEN [NoCall EXCEPT !.pc = how, !.void = calls[c].void]
        ELSE [calls[c] EXCEPT !.pc = how, !.id = None, !.user = Nothing, !.session = Nothing,
                              !.time = IF calls[c].op = "revokeAllSessions" THEN @ ELSE 0])
Answered(op, how) == {d \in Calls : calls[d].op = op /\ calls[d].pc = how}

(* What the answers given so far say about a login request and a session, once *)
(* the replicas of the record have what was answered.                         *)
RequestVoid(r) ==
    \/ now >= requests[r].expires
    \/ /\ oldRequests[r] = {}
       /\ \/ \E d \in Answered("completeLogin", "ok") : calls[d].key = r
          \/ Cardinality({d \in Answered("completeLogin", "wrongCode") : calls[d].key = r})
                >= MaxAttempts

KeyVoid(s) ==
    \/ now >= sessions[s].expires
    \/ /\ oldSessions[s] = {}
       /\ \/ \E d \in Answered("replaceSession", "ok") : calls[d].key = s
          \/ \E d \in Answered("revokeSession", "ok") : calls[d].target = s

Start(c, op, label, key, target, void) ==
    /\ calls[c].pc = "idle"
    /\ \A d \in Calls : d < c => calls[d].pc # "idle"
    /\ Cardinality({d \in Calls : calls[d].pc \notin Ended \cup {"idle"}}) < MaxActive
    /\ Become(c, [NoCall EXCEPT !.op = op, !.pc = label, !.key = key, !.target = target,
                                !.void = void])
    /\ UNCHANGED <<now, latest, older>>

CallRequestLogin(c) == Start(c, "requestLogin", "findByAddress", None, None, FALSE)

(* The request id, and the code, reach the user with the answer. *)
CallCompleteLogin(c) ==
    \E r \in Answered("requestLogin", "ok") :
        Start(c, "completeLogin", "findRequest", r, None, RequestVoid(r))

Keys == Answered("completeLogin", "ok") \cup Answered("replaceSession", "ok")

CallWithKey(c) ==
    \E s \in Keys :
        \/ \E op \in {"revokeAllSessions", "replaceSession", "updateUserInfo"} :
              Start(c, op, "findKey", s, None, KeyVoid(s))
        \/ \E t \in {t \in Calls : sessions[t] # Nothing} :
              Start(c, "revokeSession", "findKey", s, t, KeyVoid(s))

(* Stripe calls about the customer id that is saved in the user record. *)
CallWebhook(c) ==
    /\ address # None
    /\ Start(c, "handleStripeWebhook", "findUser", None, None, FALSE)

-----------------------------------------------------------------------------
(* requestLogin *)

(* findUserByAddress(), then the code is sent.  The entry of the address and   *)
(* the user record are written together; a get may miss either.  Without a    *)
(* user a new one, with the id c, is prepared; an address that is not allowed *)
(* and a code that cannot be sent end the call.                               *)
FindUserByAddress(c) ==
    /\ At(c, "requestLogin", "findByAddress")
    /\ \/ End(c, "refused")
       \/ /\ address # None => Nothing \in UserVersions(address)
          /\ Become(c, [calls[c] EXCEPT !.pc = "saveNewUser", !.id = c, !.time = now])
       \/ /\ address # None
          /\ Become(c, [calls[c] EXCEPT !.pc = "saveRequest", !.id = address, !.time = now])
    /\ UNCHANGED <<now, latest, older>>

(* saveNewUser(): a transaction that fails when the address is taken. *)
SaveNewUser(c) ==
    /\ At(c, "requestLogin", "saveNewUser")
    /\ IF address = None
       THEN /\ address' = c
            /\ PutUser(c, [revokeAll |-> 0, current |-> None])
            /\ Goto(c, "saveRequest")
       ELSE /\ Goto(c, "findAgain")
            /\ UNCHANGED <<address, users, oldUsers>>
    /\ UNCHANGED <<now, requests, sessions, oldRequests, oldSessions>>

(* Mutant of FindAgain: the request keeps the id of the user not saved. *)
FindAgainForgotten(c) ==
    /\ At(c, "requestLogin", "findAgain")
    /\ Goto(c, "saveRequest")
    /\ UNCHANGED <<now, latest, older>>

(* If the get misses the user again, the call is refused (Fail). *)
FindAgain(c) ==
    /\ At(c, "requestLogin", "findAgain")
    /\ Become(c, [calls[c] EXCEPT !.pc = "saveRequest", !.id = address])
    /\ UNCHANGED <<now, latest, older>>

SaveLoginRequest(c) ==
    /\ At(c, "requestLogin", "saveRequest")
    /\ PutRequest(c, [user |-> calls[c].id, attempts |-> 0, completed |-> FALSE,
                      expires |-> calls[c].time + RequestLifetime])
    /\ Goto(c, "setCurrent")

SetCurrentLoginRequest(c) ==
    /\ At(c, "requestLogin", "setCurrent")
    /\ PutUser(calls[c].id, [users[calls[c].id] EXCEPT !.current = c])
    /\ End(c, "ok")
    /\ UNCHANGED <<now, address, requests, sessions, oldRequests, oldSessions>>

RequestLogin(c) ==
    \/ FindUserByAddress(c) \/ SaveNewUser(c) \/ FindAgain(c)
    \/ SaveLoginRequest(c) \/ SetCurrentLoginRequest(c)

-----------------------------------------------------------------------------
(* completeLogin *)

(* findLoginRequest(); a request that is not found, or came from another IP *)
(* address, is refused.                                                    *)
FindLoginRequest(c) ==
    /\ At(c, "completeLogin", "findRequest")
    /\ \/ End(c, "refused")
       \/ \E r \in RequestVersions(calls[c].key) \ {Nothing} :
          /\ now < r.expires /\ ~r.completed /\ r.attempts < MaxAttempts
          /\ \E label \in {"checkCurrent", "increment"} : Goto(c, label)
    /\ UNCHANGED <<now, latest, older>>

(* Mutant of IncrementAttempts: a wrong code is answered and not counted. *)
IncrementAttemptsForgotten(c) ==
    /\ At(c, "completeLogin", "increment")
    /\ End(c, "wrongCode")
    /\ UNCHANGED <<now, latest, older>>

IncrementAttempts(c) ==
    LET r == requests[calls[c].key] IN
    /\ At(c, "completeLogin", "increment")
    /\ PutRequest(calls[c].key, [r EXCEPT !.attempts = r.attempts + 1])
    /\ End(c, "wrongCode")

(* findUser(), and the time the session is granted at.  The user and the end *)
(* of a request are the same in all its versions.                            *)
CheckCurrent(c) ==
    LET r == calls[c].key IN
    /\ At(c, "completeLogin", "checkCurrent")
    /\ \E u \in UserVersions(requests[r].user) :
        IF u # Nothing /\ u.current = r
        THEN Become(c, [calls[c] EXCEPT !.pc = "markComplete", !.time = now])
        ELSE End(c, "refused")
    /\ UNCHANGED <<now, latest, older>>

MarkLoginRequestComplete(c) ==
    LET r == requests[calls[c].key] IN
    /\ At(c, "completeLogin", "markComplete")
    /\ PutRequest(calls[c].key, [r EXCEPT !.completed = TRUE])
    /\ Goto(c, "saveSession")

(* Mutant of NewSession: the fields of replaceSession are left out. *)
NewSessionUnlinked(c, user, request, previous) ==
    [user |-> user, request |-> request, granted |-> calls[c].time,
     expires |-> calls[c].time + SessionLifetime, revoked |-> 0]

NewSession(c, user, request, previous) ==
    [user |-> user, request |-> request, granted |-> calls[c].time,
     expires |-> calls[c].time + SessionLifetime, revoked |-> 0,
     previous |-> previous, next |-> None]

SaveSession(c) ==
    /\ At(c, "completeLogin", "saveSession")
    /\ PutSession(c, NewSession(c, requests[calls[c].key].user, calls[c].key, None))
    /\ End(c, "ok")

CompleteLogin(c) ==
    \/ FindLoginRequest(c) \/ IncrementAttempts(c) \/ CheckCurrent(c)
    \/ MarkLoginRequestComplete(c) \/ SaveSession(c)

-----------------------------------------------------------------------------
(* validateSessionKey, with which the calls below begin: findSession(), ... *)
FindKey(c) ==
    /\ calls[c].pc = "findKey"
    /\ \E s \in SessionVersions(calls[c].key) :
        IF s = Nothing \/ s.revoked # 0 \/ now >= s.expires
        THEN End(c, "refused")
        ELSE Become(c, [calls[c] EXCEPT !.pc = "findKeyUser", !.session = s])
    /\ UNCHANGED <<now, latest, older>>

AfterValidation == [revokeSession |-> "findTarget", revokeAllSessions |-> "setRevokeAll",
                    replaceSession |-> "findOwn", updateUserInfo |-> "findUser"]

(* ... findUser(), and the time that the call goes on with. *)
FindKeyUser(c) ==
    LET s == calls[c].session IN
    /\ calls[c].pc = "findKeyUser"
    /\ \E u \in UserVersions(s.user) :
        IF u = Nothing \/ u.revokeAll >= s.granted
        THEN End(c, "refused")
        ELSE Become(c, [calls[c] EXCEPT !.pc = AfterValidation[calls[c].op], !.id = s.user,
                                        !.session = Nothing, !.time = now])
    /\ UNCHANGED <<now, latest, older>>

ValidateSessionKey(c) == FindKey(c) \/ FindKeyUser(c)

-----------------------------------------------------------------------------
(* revokeSession *)
FindTarget(c) ==
    /\ At(c, "revokeSession", "findTarget")
    /\ \E s \in SessionVersions(calls[c].target) :
        IF s = Nothing \/ s.revoked # 0
        THEN End(c, "refused")
        ELSE Become(c, [calls[c] EXCEPT !.pc = "saveTarget",
                                        !.session = [s EXCEPT !.revoked = now]])
    /\ UNCHANGED <<now, latest, older>>

SaveTarget(c) ==
    /\ At(c, "revokeSession", "saveTarget")
    /\ PutSession(calls[c].target, calls[c].session)
    /\ End(c, "ok")

RevokeSession(c) == FindTarget(c) \/ SaveTarget(c)

(* revokeAllSessions *)
RevokeAllSessions(c) ==
    /\ At(c, "revokeAllSessions", "setRevokeAll")
    /\ PutUser(calls[c].id, [users[calls[c].id] EXCEPT !.revokeAll = calls[c].time])
    /\ End(c, "ok")
    /\ UNCHANGED <<now, address, requests, sessions, oldRequests, oldSessions>>

-----------------------------------------------------------------------------
(* replaceSession: the old session is saved before the new one. *)
FindOwn(c) ==
    /\ At(c, "replaceSession", "findOwn")
    /\ \E s \in SessionVersions(calls[c].key) :
        IF s = Nothing
        THEN End(c, "refused")
        ELSE Become(c, [calls[c] EXCEPT !.pc = "saveTarget", !.session = s])
    /\ UNCHANGED <<now, latest, older>>

(* Mutant of SaveOwn: the old session is linked to the new one, not revoked. *)
SaveOwnLinked(c) ==
    /\ At(c, "replaceSession", "saveTarget")
    /\ PutSession(calls[c].key, [calls[c].session EXCEPT !.next = c])
    /\ Goto(c, "saveSession")

SaveOwn(c) ==
    /\ At(c, "replaceSession", "saveTarget")
    /\ PutSession(calls[c].key,
                  [calls[c].session EXCEPT !.next = c, !.revoked = calls[c].time])
    /\ Goto(c, "saveSession")

SaveNewSession(c) ==
    /\ At(c, "replaceSession", "saveSession")
    /\ PutSession(c, NewSession(c, calls[c].id, None, calls[c].key))
    /\ End(c, "ok")

(* Mutant of ReplaceSession: the new session is saved first. *)
ReplaceSessionNewFirst(c) ==
    \/ FindOwn(c)
    \/ /\ At(c, "replaceSession", "saveTarget")
       /\ PutSession(c, NewSession(c, calls[c].id, None, calls[c].key))
       /\ Goto(c, "saveSession")
    \/ /\ At(c, "replaceSession", "saveSession")
       /\ PutSession(calls[c].key,
                     [calls[c].session EXCEPT !.next = c, !.revoked = calls[c].time])
       /\ End(c, "ok")

ReplaceSession(c) == FindOwn(c) \/ SaveOwn(c) \/ SaveNewSession(c)

-----------------------------------------------------------------------------
(* updateUserInfo and handleStripeWebhook (createManageSubscriptionLink does   *)
(* the same): the user record is read, and saved as a whole with some fields   *)
(* that are not part of the model.  A webhook that brings nothing new ends.    *)
FindUser(c) ==
    /\ calls[c].pc = "findUser"
    /\ \/ \E u \in UserVersions(address) \ {Nothing} :
              Become(c, [calls[c] EXCEPT !.pc = "saveUser", !.user = u, !.id = address])
       \/ calls[c].op = "handleStripeWebhook" /\ End(c, "ok")
    /\ UNCHANGED <<now, latest, older>>

SaveUser(c) ==
    /\ calls[c].pc = "saveUser"
    /\ PutUser(calls[c].id, calls[c].user)
    /\ End(c, "ok")
    /\ UNCHANGED <<now, address, requests, sessions, oldRequests, oldSessions>>

UpdateUser(c) == FindUser(c) \/ SaveUser(c)

-----------------------------------------------------------------------------
(* A store operation throws, or the invocation dies: the caller gets nothing. *)
Fail(c) ==
    /\ calls[c].pc \notin Ended \cup {"idle"}
    /\ End(c, "refused")
    /\ UNCHANGED <<now, latest, older>>

Tick ==
    /\ now < MaxTime
    /\ now' = now + 1
    /\ UNCHANGED <<latest, older, calls>>

Next ==
    \/ Tick \/ Replicate
    \/ \E c \in Calls :
        \/ CallRequestLogin(c) \/ CallCompleteLogin(c) \/ CallWithKey(c) \/ CallWebhook(c)
        \/ RequestLogin(c) \/ CompleteLogin(c) \/ ValidateSessionKey(c)
        \/ RevokeSession(c) \/ RevokeAllSessions(c) \/ ReplaceSession(c) \/ UpdateUser(c)
        \/ Fail(c)

Spec == Init /\ [][Next]_vars

-----------------------------------------------------------------------------
TypeOK ==
    /\ now \in 1 .. MaxTime
    /\ address \in Ids
    /\ users \in [Calls -> User \cup {Nothing}]
    /\ requests \in [Calls -> LoginRequest \cup {Nothing}]
    /\ sessions \in [Calls -> Session \cup {Nothing}]
    /\ oldUsers \in [Calls -> SUBSET (User \cup {Nothing})]
    /\ oldRequests \in [Calls -> SUBSET (LoginRequest \cup {Nothing})]
    /\ oldSessions \in [Calls -> SUBSET (Session \cup {Nothing})]
    /\ calls \in [Calls -> Call]

(* Two first logins with one address, which both find no user, end up with    *)
(* one account: it is the only user that is saved, and every login request    *)
(* and every session belongs to it.                                          *)
OneAccount ==
    /\ \A u \in Calls : users[u] # Nothing => u = address
    /\ \A r \in Calls : requests[r] # Nothing => requests[r].user = address
    /\ \A s \in Calls : sessions[s] # Nothing => sessions[s].user = address

(* Whatever fails between two store operations, a session that is stored has   *)
(* used up what it was granted for: the login request is completed, or the    *)
(* session it replaces is revoked.                                           *)
GrantedForSomething ==
    \A s \in Calls : sessions[s] # Nothing =>
        LET r == sessions[s].request
            p == sessions[s].previous IN
        \/ r # None /\ requests[r] # Nothing /\ requests[r].completed
        \/ p # None /\ sessions[p] # Nothing /\ sessions[p].revoked # 0

(* A session that is revoked stays revoked, although revokeSession and         *)
(* replaceSession write back whole sessions they read earlier.               *)
RevokedStaysRevoked ==
    [][\A s \in Calls : sessions[s] # Nothing /\ sessions[s].revoked # 0
         => sessions'[s] # Nothing /\ sessions'[s].revoked # 0]_vars

(* What the answers given before a call began have made void is not honoured  *)
(* by it: an expired, revoked or replaced session key, a login request that   *)
(* expired, gave a session, or had MaxAttempts wrong codes.  Until the        *)
(* replicas of the record have caught up with the answer, only the expiry is  *)
(* kept: README.md, Disagreements.                                           *)
VoidIsRefused ==
    \A c \in Calls : calls[c].void =>
        calls[c].pc \in {"findRequest", "findKey", "refused"}

(* "should fail if the session was granted before all session were revoked":   *)
(* once revokeAllSessions was answered, a session granted before is refused.  *)
(* The code does not keep this; README.md, Disagreements, has the steps.      *)
RevokeAllHolds ==
    \A c \in Answered("revokeAllSessions", "ok") : \A s \in Calls :
        sessions[s] # Nothing /\ sessions[s].granted <= calls[c].time
        => users[sessions[s].user].revokeAll >= sessions[s].granted
=============================================================================
