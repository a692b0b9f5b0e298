------------------------------ MODULE Sessions ------------------------------
(* Sessions and authentication (apps/api/src/authentication, shared/guards   *)
(* and session.middleware.ts): express-session on Redis, the serializer, the *)
(* guard, log in and log out.                                                *)
(*                                                                           *)
(* Every request works on a copy of its session, taken when it starts, and   *)
(* with "resave" writes that copy back when it is answered.  A request's pc  *)
(* names the next Redis or database call it awaits, or "handle" for all those *)
(* of a guarded handler; "use" stands for any request to a guarded route other *)
(* than log out.                                                             *)
EXTENDS Integers, FiniteSets

CONSTANTS
    Null,               \* no cookie, no session, no user
    Users,
    Organisations,
    OrganisationOf,     \* the organisation of each user, or Null
    Devices,            \* clients that keep a cookie
    Requests,           \* each is made at most once
    MaxOverlap          \* bound on the requests that run at a time

ASSUME SessionsAssumption ==
    /\ OrganisationOf \in [Users -> Organisations \cup {Null}]
    /\ Null \notin Users \cup Organisations \cup Devices \cup Requests
    /\ MaxOverlap \in Nat \ {0}

VARIABLES
    store,              \* Redis: the user id in each session
    cookies,            \* the session id each device sends
    active,             \* the users and organisations with isActive
    sreq

vars == <<store, cookies, active, sreq>>

\* express-session generates at most one session id per request.
SessionIds == Requests

Kinds == {"none", "login", "use", "logout"}
OpenPcs == {"load", "serialize", "login", "getUser", "handle", "save", "destroy",
            "answer"}
Pcs == {"idle", "done", "failed"} \cup OpenPcs
\* What the request is answered with, once that is decided; 200 stands for every
\* success and 400 for what a guarded handler refuses.
Statuses == {0, 200, 400, 401, 405, 500}

\* sid and loaded are the session as it was loaded, user is the copy's userId;
\* target and right are the credentials of a log in; handled says that the
\* request has got past the serializer and the guard to its handler.
Request == [kind   : Kinds,
            pc     : Pcs,
            device : Devices \cup {Null},
            sid    : SessionIds \cup {Null},
            loaded : Users \cup {Null},
            user   : Users \cup {Null},
            target : Users \cup {Null},
            right  : BOOLEAN,
            handled : BOOLEAN,
            status : Statuses]

NoRequest == [kind |-> "none", pc |-> "idle", device |-> Null, sid |-> Null,
              loaded |-> Null, user |-> Null, target |-> Null, right |-> FALSE,
              handled |-> FALSE, status |-> 0]

TypeOK ==
    /\ store \in [SessionIds -> Users \cup {Null}]
    /\ cookies \in [Devices -> SessionIds \cup {Null}]
    /\ active \subseteq Users \cup Organisations
    /\ sreq \in [Requests -> Request]

Init ==
    /\ store = [s \in SessionIds |-> Null]
    /\ cookies = [d \in Devices |-> Null]
    /\ active = Users \cup Organisations
    /\ sreq = [r \in Requests |-> NoRequest]

Open == {r \in Requests : sreq[r].pc \in OpenPcs}

Goto(r, pc) == sreq' = [sreq EXCEPT ![r] = [@ EXCEPT !.pc = pc]]

End(r, pc, status) == sreq' = [sreq EXCEPT ![r] = [@ EXCEPT !.pc = pc, !.status = status]]

-----------------------------------------------------------------------------
(* The session middleware, the serializer and the guard.                     *)

\* A device sends a request with its cookie.
Receive(r, device, kind, target, right) ==
    /\ sreq[r].pc = "idle"
    /\ Cardinality(Open) < MaxOverlap
    /\ sreq' = [sreq EXCEPT ![r] = [NoRequest EXCEPT
                    !.kind = kind, !.pc = "load", !.device = device,
                    !.sid = cookies[device], !.target = target, !.right = right]]
    /\ UNCHANGED <<store, cookies, active>>

\* The session of the cookie, or a new and empty one.
LoadSession(r) ==
    /\ sreq[r].pc = "load"
    /\ LET sid == sreq[r].sid
           found == IF sid = Null THEN Null ELSE store[sid]
       IN  sreq' = [sreq EXCEPT ![r] = [@ EXCEPT
                        !.pc = "serialize",
                        !.sid = IF found = Null THEN r ELSE sid,
                        !.loaded = found, !.user = found]]
    /\ UNCHANGED <<store, cookies, active>>

\* Mutant: the organisation alone is looked at.
OrganisationPasses(u) == u # Null /\ OrganisationOf[u] \in active

\* The guard lets an active user of an active organisation through.
Passes(u) == u # Null /\ u \in active /\ OrganisationOf[u] \in active

\* The handler of the request begins.
Begin(r, pc, status) ==
    sreq' = [sreq EXCEPT ![r] = [@ EXCEPT !.pc = pc, !.status = status, !.handled = TRUE]]

\* The serializer reads the user of the session, the guard of a guarded route
\* decides: it destroys the session of one who does not pass.
Serialize(r) ==
    /\ sreq[r].pc = "serialize"
    /\ LET request == sreq[r]
       IN  \/ request.kind = "login" /\ Begin(r, "login", 0)
           \/ request.kind = "use" /\ Passes(request.user) /\ Begin(r, "handle", 0)
           \/ request.kind = "logout" /\ Passes(request.user) /\ Begin(r, "destroy", 200)
           \/ request.kind # "login" /\ ~Passes(request.user) /\ End(r, "destroy", 401)
    /\ UNCHANGED <<store, cookies, active>>

\* A guarded handler answers, refuses the request or throws; it leaves the
\* session alone.
Handle(r) ==
    /\ sreq[r].pc = "handle"
    /\ \E status \in {200, 400, 500} : End(r, "save", status)
    /\ UNCHANGED <<store, cookies, active>>

\* Mutant: the session is given its user before the credentials are checked.
LoginUnchecked(r) ==
    /\ sreq[r].pc = "login"
    /\ LET request == sreq[r]
           status == IF request.target \notin active THEN 405
                     ELSE IF request.right THEN 200 ELSE 401
       IN  sreq' = [sreq EXCEPT ![r] = [@ EXCEPT
                        !.pc = "save", !.status = status, !.user = request.target]]
    /\ UNCHANGED <<store, cookies, active>>

\* LoginHandler: the user must be known (401) and active (405), and the
\* password right (401).
LoginStatus(request) ==
    IF request.target = Null THEN 401
    ELSE IF request.target \notin active THEN 405
    ELSE IF request.right THEN 200 ELSE 401

\* A log in that is accepted gives the session copy the user's id and goes on.
Login(r) ==
    /\ sreq[r].pc = "login"
    /\ LET status == LoginStatus(sreq[r])
       IN  \/ /\ status = 200
              /\ sreq' = [sreq EXCEPT ![r] = [@ EXCEPT !.pc = "getUser",
                                                      !.user = sreq[r].target]]
           \/ status # 200 /\ End(r, "save", status)
    /\ UNCHANGED <<store, cookies, active>>

\* GetAuthenticatedUserHandler: what the log in is answered with is read, and may
\* be nothing.
GetUser(r) ==
    /\ sreq[r].pc = "getUser"
    /\ End(r, "save", 200)
    /\ UNCHANGED <<store, cookies, active>>

-----------------------------------------------------------------------------
(* The end of a request.                                                     *)

\* A session that was not found in the store is only saved when it was
\* changed ("saveUninitialized" is off); any other one is ("resave" is on).
Modified(request) == request.user # request.loaded

\* Mutant: "resave" behaves as if the session were new.
SaveNothing(r) == sreq[r].pc = "save" /\ Goto(r, "answer") /\ UNCHANGED <<store, cookies, active>>

\* Mutant: the request waits for a save that is not due.
SaveDue(r) ==
    /\ sreq[r].pc = "save"
    /\ sreq[r].loaded # Null \/ Modified(sreq[r])
    /\ store' = [store EXCEPT ![sreq[r].sid] = sreq[r].user]
    /\ Goto(r, "answer")
    /\ UNCHANGED <<cookies, active>>

SaveSession(r) ==
    /\ sreq[r].pc = "save"
    /\ LET request == sreq[r]
       IN  store' = IF request.loaded # Null \/ Modified(request)
                    THEN [store EXCEPT ![request.sid] = request.user] ELSE store
    /\ Goto(r, "answer")
    /\ UNCHANGED <<cookies, active>>

\* Mutant: only the cookie goes.
ClearCookieOnly(r) ==
    /\ sreq[r].pc = "destroy"
    /\ sreq' = [sreq EXCEPT ![r] = [@ EXCEPT !.pc = "answer", !.user = Null]]
    /\ UNCHANGED <<store, cookies, active>>

\* destroyExpressSession: the session leaves the store and the request, so it
\* is not saved again.
DestroySession(r) ==
    /\ sreq[r].pc = "destroy"
    /\ store' = [store EXCEPT ![sreq[r].sid] = Null]
    /\ sreq' = [sreq EXCEPT ![r] = [@ EXCEPT !.pc = "answer", !.user = Null]]
    /\ UNCHANGED <<cookies, active>>

\* Mutant: the cookie carries the user's id.
AnswerWithUserId(r) ==
    /\ sreq[r].pc = "answer"
    /\ cookies' = [cookies EXCEPT ![sreq[r].device] = sreq[r].user]
    /\ sreq' = [sreq EXCEPT ![r] = [@ EXCEPT !.pc = "done", !.device = Null,
                                  !.loaded = Null, !.user = Null]]
    /\ UNCHANGED <<store, active>>

\* The device gets its answer: with a destroyed session it drops its cookie,
\* with a changed one it takes the session's.
Answer(r) ==
    /\ sreq[r].pc = "answer"
    /\ LET request == sreq[r]
       IN  cookies' = IF request.kind # "login" /\ request.user = Null
                      THEN [cookies EXCEPT ![request.device] = Null]
                      ELSE IF Modified(request)
                      THEN [cookies EXCEPT ![request.device] = request.sid]
                      ELSE cookies
    /\ sreq' = [sreq EXCEPT ![r] = [@ EXCEPT !.pc = "done", !.device = Null,
                                  !.loaded = Null, !.user = Null]]
    /\ UNCHANGED <<store, active>>

-----------------------------------------------------------------------------
(* The environment.                                                          *)

\* Nothing in the API changes isActive; an administrator does, in the tables.
Deactivate(x) ==
    /\ x \in active
    /\ active' = active \ {x}
    /\ UNCHANGED <<store, cookies, sreq>>

\* Redis drops a session that has not been saved for the maxAge of its cookie.
Expire(s) ==
    /\ store[s] # Null
    /\ store' = [store EXCEPT ![s] = Null]
    /\ UNCHANGED <<cookies, active, sreq>>

\* A query of the serializer or of the log in fails: 500, and the copy is saved
\* as it is, with the user of a log in that had been accepted.  Redis refuses a
\* save or a destroy: the request goes on all the same.
Fail(r) ==
    /\ \/ sreq[r].pc = "serialize" /\ sreq[r].user # Null /\ End(r, "save", 500)
       \/ sreq[r].pc \in {"login", "getUser"} /\ End(r, "save", 500)
       \/ sreq[r].pc = "save" /\ Goto(r, "answer")
       \/ /\ sreq[r].pc = "destroy"
          /\ sreq' = [sreq EXCEPT ![r] = [@ EXCEPT !.pc = "answer", !.user = Null]]
    /\ UNCHANGED <<store, cookies, active>>

\* The session cannot be loaded, or the worker dies: the device gets no answer
\* it keeps a cookie of.
Abort(r) ==
    /\ sreq[r].pc \in OpenPcs
    /\ Goto(r, "failed")
    /\ UNCHANGED <<store, cookies, active>>

Receives ==
    \E r \in Requests, d \in Devices :
        \/ \E kind \in {"use", "logout"} : Receive(r, d, kind, Null, FALSE)
        \/ \E target \in Users, right \in BOOLEAN : Receive(r, d, "login", target, right)
        \/ Receive(r, d, "login", Null, FALSE)

Step(r) ==
    \/ LoadSession(r) \/ Serialize(r) \/ Login(r) \/ GetUser(r) \/ Handle(r)
    \/ SaveSession(r) \/ DestroySession(r) \/ Answer(r)

Deactivates == \E x \in Users \cup Organisations : Deactivate(x)

Next ==
    \/ Receives
    \/ \E r \in Requests : Step(r) \/ Fail(r) \/ Abort(r)
    \/ Deactivates
    \/ \E s \in SessionIds : Expire(s)

Spec == Init /\ [][Next]_vars

\* The calm executions: nothing fails and no session's time is up.  Node
\* continues a request whose call has been answered; nothing is assumed of
\* devices and administrators.
CalmNext == Receives \/ (\E r \in Requests : Step(r)) \/ Deactivates

CalmSpec == Init /\ [][CalmNext]_vars /\ \A r \in Requests : WF_vars(Step(r))

-----------------------------------------------------------------------------
(* Properties.                                                               *)

\* Somebody has logged in as user u on session s: with the right password, and
\* was not refused, though a query may have failed.
LoggedIn(s, u) ==
    \E r \in Requests : /\ sreq[r].kind = "login" /\ sreq[r].right
                        /\ sreq[r].status \in {200, 500}
                        /\ sreq[r].sid = s /\ sreq[r].target = u

\* Whatever overlaps, a session in the store is there because its user has
\* logged in on it with the right password (authentication.controller.ts:40).
SessionComesFromLogin ==
    \A s \in SessionIds : store[s] # Null => LoggedIn(s, store[s])

\* A user who has been deactivated, or whose organisation has, loses the session
\* with the next request that reads it (authenticated.guard.ts:18-22).
DeactivatedLosesSession ==
    \A r \in Requests :
        (/\ sreq[r].pc = "serialize" /\ sreq[r].kind # "login" /\ sreq[r].user # Null
         /\ ~({sreq[r].user, OrganisationOf[sreq[r].user]} \subseteq active))
        ~> (sreq[r].pc = "done" /\ store[sreq[r].sid] = Null)

\* A session that has been destroyed is gone, and stays so (authenticated.guard.ts:32
\* "invalidates everything that is related to a session: clear cookie, remove
\* cookie from redis").  Two things break it: a request that overlaps writes its
\* copy back, and an error of Redis is ignored.
DestroyedIsGone ==
    \A r \in Requests :
        /\ sreq[r].pc \in {"answer", "done"}
        /\ \/ sreq[r].kind = "logout" /\ sreq[r].status = 200
           \/ sreq[r].kind # "login" /\ sreq[r].status = 401
        => store[sreq[r].sid] = Null

\* A log in that is answered with 200 has left the device with a cookie of a
\* session of the user (one request at a time).
LoginGivesSession ==
    [][\A r \in Requests :
          /\ sreq[r].pc = "answer" /\ sreq'[r].pc = "done"
          /\ sreq[r].kind = "login" /\ sreq[r].status = 200
          => /\ cookies'[sreq[r].device] # Null
             /\ store[cookies'[sreq[r].device]] = sreq[r].target]_vars

\* A session ends by a log out on it or because its user was shut out: active
\* users stay logged in (one request at a time).
ActiveStaysLoggedIn ==
    [][\A s \in SessionIds :
          store[s] # Null /\ store'[s] = Null /\ Passes(store[s])
              => \E r \in Requests : /\ sreq[r].pc = "destroy" /\ sreq[r].kind = "logout"
                                     /\ sreq[r].sid = s]_vars

=============================================================================
