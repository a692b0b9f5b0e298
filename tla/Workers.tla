------------------------------ MODULE Workers ------------------------------
(* The workers of a production-like environment (main.ts): throng forks them *)
(* and forks one anew when it has died; each bootstraps the application and  *)
(* then serves requests, with the sessions in the Redis all of them share,   *)
(* and with the logger.                                                      *)
(*                                                                           *)
(* The calls of a request are those of Sessions, together with the lines     *)
(* they log.                                                                 *)
EXTENDS Sessions, Logger

CONSTANTS
    WorkerIds,
    RedisErrors,        \* errors of a Redis connection; each happens at most once
    Configs             \* the log levels the API may be started with

ASSUME WorkersAssumption ==
    /\ Configs \subseteq LoggerConfig
    /\ Null \notin WorkerIds

VARIABLES
    workers,            \* the state of each worker process
    owner,              \* the worker that serves each open request
    reported,           \* the errors of Redis that have happened
    config,             \* the log levels
    lines               \* the lines that have been logged

workerVars == <<workers, owner, reported, config, lines>>
allVars == <<vars, workerVars>>

WorkerStates == {"down", "starting", "up"}
Sources == {"bootstrap", "query", "request", "login", "nest", "redis"}
LogLine == [source : Sources, level : LogLevels,
            about  : Requests \cup WorkerIds \cup RedisErrors]

WorkersTypeOK ==
    /\ TypeOK
    /\ workers \in [WorkerIds -> WorkerStates]
    /\ owner \in [Requests -> WorkerIds \cup {Null}]
    /\ reported \subseteq RedisErrors
    /\ config \in Configs
    /\ lines \subseteq LogLine

\* The API has been started with one of the configurations.
WorkersInit ==
    /\ Init
    /\ workers = [w \in WorkerIds |-> "up"]
    /\ owner = [r \in Requests |-> Null]
    /\ reported = {}
    /\ config \in Configs
    /\ lines = UNION {Write(config, "bootstrap", "info", w) : w \in WorkerIds}

Log(new) == lines' = lines \cup new /\ UNCHANGED <<workers, owner, reported, config>>

Alive(r) == owner[r] # Null /\ workers[owner[r]] = "up"

Release(r) == owner' = [owner EXCEPT ![r] = Null] /\ UNCHANGED <<workers, reported, config, lines>>

-----------------------------------------------------------------------------
(* Worker processes.                                                         *)

\* Open requests whose worker has died.
Orphans == {r \in Open : ~Alive(r)}

\* throng forks a worker anew.  The system has closed the connections of the
\* one that died.
Fork(w) ==
    /\ workers[w] = "down"
    /\ \A r \in Orphans : owner[r] # w
    /\ workers' = [workers EXCEPT ![w] = "starting"]
    /\ UNCHANGED <<vars, owner, reported, config, lines>>

\* bootstrap: from here on the worker listens.
Bootstrap(w) ==
    /\ workers[w] = "starting"
    /\ workers' = [workers EXCEPT ![w] = "up"]
    /\ lines' = lines \cup Write(config, "bootstrap", "info", w)
    /\ UNCHANGED <<vars, owner, reported, config>>

\* The Redis client of a worker emits an error.  The listener is logger.error,
\* taken from its object: it runs as a method of the client, which has no
\* logger, and throws.  Nothing catches that, and the process ends.  So it does
\* before the listener is there, while the worker starts.
RedisError(w, e) ==
    /\ workers[w] # "down" /\ e \notin reported
    /\ reported' = reported \cup {e}
    /\ workers' = [workers EXCEPT ![w] = "down"]
    /\ UNCHANGED <<vars, owner, config, lines>>

\* The connections of a worker that has died are closed: its requests fail.
Disconnect(r) ==
    /\ r \in Orphans
    /\ Abort(r)
    /\ Release(r)

-----------------------------------------------------------------------------
(* Requests.                                                                 *)

\* Any worker that listens takes a request.
WorkerReceives ==
    \E w \in WorkerIds :
        /\ workers[w] = "up"
        /\ Receives
        /\ owner' = [r \in Requests |->
                        IF sreq[r].pc = "idle" /\ sreq'[r].pc # "idle" THEN w ELSE owner[r]]
        /\ UNCHANGED <<workers, reported, config, lines>>

\* The serializer queries the user when there is one in the session.
SerializeLogged(r) ==
    /\ Serialize(r)
    /\ Log(IF sreq[r].user # Null THEN LogQuery(config, r) ELSE {})

\* What may be said of a handler's own calls: its queries, and the error it ends
\* with, if it is one of a query and no HTTP exception.
HandlerLines(r, status) ==
    LogQuery(config, r)
    \cup (IF status = 500 THEN LogQueryError(config, r) \cup LogException(config, r) ELSE {})

\* The interceptor has its line, whatever the guarded handler ends with.
HandleLogged(r) ==
    /\ Handle(r)
    /\ LET status == sreq'[r].status
       IN  \E own \in SUBSET HandlerLines(r, status) :
              Log(own \cup Intercept(config, r, status))

\* LoginHandler queries the user and warns when it refuses; only then has the
\* handler of the request ended.
LoginLogged(r) ==
    /\ Login(r)
    /\ LET status == LoginStatus(sreq[r])
       IN  Log(LogQuery(config, r)
               \cup (IF status # 200 THEN Write(config, "login", "warn", r)
                                            \cup Intercept(config, r, status) ELSE {}))

GetUserLogged(r) ==
    GetUser(r) /\ Log(LogQuery(config, r) \cup Intercept(config, r, 200))

\* Destroying the session is all that the handler of log out does; the guard
\* does so before any interceptor.
DestroyLines(r) ==
    IF sreq[r].pc = "destroy" /\ sreq[r].handled THEN Intercept(config, r, 204) ELSE {}

DestroyLogged(r) == DestroySession(r) /\ Log(DestroyLines(r))

Silently(r) ==
    \/ (LoadSession(r) \/ SaveSession(r)) /\ UNCHANGED workerVars
    \/ Answer(r) /\ Release(r)

\* A query that fails is logged by TypeORM and by Nest, and by the interceptor
\* when it was the handler's; what Redis refuses to save or to destroy is not.
FailLines(r) ==
    IF sreq[r].pc \in {"serialize", "login", "getUser"}
    THEN LogQuery(config, r) \cup LogQueryError(config, r) \cup LogException(config, r)
            \cup (IF sreq[r].handled THEN Intercept(config, r, 500) ELSE {})
    ELSE DestroyLines(r)

FailLogged(r) == Fail(r) /\ Log(FailLines(r))

\* The session cannot be loaded.
LoadFails(r) == sreq[r].pc = "load" /\ Abort(r) /\ Release(r)

Serve(r) ==
    /\ Alive(r)
    /\ \/ SerializeLogged(r) \/ HandleLogged(r) \/ LoginLogged(r) \/ GetUserLogged(r)
       \/ DestroyLogged(r) \/ Silently(r)

WorkersNext ==
    \/ \E w \in WorkerIds : Fork(w) \/ Bootstrap(w)
    \/ \E w \in WorkerIds, e \in RedisErrors : RedisError(w, e)
    \/ WorkerReceives
    \/ \E r \in Requests : \/ Serve(r) \/ Disconnect(r)
                           \/ Alive(r) /\ (FailLogged(r) \/ LoadFails(r))
    \/ Deactivates /\ UNCHANGED workerVars
    \/ (\E s \in SessionIds : Expire(s)) /\ UNCHANGED workerVars

WorkersSpec == WorkersInit /\ [][WorkersNext]_allVars

\* A worker that lives goes on with its requests, and the system closes the
\* connections of one that has died; it need not be forked anew for that.
WorkersFairSpec ==
    /\ WorkersSpec
    /\ \A r \in Requests : WF_allVars(Serve(r)) /\ WF_allVars(Disconnect(r))

-----------------------------------------------------------------------------
(* Properties.                                                               *)

\* The line of the interceptor tells how a request ended (logger.interceptor.ts:28
\* and :40): only a request that got to its handler has one, and no more than
\* one; the line says success exactly of a request that had it, which a log in
\* whose second query fails has not; and once a handler's request is answered the
\* line is there, if the level shows it.
RequestLinesTellOutcome ==
    \A r \in Requests :
        LET told == {line \in lines : line.source = "request" /\ line.about = r}
        IN  /\ Cardinality(told) <= 1
            /\ \A line \in told : /\ sreq[r].handled
                                  /\ line.level = "info" <=> sreq[r].status = 200
            /\ /\ sreq[r].pc = "done" /\ sreq[r].handled
               /\ Shows(config, IF sreq[r].status = 200 THEN "info" ELSE "warn")
               => told # {}

\* A request that a worker has taken ends, though workers die: no device waits
\* for ever.
EveryRequestEnds ==
    \A r \in Requests : (sreq[r].pc = "load") ~> (sreq[r].pc \in {"done", "failed"})

=============================================================================
