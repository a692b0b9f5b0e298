------------------------------- MODULE Logger -------------------------------
(* The logger (libs/logger): which lines the API writes at which levels, and *)
(* the proxies that let TypeORM and Nest write through it.                   *)
(*                                                                           *)
(* A line says which part of the program wrote it, at which level, and what  *)
(* it is about: the trace id of a request (TraceMiddleware), or the worker.  *)
(* Its wording and the redaction of its fields are left out.                 *)
EXTENDS Naturals

LogLevels == {"silent", "trace", "debug", "info", "warn", "error", "fatal"}

LogLevelNumeric == [silent |-> 0, trace |-> 1, debug |-> 2, info |-> 3,
                    warn |-> 4, error |-> 5, fatal |-> 6]

LoggerConfig == [logLevel : LogLevels, databaseLogLevel : LogLevels]

\* pino writes what is at its level or above; at "silent" it writes nothing.
Shows(config, level) ==
    /\ config.logLevel # "silent"
    /\ LogLevelNumeric[config.logLevel] <= LogLevelNumeric[level]

\* LoggerService
Write(config, source, level, about) ==
    IF Shows(config, level) THEN {[source |-> source, level |-> level, about |-> about]}
    ELSE {}

\* TypeormLoggerProxy.levelAvailability
LevelAvailable(config, level) ==
    LogLevelNumeric[config.databaseLogLevel] <= LogLevelNumeric[level]

\* logQuery: every query, before it runs.
LogQuery(config, about) ==
    IF LevelAvailable(config, "debug") THEN Write(config, "query", "debug", about) ELSE {}

\* logQueryError: a query that has failed.
LogQueryError(config, about) ==
    IF LevelAvailable(config, "error") THEN Write(config, "query", "error", about) ELSE {}

\* Mutant: the interceptor taps the result and not the error.
InterceptResult(config, about, status) ==
    IF status < 400 THEN Write(config, "request", "info", about) ELSE {}

\* LoggerInterceptor: one line per request whose handler has run, when it has.
Intercept(config, about, status) ==
    Write(config, "request", IF status < 400 THEN "info" ELSE "warn", about)

\* NestLoggerProxy.error: what Nest's exception filter says of an error that is
\* no HTTP exception.
LogException(config, about) == Write(config, "nest", "error", about)

=============================================================================
