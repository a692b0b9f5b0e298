----------------------------- MODULE MCWorkers -----------------------------
(* Values of the constants of Workers for TLC: those of MCSessions, and log  *)
(* levels with the database below and above the main level.                  *)
EXTENDS MCSessions, Workers

Levels(main, database) == [logLevel |-> main, databaseLogLevel |-> database]

MCConfigs == {Levels("info", "warn"), Levels("warn", "silent")}

=============================================================================
