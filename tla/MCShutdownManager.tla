-------------------------- MODULE MCShutdownManager --------------------------
EXTENDS ShutdownManager, TLC

CONSTANTS server, workers, database

\* The priorities of registerHTTPServer, registerWorker and registerDatabase.
HookPriority == (server :> 1) @@ (workers :> 2) @@ (database :> 3)
==============================================================================
