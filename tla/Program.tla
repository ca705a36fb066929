-------------------------------- MODULE Program --------------------------------
(***************************************************************************)
(* The whole program from one start to the next: main gets its             *)
(* configuration (Config), comes up (Startup), and ends at any time, to be *)
(* started again with what its database holds.                             *)
(***************************************************************************)
EXTENDS Startup, Config

allVars == <<vars, configVars>>

ProgramTypeOK ==
    /\ TypeOK
    /\ file \in Files
    /\ row \in {Written(f) : f \in {g \in Files : Complete(g)}} \union {Null}
    /\ config \in Files \union {row, Null}
    /\ up \in BOOLEAN
    /\ ~up => config = Null

ProgramInit == Init /\ ConfigInit

GetConfigured == GetConfig /\ UNCHANGED vars

\* A round of one of the threads.  A worker begins with the length of its
\* identity, and does not come to serve without one.
Run ==
    /\ up
    /\ Next
    /\ (\E w \in Workers : worker[w] = "reloading" /\ worker'[w] = "serving")
           => config # Null
    /\ UNCHANGED configVars

\* The threads, their sockets and what waits in them go with the process.
Reset ==
    /\ main' = 0
    /\ answered' = {}
    /\ relay' = "none"
    /\ bound' = FALSE
    /\ dispatcher' = "none"
    /\ connected' = FALSE
    /\ feed' = << >>
    /\ port' = 0
    /\ lines' = {}
    /\ line' = [i \in Lines |-> "none"]
    /\ worker' = [w \in Workers |-> "none"]

\* A worker without a configuration takes the process with it ...
CrashUnconfigured ==
    /\ config = Null
    /\ \E w \in Workers : worker[w] = "reloading"
    /\ End
    /\ Reset

\* ... and so does anything else that may happen to it.
Stop == End /\ Reset

ProgramNext ==
    \/ GetConfigured
    \/ Run
    \/ CrashUnconfigured
    \/ Stop
    \/ EditFile /\ UNCHANGED vars

ProgramSpec == ProgramInit /\ [][ProgramNext]_allVars

\* Every thread runs.  The feed promises nothing, and nobody promises that the
\* program is started again.
ProgramFairness ==
    /\ WF_allVars(Run /\ (Fork \/ Pong))
    /\ WF_allVars(Run /\ (RelayAnswer \/ RelayBind))
    /\ WF_allVars(Run /\ Dispatcher)
    /\ \A i \in Lines : WF_allVars(Run /\ LineListener(i))
    /\ \A w \in Workers : WF_allVars((Run /\ Worker(w)) \/ CrashUnconfigured)

ProgramFairSpec == ProgramSpec /\ ProgramFairness

-----------------------------------------------------------------------------
Serving == \E w \in Workers : worker[w] = "serving"

\* The name under which the workers offer their services, and under which their
\* rules are stored, survives a restart: while there is a row, workers serve
\* under the identity that the next start will find, whatever has happened to
\* the file since the row was written.  It holds for identities the database
\* gives back as they are (config.c:84-98, worker.c:185-188).
ServesUnderItsName ==
    Serving /\ row # Null /\ InRow[config.identity] = config.identity
        => config.identity = row.identity

\* The program comes up: if it is configured and does not end, and clean lines
\* keep coming to a dispatcher that is connected, every worker serves in the
\* end, however much noise comes between.
ComesUp ==
    <>[](up /\ config # Null) /\ []<><<CleanLine>>_vars
        => <>[](\A w \in Workers : worker[w] = "serving")
=============================================================================
