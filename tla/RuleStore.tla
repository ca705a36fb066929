------------------------------ MODULE RuleStore ------------------------------
(***************************************************************************)
(* What a worker promises about its rules, without requests, threads or    *)
(* database rows: a rule it accepts runs and is stored in one step, a rule *)
(* it removes stops, and after a restart exactly the stored rules run.     *)
(* Removing a rule does not take it out of the store: that is what the     *)
(* worker does, not what its users would expect (see RemovedRuleIsGone in  *)
(* Worker).                                                                *)
(***************************************************************************)
CONSTANTS
    Ids,    \* rule ids
    Stored  \* the id under which the database keeps a rule

VARIABLES
    up,       \* the worker takes requests
    running,  \* the rules it knows
    stored    \* the rules in its database

vars == <<up, running, stored>>

Init == up = FALSE /\ running = {} /\ stored = {}

Restart == ~up /\ up' = TRUE /\ running' = stored /\ UNCHANGED stored

Stop == up /\ up' = FALSE /\ running' = {} /\ UNCHANGED stored

Add(id) ==
    /\ up
    /\ id \notin running
    /\ running' = running \union {id}
    /\ stored' = stored \union {Stored[id]}
    /\ UNCHANGED up

Remove(id) ==
    /\ up
    /\ id \in running
    /\ running' = running \ {id}
    /\ UNCHANGED <<up, stored>>

Next == Restart \/ Stop \/ \E id \in Ids : Add(id) \/ Remove(id)

Spec == Init /\ [][Next]_vars
=============================================================================
