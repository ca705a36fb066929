------------------------------ MODULE ValueFeed ------------------------------
(***************************************************************************)
(* What a rule may expect of its line, without subscriptions, dormancy or  *)
(* channel changes: every reading of the rule's channel that is published  *)
(* while the rule's thread listens is put to the trigger function, once    *)
(* and in the order of publication.                                        *)
(***************************************************************************)
EXTENDS LevelTrigger, Sequences

CONSTANTS Values, Requests, NoRequest, NoMemory

VARIABLES
    request,  \* the request the thread serves, NoRequest while there is none
    memory,   \* the thread's triggermemory_t
    queue,    \* the readings published and not yet evaluated
    actions   \* DoAction messages sent, modulo 2

vars == <<request, memory, queue, actions>>

Init ==
    /\ request = NoRequest
    /\ memory = NoMemory
    /\ queue = << >>
    /\ actions = 0

Open ==
    /\ request = NoRequest
    /\ request' \in Requests
    /\ AddinsAccepted(request'.addins)
    /\ find_trigger(request'.channel, request'.trigger_name) # "NULL"
    /\ memory' \in [ready : BOOLEAN, trigger_level : Values, reset_level : Values]
    /\ memory' = parse_addins(request'.addins, memory')
    /\ UNCHANGED <<queue, actions>>

Publish ==
    /\ request # NoRequest
    /\ \E value \in Values : queue' = Append(queue, value)
    /\ UNCHANGED <<request, memory, actions>>

Evaluate ==
    /\ request # NoRequest
    /\ queue # << >>
    /\ LET result == trigger_func(request.channel, request.trigger_name,
                                  memory, Head(queue))
       IN  /\ memory' = [memory EXCEPT !.ready = result.ready]
           /\ actions' = IF result.acts THEN 1 - actions ELSE actions
    /\ queue' = Tail(queue)
    /\ UNCHANGED request

Close ==
    /\ request # NoRequest
    /\ request' = NoRequest
    /\ memory' = NoMemory
    /\ queue' = << >>
    /\ UNCHANGED actions

Next == Open \/ Publish \/ Evaluate \/ Close

Spec == Init /\ [][Next]_vars
=============================================================================
