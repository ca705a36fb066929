--------------------------- MODULE FeedRefinement ---------------------------
(***************************************************************************)
(* A trigger thread implements ValueFeed: changes of the line's channel    *)
(* and the dormancy they cause neither lose, repeat nor reorder the        *)
(* readings of its rule's channel.                                         *)
(***************************************************************************)
EXTENDS LineBus

CONSTANT aTrigger  \* the rule that is looked at, any one

ASSUME FeedAssumption == aTrigger \in Triggers

Listening == thread[aTrigger] = "polling"

\* The feed serves the request of a thread that polls, and its queue holds the
\* readings of the rule's channel among the messages of the thread's queue.
Feed == INSTANCE ValueFeed WITH
    request <- IF Listening THEN config[aTrigger] ELSE NoRequest,
    memory  <- memory[aTrigger],
    queue   <- IF Listening THEN ReadingsOf(inbox[aTrigger], config[aTrigger].channel)
               ELSE << >>,
    actions <- actions[aTrigger]

\* A reading of the rule's channel that is published while its thread listens
\* is put to the trigger function once and in its turn, however the thread
\* goes dormant and wakes up in between (trigger.c:294-338).
FeedsTrigger == Feed!Spec
=============================================================================
