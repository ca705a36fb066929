-------------------------------- MODULE Mdwrk --------------------------------
(***************************************************************************)
(* A worker's session with the broker: mdwrkapi.c, in discrete time.  The  *)
(* worker registers with READY, waits for requests in mdwrk_recv, sends a  *)
(* HEARTBEAT when one is due, and connects again when the broker tells it  *)
(* to or has been quiet for too long.                                      *)
(*                                                                         *)
(* The broker is external and may send anything at any time.  Time passes  *)
(* in ticks, and a poll or a sleep that has run out ends before the next   *)
(* tick: the machine is taken to be fast compared with a tick.             *)
(***************************************************************************)
EXTENDS Integers, Sequences

CONSTANTS
    HEARTBEAT,           \* self->heartbeat in ticks
    RECONNECT,           \* self->reconnect in ticks
    HEARTBEAT_LIVENESS,  \* silent polls after which the broker counts as gone
    QueueBound,          \* bound: messages waiting in the worker's socket
    PatienceBound        \* bound: ticks a caller takes over one request

ASSUME MdwrkAssumption ==
    /\ HEARTBEAT \in Nat \ {0}
    /\ RECONNECT \in Nat \ {0}
    /\ HEARTBEAT_LIVENESS \in Nat \ {0}
    /\ QueueBound \in Nat
    /\ PatienceBound \in Nat

Commands == {"REQUEST", "HEARTBEAT", "DISCONNECT", "invalid"}

VARIABLES
    pc,        \* "none" without a session, otherwise where mdwrk_recv is
    down,      \* what the broker has sent on the connection, not yet received
    liveness,  \* polls the broker may still miss
    due,       \* ticks until heartbeat_at, -1 once it has passed
    left,      \* ticks left of the poll or the sleep in progress
    \* History variables.
    silence,   \* ticks since the worker last sent anything
    quiet      \* ticks of polling since it last received anything

vars == <<pc, down, liveness, due, left, silence, quiet>>

TypeOK ==
    /\ pc \in {"none", "poll", "sleep", "handle"}
    /\ down \in Seq(Commands)
    /\ liveness \in 0 .. HEARTBEAT_LIVENESS
    /\ liveness = 0 => pc = "sleep"
    /\ due \in -1 .. HEARTBEAT
    /\ left \in Nat /\ (pc = "poll" => left <= HEARTBEAT)
    /\ silence \in Nat
    /\ quiet \in Nat

Init ==
    /\ pc = "none"
    /\ down = << >>
    /\ liveness = HEARTBEAT_LIVENESS
    /\ due = HEARTBEAT
    /\ left = 0
    /\ silence = 0
    /\ quiet = 0

-----------------------------------------------------------------------------
\* s_mdwrk_connect_to_broker: a new socket, READY, and both counters reset.
ConnectToBroker ==
    /\ down' = << >>
    /\ liveness' = HEARTBEAT_LIVENESS
    /\ due' = HEARTBEAT
    /\ silence' = 0

\* The end of a round of mdwrk_recv's loop: a HEARTBEAT if it is time for one.
HeartbeatIfDue ==
    IF due < 0
    THEN silence' = 0 /\ due' = HEARTBEAT
    ELSE UNCHANGED <<silence, due>>

\* The loop goes round: zmq_poll with the heartbeat delay as its timeout.
PollAgain ==
    /\ pc' = "poll"
    /\ left' = HEARTBEAT

\* mdwrk_new, and the first mdwrk_recv, which has no reply to send.
New ==
    /\ pc = "none"
    /\ ConnectToBroker
    /\ PollAgain
    /\ quiet' = 0

\* mdwrk_recv with the reply to the last request.
Recv ==
    /\ pc = "handle"
    /\ silence' = 0
    /\ quiet' = 0
    /\ PollAgain
    /\ UNCHANGED <<down, liveness, due>>

\* A message ends the poll.
Received(command) ==
    /\ pc = "poll"
    /\ down # << >>
    /\ Head(down) = command
    /\ quiet' = 0

\* Receiving a request returns it at once, without a look at the heartbeat.
ReceiveRequest ==
    /\ Received("REQUEST")
    /\ pc' = "handle"
    /\ down' = Tail(down)
    /\ liveness' = HEARTBEAT_LIVENESS
    /\ left' = 0
    /\ UNCHANGED <<due, silence>>

\* Two slips: the message does not count as a sign of life, and the heartbeat
\* is left to the polls that time out.
ReceiveOtherUnnoticed ==
    /\ Received("HEARTBEAT") \/ Received("invalid")
    /\ down' = Tail(down)
    /\ HeartbeatIfDue
    /\ PollAgain
    /\ UNCHANGED liveness

ReceiveOtherAndGoOn ==
    /\ Received("HEARTBEAT") \/ Received("invalid")
    /\ down' = Tail(down)
    /\ liveness' = HEARTBEAT_LIVENESS
    /\ PollAgain
    /\ UNCHANGED <<due, silence>>

\* A HEARTBEAT, or a command the worker does not know.
ReceiveOther ==
    /\ Received("HEARTBEAT") \/ Received("invalid")
    /\ down' = Tail(down)
    /\ liveness' = HEARTBEAT_LIVENESS
    /\ HeartbeatIfDue
    /\ PollAgain

ReceiveDisconnect ==
    /\ Received("DISCONNECT")
    /\ ConnectToBroker
    /\ PollAgain

\* Two slips with liveness: it is compared before it is decremented, and it is
\* never decremented.
TimeOutLate ==
    /\ pc = "poll"
    /\ left = 0
    /\ down = << >>
    /\ liveness' = liveness - 1
    /\ IF liveness = 0
       THEN pc' = "sleep" /\ left' = RECONNECT /\ UNCHANGED <<silence, due>>
       ELSE HeartbeatIfDue /\ PollAgain
    /\ UNCHANGED <<down, quiet>>

TimeOutPatiently ==
    /\ pc = "poll"
    /\ left = 0
    /\ down = << >>
    /\ HeartbeatIfDue
    /\ PollAgain
    /\ UNCHANGED <<down, liveness, quiet>>

\* The poll times out: one life less, and with the last the broker counts as
\* gone.
TimeOut ==
    /\ pc = "poll"
    /\ left = 0
    /\ down = << >>
    /\ liveness' = liveness - 1
    /\ IF liveness' = 0
       THEN pc' = "sleep" /\ left' = RECONNECT /\ UNCHANGED <<silence, due>>
       ELSE HeartbeatIfDue /\ PollAgain
    /\ UNCHANGED <<down, quiet>>

\* zclock_sleep is over.
Reconnect ==
    /\ pc = "sleep"
    /\ left = 0
    /\ ConnectToBroker
    /\ PollAgain
    /\ quiet' = 0

\* The caller ends the session: an interrupted mdwrk_recv, or a camera that
\* has gone while a request was handled.
Destroy ==
    /\ pc \in {"poll", "handle"}
    /\ pc' = "none"
    /\ down' = << >>
    /\ left' = 0
    /\ UNCHANGED <<liveness, due, silence, quiet>>

BrokerSends ==
    /\ pc # "none"
    /\ Len(down) < QueueBound
    /\ \E command \in Commands : down' = Append(down, command)
    /\ UNCHANGED <<pc, liveness, due, left, silence, quiet>>

Tick ==
    /\ \/ pc = "poll" /\ left > 0 /\ down = << >>
       \/ pc = "sleep" /\ left > 0
       \/ pc = "handle" /\ silence < PatienceBound
    /\ left' = IF left > 0 THEN left - 1 ELSE 0
    /\ due' = IF due >= 0 THEN due - 1 ELSE -1
    /\ silence' = silence + 1
    /\ quiet' = IF pc = "poll" THEN quiet + 1 ELSE quiet
    /\ UNCHANGED <<pc, down, liveness>>

Next ==
    \/ New
    \/ Recv
    \/ ReceiveRequest
    \/ ReceiveOther
    \/ ReceiveDisconnect
    \/ TimeOut
    \/ Reconnect
    \/ Destroy
    \/ BrokerSends
    \/ Tick

Spec == Init /\ [][Next]_vars

-----------------------------------------------------------------------------
\* A worker that waits for requests is never silent for longer than twice the
\* heartbeat delay, whatever the broker sends and however its polls and its
\* heartbeats fall: it does not outlast the three delays a broker waits
\* (mdwrkapi.c:186 and 240-243).
IdleWorkerIsHeard == pc = "poll" => silence <= 2 * HEARTBEAT

\* The worker gives its connection up on its own only after HEARTBEAT_LIVENESS
\* full delays without a message (mdwrkapi.c:99 and 233) ...
NoHastyReconnect ==
    [][pc = "poll" /\ pc' = "sleep" => quiet >= HEARTBEAT_LIVENESS * HEARTBEAT]_vars

\* ... and never polls for longer than that.
DeadBrokerIsNoticed ==
    pc = "poll" => quiet <= HEARTBEAT_LIVENESS * HEARTBEAT

\* The inductive invariant of MdwrkProofs.  How long the worker has been silent
\* is told by the heartbeat while that is not due, and by the poll in progress
\* once it is; how long the broker has been is told by the lives it has left.
Missed(lives) == (HEARTBEAT_LIVENESS - lives) * HEARTBEAT

Pace ==
    /\ pc = "handle" => liveness = HEARTBEAT_LIVENESS
    /\ pc = "poll" =>
          /\ due >= 0 => silence + due <= HEARTBEAT
          /\ due = -1 => silence + left <= 2 * HEARTBEAT
          /\ quiet + left = Missed(liveness) + HEARTBEAT

IInv == TypeOK /\ Pace
=============================================================================
