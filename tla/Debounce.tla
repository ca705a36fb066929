------------------------------ MODULE Debounce ------------------------------
(***************************************************************************)
(* How a line decides which kind of sensor is plugged in: port_changed of  *)
(* line.c.  The Arduino names a channel with every reading; the line moves *)
(* to another channel only after enough readings have named it, so that a  *)
(* sensor half pushed into its socket does not switch the rules over.      *)
(***************************************************************************)
EXTENDS Naturals

CONSTANTS
    Channels,   \* the channels a reading may name, "unknown" among them
    NoChannel,  \* the null next_channel left behind by a change
    LIMIT       \* line.c:22

ASSUME DebounceAssumption ==
    /\ "unknown" \in Channels
    /\ NoChannel \notin Channels
    /\ LIMIT \in Nat

ChannelMemory ==
    [current_channel  : Channels,
     next_channel     : Channels \union {NoChannel},
     confirmed_rounds : 0 .. LIMIT + 1]

\* The memory line_listener starts with.
InitialMemory ==
    [current_channel  |-> "unknown",
     next_channel     |-> "unknown",
     confirmed_rounds |-> 0]

\* Two ways to get the limit wrong by one.
PortChangedTooLate(channel, m) ==
    /\ channel # m.current_channel
    /\ channel = m.next_channel
    /\ m.confirmed_rounds > LIMIT + 1

PortChangedTooEarly(channel, m) ==
    /\ channel # m.current_channel
    /\ channel = m.next_channel
    /\ m.confirmed_rounds >= LIMIT

\* The return value of port_changed.
PortChanged(channel, m) ==
    /\ channel # m.current_channel
    /\ channel = m.next_channel
    /\ m.confirmed_rounds > LIMIT

\* A slip: a second reading of the candidate forgets it instead of counting.
RememberForgetting(channel, m) ==
    IF channel = m.current_channel
    THEN m
    ELSE IF channel # m.next_channel
         THEN [m EXCEPT !.next_channel = channel]
         ELSE [m EXCEPT !.next_channel = NoChannel, !.confirmed_rounds = 0]

\* The memory port_changed leaves behind.  A reading of the current channel
\* changes nothing, and neither it nor a new candidate clears the rounds the
\* previous candidate has collected.
Remember(channel, m) ==
    IF channel = m.current_channel
    THEN m
    ELSE IF channel # m.next_channel
         THEN [m EXCEPT !.next_channel = channel]
         ELSE IF PortChanged(channel, m)
              THEN [current_channel  |-> channel,
                    next_channel     |-> NoChannel,
                    confirmed_rounds |-> 0]
              ELSE [m EXCEPT !.confirmed_rounds = @ + 1]
=============================================================================
