-------------------------------- MODULE Line --------------------------------
(***************************************************************************)
(* One line: the line_listener thread of line.c and the publish/subscribe  *)
(* socket inproc://lineNNNN it owns.  Every reading of the line's port     *)
(* passes through Debounce and is published as a VALUE if it belongs to    *)
(* the channel the line has settled on, preceded by a CHANNEL_CHANGE if    *)
(* this very reading settled it.                                           *)
(*                                                                         *)
(* The socket is external.  It is taken to give every subscriber an        *)
(* unbounded queue of its own and to filter where a message is received,   *)
(* as ZeroMQ 2 does: a publication reaches every connected subscriber's    *)
(* queue, whatever it subscribes to at that moment.                        *)
(***************************************************************************)
EXTENDS Debounce, Sequences

CONSTANTS
    Values,        \* the readings of a sensor
    Subscribers,   \* the threads that may connect to the line
    EpochModulus,  \* bound: settlings of the line are counted modulo this
    QueueBound,    \* bound: messages waiting in one subscriber's queue
    DoubtBound     \* bound: readings counted by the history variable doubt

ASSUME LineAssumption ==
    /\ Values \subseteq Nat
    /\ EpochModulus \in Nat \ {0}
    /\ QueueBound \in Nat
    /\ DoubtBound \in Nat

VARIABLES
    mem,    \* channel_memory of line_listener
    inbox,  \* for each subscriber, what has been published and not received
    \* History variables: no guard reads them.
    epoch,  \* how often the line has settled on a channel, modulo EpochModulus
    doubt   \* readings of another channel since it last did

lineVars == <<mem, epoch, doubt>>

Epochs == 0 .. EpochModulus - 1

\* The messages of a line.  The epoch is not on the wire: it lets properties
\* tell the times the line was settled on the same channel apart.
ChangeMessage == [cmd : {"CHANNEL_CHANGE"}, channel : Channels, epoch : Epochs]
ValueMessage ==
    [cmd : {"VALUE"}, channel : Channels, value : Values, epoch : Epochs]
Message == ChangeMessage \union ValueMessage

ChannelChange(channel, e) ==
    [cmd |-> "CHANNEL_CHANGE", channel |-> channel, epoch |-> e]
Value(channel, value, e) ==
    [cmd |-> "VALUE", channel |-> channel, value |-> value, epoch |-> e]

LineTypeOK ==
    /\ mem \in ChannelMemory
    /\ inbox \in [Subscribers -> Seq(Message)]
    /\ epoch \in Epochs
    /\ doubt \in 0 .. DoubtBound

LineInit ==
    /\ mem = InitialMemory
    /\ inbox = [s \in Subscribers |-> << >>]
    /\ epoch = 0
    /\ doubt = 0

-----------------------------------------------------------------------------
\* Two slips: the value leaves before the change that explains it, and the
\* reading that settles the line is not published as a value.
PublicationsValueFirst(channel, value, m, e) ==
    IF PortChanged(channel, m)
    THEN <<Value(channel, value, e), ChannelChange(channel, e)>>
    ELSE IF channel = m.current_channel
         THEN <<Value(channel, value, e)>>
         ELSE << >>

PublicationsChangeOnly(channel, value, m, e) ==
    IF PortChanged(channel, m)
    THEN <<ChannelChange(channel, e)>>
    ELSE IF channel = m.current_channel
         THEN <<Value(channel, value, e)>>
         ELSE << >>

\* What line_listener sends for one reading: m is the memory before it, e the
\* epoch after it.
Publications(channel, value, m, e) ==
    IF PortChanged(channel, m)
    THEN <<ChannelChange(channel, e), Value(channel, value, e)>>
    ELSE IF channel = m.current_channel
         THEN <<Value(channel, value, e)>>
         ELSE << >>

NextEpoch(channel, m, e) ==
    IF PortChanged(channel, m) THEN (e + 1) % EpochModulus ELSE e

NextDoubt(channel, m, d) ==
    IF PortChanged(channel, m) THEN 0
    ELSE IF channel # m.current_channel /\ d < DoubtBound THEN d + 1 ELSE d

\* One round of line_listener's loop: a reading arrives and its publications
\* are appended to the queues of the subscribers in connected.  Two of them are
\* one step, as a subscriber that connects between them gets what one that has
\* connected before makes of both: each begins with VALUE alone.
Reading(channel, value, connected) ==
    LET e   == NextEpoch(channel, mem, epoch)
        out == Publications(channel, value, mem, e)
    IN  /\ \A s \in connected : Len(inbox[s]) + Len(out) <= QueueBound
        /\ mem' = Remember(channel, mem)
        /\ inbox' = [s \in Subscribers |->
                        IF s \in connected THEN inbox[s] \o out ELSE inbox[s]]
        /\ epoch' = e
        /\ doubt' = NextDoubt(channel, mem, doubt)

-----------------------------------------------------------------------------
\* What a subscriber can rely on in a queue.  The changes that separate two
\* values of different channels are in the queue with them ...
Announces(msg, channel) == msg.cmd = "CHANNEL_CHANGE" /\ msg.channel = channel

Announced(q) ==
    \A i, j \in DOMAIN q :
        /\ i < j
        /\ q[i].cmd = "VALUE"
        /\ q[j].cmd = "VALUE"
        /\ q[i].channel # q[j].channel
        => \E k \in DOMAIN q : i < k /\ k < j /\ Announces(q[k], q[j].channel)

\* ... and behind a value of a channel the line has left, its way to channel.
UpToDate(q, channel) ==
    \A i \in DOMAIN q :
        q[i].cmd = "VALUE" /\ q[i].channel # channel
            => \E k \in DOMAIN q : i < k /\ Announces(q[k], channel)

\* What a subscriber that follows one channel takes from a queue: the readings
\* of that channel among the first i messages, in their order.
IsValueOf(msg, channel) == msg.cmd = "VALUE" /\ msg.channel = channel

ReadingsUpTo(q, channel) ==
    LET readings[i \in 0 .. Len(q)] ==
            IF i = 0 THEN << >>
            ELSE IF IsValueOf(q[i], channel)
                 THEN Append(readings[i - 1], q[i].value)
                 ELSE readings[i - 1]
    IN  readings

ReadingsOf(q, channel) == ReadingsUpTo(q, channel)[Len(q)]
=============================================================================
