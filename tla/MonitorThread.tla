---------------------------- MODULE MonitorThread ----------------------------
(***************************************************************************)
(* The monitors of a line: the watch_port threads of monitor.c, which      *)
(* forward the readings of one channel to the portwatcher for a minute.    *)
(* Every AddMonitor request forks a new one, whatever runs already.        *)
(***************************************************************************)
EXTENDS Line

CONSTANTS
    Monitors,         \* monitor threads that may run at the same time
    MonitorChannels,  \* the channels of the workers that fork them
    Nothing           \* no channel, no epoch

ASSUME MonitorAssumption ==
    /\ Monitors \subseteq Subscribers
    /\ MonitorChannels \subseteq Channels
    /\ Nothing \notin Channels \union Nat

VARIABLES
    watch,    \* the program counter of a monitor thread
    watched,  \* the channel of its monitorconfig_t
    expired,  \* its minute is over
    \* History variables.
    source,   \* the epoch of the reading it forwarded last
    overtime  \* readings forwarded after its minute was over, up to 2

monitorVars == <<watch, watched, expired, source, overtime>>

MonitorTypeOK ==
    /\ watch \in [Monitors -> {"none", "deadline", "receive"}]
    /\ watched \in [Monitors -> MonitorChannels \union {Nothing}]
    /\ expired \in [Monitors -> BOOLEAN]
    /\ source \in [Monitors -> Epochs \union {Nothing}]
    /\ overtime \in [Monitors -> 0 .. 2]

MonitorInit ==
    /\ watch = [m \in Monitors |-> "none"]
    /\ watched = [m \in Monitors |-> Nothing]
    /\ expired = [m \in Monitors |-> FALSE]
    /\ source = [m \in Monitors |-> Nothing]
    /\ overtime = [m \in Monitors |-> 0]

-----------------------------------------------------------------------------
\* The part of AddMonitor that concerns this line: the worker forks the thread
\* and waits until it has connected and subscribed.
AddMonitor(m, channel) ==
    /\ watch[m] = "none"
    /\ watch' = [watch EXCEPT ![m] = "deadline"]
    /\ watched' = [watched EXCEPT ![m] = channel]
    /\ UNCHANGED <<lineVars, inbox, expired, source, overtime>>

\* A minute after the monitor's start.
Expire(m) ==
    /\ watch[m] # "none"
    /\ ~expired[m]
    /\ expired' = [expired EXCEPT ![m] = TRUE]
    /\ UNCHANGED <<lineVars, inbox, watch, watched, source, overtime>>

\* The thread leaves its loop and closes its sockets.
Quit(m) ==
    /\ watch' = [watch EXCEPT ![m] = "none"]
    /\ watched' = [watched EXCEPT ![m] = Nothing]
    /\ expired' = [expired EXCEPT ![m] = FALSE]
    /\ source' = [source EXCEPT ![m] = Nothing]
    /\ overtime' = [overtime EXCEPT ![m] = 0]
    /\ inbox' = [inbox EXCEPT ![m] = << >>]
    /\ UNCHANGED lineVars

\* The condition of the loop: the clock is read here and nowhere else.
MeetDeadline(m) ==
    /\ watch[m] = "deadline"
    /\ expired[m]
    /\ Quit(m)

Continue(m) ==
    /\ watch[m] = "deadline"
    /\ ~expired[m]
    /\ watch' = [watch EXCEPT ![m] = "receive"]
    /\ UNCHANGED <<lineVars, inbox, watched, expired, source, overtime>>

\* The blocking receive passes over what the monitor is not subscribed to.
\* Nothing publishes the CLEAR_MONITORS it also subscribes to.
Discard(m) ==
    /\ watch[m] = "receive"
    /\ inbox[m] # << >>
    /\ Head(inbox[m]).cmd = "CHANNEL_CHANGE"
    /\ inbox' = [inbox EXCEPT ![m] = Tail(@)]
    /\ UNCHANGED <<lineVars, monitorVars>>

Receive(m) ==
    /\ watch[m] = "receive"
    /\ inbox[m] # << >>
    /\ Head(inbox[m]).cmd = "VALUE"

\* A slip: the next receive follows without a look at the clock.
ForwardOnAndOn(m) ==
    /\ Receive(m)
    /\ Head(inbox[m]).channel = watched[m]
    /\ source' = [source EXCEPT ![m] = Head(inbox[m]).epoch]
    /\ overtime' = [overtime EXCEPT ![m] =
                        IF expired[m] /\ @ < 2 THEN @ + 1 ELSE @]
    /\ inbox' = [inbox EXCEPT ![m] = Tail(@)]
    /\ UNCHANGED <<lineVars, watch, watched, expired>>

\* A reading of the monitor's channel is forwarded to the portwatcher.
Forward(m) ==
    /\ Receive(m)
    /\ Head(inbox[m]).channel = watched[m]
    /\ source' = [source EXCEPT ![m] = Head(inbox[m]).epoch]
    /\ overtime' = [overtime EXCEPT ![m] =
                        IF expired[m] /\ @ < 2 THEN @ + 1 ELSE @]
    /\ inbox' = [inbox EXCEPT ![m] = Tail(@)]
    /\ watch' = [watch EXCEPT ![m] = "deadline"]
    /\ UNCHANGED <<lineVars, watched, expired>>

\* The line is on another channel: the monitor quits.
LoseChannel(m) ==
    /\ Receive(m)
    /\ Head(inbox[m]).channel # watched[m]
    /\ Quit(m)
=============================================================================
