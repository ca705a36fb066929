------------------------------- MODULE Startup -------------------------------
(***************************************************************************)
(* How the program comes up: main.c forks the serial relay, the line       *)
(* dispatcher and three workers one after the other and shakes hands with  *)
(* each before it forks the next.  The dispatcher forks the line listeners *)
(* when the first reading of their port arrives and shakes hands with main *)
(* only after that, because rules and monitors connect to the lines.       *)
(*                                                                         *)
(* A parent sends its ping as soon as it has forked a child, so where the  *)
(* child stands tells whether the ping has been read; answered holds the   *)
(* children of main whose pong is out.                                     *)
(***************************************************************************)
EXTENDS Naturals, Sequences

CONSTANTS
    Ports,      \* the ports that the board names in every clean line
    FeedLines,  \* what a line of the serial feed may be
    FeedBound   \* bound: lines waiting in the dispatcher's queue

\* A clean line names every port; noise is not JSON, like the text the board
\* prints between its readings; a fragment is JSON, but has no "ports".
ASSUME StartupAssumption ==
    /\ Ports \in Nat \ {0}
    /\ FeedLines \subseteq {"clean", "noise", "fragment"}
    /\ FeedBound \in Nat

Lines    == 1 .. Ports
Workers  == {"distance", "light", "button"}
Children == <<"relay", "dispatcher", "distance", "light", "button">>

VARIABLES
    main,        \* how many children main has shaken hands with
    answered,    \* the children whose "pong" is out
    relay,       \* read_serial
    bound,       \* the relay has bound inproc://raw_serial
    dispatcher,  \* line_dispatcher
    connected,   \* its socket is connected to the relay
    feed,        \* lines published by the relay and not yet received
    port,        \* the port it has reached in the line at hand, 0 between lines
    lines,       \* the ports whose listener it has forked
    line,        \* the line_listeners
    worker       \* the generic_workers

vars == <<main, answered, relay, bound, dispatcher, connected, feed, port,
          lines, line, worker>>

mainVars       == <<main, answered>>
relayVars      == <<relay, bound>>
dispatcherVars == <<dispatcher, port, lines>>
busVars        == <<connected, feed>>

TypeOK ==
    /\ main \in 0 .. Len(Children)
    /\ answered \subseteq {Children[i] : i \in DOMAIN Children}
    /\ relay \in {"none", "first line", "ping", "bind", "read", "ended"}
    /\ bound \in BOOLEAN
    /\ dispatcher \in {"none", "connect", "receive", "port", "fork", "publish",
                       "answer", "crashed"}
    /\ connected \in BOOLEAN
    /\ feed \in Seq(FeedLines) /\ Len(feed) <= FeedBound
    /\ port \in 0 .. Ports
    /\ lines \subseteq Lines
    /\ line \in [Lines -> {"none", "forked", "connected", "answered"}]
    /\ worker \in [Workers -> {"none", "forked", "reloading", "serving"}]

Init ==
    /\ main = 0
    /\ answered = {}
    /\ relay = "none"
    /\ bound = FALSE
    /\ dispatcher = "none"
    /\ connected = FALSE
    /\ feed = << >>
    /\ port = 0
    /\ lines = {}
    /\ line = [i \in Lines |-> "none"]
    /\ worker = [w \in Workers |-> "none"]

-----------------------------------------------------------------------------
\* main.

NextChild == Children[main + 1]

Fork ==
    /\ main < Len(Children)
    /\ \/ /\ NextChild = "relay"
          /\ relay = "none"
          /\ relay' = "first line"
          /\ UNCHANGED <<dispatcher, worker>>
       \/ /\ NextChild = "dispatcher"
          /\ dispatcher = "none"
          /\ dispatcher' = "connect"
          /\ UNCHANGED <<relay, worker>>
       \/ /\ NextChild \in Workers
          /\ worker[NextChild] = "none"
          /\ worker' = [worker EXCEPT ![NextChild] = "forked"]
          /\ UNCHANGED <<relay, dispatcher>>
    /\ UNCHANGED <<mainVars, bound, busVars, port, lines, line>>

\* The end of parent_handshake.
Pong ==
    /\ main < Len(Children)
    /\ NextChild \in answered
    /\ main' = main + 1
    /\ UNCHANGED <<answered, relayVars, dispatcherVars, busVars, line, worker>>

-----------------------------------------------------------------------------
\* The serial relay.

\* The first line of the feed is thrown away.
FirstLine ==
    /\ relay = "first line"
    /\ relay' = "ping"
    /\ UNCHANGED <<mainVars, bound, dispatcherVars, busVars, line, worker>>

RelayAnswer ==
    /\ relay = "ping"
    /\ relay' = "bind"
    /\ answered' = answered \union {"relay"}
    /\ UNCHANGED <<main, bound, dispatcherVars, busVars, line, worker>>

RelayBind ==
    /\ relay = "bind"
    /\ relay' = "read"
    /\ bound' = TRUE
    /\ UNCHANGED <<mainVars, dispatcherVars, busVars, line, worker>>

\* A line of the feed is published to whoever is connected.
RelayLine ==
    /\ relay = "read"
    /\ Len(feed) < FeedBound
    /\ \E kind \in FeedLines :
          feed' = IF connected THEN Append(feed, kind) ELSE feed
    /\ UNCHANGED <<mainVars, relayVars, dispatcherVars, connected, line, worker>>

\* The feed is at its end: the relay closes its socket and returns.
RelayEnd ==
    /\ relay = "read"
    /\ relay' = "ended"
    /\ bound' = FALSE
    /\ UNCHANGED <<mainVars, dispatcherVars, busVars, line, worker>>

-----------------------------------------------------------------------------
\* The line dispatcher.

\* An endpoint of this kind must be bound before anyone connects to it: a
\* connection that comes too early fails, and nothing tries it again.
DispatcherConnect ==
    /\ dispatcher = "connect"
    /\ dispatcher' = "receive"
    /\ connected' = bound
    /\ UNCHANGED <<mainVars, relayVars, feed, port, lines, line, worker>>

\* A line arrives.  Noise is passed over.  In a fragment the dispatcher looks
\* for ports all the same, and dereferences the null it finds.
DispatcherReceive ==
    /\ dispatcher = "receive"
    /\ feed # << >>
    /\ feed' = Tail(feed)
    /\ \/ /\ Head(feed) = "clean"
          /\ dispatcher' = "port"
          /\ port' = 1
       \/ /\ Head(feed) = "noise"
          /\ UNCHANGED <<dispatcher, port>>
       \/ /\ Head(feed) = "fragment"
          /\ dispatcher' = "crashed"
          /\ UNCHANGED port
    /\ UNCHANGED <<mainVars, relayVars, connected, lines, line, worker>>

\* A slip: the dispatcher does not wait for the listener it has forked.
ForkLineAndGoOn ==
    /\ dispatcher = "port"
    /\ port \notin lines
    /\ line' = [line EXCEPT ![port] = "forked"]
    /\ dispatcher' = "publish"
    /\ lines' = lines \union {port}
    /\ UNCHANGED <<mainVars, relayVars, port, busVars, worker>>

\* The first reading of a port: its listener is forked, and the dispatcher
\* waits for its pong.
ForkLine ==
    /\ dispatcher = "port"
    /\ port \notin lines
    /\ line' = [line EXCEPT ![port] = "forked"]
    /\ dispatcher' = "fork"
    /\ UNCHANGED <<mainVars, relayVars, port, lines, busVars, worker>>

LineForked ==
    /\ dispatcher = "fork"
    /\ line[port] = "answered"
    /\ dispatcher' = "publish"
    /\ lines' = lines \union {port}
    /\ UNCHANGED <<mainVars, relayVars, port, busVars, line, worker>>

KnownLine ==
    /\ dispatcher = "port"
    /\ port \in lines
    /\ dispatcher' = "publish"
    /\ UNCHANGED <<mainVars, relayVars, port, lines, busVars, line, worker>>

\* Two slips: the walk over the ports goes one too far, and the dispatcher
\* never comes to its own handshake.
PublishOneMore ==
    /\ dispatcher = "publish"
    /\ port' = port + 1
    /\ dispatcher' = "port"
    /\ UNCHANGED <<mainVars, relayVars, lines, busVars, line, worker>>

PublishAndReceive ==
    /\ dispatcher = "publish"
    /\ port' = (port + 1) % (Ports + 1)
    /\ dispatcher' = IF port < Ports THEN "port" ELSE "receive"
    /\ UNCHANGED <<mainVars, relayVars, lines, busVars, line, worker>>

\* The reading of the port goes out under the topic of its line.  The line at
\* hand is done when that was the last port.
Publish ==
    /\ dispatcher = "publish"
    /\ port' = (port + 1) % (Ports + 1)
    /\ dispatcher' = IF port < Ports THEN "port"
                     ELSE IF "dispatcher" \in answered THEN "receive"
                     ELSE "answer"
    /\ UNCHANGED <<mainVars, relayVars, lines, busVars, line, worker>>

\* A slip: the dispatcher answers before it has seen a line.
DispatcherAnswerAtOnce ==
    /\ dispatcher \in {"receive", "answer"}
    /\ "dispatcher" \notin answered
    /\ dispatcher' = "receive"
    /\ answered' = answered \union {"dispatcher"}
    /\ UNCHANGED <<main, relayVars, port, lines, busVars, line, worker>>

\* The dispatcher's own handshake, once.
DispatcherAnswer ==
    /\ dispatcher = "answer"
    /\ dispatcher' = "receive"
    /\ answered' = answered \union {"dispatcher"}
    /\ UNCHANGED <<main, relayVars, port, lines, busVars, line, worker>>

-----------------------------------------------------------------------------
\* The line listeners and the workers.

\* A listener binds its own endpoint, subscribes and connects.
LineConnect(i) ==
    /\ line[i] = "forked"
    /\ line' = [line EXCEPT ![i] = "connected"]
    /\ UNCHANGED <<mainVars, relayVars, dispatcherVars, busVars, worker>>

LineAnswer(i) ==
    /\ line[i] = "connected"
    /\ line' = [line EXCEPT ![i] = "answered"]
    /\ UNCHANGED <<mainVars, relayVars, dispatcherVars, busVars, worker>>

\* A worker answers first; main does not wait until it has loaded its rules.
WorkerAnswer(w) ==
    /\ worker[w] = "forked"
    /\ worker' = [worker EXCEPT ![w] = "reloading"]
    /\ answered' = answered \union {w}
    /\ UNCHANGED <<main, relayVars, dispatcherVars, busVars, line>>

WorkerServe(w) ==
    /\ worker[w] = "reloading"
    /\ worker' = [worker EXCEPT ![w] = "serving"]
    /\ UNCHANGED <<mainVars, relayVars, dispatcherVars, busVars, line>>

-----------------------------------------------------------------------------
Relay == FirstLine \/ RelayAnswer \/ RelayBind \/ RelayLine \/ RelayEnd

Dispatcher ==
    \/ DispatcherConnect
    \/ DispatcherReceive
    \/ ForkLine
    \/ LineForked
    \/ KnownLine
    \/ Publish
    \/ DispatcherAnswer

LineListener(i) == LineConnect(i) \/ LineAnswer(i)
Worker(w)       == WorkerAnswer(w) \/ WorkerServe(w)

\* A crash of the dispatcher takes the whole process with it.
Next ==
    /\ dispatcher # "crashed"
    /\ \/ Fork
       \/ Pong
       \/ Relay
       \/ Dispatcher
       \/ \E i \in Lines : LineListener(i)
       \/ \E w \in Workers : Worker(w)

Spec == Init /\ [][Next]_vars

-----------------------------------------------------------------------------
\* Nobody connects to a line that does not exist yet: workers reload their
\* rules, and take requests for monitors, only when every line's endpoint is
\* bound (filter.c:88-91, worker.c:157-158).
LinesBeforeRules ==
    \A w \in Workers : worker[w] \in {"reloading", "serving"} =>
        \A i \in Lines : line[i] \in {"connected", "answered"}

\* No reading of a port is published before its listener can hear it, and no
\* listener is forked for a port that has one (filter.c:62-81).
ReadingsAreHeard ==
    /\ dispatcher = "publish" => line[port] = "answered"
    /\ \A i \in Lines : line[i] = "answered" /\ dispatcher # "fork" => i \in lines

\* The relay's pong means that it can be connected to: it reports "bound"
\* before it answers (serial_relay.c:15), and main "Started serial relay!"
\* (main.c:39).
RelayIsBound == [][DispatcherConnect => bound]_vars

\* A feed that is not clean does not stop the program (filter.c:36-40).
UncleanFeedIsSkipped == dispatcher # "crashed"

\* A clean line reaches the dispatcher's queue.
CleanLine == RelayLine /\ connected /\ feed' = Append(feed, "clean")
=============================================================================
