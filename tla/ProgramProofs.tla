----------------------------- MODULE ProgramProofs -----------------------------
(***************************************************************************)
(* Proofs about Program, for any number of ports, any feed and any files:  *)
(* in every life of the program the lines are there before anything        *)
(* connects to them, and every life goes by the name that the row holds.   *)
(***************************************************************************)
EXTENDS Program, SequenceTheorems, TLAPS

\* main forks a worker only when the dispatcher has answered.
ForkInv ==
    /\ main >= 2 => "dispatcher" \in answered
    /\ \A w \in Workers : worker[w] # "none" => main >= 2

\* The walk over the ports of a feed line: the ports behind the dispatcher have
\* their lines, and in the end all have.
WalkInv ==
    /\ dispatcher \in {"port", "fork", "publish"} =>
          port \in Lines /\ 1 .. port - 1 \subseteq lines
    /\ dispatcher = "publish" => port \in lines
    /\ dispatcher = "answer" \/ "dispatcher" \in answered => lines = Lines

\* The dispatcher knows all listeners but one that it waits for.
ListenerInv ==
    /\ \A i \in lines : line[i] = "answered"
    /\ \A i \in Lines \ lines : line[i] # "none" => dispatcher = "fork" /\ i = port

StartupInv == TypeOK /\ ForkInv /\ WalkInv /\ ListenerInv

\* What the process runs with is the row, or the file the row was written from,
\* or a file of which no row could be written.
NameInv ==
    config # Null =>
        \/ config = row
        \/ config \in Files /\ row \in {Written(config), Null}

\* Only a configured process serves, and only a running one has threads.
LifeInv ==
    /\ ~up => \A w \in Workers : worker[w] = "none"
    /\ Serving => config # Null

ProgramInv == ProgramTypeOK /\ StartupInv /\ NameInv /\ LifeInv

-----------------------------------------------------------------------------
LEMMA ChildrenFacts ==
    /\ Len(Children) = 5
    /\ Children[1] = "relay" /\ Children[2] = "dispatcher"
    /\ Children[3] = "distance" /\ Children[4] = "light" /\ Children[5] = "button"
    /\ Workers \subseteq {Children[i] : i \in DOMAIN Children}
BY DEF Children, Workers

LEMMA ChildToCome == ASSUME TypeOK, Fork \/ Pong PROVE main \in 0 .. 4
<1>1. main \in 0 .. Len(Children)
  BY DEF TypeOK
<1>2. main < Len(Children)
  BY DEF Fork, Pong
<1> QED
  BY <1>1, <1>2, ChildrenFacts

LEMMA NextPort ==
    ASSUME port \in Lines
    PROVE  /\ port < Ports => (port + 1) % (Ports + 1) = port + 1
           /\ port = Ports => (port + 1) % (Ports + 1) = 0
BY StartupAssumption DEF Lines

LEMMA InitStartupInv == Init => StartupInv
<1> SUFFICES ASSUME Init PROVE StartupInv
  OBVIOUS
<1>1. TypeOK
  <2>1. 0 \in 0 .. Len(Children) /\ 0 \in 0 .. Ports
    BY StartupAssumption, ChildrenFacts
  <2>2. feed \in Seq(FeedLines) /\ Len(feed) <= FeedBound
    BY StartupAssumption, EmptySeq DEF Init
  <2> QED
    BY <2>1, <2>2 DEF Init, TypeOK
<1>2. ForkInv /\ WalkInv /\ ListenerInv
  BY DEF Init, ForkInv, WalkInv, ListenerInv
<1> QED
  BY <1>1, <1>2 DEF StartupInv

\* What is in the dispatcher's queue are lines of the feed, and never too many.
LEMMA FeedType ==
    ASSUME TypeOK, RelayLine \/ DispatcherReceive
    PROVE  feed' \in Seq(FeedLines) /\ Len(feed') <= FeedBound
<1>1. feed \in Seq(FeedLines) /\ Len(feed) \in Nat /\ Len(feed) <= FeedBound
  BY LenProperties DEF TypeOK
<1>2. CASE RelayLine
  <2>1. Len(feed) < FeedBound /\ \E kind \in FeedLines :
           feed' = IF connected THEN Append(feed, kind) ELSE feed
    BY <1>2 DEF RelayLine
  <2> QED
    BY <1>1, <2>1, AppendProperties, StartupAssumption
<1>3. CASE DispatcherReceive
  <2>1. feed # << >> /\ feed' = Tail(feed)
    BY <1>3 DEF DispatcherReceive
  <2>2. feed' \in Seq(FeedLines) /\ Len(feed') = Len(feed) - 1
    BY <1>1, <2>1, HeadTailProperties
  <2> QED
    BY <1>1, <2>2, StartupAssumption
<1> QED
  BY <1>2, <1>3

LEMMA MainStep ==
    ASSUME StartupInv, Fork \/ Pong
    PROVE  StartupInv'
<1> USE DEF StartupInv
<1>1. CASE Fork
  <2>1. main \in 0 .. 4
    BY <1>1, ChildToCome
  <2>0. UNCHANGED <<main, answered, bound, connected, feed, port, lines, line>>
    BY <1>1 DEF Fork, mainVars, busVars
  <2>2. CASE NextChild = "relay" /\ relay' = "first line"
             /\ UNCHANGED <<dispatcher, worker>>
    BY <2>0, <2>1, <2>2 DEF TypeOK, ForkInv, WalkInv, ListenerInv
  <2>3. CASE NextChild = "dispatcher" /\ dispatcher = "none" /\ dispatcher' = "connect"
             /\ UNCHANGED <<relay, worker>>
    BY <2>0, <2>1, <2>3 DEF TypeOK, ForkInv, WalkInv, ListenerInv
  <2>4. CASE NextChild \in Workers /\ worker' = [worker EXCEPT ![NextChild] = "forked"]
             /\ UNCHANGED <<relay, dispatcher>>
    <3>1. main >= 2
      BY <2>0, <2>1, <2>4, ChildrenFacts DEF NextChild, Workers
    <3> QED
      BY <2>0, <2>1, <2>4, <3>1 DEF TypeOK, ForkInv, WalkInv, ListenerInv
  <2> QED
    BY <1>1, <2>2, <2>3, <2>4 DEF Fork
<1>2. CASE Pong
  <2>0. main \in 0 .. 4
    BY <1>2, ChildToCome
  <2>1. /\ main' = main + 1 /\ NextChild \in answered
        /\ UNCHANGED <<answered, relay, bound, dispatcher, connected, feed, port, lines,
                       line, worker>>
    BY <1>2 DEF Pong, relayVars, dispatcherVars, busVars
  <2>2. main' \in 0 .. Len(Children)
    BY <2>0, <2>1, ChildrenFacts
  <2>3. main = 1 => "dispatcher" \in answered
    BY <2>1, ChildrenFacts DEF NextChild
  <2>4. ForkInv'
    BY <2>0, <2>1, <2>3 DEF ForkInv
  <2> QED
    BY <2>1, <2>2, <2>4 DEF TypeOK, WalkInv, ListenerInv
<1> QED
  BY <1>1, <1>2

LEMMA RelayStep ==
    ASSUME StartupInv, Relay
    PROVE  StartupInv'
<1> USE DEF StartupInv, Relay
<1>1. /\ UNCHANGED <<main, dispatcher, connected, port, lines, line, worker>>
      /\ answered' = answered \/ answered' = answered \union {"relay"}
  BY DEF FirstLine, RelayAnswer, RelayBind, RelayLine, RelayEnd, mainVars, relayVars,
     dispatcherVars, busVars
<1>2. feed' \in Seq(FeedLines) /\ Len(feed') <= FeedBound
  <2>1. RelayLine \/ feed' = feed
    BY DEF FirstLine, RelayAnswer, RelayBind, RelayEnd, busVars
  <2> QED
    BY <2>1, FeedType DEF TypeOK
<1>3. /\ relay' \in {"none", "first line", "ping", "bind", "read", "ended"}
      /\ bound' \in BOOLEAN
  BY DEF FirstLine, RelayAnswer, RelayBind, RelayLine, RelayEnd, relayVars, TypeOK
<1>4. "relay" \in {Children[i] : i \in DOMAIN Children}
  <2>1. 1 \in DOMAIN Children
    BY DEF Children
  <2> QED
    BY <2>1, ChildrenFacts
<1>5. TypeOK'
  BY <1>1, <1>2, <1>3, <1>4 DEF TypeOK
<1> QED
  BY <1>1, <1>5 DEF ForkInv, WalkInv, ListenerInv

LEMMA DispatcherStep ==
    ASSUME StartupInv, Dispatcher
    PROVE  StartupInv'
<1> USE DEF StartupInv
<1>0. /\ Ports \in Nat /\ 1 \in Lines /\ Lines \subseteq 0 .. Ports
      /\ TypeOK
  BY StartupAssumption DEF Lines
<1>1. CASE DispatcherConnect
  BY <1>0, <1>1 DEF DispatcherConnect, mainVars, relayVars, TypeOK, ForkInv, WalkInv,
     ListenerInv
<1>2. CASE DispatcherReceive
  <2>1. /\ dispatcher = "receive"
        /\ \/ dispatcher' = "port" /\ port' = 1
           \/ dispatcher' \in {"receive", "crashed"} /\ port' = port
        /\ UNCHANGED <<main, answered, relay, bound, connected, lines, line, worker>>
    BY <1>2 DEF DispatcherReceive, mainVars, relayVars
  <2>2. TypeOK'
    BY <1>0, <1>2, <2>1, FeedType DEF TypeOK
  <2>3. 1 .. port' - 1 = {} \/ dispatcher' # "port"
    BY <2>1
  <2>4. ForkInv' /\ WalkInv' /\ ListenerInv'
    BY <1>0, <2>1, <2>3 DEF ForkInv, WalkInv, ListenerInv
  <2> QED
    BY <2>2, <2>4
<1>3. CASE ForkLine
  <2>1. /\ dispatcher = "port" /\ port \notin lines /\ port \in Lines
        /\ line' = [line EXCEPT ![port] = "forked"]
        /\ dispatcher' = "fork"
        /\ UNCHANGED <<main, answered, relay, bound, connected, feed, port, lines, worker>>
    BY <1>3 DEF ForkLine, mainVars, relayVars, busVars, WalkInv
  <2>2. TypeOK'
    BY <2>1 DEF TypeOK
  <2>3. ForkInv' /\ WalkInv'
    BY <2>1 DEF ForkInv, WalkInv
  <2>4. ListenerInv'
    BY <2>1 DEF TypeOK, ListenerInv
  <2> QED
    BY <2>2, <2>3, <2>4
<1>4. CASE LineForked
  <2>1. /\ dispatcher = "fork" /\ line[port] = "answered" /\ port \in Lines
        /\ dispatcher' = "publish"
        /\ lines' = lines \union {port}
        /\ UNCHANGED <<main, answered, relay, bound, connected, feed, port, line, worker>>
    BY <1>4 DEF LineForked, mainVars, relayVars, busVars, WalkInv
  <2>2. TypeOK'
    BY <2>1 DEF TypeOK
  <2>3. ForkInv' /\ ListenerInv'
    BY <2>1 DEF ForkInv, ListenerInv
  <2>4. WalkInv'
    BY <2>1 DEF WalkInv
  <2> QED
    BY <2>2, <2>3, <2>4
<1>5. CASE KnownLine
  BY <1>5 DEF KnownLine, mainVars, relayVars, busVars, TypeOK, ForkInv, WalkInv, ListenerInv
<1>6. CASE Publish
  <2>1. /\ dispatcher = "publish" /\ port \in Lines /\ 1 .. port - 1 \subseteq lines
        /\ port \in lines
        /\ UNCHANGED <<main, answered, relay, bound, connected, feed, lines, line, worker>>
    BY <1>6 DEF Publish, mainVars, relayVars, busVars, WalkInv
  <2>2. port \in Nat /\ port <= Ports
    BY <1>0, <2>1 DEF Lines
  <2>3. CASE port < Ports
    <3>1. dispatcher' = "port" /\ port' = port + 1
      BY <1>6, <2>1, <2>3, NextPort DEF Publish
    <3>2. port' \in Lines /\ 1 .. port' - 1 \subseteq lines
      BY <1>0, <2>1, <2>2, <2>3, <3>1 DEF Lines
    <3> QED
      BY <1>0, <2>1, <3>1, <3>2 DEF TypeOK, ForkInv, WalkInv, ListenerInv
  <2>4. CASE port = Ports
    <3>1. dispatcher' \in {"receive", "answer"}
      <4>1. ~(port < Ports)
        BY <1>0, <2>4
      <4> QED
        BY <1>6, <4>1 DEF Publish
    <3>2. port' = 0
      BY <1>6, <2>1, <2>4, NextPort DEF Publish
    <3>3. lines = Lines
      <4>1. lines \subseteq Lines
        BY <1>0 DEF TypeOK
      <4>2. \A i \in 1 .. Ports : i \in 1 .. port - 1 \/ i = port
        BY <1>0, <2>2, <2>4
      <4> QED
        BY <2>1, <4>1, <4>2 DEF Lines
    <3>4. TypeOK'
      <4>1. 0 \in 0 .. Ports
        BY <1>0
      <4>2. dispatcher' \in {"none", "connect", "receive", "port", "fork", "publish",
                             "answer", "crashed"}
        BY <3>1
      <4> QED
        BY <1>0, <2>1, <3>2, <4>1, <4>2 DEF TypeOK
    <3>5. ForkInv' /\ WalkInv' /\ ListenerInv'
      BY <2>1, <3>1, <3>3 DEF ForkInv, WalkInv, ListenerInv
    <3> QED
      BY <3>4, <3>5
  <2> QED
    BY <1>0, <2>2, <2>3, <2>4
<1>7. CASE DispatcherAnswer
  <2>1. /\ dispatcher = "answer" /\ dispatcher' = "receive"
        /\ answered' = answered \union {"dispatcher"}
        /\ UNCHANGED <<main, relay, bound, connected, feed, port, lines, line, worker>>
    BY <1>7 DEF DispatcherAnswer, relayVars, busVars
  <2>2. "dispatcher" \in {Children[i] : i \in DOMAIN Children}
    <3>1. 2 \in DOMAIN Children
      BY DEF Children
    <3> QED
      BY <3>1, ChildrenFacts
  <2> QED
    BY <2>1, <2>2 DEF TypeOK, ForkInv, WalkInv, ListenerInv
<1> QED
  BY <1>1, <1>2, <1>3, <1>4, <1>5, <1>6, <1>7 DEF Dispatcher

LEMMA ListenerStep ==
    ASSUME StartupInv, NEW i \in Lines, LineListener(i)
    PROVE  StartupInv'
<1> USE DEF StartupInv
<1>1. /\ line[i] \in {"forked", "connected"}
      /\ \E s \in {"connected", "answered"} : line' = [line EXCEPT ![i] = s]
      /\ UNCHANGED <<main, answered, relay, bound, dispatcher, connected, feed, port,
                     lines, worker>>
  BY DEF LineListener, LineConnect, LineAnswer, mainVars, relayVars, dispatcherVars, busVars
<1>2. i \notin lines /\ dispatcher = "fork" /\ i = port
  BY <1>1 DEF ListenerInv
<1>3. TypeOK'
  BY <1>1 DEF TypeOK
<1>4. ListenerInv'
  BY <1>1, <1>2 DEF TypeOK, ListenerInv
<1> QED
  BY <1>1, <1>3, <1>4 DEF ForkInv, WalkInv

LEMMA WorkerStep ==
    ASSUME StartupInv, NEW w \in Workers, Worker(w)
    PROVE  StartupInv'
<1> USE DEF StartupInv
<1>1. /\ worker[w] # "none"
      /\ \E s \in {"reloading", "serving"} : worker' = [worker EXCEPT ![w] = s]
      /\ answered' = answered \/ answered' = answered \union {w}
      /\ UNCHANGED <<main, relay, bound, dispatcher, connected, feed, port, lines, line>>
  BY DEF Worker, WorkerAnswer, WorkerServe, mainVars, relayVars, dispatcherVars, busVars
<1>2. TypeOK'
  BY <1>1, ChildrenFacts DEF TypeOK
<1>3. ForkInv'
  BY <1>1 DEF TypeOK, ForkInv
<1>4. w # "dispatcher"
  BY DEF Workers
<1> QED
  BY <1>1, <1>2, <1>3, <1>4 DEF WalkInv, ListenerInv

LEMMA StartupInvStep ==
    ASSUME StartupInv, Next
    PROVE  StartupInv'
BY MainStep, RelayStep, DispatcherStep, ListenerStep, WorkerStep DEF Next

\* The program begins again as it began.
LEMMA ResetStartupInv == Reset => StartupInv'
<1> SUFFICES ASSUME Reset PROVE StartupInv'
  OBVIOUS
<1>1. TypeOK'
  <2>1. 0 \in 0 .. Len(Children) /\ 0 \in 0 .. Ports
    BY StartupAssumption, ChildrenFacts
  <2>2. feed' \in Seq(FeedLines) /\ Len(feed') <= FeedBound
    BY StartupAssumption, EmptySeq DEF Reset
  <2> QED
    BY <2>1, <2>2 DEF Reset, TypeOK
<1>2. ForkInv' /\ WalkInv' /\ ListenerInv'
  BY DEF Reset, ForkInv, WalkInv, ListenerInv
<1> QED
  BY <1>1, <1>2 DEF StartupInv

-----------------------------------------------------------------------------
\* The whole program.

LEMMA InitProgramInv == ProgramInit => ProgramInv
<1> SUFFICES ASSUME ProgramInit PROVE ProgramInv
  OBVIOUS
<1>1. StartupInv
  BY InitStartupInv DEF ProgramInit
<1>2. ProgramTypeOK /\ NameInv
  BY <1>1 DEF ProgramInit, ConfigInit, StartupInv, ProgramTypeOK, NameInv
<1>3. LifeInv
  BY DEF ProgramInit, Init, LifeInv, Serving
<1> QED
  BY <1>1, <1>2, <1>3 DEF ProgramInv

LEMMA GetConfiguredStep ==
    ASSUME ProgramInv, GetConfigured
    PROVE  ProgramInv'
<1>1. /\ ~up /\ config = Null /\ up'
      /\ UNCHANGED <<main, answered, relay, bound, dispatcher, connected, feed, port,
                     lines, line, worker>>
  BY DEF ProgramInv, ProgramTypeOK, GetConfigured, GetConfig, OpenFails, UseRow, UseFile,
     vars
<1>2. StartupInv'
  BY <1>1 DEF ProgramInv, StartupInv, TypeOK, ForkInv, WalkInv, ListenerInv
<1>3. ~Serving'
  BY <1>1 DEF ProgramInv, LifeInv, Serving
<1>4. CASE OpenFails \/ UseRow
  BY <1>1, <1>2, <1>3, <1>4 DEF OpenFails, UseRow, ProgramInv, StartupInv, ProgramTypeOK,
     NameInv, LifeInv
<1>5. CASE UseFile
  <2>1. /\ row = Null /\ Complete(file) /\ config' = file /\ file' = file
        /\ row' \in {Null, Written(file)} /\ file \in Files /\ up' = TRUE
    BY <1>5 DEF UseFile, ProgramInv, ProgramTypeOK
  <2>2. ProgramTypeOK'
    BY <1>2, <2>1 DEF StartupInv, ProgramTypeOK
  <2> QED
    BY <1>1, <1>2, <1>3, <2>1, <2>2 DEF ProgramInv, NameInv, LifeInv
<1> QED
  BY <1>4, <1>5 DEF GetConfigured, GetConfig

\* A worker comes to serve by one step, which a process without a configuration
\* does not take.
LEMMA ServingStep ==
    ASSUME TypeOK, Next, NEW w \in Workers, worker[w] # "serving", worker'[w] = "serving"
    PROVE  worker[w] = "reloading"
<1>1. ~Relay /\ ~Dispatcher /\ ~Pong
  BY DEF Relay, FirstLine, RelayAnswer, RelayBind, RelayLine, RelayEnd, Dispatcher,
     DispatcherConnect, DispatcherReceive, ForkLine, LineForked, KnownLine, Publish,
     DispatcherAnswer, Pong
<1>2. ~Fork
  <2>1. UNCHANGED worker \/ (NextChild \in Workers
                             /\ worker' = [worker EXCEPT ![NextChild] = "forked"])
        \/ ~Fork
    BY DEF Fork
  <2> QED
    BY <2>1 DEF TypeOK
<1>3. \A i \in Lines : ~LineListener(i)
  BY DEF LineListener, LineConnect, LineAnswer
<1>4. ASSUME NEW v \in Workers, Worker(v)
      PROVE  worker[w] = "reloading"
  BY <1>4 DEF Worker, WorkerAnswer, WorkerServe, TypeOK
<1> QED
  BY <1>1, <1>2, <1>3, <1>4 DEF Next

LEMMA RunStep ==
    ASSUME ProgramInv, Run
    PROVE  ProgramInv'
<1>1. up /\ Next /\ UNCHANGED <<file, row, config, up>> /\ StartupInv
  BY DEF Run, configVars, ProgramInv
<1>2. StartupInv'
  BY <1>1, StartupInvStep
<1>3. ProgramTypeOK' /\ NameInv'
  BY <1>1, <1>2 DEF ProgramInv, StartupInv, ProgramTypeOK, NameInv
<1>4. ASSUME NEW w \in Workers, worker'[w] = "serving"
      PROVE  config # Null
  <2>1. CASE worker[w] = "serving"
    BY <2>1 DEF ProgramInv, LifeInv, Serving
  <2>2. CASE worker[w] # "serving"
    <3>1. worker[w] = "reloading"
      BY <1>1, <1>4, <2>2, ServingStep DEF StartupInv
    <3> QED
      BY <1>4, <3>1 DEF Run
  <2> QED
    BY <2>1, <2>2
<1>5. LifeInv'
  BY <1>1, <1>4 DEF LifeInv, Serving
<1> QED
  BY <1>2, <1>3, <1>5 DEF ProgramInv

LEMMA EndStep ==
    ASSUME ProgramInv, End, Reset
    PROVE  ProgramInv'
<1>1. StartupInv'
  BY ResetStartupInv
<1>2. UNCHANGED <<file, row>> /\ config' = Null /\ up' = FALSE
  BY DEF End
<1>3. ProgramTypeOK' /\ NameInv'
  BY <1>1, <1>2 DEF ProgramInv, StartupInv, ProgramTypeOK, NameInv
<1>4. \A w \in Workers : worker'[w] = "none"
  BY DEF Reset
<1> QED
  BY <1>1, <1>3, <1>4 DEF ProgramInv, LifeInv, Serving

LEMMA ProgramInvStep ==
    ASSUME ProgramInv, [ProgramNext]_allVars
    PROVE  ProgramInv'
<1>1. ASSUME UNCHANGED vars, UNCHANGED <<row, config, up>>, file' \in Files
      PROVE  ProgramInv'
  <2>1. UNCHANGED <<main, answered, relay, bound, dispatcher, connected, feed, port,
                    lines, line, worker>>
    BY <1>1 DEF vars
  <2>2. StartupInv'
    BY <2>1 DEF ProgramInv, StartupInv, TypeOK, ForkInv, WalkInv, ListenerInv
  <2>3. ProgramTypeOK'
    BY <1>1, <2>2 DEF ProgramInv, StartupInv, ProgramTypeOK
  <2>4. NameInv'
    BY <1>1 DEF ProgramInv, NameInv
  <2>5. LifeInv'
    BY <1>1, <2>1 DEF ProgramInv, LifeInv, Serving
  <2> QED
    BY <2>2, <2>3, <2>4, <2>5 DEF ProgramInv
<1>2. CASE EditFile /\ UNCHANGED vars
  BY <1>1, <1>2 DEF EditFile
<1>3. CASE UNCHANGED allVars
  BY <1>1, <1>3 DEF allVars, configVars, ProgramInv, ProgramTypeOK
<1>4. CASE CrashUnconfigured \/ Stop
  BY <1>4, EndStep DEF CrashUnconfigured, Stop
<1> QED
  BY <1>2, <1>3, <1>4, GetConfiguredStep, RunStep DEF ProgramNext

LEMMA ProgramInvariance == ProgramSpec => []ProgramInv
BY InitProgramInv, ProgramInvStep, PTL DEF ProgramSpec

\* The types of the program in every one of its lives.
THEOREM ProgramTypes == ProgramSpec => []ProgramTypeOK
<1>1. ProgramInv => ProgramTypeOK
  BY DEF ProgramInv
<1> QED
  BY <1>1, ProgramInvariance, PTL

\* No worker reloads a rule or takes a request before every line is bound: the
\* chain of handshakes holds however the threads are scheduled and whatever the
\* feed brings (filter.c:88-91, worker.c:157-158).
THEOREM WorkersFindLines == ProgramSpec => []LinesBeforeRules
<1>1. ProgramInv => LinesBeforeRules
  <2> SUFFICES ASSUME ProgramInv, NEW w \in Workers, worker[w] \in {"reloading", "serving"},
                      NEW i \in Lines
               PROVE  line[i] \in {"connected", "answered"}
    BY DEF LinesBeforeRules
  <2>1. "dispatcher" \in answered
    BY DEF ProgramInv, StartupInv, ForkInv
  <2>2. i \in lines
    BY <2>1 DEF ProgramInv, StartupInv, WalkInv
  <2> QED
    BY <2>2 DEF ProgramInv, StartupInv, ListenerInv
<1> QED
  BY <1>1, ProgramInvariance, PTL

\* A reading goes out only to a listener that has answered, and every port has
\* one listener (filter.c:62-81).
THEOREM ListenersHearAll == ProgramSpec => []ReadingsAreHeard
<1>1. ProgramInv => ReadingsAreHeard
  BY DEF ProgramInv, StartupInv, WalkInv, ListenerInv, ReadingsAreHeard
<1> QED
  BY <1>1, ProgramInvariance, PTL

\* Once there is a row, no edit of the file changes the name that the workers go
\* by, if the database gives the name back as it was (config.c:84-98).
THEOREM NameSurvives == ProgramSpec => []ServesUnderItsName
<1>1. ProgramInv => ServesUnderItsName
  <2> SUFFICES ASSUME ProgramInv, Serving, row # Null,
                      InRow[config.identity] = config.identity
               PROVE  config.identity = row.identity
    BY DEF ServesUnderItsName
  <2>1. config = row \/ (config \in Files /\ row = Written(config))
    BY DEF ProgramInv, LifeInv, NameInv
  <2>2. ASSUME config \in Files
        PROVE  Written(config).identity = InRow[config.identity]
    BY <2>2, ConfigAssumption DEF Written
  <2> QED
    BY <2>1, <2>2
<1> QED
  BY <1>1, ProgramInvariance, PTL
=============================================================================
