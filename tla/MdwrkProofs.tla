----------------------------- MODULE MdwrkProofs -----------------------------
(***************************************************************************)
(* Proofs about Mdwrk, for any heartbeat delay, any reconnection delay and *)
(* any number of lives: how long the two ends of a session can be silent.  *)
(***************************************************************************)
EXTENDS Mdwrk, TLAPS

\* The ticks of the polls that have timed out, by the lives that are left.
LEMMA MissedPolls ==
    /\ HEARTBEAT_LIVENESS * HEARTBEAT \in Nat
    /\ Missed(HEARTBEAT_LIVENESS) = 0
    /\ Missed(1) + HEARTBEAT = HEARTBEAT_LIVENESS * HEARTBEAT
    /\ \A n \in 1 .. HEARTBEAT_LIVENESS :
          /\ Missed(n) \in Nat
          /\ Missed(n - 1) = Missed(n) + HEARTBEAT
          /\ Missed(n) + HEARTBEAT <= HEARTBEAT_LIVENESS * HEARTBEAT
<1>1. /\ HEARTBEAT_LIVENESS * HEARTBEAT \in Nat
      /\ (HEARTBEAT_LIVENESS - HEARTBEAT_LIVENESS) * HEARTBEAT = 0
      /\ (HEARTBEAT_LIVENESS - 1) * HEARTBEAT + HEARTBEAT
           = HEARTBEAT_LIVENESS * HEARTBEAT
  BY MdwrkAssumption
<1>2. ASSUME NEW n \in 1 .. HEARTBEAT_LIVENESS
      PROVE  /\ (HEARTBEAT_LIVENESS - n) * HEARTBEAT \in Nat
             /\ (HEARTBEAT_LIVENESS - (n - 1)) * HEARTBEAT
                  = (HEARTBEAT_LIVENESS - n) * HEARTBEAT + HEARTBEAT
             /\ (HEARTBEAT_LIVENESS - n) * HEARTBEAT + HEARTBEAT
                  <= HEARTBEAT_LIVENESS * HEARTBEAT
  <2>1. HEARTBEAT_LIVENESS - n \in Nat /\ n \in Nat /\ n >= 1
    BY MdwrkAssumption
  <2>2. (HEARTBEAT_LIVENESS - n) * HEARTBEAT \in Nat /\ n * HEARTBEAT \in Nat
    BY <2>1, MdwrkAssumption
  <2>3. (HEARTBEAT_LIVENESS - n) * HEARTBEAT
          = HEARTBEAT_LIVENESS * HEARTBEAT - n * HEARTBEAT
    BY <2>1, MdwrkAssumption
  <2>4. n * HEARTBEAT >= HEARTBEAT
    BY <2>1, MdwrkAssumption
  <2>5. (HEARTBEAT_LIVENESS - (n - 1)) * HEARTBEAT
          = (HEARTBEAT_LIVENESS - n) * HEARTBEAT + HEARTBEAT
    BY <2>1, MdwrkAssumption
  <2> QED
    BY <1>1, <2>2, <2>3, <2>4, <2>5, MdwrkAssumption
<1> QED
  BY <1>1, <1>2 DEF Missed

\* The invariant holds initially.
LEMMA InitIInv == Init => IInv
BY MdwrkAssumption DEF Init, IInv, TypeOK, Pace

\* What a fresh poll needs of the heartbeat and of the lives.
LEMMA FreshPoll ==
    ASSUME IInv, PollAgain,
           down' \in Seq(Commands),
           liveness' \in 1 .. HEARTBEAT_LIVENESS,
           silence' \in Nat,
           quiet' = Missed(liveness'),
           \/ due' \in 0 .. HEARTBEAT /\ silence' + due' <= HEARTBEAT
           \/ due' = -1 /\ silence' = 0
    PROVE  IInv'
<1>1. quiet' \in Nat
  BY MissedPolls
<1>2. liveness' \in 0 .. HEARTBEAT_LIVENESS /\ liveness' # 0
  BY MdwrkAssumption
<1>3. due' \in -1 .. HEARTBEAT /\ left' \in Nat
  BY MdwrkAssumption DEF PollAgain
<1>4. TypeOK'
  BY <1>1, <1>2, <1>3, MdwrkAssumption DEF TypeOK, PollAgain
<1>5. /\ due' >= 0 => silence' + due' <= HEARTBEAT
      /\ due' = -1 => silence' + left' <= 2 * HEARTBEAT
  <2>1. HEARTBEAT \in Nat /\ left' = HEARTBEAT
    BY MdwrkAssumption DEF PollAgain
  <2>2. CASE due' \in 0 .. HEARTBEAT /\ silence' + due' <= HEARTBEAT
    BY <2>2
  <2>3. CASE due' = -1 /\ silence' = 0
    BY <2>1, <2>3
  <2> QED
    BY <2>2, <2>3
<1>6. Pace'
  BY <1>1, <1>5 DEF Pace, PollAgain
<1> QED
  BY <1>4, <1>6 DEF IInv

\* Where the heartbeat stands when a round of the loop is over.
LEMMA AfterRound ==
    ASSUME IInv, pc = "poll", HeartbeatIfDue
    PROVE  /\ silence' \in Nat
           /\ due' \in 0 .. HEARTBEAT
           /\ silence' + due' <= HEARTBEAT
BY MdwrkAssumption DEF IInv, TypeOK, Pace, HeartbeatIfDue

\* Every step preserves the invariant.
LEMMA NextIInv == IInv /\ [Next]_vars => IInv'
<1> SUFFICES ASSUME IInv, [Next]_vars PROVE IInv'
  OBVIOUS
<1>fresh. /\ HEARTBEAT_LIVENESS \in 1 .. HEARTBEAT_LIVENESS
          /\ Missed(HEARTBEAT_LIVENESS) = 0
  BY MdwrkAssumption, MissedPolls
<1>tail. ASSUME down # << >> PROVE Tail(down) \in Seq(Commands)
  BY <1>tail DEF IInv, TypeOK
<1>1. CASE New
  BY <1>1, <1>fresh, FreshPoll, MdwrkAssumption DEF New, ConnectToBroker
<1>2. CASE Recv
  <2>1. /\ due' \in 0 .. HEARTBEAT \/ due' = -1
        /\ liveness' = HEARTBEAT_LIVENESS
    BY <1>2 DEF Recv, IInv, TypeOK, Pace
  <2> QED
    BY <1>2, <2>1, <1>fresh, FreshPoll DEF Recv, IInv, TypeOK
<1>3. CASE ReceiveRequest
  BY <1>3, <1>tail, MdwrkAssumption DEF ReceiveRequest, Received, IInv, TypeOK, Pace
<1>4. CASE ReceiveOther
  BY <1>4, <1>tail, <1>fresh, AfterRound, FreshPoll DEF ReceiveOther, Received
<1>5. CASE ReceiveDisconnect
  BY <1>5, <1>fresh, FreshPoll, MdwrkAssumption
     DEF ReceiveDisconnect, Received, ConnectToBroker
<1>6. CASE TimeOut
  <2>1. /\ liveness \in 1 .. HEARTBEAT_LIVENESS
        /\ quiet = Missed(liveness) + HEARTBEAT
    BY <1>6, MissedPolls DEF TimeOut, IInv, TypeOK, Pace
  <2>2. CASE liveness' = 0
    BY <1>6, <2>2, MdwrkAssumption DEF TimeOut, IInv, TypeOK, Pace
  <2>3. CASE liveness' # 0
    <3>1. quiet' = Missed(liveness')
      BY <1>6, <2>1, MissedPolls DEF TimeOut
    <3>2. /\ HeartbeatIfDue /\ PollAgain
          /\ liveness' \in 1 .. HEARTBEAT_LIVENESS
          /\ down' \in Seq(Commands)
          /\ pc = "poll"
      BY <1>6, <2>1, <2>3, MdwrkAssumption DEF TimeOut, IInv, TypeOK
    <3> QED
      BY <3>1, <3>2, AfterRound, FreshPoll
  <2> QED
    BY <2>2, <2>3
<1>7. CASE Reconnect
  BY <1>7, <1>fresh, FreshPoll, MdwrkAssumption DEF Reconnect, ConnectToBroker
<1>8. CASE Destroy
  BY <1>8 DEF Destroy, IInv, TypeOK, Pace
<1>9. CASE BrokerSends
  BY <1>9 DEF BrokerSends, IInv, TypeOK, Pace
<1>10. CASE Tick
  BY <1>10, MdwrkAssumption DEF Tick, IInv, TypeOK, Pace
<1>11. CASE UNCHANGED vars
  BY <1>11 DEF vars, IInv, TypeOK, Pace
<1> QED
  BY <1>1, <1>2, <1>3, <1>4, <1>5, <1>6, <1>7, <1>8, <1>9, <1>10, <1>11 DEF Next

LEMMA Invariance == Spec => []IInv
BY InitIInv, NextIInv, PTL DEF Spec

\* The counters of a session stay in range: the lives never run below zero,
\* which an unsigned counter would not show.
THEOREM SessionTypes == Spec => []TypeOK
<1>1. IInv => TypeOK
  BY DEF IInv
<1> QED
  BY <1>1, Invariance, PTL

\* A waiting worker is heard at least once in two heartbeat delays.
THEOREM HeardInTime == Spec => []IdleWorkerIsHeard
<1>1. IInv => IdleWorkerIsHeard
  BY MdwrkAssumption DEF IInv, TypeOK, Pace, IdleWorkerIsHeard
<1> QED
  BY <1>1, Invariance, PTL

\* A broker that sends nothing is given up after its lives are used ...
THEOREM NoticedInTime == Spec => []DeadBrokerIsNoticed
<1>1. IInv => DeadBrokerIsNoticed
  <2> SUFFICES ASSUME IInv, pc = "poll"
               PROVE  quiet <= HEARTBEAT_LIVENESS * HEARTBEAT
    BY DEF DeadBrokerIsNoticed
  <2>1. /\ liveness \in 1 .. HEARTBEAT_LIVENESS
        /\ quiet + left = Missed(liveness) + HEARTBEAT
        /\ quiet \in Nat /\ left \in Nat
    BY DEF IInv, TypeOK, Pace
  <2>2. Missed(liveness) + HEARTBEAT <= HEARTBEAT_LIVENESS * HEARTBEAT
    BY <2>1, MissedPolls
  <2>3. Missed(liveness) + HEARTBEAT \in Nat /\ HEARTBEAT_LIVENESS * HEARTBEAT \in Nat
    BY <2>1, MissedPolls, MdwrkAssumption
  <2> QED
    BY <2>1, <2>2, <2>3
<1> QED
  BY <1>1, Invariance, PTL

\* ... and not before.
THEOREM NotHasty == Spec => NoHastyReconnect
<1>1. IInv /\ [Next]_vars =>
          [pc = "poll" /\ pc' = "sleep" =>
               quiet >= HEARTBEAT_LIVENESS * HEARTBEAT]_vars
  <2> SUFFICES ASSUME IInv, Next, pc = "poll", pc' = "sleep"
               PROVE  quiet >= HEARTBEAT_LIVENESS * HEARTBEAT
    OBVIOUS
  <2>1. TimeOut /\ liveness = 1
    BY DEF Next, New, Recv, ReceiveRequest, ReceiveOther, ReceiveDisconnect, TimeOut,
           Reconnect, Destroy, BrokerSends, Tick, PollAgain, Received, IInv, TypeOK
  <2>2. quiet + left = Missed(1) + HEARTBEAT /\ left = 0 /\ quiet \in Nat
    BY <2>1 DEF TimeOut, IInv, TypeOK, Pace
  <2> QED
    BY <2>2, MissedPolls
<1> QED
  BY <1>1, Invariance, PTL DEF Spec, NoHastyReconnect
=============================================================================
