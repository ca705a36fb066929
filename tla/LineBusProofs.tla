---------------------------- MODULE LineBusProofs ----------------------------
(***************************************************************************)
(* Proofs about LineBus, for any number of rules and monitors, any         *)
(* channels, values and limit: the types, the protocol between workers and *)
(* trigger threads, and that dormancy misses neither the return of a       *)
(* rule's channel nor any of its readings.                                 *)
(***************************************************************************)
EXTENDS LineBus, LineProofs

\* The invariant holds initially.
LEMMA InitIInv == Init => IInv
<1> SUFFICES ASSUME Init PROVE IInv
  OBVIOUS
<1> USE DEF Init, LineInit, TriggerInit, MonitorInit
<1>1. LineTypeOK
  <2>1. InitialMemory \in ChannelMemory
    BY DebounceAssumption DEF InitialMemory, ChannelMemory
  <2>2. inbox \in [Subscribers -> Seq(Message)]
    BY EmptySeq
  <2> QED
    BY <2>1, <2>2, LineAssumption DEF LineTypeOK, Epochs
<1>2. TriggerTypeOK
  BY DEF TriggerTypeOK
<1>3. MonitorTypeOK
  BY DEF MonitorTypeOK
<1>4. ControlProtocol
  BY DEF ControlProtocol, Rendezvous, Abandoned
<1>5. QueuesConsistent
  BY DEF QueuesConsistent, Announced, UpToDate
<1>6. SubscriptionOK /\ NoMissedWakeup /\ NoValueLost
  BY DEF SubscriptionOK, NoMissedWakeup, NoValueLost, Dormant
<1> QED
  BY <1>1, <1>2, <1>3, <1>4, <1>5, <1>6 DEF IInv, TypeOK

\* A step that leaves the line alone and only takes messages off the queues,
\* all of them where it disconnects the subscriber.
LEMMA QueuesShrink ==
    ASSUME TypeOK, QueuesConsistent, mem' = mem,
           \A s \in Subscribers :
              \/ /\ inbox'[s] = inbox[s]
                 /\ s \notin Connected' => s \notin Connected
              \/ /\ \E k \in 0 .. Len(inbox[s]) :
                       inbox'[s] = SubSeq(inbox[s], k + 1, Len(inbox[s]))
                 /\ s \in Connected'
              \/ inbox'[s] = << >>
    PROVE  QueuesConsistent'
<1> SUFFICES ASSUME NEW s \in Subscribers
             PROVE  /\ s \notin Connected' => inbox'[s] = << >>
                    /\ Announced(inbox'[s])
                    /\ UpToDate(inbox'[s], mem.current_channel)
  BY DEF QueuesConsistent
<1>1. /\ inbox[s] \in Seq(Message)
      /\ s \notin Connected => inbox[s] = << >>
      /\ Announced(inbox[s])
      /\ UpToDate(inbox[s], mem.current_channel)
  BY DEF TypeOK, LineTypeOK, QueuesConsistent
<1>2. CASE inbox'[s] = inbox[s] /\ (s \notin Connected' => s \notin Connected)
  BY <1>1, <1>2
<1>3. CASE /\ \E k \in 0 .. Len(inbox[s]) :
                 inbox'[s] = SubSeq(inbox[s], k + 1, Len(inbox[s]))
           /\ s \in Connected'
  BY <1>1, <1>3, SuffixConsistent
<1>4. CASE inbox'[s] = << >>
  BY <1>4 DEF Announced, UpToDate
<1> QED
  BY <1>2, <1>3, <1>4

-----------------------------------------------------------------------------
\* The worker's steps.

LEMMA CreateTriggerIInv ==
    ASSUME IInv, NEW t \in Triggers, NEW request \in Requests,
           CreateTrigger(t, request), UNCHANGED monitorVars
    PROVE  IInv'
<1> USE DEF IInv, CreateTrigger, lineVars, monitorVars
<1>0. thread[t] = "none"
  BY DEF ControlProtocol, Rendezvous, Abandoned
<1>1. TypeOK'
  BY DEF TypeOK, LineTypeOK, TriggerTypeOK, MonitorTypeOK
<1>2. ControlProtocol'
  BY <1>0 DEF ControlProtocol, Rendezvous, Abandoned, TypeOK, TriggerTypeOK
<1>3. QueuesConsistent'
  BY <1>0, QueuesShrink DEF Connected, TypeOK, TriggerTypeOK
<1>4. SubscriptionOK'
  BY <1>0 DEF SubscriptionOK, TypeOK, TriggerTypeOK
<1>5. NoMissedWakeup'
  BY <1>0 DEF NoMissedWakeup, Dormant, IsReturn, TypeOK, TriggerTypeOK
<1>6. NoValueLost'
  BY <1>0 DEF NoValueLost, Dormant, IsReturn, IsOwnValue, IsValueOf, TypeOK, TriggerTypeOK
<1> QED
  BY <1>1, <1>2, <1>3, <1>4, <1>5, <1>6

LEMMA SendPingIInv ==
    ASSUME IInv, NEW t \in Triggers, SendPing(t), UNCHANGED monitorVars
    PROVE  IInv'
<1> USE DEF IInv, SendPing, lineVars, threadVars, monitorVars
<1>0. thread[t] = "starting"
  BY DEF ControlProtocol, Rendezvous, Abandoned
<1>1. TypeOK'
  BY DEF TypeOK, LineTypeOK, TriggerTypeOK, MonitorTypeOK
<1>2. ControlProtocol'
  BY <1>0 DEF ControlProtocol, Rendezvous, Abandoned, TypeOK, TriggerTypeOK
<1>3. QueuesConsistent'
  BY QueuesShrink DEF Connected
<1>4. SubscriptionOK'
  BY <1>0 DEF SubscriptionOK, TypeOK, TriggerTypeOK
<1>5. NoMissedWakeup' /\ NoValueLost'
  BY DEF NoMissedWakeup, NoValueLost, Dormant, IsReturn, IsOwnValue, IsValueOf
<1> QED
  BY <1>1, <1>2, <1>3, <1>4, <1>5

LEMMA TriggerCreatedIInv ==
    ASSUME IInv, NEW t \in Triggers, TriggerCreated(t), UNCHANGED monitorVars
    PROVE  IInv'
<1> USE DEF IInv, TriggerCreated, lineVars, threadVars, monitorVars
<1>1. TypeOK'
  BY DEF TypeOK, LineTypeOK, TriggerTypeOK, MonitorTypeOK
<1>2. ControlProtocol'
  BY DEF ControlProtocol, Rendezvous, Abandoned, TypeOK, TriggerTypeOK
<1>3. QueuesConsistent'
  BY QueuesShrink DEF Connected, TypeOK, TriggerTypeOK
<1>4. SubscriptionOK'
  BY DEF SubscriptionOK, ControlProtocol, Rendezvous, Abandoned, TypeOK, TriggerTypeOK
<1>5. \A u \in Triggers : thread[u] = "polling" => config'[u] = config[u]
  BY DEF ControlProtocol, Rendezvous, Abandoned, TypeOK, TriggerTypeOK
<1>6. NoMissedWakeup' /\ NoValueLost'
  BY <1>5 DEF NoMissedWakeup, NoValueLost, Dormant, IsReturn, IsOwnValue, IsValueOf
<1> QED
  BY <1>1, <1>2, <1>3, <1>4, <1>5, <1>6

LEMMA RemoveRuleIInv ==
    ASSUME IInv, NEW t \in Triggers, RemoveRule(t), UNCHANGED monitorVars
    PROVE  IInv'
<1> USE DEF IInv, RemoveRule, lineVars, threadVars, monitorVars
<1>1. TypeOK'
  BY DEF TypeOK, LineTypeOK, TriggerTypeOK, MonitorTypeOK
<1>2. ControlProtocol'
  BY DEF ControlProtocol, Rendezvous, Abandoned, TypeOK, TriggerTypeOK
<1>3. QueuesConsistent'
  BY QueuesShrink DEF Connected, TypeOK, TriggerTypeOK
<1>4. SubscriptionOK'
  BY DEF SubscriptionOK, ControlProtocol, Rendezvous, Abandoned, TypeOK, TriggerTypeOK
<1>5. \A u \in Triggers : thread[u] = "polling" => config'[u] = config[u]
  BY DEF ControlProtocol, Rendezvous, Abandoned, TypeOK, TriggerTypeOK
<1>6. NoMissedWakeup' /\ NoValueLost'
  BY <1>5 DEF NoMissedWakeup, NoValueLost, Dormant, IsReturn, IsOwnValue, IsValueOf
<1> QED
  BY <1>1, <1>2, <1>3, <1>4, <1>5, <1>6

LEMMA RuleRemovedIInv ==
    ASSUME IInv, NEW t \in Triggers, RuleRemoved(t), UNCHANGED monitorVars
    PROVE  IInv'
<1> USE DEF IInv, RuleRemoved, lineVars, threadVars, monitorVars
<1>1. TypeOK'
  BY DEF TypeOK, LineTypeOK, TriggerTypeOK, MonitorTypeOK
<1>2. ControlProtocol'
  BY DEF ControlProtocol, Rendezvous, Abandoned, TypeOK, TriggerTypeOK
<1>3. QueuesConsistent'
  BY QueuesShrink DEF Connected, TypeOK, TriggerTypeOK
<1>4. SubscriptionOK'
  BY DEF SubscriptionOK, ControlProtocol, Rendezvous, Abandoned, TypeOK, TriggerTypeOK
<1>5. \A u \in Triggers : thread[u] = "polling" => config'[u] = config[u]
  BY DEF ControlProtocol, Rendezvous, Abandoned, TypeOK, TriggerTypeOK
<1>6. NoMissedWakeup' /\ NoValueLost'
  BY <1>5 DEF NoMissedWakeup, NoValueLost, Dormant, IsReturn, IsOwnValue, IsValueOf
<1> QED
  BY <1>1, <1>2, <1>3, <1>4, <1>5, <1>6

-----------------------------------------------------------------------------
\* The thread's steps.

\* A thread that returns leaves nothing behind that the invariant speaks of.
LEMMA ExitIInv ==
    ASSUME IInv, NEW t \in Triggers, Exit(t), thread[t] # "none",
           UNCHANGED <<lineVars, rule, config, actions, monitorVars>>,
           control' \in [Triggers -> {"none", "ping", "pong", "bad trigger",
                                      "no such trigger", "Destroy", "ok"}],
           \A u \in Triggers \ {t} : control'[u] = control[u],
           Rendezvous(t)' \/ Abandoned(t)',
           control'[t] \in {"bad trigger", "no such trigger"} => ~Understood(config[t])
    PROVE  IInv'
<1> USE DEF IInv, Exit, lineVars, monitorVars
<1>1. TypeOK'
  <2>1. LineTypeOK'
    BY EmptySeq DEF TypeOK, LineTypeOK
  <2>2. TriggerTypeOK'
    <3>1. memory' \in [Triggers -> TriggerMemory \union {NoMemory}]
      BY DEF TypeOK, TriggerTypeOK
    <3>2. \A u \in Triggers : thread'[u] = "polling" => memory'[u] \in TriggerMemory
      BY DEF TypeOK, TriggerTypeOK
    <3>3. thread' \in [Triggers -> {"none", "starting", "polling"}]
      BY DEF TypeOK, TriggerTypeOK
    <3>4. /\ subs' \in [Triggers -> SUBSET {"VALUE", "CHANNEL_CHANGE"}]
          /\ revents' \in [Triggers -> SUBSET {"control", "line"}]
      BY DEF TypeOK, TriggerTypeOK
    <3>5. late' \in [Triggers -> 0 .. 2]
      <4>1. late \in [Triggers -> 0 .. 2] /\ late' = [late EXCEPT ![t] = 0]
        BY DEF TypeOK, TriggerTypeOK
      <4> QED
        BY ONLY <4>1
    <3>6. swung' \in [Triggers -> BOOLEAN]
      <4>1. swung \in [Triggers -> BOOLEAN] /\ swung' = [swung EXCEPT ![t] = TRUE]
        BY DEF TypeOK, TriggerTypeOK
      <4> QED
        BY <4>1, Zenon
    <3> QED
      BY <3>1, <3>2, <3>3, <3>4, <3>5, <3>6 DEF TypeOK, TriggerTypeOK
  <2>3. MonitorTypeOK'
    BY DEF TypeOK, MonitorTypeOK
  <2> QED
    BY <2>1, <2>2, <2>3 DEF TypeOK
<1>2. ControlProtocol'
  <2>1. thread'[t] = "none" /\ config' = config
    BY DEF TypeOK, TriggerTypeOK
  <2>2. ASSUME NEW u \in Triggers, u # t
        PROVE  /\ Rendezvous(u)' \/ Abandoned(u)'
               /\ control'[u] \in {"bad trigger", "no such trigger"} =>
                      ~Understood(config'[u])
               /\ thread'[u] = "polling" => Understood(config'[u])
    <3>1. /\ thread'[u] = thread[u] /\ control'[u] = control[u] /\ rule'[u] = rule[u]
          /\ config'[u] = config[u]
      BY <2>2 DEF TypeOK, TriggerTypeOK
    <3> QED
      BY <3>1 DEF ControlProtocol, Rendezvous, Abandoned
  <2> QED
    BY <2>1, <2>2 DEF ControlProtocol
<1>3. QueuesConsistent'
  BY QueuesShrink DEF Connected, TypeOK, LineTypeOK, TriggerTypeOK
<1>4. thread'[t] = "none" /\ revents'[t] = {}
  BY DEF TypeOK, TriggerTypeOK
<1>5. \A u \in Triggers : u # t =>
         /\ thread'[u] = thread[u]
         /\ subs'[u] = subs[u]
         /\ revents'[u] = revents[u]
         /\ control'[u] = control[u]
         /\ inbox'[u] = inbox[u]
  BY BusAssumption DEF TypeOK, LineTypeOK, TriggerTypeOK
<1>6. SubscriptionOK'
  BY <1>4, <1>5 DEF SubscriptionOK
<1>7. NoMissedWakeup'
  BY <1>4, <1>5 DEF NoMissedWakeup, Dormant, IsReturn
<1>8. NoValueLost'
  BY <1>4, <1>5 DEF NoValueLost, Dormant, IsReturn, IsOwnValue, IsValueOf
<1> QED
  BY <1>1, <1>2, <1>3, <1>6, <1>7, <1>8

LEMMA RejectIInv ==
    ASSUME IInv, NEW t \in Triggers, Reject(t), UNCHANGED monitorVars
    PROVE  IInv'
<1>1. Rendezvous(t)' \/ Abandoned(t)'
  <2>1. rule[t] \in {"forked", "creating"}
    BY DEF IInv, Reject, ControlProtocol, Rendezvous, Abandoned
  <2>2. /\ control'[t] \in {"bad trigger", "no such trigger"}
        /\ thread'[t] = "none"
        /\ rule' = rule
    BY DEF IInv, Reject, Exit, TypeOK, TriggerTypeOK
  <2> QED
    BY <2>1, <2>2 DEF Rendezvous, Abandoned
<1>2. /\ control' \in [Triggers -> {"none", "ping", "pong", "bad trigger",
                                    "no such trigger", "Destroy", "ok"}]
      /\ \A u \in Triggers \ {t} : control'[u] = control[u]
  BY DEF Reject, IInv, TypeOK, TriggerTypeOK
<1>3. thread[t] # "none" /\ Exit(t) /\ UNCHANGED <<lineVars, rule, config, actions>>
  BY DEF Reject
<1>4. ~Understood(config[t])
  BY DEF Reject
<1> QED
  BY <1>1, <1>2, <1>3, <1>4, ExitIInv

LEMMA HandleControlIInv ==
    ASSUME IInv, NEW t \in Triggers, HandleControl(t), UNCHANGED monitorVars
    PROVE  IInv'
<1>1. control[t] = "Destroy"
  BY DEF IInv, HandleControl, SubscriptionOK
<1>2. Rendezvous(t)'
  BY <1>1 DEF IInv, HandleControl, Exit, ControlProtocol, Rendezvous, Abandoned, TypeOK,
              TriggerTypeOK
<1> QED
  BY <1>2, ExitIInv DEF HandleControl, IInv, TypeOK, TriggerTypeOK

\* The levels of a rule, configured or garbage, are levels.
LEMMA AddinsType ==
    ASSUME NEW request \in Requests, NEW garbage \in TriggerMemory
    PROVE  parse_addins(request.addins, garbage) \in TriggerMemory
<1>1. PICK K \in SUBSET {"line", "line_id", "trigger_level", "reset_level"} :
         request.addins \in [K -> Packable]
  BY TriggerAssumption
<1>2. Packable \subseteq Values
  BY DEF Packable
<1> QED
  BY <1>1, <1>2 DEF parse_addins, TriggerMemory

LEMMA StartIInv ==
    ASSUME IInv, NEW t \in Triggers, Start(t), UNCHANGED monitorVars
    PROVE  IInv'
<1> USE DEF IInv, Start, lineVars, monitorVars
<1>0. rule[t] = "creating" /\ config[t] \in Requests /\ t \notin Monitors
  BY BusAssumption DEF ControlProtocol, Rendezvous, Abandoned, TypeOK, TriggerTypeOK
<1>1. TypeOK'
  <2>1. LineTypeOK' /\ MonitorTypeOK'
    BY DEF TypeOK, LineTypeOK, MonitorTypeOK
  <2>2. PICK garbage \in TriggerMemory :
           memory' = [memory EXCEPT ![t] = parse_addins(config[t].addins, garbage)]
    OBVIOUS
  <2>3. parse_addins(config[t].addins, garbage) \in TriggerMemory
    BY <1>0, AddinsType
  <2>4. \A u \in Triggers : thread'[u] = "polling" => memory'[u] \in TriggerMemory
    BY <2>2, <2>3 DEF TypeOK, TriggerTypeOK
  <2>5. TriggerTypeOK'
    BY <2>4 DEF TypeOK, TriggerTypeOK
  <2> QED
    BY <2>1, <2>5 DEF TypeOK
<1>2. ControlProtocol'
  BY DEF ControlProtocol, Rendezvous, Abandoned, TypeOK, TriggerTypeOK
<1>3. QueuesConsistent'
  BY QueuesShrink DEF Connected, TypeOK, TriggerTypeOK
<1>4. SubscriptionOK'
  BY DEF SubscriptionOK, TypeOK, TriggerTypeOK
<1>5. NoMissedWakeup'
  BY DEF NoMissedWakeup, Dormant, IsReturn, TypeOK, TriggerTypeOK
<1>6. NoValueLost'
  BY DEF NoValueLost, Dormant, IsReturn, IsOwnValue, IsValueOf, TypeOK, TriggerTypeOK
<1> QED
  BY <1>1, <1>2, <1>3, <1>4, <1>5, <1>6

\* What a trigger thread does to its own queue concerns no other thread.
LEMMA OtherTriggers ==
    ASSUME NEW t \in Triggers, NEW q, TypeOK, inbox' = [inbox EXCEPT ![t] = q]
    PROVE  /\ inbox'[t] = q
           /\ \A s \in Subscribers : s # t => inbox'[s] = inbox[s]
           /\ \A u \in Triggers : u \in Subscribers
BY BusAssumption DEF TypeOK, LineTypeOK

LEMMA PollIInv ==
    ASSUME IInv, NEW t \in Triggers, Poll(t), UNCHANGED monitorVars
    PROVE  IInv'
<1> DEFINE q == inbox[t]
           r == inbox'[t]
<1> USE DEF IInv, lineVars, workerVars, monitorVars
<1>1. /\ thread[t] = "polling"
      /\ UNCHANGED <<lineVars, workerVars, thread, memory, subs, actions, late, swung>>
  BY DEF Poll
<1>2. PICK k \in 0 .. Len(q) :
         /\ \A i \in 1 .. k : q[i].cmd \notin subs[t]
         /\ k < Len(q) => q[k + 1].cmd \in subs[t]
         /\ inbox' = [inbox EXCEPT ![t] = SubSeq(q, k + 1, Len(q))]
         /\ revents' = [revents EXCEPT ![t] =
                (IF k < Len(q) THEN {"line"} ELSE {})
                \union (IF control[t] = "Destroy" THEN {"control"} ELSE {})]
  BY DEF Poll, TypeOK, LineTypeOK
<1>3. /\ r = SubSeq(q, k + 1, Len(q))
      /\ \A s \in Subscribers : s # t => inbox'[s] = inbox[s]
      /\ \A u \in Triggers : u \in Subscribers
  BY <1>2, OtherTriggers
<1>4. q \in Seq(Message)
  BY <1>3 DEF TypeOK, LineTypeOK
<1>5. /\ r \in Seq(Message)
      /\ Len(r) = Len(q) - k
      /\ DOMAIN r = 1 .. Len(q) - k
      /\ \A i \in DOMAIN r : i + k \in DOMAIN q /\ r[i] = q[i + k]
  BY <1>3, <1>4, SuffixProperties
<1>6. Len(q) \in Nat /\ DOMAIN q = 1 .. Len(q) /\ k \in Nat /\ k <= Len(q)
  BY <1>4, LenProperties
<1>7. /\ revents' \in [Triggers -> SUBSET {"control", "line"}]
      /\ \A u \in Triggers : u # t => revents'[u] = revents[u]
      /\ "line" \in revents'[t] => k < Len(q)
      /\ "control" \in revents'[t] => control[t] = "Destroy"
  BY <1>2 DEF TypeOK, TriggerTypeOK
<1>8. subs[t] \in {{"VALUE"}, {"CHANNEL_CHANGE"}}
  BY <1>1 DEF SubscriptionOK
<1> HIDE DEF q, r
<1>9. TypeOK'
  <2>1. inbox' \in [Subscribers -> Seq(Message)]
    BY <1>2, <1>3, <1>5 DEF TypeOK, LineTypeOK, q, r
  <2>2. LineTypeOK'
    BY <1>1, <2>1 DEF TypeOK, LineTypeOK
  <2>3. TriggerTypeOK'
    BY <1>1, <1>7 DEF TypeOK, TriggerTypeOK
  <2> QED
    BY <2>2, <2>3 DEF TypeOK, MonitorTypeOK
<1>10. ControlProtocol'
  BY <1>1 DEF ControlProtocol, Rendezvous, Abandoned
<1>11. QueuesConsistent'
  <2>1. Connected' = Connected /\ t \in Connected
    BY <1>1 DEF Connected
  <2> QED
    BY <1>1, <1>2, <1>3, <2>1, QueuesShrink DEF q, r
<1>12. SubscriptionOK'
  <2>1. ASSUME "line" \in revents'[t]
        PROVE  r # << >> /\ Head(r).cmd \in subs[t]
    <3>1. k < Len(q) /\ 1 \in DOMAIN r /\ r[1] = q[k + 1] /\ r # << >>
      BY <1>5, <1>6, <1>7, <2>1
    <3>2. Head(r) = r[1]
      BY <1>5, <3>1
    <3> QED
      BY <1>2, <3>1, <3>2
  <2>2. \A u \in Triggers : u # t => inbox'[u] = inbox[u]
    BY <1>3
  <2> QED
    BY <1>1, <1>7, <2>1, <2>2 DEF SubscriptionOK, r
<1>13. NoMissedWakeup'
  <2>1. ASSUME Dormant(t), mem.current_channel = config[t].channel
        PROVE  \E i \in DOMAIN r : IsReturn(t, r[i])
    <3>1. PICK i \in DOMAIN q : IsReturn(t, q[i])
      BY <2>1 DEF NoMissedWakeup, q
    <3>2. q[i].cmd \in subs[t]
      BY <1>8, <2>1, <3>1 DEF Dormant, IsReturn, Announces
    <3>3. i > k
      BY <1>2, <1>6, <3>2
    <3>4. i - k \in DOMAIN r /\ r[i - k] = q[i]
      BY <1>5, <1>6, <3>3
    <3> QED
      BY <3>1, <3>4
  <2> QED
    BY <1>1, <1>3, <2>1 DEF NoMissedWakeup, Dormant, IsReturn, r
<1>14. NoValueLost'
  <2>1. ASSUME Dormant(t), NEW j \in DOMAIN r, IsOwnValue(t, r[j])
        PROVE  \E i \in 1 .. j - 1 : IsReturn(t, r[i])
    <3>1. j + k \in DOMAIN q /\ IsOwnValue(t, q[j + k])
      BY <1>5, <2>1
    <3>2. PICK i \in 1 .. (j + k) - 1 : IsReturn(t, q[i])
      BY <2>1, <3>1 DEF NoValueLost, q
    <3>3. q[i].cmd \in subs[t]
      BY <1>8, <2>1, <3>2 DEF Dormant, IsReturn, Announces
    <3>4. i > k
      BY <1>2, <1>5, <1>6, <3>2, <3>3
    <3>5. i - k \in 1 .. j - 1 /\ r[i - k] = q[i]
      BY <1>5, <1>6, <3>2, <3>4
    <3> QED
      BY <3>2, <3>5
  <2> QED
    BY <1>1, <1>3, <2>1 DEF NoValueLost, Dormant, IsReturn, IsOwnValue, IsValueOf, r
<1> QED
  BY <1>9, <1>10, <1>11, <1>12, <1>13, <1>14

\* The ready flag a trigger function leaves is a truth value.
LEMMA ReadyType ==
    ASSUME NEW channel, NEW name, NEW m \in TriggerMemory, NEW value \in Values
    PROVE  trigger_func(channel, name, m, value).ready \in BOOLEAN
<1>1. falls_below(m, value).ready \in BOOLEAN
  BY DEF falls_below
<1>2. rises_above(m, value).ready \in BOOLEAN
  BY DEF rises_above
<1> QED
  BY <1>1, <1>2 DEF trigger_func

\* The types of what handling a message of the line may change.
LEMMA HandleLineTypes ==
    ASSUME IInv, NEW t \in Triggers, HandleLine(t)
    PROVE  /\ memory' \in [Triggers -> TriggerMemory \union {NoMemory}]
           /\ \A u \in Triggers : thread[u] = "polling" => memory'[u] \in TriggerMemory
           /\ actions' \in [Triggers -> 0 .. 1]
           /\ late' \in [Triggers -> 0 .. 2]
           /\ swung' \in [Triggers -> BOOLEAN]
<1> DEFINE msg == Head(inbox[t])
<1>1. /\ memory \in [Triggers -> TriggerMemory \union {NoMemory}]
      /\ \A u \in Triggers : thread[u] = "polling" => memory[u] \in TriggerMemory
      /\ actions \in [Triggers -> 0 .. 1]
      /\ late \in [Triggers -> 0 .. 2]
      /\ swung \in [Triggers -> BOOLEAN]
      /\ inbox[t] \in Seq(Message)
  BY BusAssumption DEF IInv, TypeOK, LineTypeOK, TriggerTypeOK
<1>2. thread[t] = "polling" /\ inbox[t] # << >>
  BY DEF HandleLine, IInv, SubscriptionOK
<1>3. CASE UNCHANGED <<memory, actions, late, swung>>
  BY <1>1, <1>3
<1>4. CASE msg.cmd = "VALUE" /\ Evaluate(t, msg.value)
  <2> DEFINE result == trigger_func(config[t].channel, config[t].trigger_name,
                                    memory[t], msg.value)
  <2>1. msg \in Message
    BY <1>1, <1>2, HeadTailProperties
  <2>2. msg.value \in Values
    BY <1>4, <2>1 DEF Message, ChangeMessage, ValueMessage
  <2>3. result.ready \in BOOLEAN
    BY <1>1, <1>2, <2>2, ReadyType
  <2>4. /\ memory' = [memory EXCEPT ![t].ready = result.ready]
        /\ actions' = [actions EXCEPT ![t] = IF result.acts THEN (@ + 1) % 2 ELSE @]
        /\ late' = [late EXCEPT ![t] =
                       IF result.acts /\ rule[t] = "removing" /\ @ < 2
                       THEN @ + 1 ELSE @]
        /\ swung' = [swung EXCEPT ![t] =
                        ~result.acts /\ (@ \/ Resets(config[t], memory[t], msg.value))]
    BY <1>4 DEF Evaluate, send_trigger
  <2> HIDE DEF result
  <2>5. [memory[t] EXCEPT !.ready = result.ready] \in TriggerMemory
    BY <1>1, <1>2, <2>3 DEF TriggerMemory
  <2>6. /\ memory' \in [Triggers -> TriggerMemory \union {NoMemory}]
        /\ \A u \in Triggers : thread[u] = "polling" => memory'[u] \in TriggerMemory
    BY <1>1, <2>4, <2>5
  <2>7. actions' \in [Triggers -> 0 .. 1]
    BY <1>1, <2>4
  <2>8. late' \in [Triggers -> 0 .. 2]
    BY <1>1, <2>4
  <2>9. swung' \in [Triggers -> BOOLEAN]
    BY ONLY <1>1, <2>4, Zenon
  <2> QED
    BY <2>6, <2>7, <2>8, <2>9
<1> QED
  BY <1>3, <1>4 DEF HandleLine, WakeUp, GoDormant

LEMMA HandleLineIInv ==
    ASSUME IInv, NEW t \in Triggers, HandleLine(t), UNCHANGED monitorVars
    PROVE  IInv'
<1> DEFINE q   == inbox[t]
           r   == inbox'[t]
           msg == Head(inbox[t])
<1> USE DEF IInv, lineVars, workerVars, monitorVars
<1>1. /\ thread[t] = "polling"
      /\ revents[t] = {"line"}
      /\ inbox' = [inbox EXCEPT ![t] = Tail(@)]
      /\ revents' = [revents EXCEPT ![t] = {}]
      /\ UNCHANGED <<lineVars, workerVars, thread>>
  BY DEF HandleLine
<1>2. /\ r = Tail(q)
      /\ \A s \in Subscribers : s # t => inbox'[s] = inbox[s]
      /\ \A u \in Triggers : u \in Subscribers
  <2>1. inbox' = [inbox EXCEPT ![t] = Tail(q)]
    BY <1>1 DEF TypeOK, LineTypeOK
  <2> QED
    BY <2>1, OtherTriggers
<1>3. q \in Seq(Message) /\ q # << >> /\ msg.cmd \in subs[t]
  BY <1>1, <1>2 DEF TypeOK, LineTypeOK, SubscriptionOK
<1>4. /\ r \in Seq(Message)
      /\ DOMAIN r = 1 .. Len(q) - 1
      /\ \A i \in DOMAIN r : r[i] = q[i + 1]
  BY <1>2, <1>3, HeadTailProperties, LenProperties
<1>5. /\ Len(q) \in Nat
      /\ DOMAIN q = 1 .. Len(q)
      /\ 1 \in DOMAIN q
      /\ msg = q[1]
      /\ \A n \in DOMAIN q : 1 < n => n - 1 \in DOMAIN r /\ r[n - 1] = q[n]
  BY <1>3, <1>4, LenProperties, EmptySeq
<1>6. subs[t] \in {{"VALUE"}, {"CHANNEL_CHANGE"}}
  BY <1>1 DEF SubscriptionOK
<1>7. \/ /\ IsReturn(t, msg)
         /\ subs' = [subs EXCEPT ![t] = {"VALUE"}]
      \/ /\ ~IsReturn(t, msg)
         /\ msg.cmd = "CHANNEL_CHANGE"
         /\ subs' = subs
      \/ /\ msg.cmd = "VALUE"
         /\ msg.channel # config[t].channel
         /\ subs' = [subs EXCEPT ![t] = {"CHANNEL_CHANGE"}]
      \/ /\ msg.cmd = "VALUE"
         /\ "VALUE" \in subs[t]
         /\ subs' = subs
  BY <1>3, <1>6 DEF HandleLine, WakeUp, GoDormant, Evaluate, IsReturn, Announces,
                    TypeOK, TriggerTypeOK
<1> HIDE DEF q, r, msg
<1>8. /\ subs' \in [Triggers -> SUBSET {"VALUE", "CHANNEL_CHANGE"}]
      /\ subs'[t] \in {{"VALUE"}, {"CHANNEL_CHANGE"}}
      /\ \A u \in Triggers : u # t => subs'[u] = subs[u]
      /\ "VALUE" \notin subs'[t] =>
            \/ msg.cmd = "VALUE" /\ msg.channel # config[t].channel
            \/ ~IsReturn(t, msg) /\ subs' = subs
  <2>1. subs \in [Triggers -> SUBSET {"VALUE", "CHANNEL_CHANGE"}]
    BY DEF TypeOK, TriggerTypeOK
  <2>2. CASE IsReturn(t, msg) /\ subs' = [subs EXCEPT ![t] = {"VALUE"}]
    BY <2>1, <2>2
  <2>3. CASE ~IsReturn(t, msg) /\ subs' = subs
    BY <1>6, <2>1, <2>3
  <2>4. CASE /\ msg.cmd = "VALUE"
             /\ msg.channel # config[t].channel
             /\ subs' = [subs EXCEPT ![t] = {"CHANNEL_CHANGE"}]
    BY <2>1, <2>4
  <2>5. CASE "VALUE" \in subs[t] /\ subs' = subs
    BY <1>6, <2>1, <2>5
  <2> QED
    BY <1>7, <2>2, <2>3, <2>4, <2>5
<1>9. TypeOK'
  <2>1. inbox' \in [Subscribers -> Seq(Message)]
    BY <1>1, <1>2, <1>4 DEF TypeOK, LineTypeOK, q, r
  <2>2. LineTypeOK'
    BY <1>1, <2>1 DEF TypeOK, LineTypeOK
  <2>3. TriggerTypeOK'
    <3>1. revents' \in [Triggers -> SUBSET {"control", "line"}]
      BY <1>1 DEF TypeOK, TriggerTypeOK
    <3> QED
      BY <1>1, <1>8, <3>1, HandleLineTypes DEF TypeOK, TriggerTypeOK
  <2> QED
    BY <2>2, <2>3 DEF TypeOK, MonitorTypeOK
<1>10. ControlProtocol'
  BY <1>1 DEF ControlProtocol, Rendezvous, Abandoned
<1>11. QueuesConsistent'
  <2>1. Connected' = Connected /\ t \in Connected
    BY <1>1 DEF Connected
  <2>2. \E k \in 0 .. Len(q) : r = SubSeq(q, k + 1, Len(q))
    BY <1>2, <1>3, TailIsSuffix
  <2> QED
    BY <1>1, <1>2, <2>1, <2>2, QueuesShrink DEF q, r
<1>12. SubscriptionOK'
  <2>1. revents'[t] = {} /\ \A u \in Triggers : u # t => revents'[u] = revents[u]
    BY <1>1 DEF TypeOK, TriggerTypeOK
  <2> QED
    BY <1>1, <1>2, <1>8, <2>1 DEF SubscriptionOK
<1>13. ASSUME "VALUE" \notin subs'[t], mem.current_channel = config[t].channel
       PROVE  \E i \in DOMAIN r : IsReturn(t, r[i])
  <2>1. CASE msg.cmd = "VALUE" /\ msg.channel # config[t].channel
    <3>1. PICK k \in DOMAIN q : 1 < k /\ Announces(q[k], mem.current_channel)
      BY <1>2, <1>5, <1>13, <2>1 DEF QueuesConsistent, UpToDate, q
    <3> QED
      BY <1>5, <1>13, <3>1 DEF IsReturn
  <2>2. CASE ~IsReturn(t, msg) /\ subs' = subs
    <3>1. PICK i \in DOMAIN q : IsReturn(t, q[i])
      BY <1>1, <1>13, <2>2 DEF NoMissedWakeup, Dormant, q
    <3>2. 1 < i
      BY <1>5, <2>2, <3>1
    <3> QED
      BY <1>5, <3>1, <3>2
  <2> QED
    BY <1>8, <1>13, <2>1, <2>2
<1>14. NoMissedWakeup'
  BY <1>1, <1>2, <1>8, <1>13 DEF NoMissedWakeup, Dormant, IsReturn, r
<1>15. ASSUME "VALUE" \notin subs'[t], NEW j \in DOMAIN r, IsOwnValue(t, r[j])
       PROVE  \E i \in 1 .. j - 1 : IsReturn(t, r[i])
  <2>1. j + 1 \in DOMAIN q /\ r[j] = q[j + 1] /\ j \in Nat
    BY <1>4, <1>5
  <2>2. CASE msg.cmd = "VALUE" /\ msg.channel # config[t].channel
    <3>1. Announced(q) /\ 1 < j + 1 /\ 1 \in DOMAIN q
      BY <1>2, <1>4, <1>5, <1>15 DEF QueuesConsistent, q
    <3>2. q[1].cmd = "VALUE" /\ q[j + 1].cmd = "VALUE"
                            /\ q[1].channel # q[j + 1].channel
      BY <1>5, <1>15, <2>1, <2>2 DEF IsOwnValue, IsValueOf
    <3>3. PICK k \in DOMAIN q : 1 < k /\ k < j + 1 /\ Announces(q[k], q[j + 1].channel)
      BY <2>1, <3>1, <3>2 DEF Announced
    <3>4. k - 1 \in 1 .. j - 1 /\ r[k - 1] = q[k]
      BY <1>5, <2>1, <3>3
    <3> QED
      BY <1>15, <2>1, <3>3, <3>4 DEF IsReturn, IsOwnValue, IsValueOf
  <2>3. CASE ~IsReturn(t, msg) /\ subs' = subs
    <3>1. PICK i \in 1 .. (j + 1) - 1 : IsReturn(t, q[i])
      BY <1>1, <1>15, <2>1, <2>3 DEF NoValueLost, Dormant, q
    <3>2. 1 < i
      BY <1>5, <2>1, <2>3, <3>1
    <3>3. i - 1 \in 1 .. j - 1 /\ r[i - 1] = q[i]
      BY <1>5, <2>1, <3>1, <3>2
    <3> QED
      BY <3>1, <3>3
  <2> QED
    BY <1>8, <1>15, <2>2, <2>3
<1>16. NoValueLost'
  BY <1>1, <1>2, <1>8, <1>15 DEF NoValueLost, Dormant, IsReturn, IsOwnValue, IsValueOf, r
<1> QED
  BY <1>9, <1>10, <1>11, <1>12, <1>14, <1>16

-----------------------------------------------------------------------------
\* The monitors' steps: none of them touches a trigger, its queue included.
LEMMA MonitorFrame ==
    ASSUME IInv, NEW m \in Monitors, UNCHANGED <<lineVars, triggerVars>>,
           MonitorTypeOK',
           \A n \in Monitors \ {m} : watch'[n] = watch[n],
           \/ inbox' = inbox /\ watch'[m] # "none"
           \/ /\ inbox[m] # << >>
              /\ inbox' = [inbox EXCEPT ![m] = Tail(@)]
              /\ watch'[m] # "none"
           \/ inbox' = [inbox EXCEPT ![m] = << >>]
    PROVE  IInv'
<1> USE DEF IInv, lineVars, triggerVars, workerVars, threadVars
<1>1. /\ m \in Subscribers
      /\ m \notin Triggers
      /\ inbox \in [Subscribers -> Seq(Message)]
  BY BusAssumption DEF TypeOK, LineTypeOK
<1>2. \A s \in Subscribers : s # m => inbox'[s] = inbox[s]
  BY <1>1
<1>3. \A t \in Triggers : inbox'[t] = inbox[t]
  BY <1>1, <1>2, BusAssumption
<1>4. \/ inbox'[m] = inbox[m] /\ watch'[m] # "none"
      \/ inbox[m] # << >> /\ inbox'[m] = Tail(inbox[m]) /\ watch'[m] # "none"
      \/ inbox'[m] = << >>
  BY <1>1
<1>5. TypeOK'
  <2>1. << >> \in Seq(Message)
    BY EmptySeq
  <2>2. inbox[m] # << >> => Tail(inbox[m]) \in Seq(Message)
    BY <1>1, HeadTailProperties
  <2>3. inbox' \in [Subscribers -> Seq(Message)]
    BY <1>1, <2>1, <2>2
  <2> QED
    BY <2>3 DEF TypeOK, LineTypeOK, TriggerTypeOK
<1>6. ControlProtocol'
  BY DEF ControlProtocol, Rendezvous, Abandoned
<1>9. SubscriptionOK'
  BY <1>3 DEF SubscriptionOK
<1>7. NoMissedWakeup' /\ NoValueLost'
  BY <1>3 DEF NoMissedWakeup, NoValueLost, Dormant, IsReturn, IsOwnValue, IsValueOf
<1>8. QueuesConsistent'
  <2>1. \A s \in Subscribers : s # m => (s \in Connected' <=> s \in Connected)
    BY DEF Connected
  <2>2. watch'[m] # "none" => m \in Connected'
    BY DEF Connected
  <2>3. ASSUME inbox[m] # << >>, inbox'[m] = Tail(inbox[m])
        PROVE  \E k \in 0 .. Len(inbox[m]) :
                  inbox'[m] = SubSeq(inbox[m], k + 1, Len(inbox[m]))
    BY <1>1, <2>3, TailIsSuffix
  <2> QED
    BY <1>2, <1>4, <2>1, <2>2, <2>3, QueuesShrink
<1> QED
  BY <1>5, <1>6, <1>7, <1>8, <1>9

LEMMA QuitIInv ==
    ASSUME IInv, NEW m \in Monitors, Quit(m), UNCHANGED triggerVars
    PROVE  IInv'
<1>1. MonitorTypeOK' /\ \A n \in Monitors \ {m} : watch'[n] = watch[n]
  BY DEF IInv, TypeOK, MonitorTypeOK, Quit
<1> QED
  BY <1>1, MonitorFrame DEF Quit

LEMMA MonitorIInv ==
    ASSUME IInv, NEW m \in Monitors, UNCHANGED triggerVars,
           \/ \E channel \in MonitorChannels : AddMonitor(m, channel)
           \/ Expire(m)
           \/ MonitorStep(m)
    PROVE  IInv'
<1>0. MonitorTypeOK /\ inbox \in [Subscribers -> Seq(Message)] /\ m \in Subscribers
  BY BusAssumption DEF IInv, TypeOK, LineTypeOK
<1>1. ASSUME NEW channel \in MonitorChannels, AddMonitor(m, channel)
      PROVE  IInv'
  <2>1. /\ MonitorTypeOK'
        /\ watch'[m] # "none"
        /\ \A n \in Monitors \ {m} : watch'[n] = watch[n]
    BY <1>0, <1>1 DEF AddMonitor, MonitorTypeOK
  <2> QED
    BY <1>1, <2>1, MonitorFrame DEF AddMonitor, lineVars
<1>2. CASE Expire(m)
  <2>1. MonitorTypeOK' /\ watch'[m] # "none" /\ watch' = watch
    BY <1>0, <1>2 DEF Expire, MonitorTypeOK
  <2> QED
    BY <1>2, <2>1, MonitorFrame DEF Expire, lineVars
<1>3. CASE MeetDeadline(m)
  BY <1>3, QuitIInv DEF MeetDeadline
<1>4. CASE Continue(m)
  <2>1. /\ MonitorTypeOK'
        /\ watch'[m] # "none"
        /\ \A n \in Monitors \ {m} : watch'[n] = watch[n]
    BY <1>0, <1>4 DEF Continue, MonitorTypeOK
  <2> QED
    BY <1>4, <2>1, MonitorFrame DEF Continue, lineVars
<1>5. CASE Discard(m)
  <2>1. MonitorTypeOK' /\ watch'[m] # "none" /\ watch' = watch
    BY <1>0, <1>5 DEF Discard, MonitorTypeOK, monitorVars
  <2> QED
    BY <1>5, <2>1, MonitorFrame DEF Discard, lineVars
<1>6. CASE Forward(m)
  <2>1. Head(inbox[m]) \in Message /\ Head(inbox[m]).cmd = "VALUE"
    BY <1>0, <1>6, HeadTailProperties DEF Forward, Receive
  <2>2. Head(inbox[m]).epoch \in Epochs
    BY <2>1 DEF Message, ChangeMessage, ValueMessage
  <2>3. /\ MonitorTypeOK'
        /\ watch'[m] # "none"
        /\ \A n \in Monitors \ {m} : watch'[n] = watch[n]
    BY <1>0, <1>6, <2>2 DEF Forward, MonitorTypeOK
  <2> QED
    BY <1>6, <2>3, MonitorFrame DEF Forward, Receive, lineVars
<1>7. CASE LoseChannel(m)
  BY <1>7, QuitIInv DEF LoseChannel
<1> QED
  BY <1>1, <1>2, <1>3, <1>4, <1>5, <1>6, <1>7 DEF MonitorStep

-----------------------------------------------------------------------------
\* A reading reaches every connected subscriber, and no one else.
LEMMA ReadingIInv ==
    ASSUME IInv, NEW channel \in Channels, NEW value \in Values,
           Reading(channel, value, Connected), UNCHANGED <<triggerVars, monitorVars>>
    PROVE  IInv'
<1> DEFINE e   == NextEpoch(channel, mem, epoch)
           out == Publications(channel, value, mem, e)
<1> USE DEF IInv, triggerVars, workerVars, threadVars, monitorVars
<1>1. /\ mem' = Remember(channel, mem)
      /\ inbox' = [s \in Subscribers |->
                      IF s \in Connected THEN inbox[s] \o out ELSE inbox[s]]
      /\ epoch' = e
      /\ doubt' = NextDoubt(channel, mem, doubt)
  BY DEF Reading
<1>2. mem \in ChannelMemory /\ mem' \in ChannelMemory
  BY <1>1, RememberType DEF TypeOK, LineTypeOK
<1>3. e \in Epochs
  BY NextEpochType DEF TypeOK, LineTypeOK
<1>4. out \in Seq(Message)
  BY <1>3, PublicationsType
<1>5. inbox \in [Subscribers -> Seq(Message)]
  BY DEF TypeOK, LineTypeOK
<1> HIDE DEF e, out
<1>6. \A s \in Subscribers :
         /\ s \in Connected => inbox'[s] = inbox[s] \o out
         /\ s \notin Connected => inbox'[s] = << >>
  BY <1>1 DEF QueuesConsistent
<1>7. TypeOK'
  <2>1. inbox' \in [Subscribers -> Seq(Message)]
    BY <1>1, <1>4, <1>5, ConcatProperties
  <2>2. doubt' \in 0 .. DoubtBound
    BY <1>1, LineAssumption DEF NextDoubt, TypeOK, LineTypeOK
  <2>3. LineTypeOK'
    BY <1>1, <1>2, <1>3, <2>1, <2>2 DEF LineTypeOK
  <2> QED
    BY <2>3 DEF TypeOK, TriggerTypeOK, MonitorTypeOK
<1>8. ControlProtocol'
  BY DEF ControlProtocol, Rendezvous, Abandoned
<1>9. Connected' = Connected
  BY DEF Connected
<1>10. ASSUME NEW s \in Connected
       PROVE  /\ Announced(inbox'[s])
              /\ UpToDate(inbox'[s], mem'.current_channel)
  <2>1. s \in Subscribers
    BY BusAssumption DEF Connected
  <2>2. /\ inbox[s] \in Seq(Message)
        /\ Announced(inbox[s])
        /\ UpToDate(inbox[s], mem.current_channel)
    BY <1>5, <2>1 DEF QueuesConsistent
  <2> QED
    BY <1>1, <1>2, <1>3, <1>6, <2>1, <2>2, PublicationsConsistent DEF out
<1>11. QueuesConsistent'
  <2> SUFFICES ASSUME NEW s \in Subscribers, s \notin Connected
               PROVE  Announced(inbox'[s]) /\ UpToDate(inbox'[s], mem'.current_channel)
    BY <1>6, <1>9, <1>10 DEF QueuesConsistent
  <2> QED
    BY <1>6 DEF Announced, UpToDate
\* The queue of a running trigger is the old one with something behind it.
<1>12. ASSUME NEW t \in Triggers, thread[t] = "polling"
       PROVE  /\ inbox[t] \in Seq(Message)
              /\ inbox'[t] = inbox[t] \o out
              /\ Len(inbox[t]) \in Nat /\ Len(out) \in Nat
              /\ DOMAIN inbox[t] = 1 .. Len(inbox[t])
              /\ DOMAIN inbox'[t] = 1 .. Len(inbox[t]) + Len(out)
              /\ \A i \in 1 .. Len(inbox[t]) : inbox'[t][i] = inbox[t][i]
              /\ \A i \in 1 .. Len(out) : inbox'[t][Len(inbox[t]) + i] = out[i]
  <2>1. t \in Connected /\ t \in Subscribers
    BY <1>12, BusAssumption DEF Connected
  <2>2. inbox[t] \in Seq(Message) /\ inbox'[t] = inbox[t] \o out
    BY <1>5, <1>6, <2>1
  <2>3. Len(inbox[t]) \in Nat /\ Len(out) \in Nat
    BY <1>4, <2>2, LenProperties
  <2>4. /\ inbox'[t] \in Seq(Message)
        /\ Len(inbox'[t]) = Len(inbox[t]) + Len(out)
        /\ \A i \in 1 .. Len(inbox[t]) + Len(out) : inbox'[t][i] =
               IF i <= Len(inbox[t]) THEN inbox[t][i] ELSE out[i - Len(inbox[t])]
    BY <1>4, <2>2, ConcatProperties
  <2> QED
    BY <2>2, <2>3, <2>4, LenProperties
<1>13. SubscriptionOK'
  <2> SUFFICES ASSUME NEW t \in Triggers, "line" \in revents[t]
               PROVE  inbox'[t] # << >> /\ Head(inbox'[t]).cmd \in subs[t]
    BY DEF SubscriptionOK
  <2>1. thread[t] = "polling" /\ inbox[t] # << >> /\ Head(inbox[t]).cmd \in subs[t]
    BY DEF SubscriptionOK
  <2>2. 1 \in DOMAIN inbox[t] /\ Head(inbox[t]) = inbox[t][1]
    BY <1>12, <2>1, LenProperties, EmptySeq
  <2>3. 1 \in DOMAIN inbox'[t] /\ inbox'[t][1] = inbox[t][1]
    BY <1>12, <2>1, <2>2
  <2>4. inbox'[t] \in Seq(Message)
    BY <1>4, <1>12, <2>1, ConcatProperties
  <2> QED
    BY <2>1, <2>2, <2>3, <2>4, EmptySeq
\* What the reading adds names the rule's channel only behind its return.
<1>14. ASSUME NEW t \in Triggers, Dormant(t)
       PROVE  /\ mem'.current_channel = config[t].channel =>
                     \E i \in DOMAIN inbox'[t] : IsReturn(t, inbox'[t][i])
              /\ \A j \in DOMAIN inbox'[t] : IsOwnValue(t, inbox'[t][j]) =>
                     \E i \in 1 .. j - 1 : IsReturn(t, inbox'[t][i])
  <2> DEFINE q == inbox[t]
             p == inbox'[t]
  <2>1. /\ Len(q) \in Nat /\ Len(out) \in Nat
        /\ DOMAIN q = 1 .. Len(q)
        /\ DOMAIN p = 1 .. Len(q) + Len(out)
        /\ \A i \in 1 .. Len(q) : p[i] = q[i]
        /\ \A i \in 1 .. Len(out) : p[Len(q) + i] = out[i]
    BY <1>12, <1>14 DEF Dormant
  <2>2. /\ mem.current_channel = config[t].channel =>
               \E i \in DOMAIN q : IsReturn(t, q[i])
        /\ \A j \in DOMAIN q : IsOwnValue(t, q[j]) =>
               \E i \in 1 .. j - 1 : IsReturn(t, q[i])
    BY <1>14 DEF NoMissedWakeup, NoValueLost
  <2>3. mem'.current_channel =
           IF PortChanged(channel, mem) THEN channel ELSE mem.current_channel
    BY <1>1, <1>2, RememberChannel
  <2> HIDE DEF q, p
  <2>4. ASSUME NEW j \in DOMAIN q, IsOwnValue(t, p[j])
        PROVE  \E i \in 1 .. j - 1 : IsReturn(t, p[i])
    <3>1. PICK i \in 1 .. j - 1 : IsReturn(t, q[i])
      BY <2>1, <2>2, <2>4
    <3>2. p[i] = q[i]
      BY <2>1, <3>1
    <3> QED
      BY <3>1, <3>2
  <2>5. CASE PortChanged(channel, mem)
    <3>1. out = <<ChannelChange(channel, e), Value(channel, value, e)>>
      BY <2>5 DEF Publications, out
    <3>2. Len(out) = 2 /\ out[1] = ChannelChange(channel, e)
                      /\ out[2] = Value(channel, value, e)
      BY <3>1
    <3>3. p[Len(q) + 1] = ChannelChange(channel, e)
      BY <2>1, <3>2
    <3>4. p[Len(q) + 2] = Value(channel, value, e)
      BY <2>1, <3>2
    <3>5. channel = config[t].channel => IsReturn(t, p[Len(q) + 1])
      BY <3>3 DEF ChannelChange, IsReturn, Announces
    <3>6. ~IsOwnValue(t, p[Len(q) + 1])
      BY <3>3 DEF ChannelChange, IsOwnValue, IsValueOf
    <3>7. IsOwnValue(t, p[Len(q) + 2]) => channel = config[t].channel
      BY <3>4 DEF Value, IsOwnValue, IsValueOf
    <3>8. ASSUME NEW j \in DOMAIN p, IsOwnValue(t, p[j])
          PROVE  \E i \in 1 .. j - 1 : IsReturn(t, p[i])
      <4>1. CASE j \in DOMAIN q
        BY <2>4, <3>8, <4>1
      <4>2. CASE j = Len(q) + 2
        BY <2>1, <3>5, <3>7, <3>8, <4>2
      <4>3. j \in DOMAIN q \/ j = Len(q) + 1 \/ j = Len(q) + 2
        BY <2>1, <3>2
      <4> QED
        BY <3>6, <3>8, <4>1, <4>2, <4>3
    <3>9. Len(q) + 1 \in DOMAIN p
      BY <2>1, <3>2
    <3> QED
      BY <2>3, <2>5, <3>5, <3>8, <3>9 DEF p
  <2>6. CASE ~PortChanged(channel, mem)
    <3>1. mem.current_channel = config[t].channel =>
             \E i \in DOMAIN q : IsReturn(t, p[i])
      BY <2>1, <2>2
    <3>2. CASE channel = mem.current_channel
      <4>1. out = <<Value(channel, value, e)>>
        BY <2>6, <3>2 DEF Publications, out
      <4>2. Len(out) = 1 /\ out[1] = Value(channel, value, e)
        BY <4>1
      <4>3. p[Len(q) + 1] = Value(channel, value, e)
        BY <2>1, <4>2
      <4>4. IsOwnValue(t, p[Len(q) + 1]) => channel = config[t].channel
        BY <4>3 DEF Value, IsOwnValue, IsValueOf
      <4>5. ASSUME NEW j \in DOMAIN p, IsOwnValue(t, p[j])
            PROVE  \E i \in 1 .. j - 1 : IsReturn(t, p[i])
        <5>1. CASE j \in DOMAIN q
          BY <2>4, <4>5, <5>1
        <5>2. CASE j = Len(q) + 1
          <6>1. PICK i \in DOMAIN q : IsReturn(t, p[i])
            BY <3>1, <3>2, <4>4, <4>5, <5>2
          <6> QED
            BY <2>1, <5>2, <6>1
        <5>3. j \in DOMAIN q \/ j = Len(q) + 1
          BY <2>1, <4>2
        <5> QED
          BY <5>1, <5>2, <5>3
      <4> QED
        BY <2>1, <2>3, <2>6, <3>1, <4>2, <4>5 DEF p
    <3>3. CASE channel # mem.current_channel
      <4>1. out = << >>
        BY <2>6, <3>3 DEF Publications, out
      <4>2. DOMAIN p = DOMAIN q
        BY <2>1, <4>1
      <4> QED
        BY <2>3, <2>4, <2>6, <3>1, <4>2 DEF p
    <3> QED
      BY <3>2, <3>3
  <2> QED
    BY <2>5, <2>6
<1>15. NoMissedWakeup' /\ NoValueLost'
  BY <1>14 DEF NoMissedWakeup, NoValueLost, Dormant, IsReturn, IsOwnValue, IsValueOf
<1> QED
  BY <1>7, <1>8, <1>11, <1>13, <1>15

-----------------------------------------------------------------------------
\* Every step preserves the invariant.
LEMMA NextIInv == IInv /\ [Next]_vars => IInv'
<1> SUFFICES ASSUME IInv, [Next]_vars PROVE IInv'
  OBVIOUS
<1>1. CASE LineStep
  BY <1>1, ReadingIInv DEF LineStep
<1>2. ASSUME NEW t \in Triggers, WorkerStep(t), UNCHANGED monitorVars
      PROVE  IInv'
  BY <1>2, CreateTriggerIInv, SendPingIInv, TriggerCreatedIInv, RemoveRuleIInv, RuleRemovedIInv
     DEF WorkerStep
<1>3. ASSUME NEW t \in Triggers, TriggerStep(t), UNCHANGED monitorVars
      PROVE  IInv'
  BY <1>3, RejectIInv, StartIInv, PollIInv, HandleControlIInv, HandleLineIInv
     DEF TriggerStep
<1>4. ASSUME NEW m \in Monitors, UNCHANGED triggerVars,
             \/ \E channel \in MonitorChannels : AddMonitor(m, channel)
             \/ Expire(m)
             \/ MonitorStep(m)
      PROVE  IInv'
  BY <1>4, MonitorIInv
<1>5. CASE UNCHANGED vars
  <2>1. UNCHANGED <<mem, inbox, epoch, doubt, rule, config, control, thread, memory,
                    subs, revents, actions, late, swung>>
    BY <1>5 DEF vars, lineVars, triggerVars, workerVars, threadVars
  <2>2. UNCHANGED monitorVars
    BY <1>5 DEF vars
  <2>3. TypeOK'
    BY <2>1, <2>2 DEF IInv, TypeOK, LineTypeOK, TriggerTypeOK, MonitorTypeOK,
       monitorVars
  <2>4. ControlProtocol'
    BY <2>1 DEF IInv, ControlProtocol, Rendezvous, Abandoned
  <2>5. QueuesConsistent'
    BY <2>1, <2>2 DEF IInv, QueuesConsistent, Connected, Announced, UpToDate, monitorVars
  <2>6. SubscriptionOK'
    BY <2>1 DEF IInv, SubscriptionOK
  <2>7. NoMissedWakeup' /\ NoValueLost'
    BY <2>1 DEF IInv, NoMissedWakeup, NoValueLost, Dormant, IsReturn, IsOwnValue,
       IsValueOf
  <2> QED
    BY <2>3, <2>4, <2>5, <2>6, <2>7 DEF IInv
<1> QED
  BY <1>1, <1>2, <1>3, <1>4, <1>5 DEF Next

LEMMA Invariance == Spec => []IInv
BY InitIInv, NextIInv, PTL DEF Spec

\* The types of LineBus hold for every instance of it.
THEOREM TypeCorrectness == Spec => []TypeOK
<1>1. IInv => TypeOK
  BY DEF IInv
<1> QED
  BY <1>1, Invariance, PTL

\* At any time either the worker or the thread of a rule has the next move in
\* their exchange over the control pipe, or the worker waits for a thread that
\* has refused a rule it does not understand before the ping was sent.
THEOREM ControlProtocolHolds == Spec => []ControlProtocol
<1>1. IInv => ControlProtocol
  BY DEF IInv
<1> QED
  BY <1>1, Invariance, PTL

\* Whatever the line does while a trigger is dormant, and however late the
\* trigger notices, the return of its channel is in its queue.
THEOREM WakeupIsNeverMissed == Spec => []NoMissedWakeup
<1>1. IInv => NoMissedWakeup
  BY DEF IInv
<1> QED
  BY <1>1, Invariance, PTL

\* No reading of the rule's channel is thrown away as unsubscribed.
THEOREM ValueIsNeverLost == Spec => []NoValueLost
<1>1. IInv => NoValueLost
  BY DEF IInv
<1> QED
  BY <1>1, Invariance, PTL
=============================================================================
