-------------------------- MODULE SubscriberProofs --------------------------
(***************************************************************************)
(* Proofs about what LineBus remembers of its subscribers, for any number  *)
(* of them: how far a rule goes after its removal has begun, what arms it, *)
(* on what evidence the line changes channel, and that a monitor shows one *)
(* stay of the line on its channel and little more than a minute of it;    *)
(* and that a trigger thread implements ValueFeed.                         *)
(***************************************************************************)
EXTENDS LineBusProofs, FeedRefinement

\* The thread of a rule: a DoAction sent after the Destroy leaves it without a
\* reading in hand, and the next poll reports the Destroy with every reading.
ThreadHistory(t) ==
    /\ late[t] \in 0 .. 1
    /\ late[t] = 1 =>
          rule[t] = "removing" /\ control[t] = "Destroy" /\ revents[t] # {"line"}
    /\ thread[t] # "polling" => swung[t]
    /\ thread[t] = "polling" /\ memory[t].ready => swung[t]

\* A monitor that has forwarded a reading too many is about to read the clock.
MonitorHistory(m) ==
    /\ overtime[m] \in 0 .. 1
    /\ overtime[m] = 1 => expired[m] /\ watch[m] = "deadline"

\* Every round, and the candidate that collects them, has cost a reading.
Evidence ==
    doubt >= mem.confirmed_rounds
             + (IF mem.next_channel \in {NoChannel, mem.current_channel} THEN 0 ELSE 1)

\* Between the readings of two stays on a channel is a reading of another ...
IsValue(msg) == msg.cmd = "VALUE"
Elsewhere(msg, channel) == IsValue(msg) /\ msg.channel # channel

Parted(q) ==
    \A i, j \in DOMAIN q :
        /\ i < j /\ IsValue(q[i]) /\ IsValue(q[j])
        /\ q[i].channel = q[j].channel
        /\ q[i].epoch # q[j].epoch
        => \E k \in DOMAIN q : i < k /\ k < j /\ Elsewhere(q[k], q[i].channel)

\* ... as there is behind a reading of another stay than the line's present one,
\* which is on channel in epoch e ...
PartedBefore(q, channel, e) ==
    \A i \in DOMAIN q :
        IsValue(q[i]) /\ ~(q[i].channel = channel /\ q[i].epoch = e)
        => \E k \in DOMAIN q : i < k /\ Elsewhere(q[k], q[i].channel)

\* ... and in front of a reading of another stay than the one forwarded last.
PartedAfter(q, channel, e) ==
    \A j \in DOMAIN q :
        IsValue(q[j]) /\ q[j].channel = channel /\ q[j].epoch # e
        => \E k \in DOMAIN q : k < j /\ Elsewhere(q[k], channel)

LeftFor(q, channel) == \E k \in DOMAIN q : Elsewhere(q[k], channel)

SourceInv(m) ==
    source[m] # Nothing =>
        /\ watch[m] # "none"
        /\ PartedAfter(inbox[m], watched[m], source[m])
        /\ \/ mem.current_channel = watched[m] /\ epoch = source[m]
           \/ LeftFor(inbox[m], watched[m])

StayInv(m) ==
    /\ Parted(inbox[m])
    /\ PartedBefore(inbox[m], mem.current_channel, epoch)
    /\ SourceInv(m)

-----------------------------------------------------------------------------
\* The evidence for a change of channel.

LEMMA EvidenceReading ==
    ASSUME DoubtBound >= LIMIT + 2, LineTypeOK, Evidence, NEW channel \in Channels,
           mem' = Remember(channel, mem), doubt' = NextDoubt(channel, mem, doubt)
    PROVE  /\ Evidence'
           /\ mem'.current_channel # mem.current_channel => doubt >= LIMIT + 2
<1>1. /\ mem \in ChannelMemory
      /\ mem.confirmed_rounds \in 0 .. LIMIT + 1
      /\ doubt \in Nat /\ doubt <= DoubtBound
      /\ LIMIT \in Nat /\ DoubtBound \in Nat
      /\ channel # NoChannel /\ mem.current_channel # NoChannel
  BY DebounceAssumption, LineAssumption DEF LineTypeOK, ChannelMemory
<1>2. CASE channel = mem.current_channel
  BY <1>1, <1>2 DEF Remember, NextDoubt, PortChanged, Evidence
<1>3. CASE channel # mem.current_channel /\ channel # mem.next_channel
  <2>1. mem' = [mem EXCEPT !.next_channel = channel]
    BY <1>3 DEF Remember
  <2>2. /\ mem'.current_channel = mem.current_channel
        /\ mem'.confirmed_rounds = mem.confirmed_rounds
    BY <1>1, <2>1 DEF ChannelMemory
  <2>3. doubt' = IF doubt < DoubtBound THEN doubt + 1 ELSE doubt
    BY <1>3 DEF NextDoubt, PortChanged
  <2>4. doubt' >= mem'.confirmed_rounds + 1
    BY <1>1, <2>2, <2>3 DEF Evidence
  <2>5. doubt' \in Nat /\ mem'.confirmed_rounds \in Nat
    BY <1>1, <2>2, <2>3
  <2> QED
    BY <2>2, <2>4, <2>5 DEF Evidence
<1>4. CASE PortChanged(channel, mem)
  <2>1. /\ channel = mem.next_channel /\ channel # mem.current_channel
        /\ mem.confirmed_rounds = LIMIT + 1
    BY <1>1, <1>4 DEF PortChanged
  <2>2. doubt >= LIMIT + 2
    BY <1>1, <2>1 DEF Evidence
  <2>3. /\ doubt' = 0 /\ mem'.next_channel = NoChannel
        /\ mem'.confirmed_rounds = 0
    BY <1>4, <2>1 DEF Remember, NextDoubt
  <2> QED
    BY <2>2, <2>3 DEF Evidence
<1>5. CASE /\ channel # mem.current_channel /\ channel = mem.next_channel
           /\ ~PortChanged(channel, mem)
  <2>1. mem' = [mem EXCEPT !.confirmed_rounds = @ + 1]
    BY <1>5 DEF Remember
  <2>2. /\ mem'.current_channel = mem.current_channel
        /\ mem'.next_channel = mem.next_channel
        /\ mem'.confirmed_rounds = mem.confirmed_rounds + 1
    BY <1>1, <2>1 DEF ChannelMemory
  <2>3. mem.confirmed_rounds <= LIMIT
    BY <1>1, <1>5 DEF PortChanged
  <2>4. doubt' = IF doubt < DoubtBound THEN doubt + 1 ELSE doubt
    BY <1>5 DEF NextDoubt
  <2>5. doubt >= mem.confirmed_rounds + 1
    BY <1>1, <1>5 DEF Evidence
  <2>6. doubt' >= mem.confirmed_rounds + 2
    BY <1>1, <2>3, <2>4, <2>5
  <2> QED
    BY <1>1, <1>5, <2>2, <2>6 DEF Evidence
<1> QED
  BY <1>2, <1>3, <1>4, <1>5

\* No step but a reading touches the line's memory.
LEMMA LineFrame ==
    ASSUME [Next]_vars, ~LineStep
    PROVE  UNCHANGED lineVars
<1>1. ASSUME NEW t \in Triggers, WorkerStep(t) \/ TriggerStep(t)
      PROVE  UNCHANGED lineVars
  BY <1>1 DEF WorkerStep, TriggerStep, CreateTrigger, SendPing, TriggerCreated, RemoveRule,
     RuleRemoved, Reject, Start, Poll, HandleControl, HandleLine
<1>2. ASSUME NEW m \in Monitors,
             \/ \E channel \in MonitorChannels : AddMonitor(m, channel)
             \/ Expire(m)
             \/ MonitorStep(m)
      PROVE  UNCHANGED lineVars
  BY <1>2 DEF MonitorStep, AddMonitor, Expire, MeetDeadline, Continue, Discard,
     Forward, LoseChannel, Quit
<1> QED
  BY <1>1, <1>2 DEF Next, vars

LEMMA EvidenceStep ==
    ASSUME DoubtBound >= LIMIT + 2, TypeOK, Evidence, [Next]_vars
    PROVE  /\ Evidence'
           /\ mem'.current_channel # mem.current_channel => doubt >= LIMIT + 2
<1>1. CASE LineStep
  BY <1>1, EvidenceReading DEF LineStep, Reading, TypeOK
<1>2. CASE ~LineStep
  BY <1>2, LineFrame DEF lineVars, Evidence
<1> QED
  BY <1>1, <1>2

\* A change of channel takes LIMIT + 2 readings that doubt the old one, if that
\* many are counted (line.c:36).
THEOREM ChangeNeedsEvidence ==
    ASSUME DoubtBound >= LIMIT + 2 PROVE Spec => EnoughEvidence
<1>1. Init => Evidence
  BY DEF Init, LineInit, InitialMemory, Evidence
<1>2. TypeOK /\ Evidence /\ [Next]_vars => Evidence'
  BY EvidenceStep
<1>3. TypeOK /\ Evidence /\ [Next]_vars =>
          [mem'.current_channel # mem.current_channel => doubt >= LIMIT + 2]_vars
  BY EvidenceStep
<1> QED
  BY <1>1, <1>2, <1>3, TypeCorrectness, PTL DEF Spec, EnoughEvidence

-----------------------------------------------------------------------------
\* The threads of the rules.

ThreadState(t) == <<rule[t], control[t], thread[t], memory[t], revents[t], late[t], swung[t]>>

\* No one moves a rule but its worker and its thread.
LEMMA OnlyItsOwn ==
    ASSUME TypeOK, [Next]_vars, NEW t \in Triggers,
           ~(WorkerStep(t) \/ TriggerStep(t))
    PROVE  UNCHANGED ThreadState(t)
<1> USE DEF ThreadState
<1>1. CASE UNCHANGED triggerVars
  BY <1>1 DEF triggerVars, workerVars, threadVars
<1>2. ASSUME NEW u \in Triggers \ {t}, WorkerStep(u)
      PROVE  UNCHANGED ThreadState(t)
  BY <1>2 DEF WorkerStep, CreateTrigger, SendPing, TriggerCreated, RemoveRule, RuleRemoved,
     threadVars, TypeOK, TriggerTypeOK
<1>3. ASSUME NEW u \in Triggers \ {t}, TriggerStep(u)
      PROVE  UNCHANGED ThreadState(t)
  <2>1. CASE Reject(u) \/ HandleControl(u)
    BY <1>3, <2>1 DEF Reject, HandleControl, Exit, TypeOK, TriggerTypeOK
  <2>2. CASE Start(u)
    BY <1>3, <2>2 DEF Start, TypeOK, TriggerTypeOK
  <2>3. CASE Poll(u)
    BY <1>3, <2>3 DEF Poll, workerVars, TypeOK, TriggerTypeOK
  <2>4. CASE HandleLine(u)
    BY <1>3, <2>4 DEF HandleLine, WakeUp, GoDormant, Evaluate, workerVars, TypeOK,
       TriggerTypeOK
  <2> QED
    BY <1>3, <2>1, <2>2, <2>3, <2>4 DEF TriggerStep
<1> QED
  BY <1>1, <1>2, <1>3 DEF Next, LineStep, vars

\* What a trigger function leaves ready was ready or has been reset, and has not
\* acted.
LEMMA ReadyHasSwung ==
    ASSUME NEW request, NEW m \in TriggerMemory, NEW value \in Values,
           trigger_func(request.channel, request.trigger_name, m, value).ready
    PROVE  /\ ~trigger_func(request.channel, request.trigger_name, m, value).acts
           /\ m.ready \/ Resets(request, m, value)
<1>1. /\ m.ready \in BOOLEAN
      /\ m.trigger_level \in Nat /\ m.reset_level \in Nat /\ value \in Nat
  BY LineAssumption DEF TriggerMemory
<1>2. /\ value > m.trigger_level => ~(value <= m.trigger_level)
      /\ value < m.trigger_level => ~(value >= m.trigger_level)
  BY <1>1
<1>3. falls_below(m, value).ready =>
         ~falls_below(m, value).acts /\ (m.ready \/ value >= m.reset_level)
  BY <1>2, Zenon DEF falls_below
<1>4. rises_above(m, value).ready =>
         ~rises_above(m, value).acts /\ (m.ready \/ value <= m.reset_level)
  BY <1>2, Zenon DEF rises_above
<1> QED
  BY <1>3, <1>4 DEF trigger_func, Resets

\* A message that a thread takes from its line is one of the line's.
LEMMA OwnReading ==
    ASSUME IInv, NEW t \in Triggers, revents[t] = {"line"}, Head(inbox[t]).cmd = "VALUE"
    PROVE  Head(inbox[t]).value \in Values
<1>1. inbox[t] \in Seq(Message) /\ inbox[t] # << >>
  BY BusAssumption DEF IInv, TypeOK, LineTypeOK, SubscriptionOK
<1>2. Head(inbox[t]) \in Message
  BY <1>1, HeadTailProperties
<1> QED
  BY <1>2 DEF Message, ChangeMessage, ValueMessage

LEMMA HandleLineHistory ==
    ASSUME IInv, NEW t \in Triggers, ThreadHistory(t), HandleLine(t)
    PROVE  ThreadHistory(t)'
<1> DEFINE msg == Head(inbox[t])
           result == trigger_func(config[t].channel, config[t].trigger_name,
                                  memory[t], msg.value)
<1>1. /\ late \in [Triggers -> 0 .. 2] /\ swung \in [Triggers -> BOOLEAN]
      /\ revents \in [Triggers -> SUBSET {"control", "line"}]
      /\ memory \in [Triggers -> TriggerMemory \union {NoMemory}]
      /\ thread[t] = "polling" => memory[t] \in TriggerMemory
  BY DEF IInv, TypeOK, TriggerTypeOK
<1>2. /\ thread[t] = "polling" /\ thread' = thread
      /\ revents[t] = {"line"} /\ revents'[t] = {}
      /\ UNCHANGED <<rule, control>>
  BY <1>1 DEF HandleLine, workerVars
<1>3. late[t] = 0
  BY <1>2 DEF ThreadHistory
<1>4. rule[t] = "removing" => control[t] = "Destroy"
  BY <1>2 DEF IInv, ControlProtocol, Rendezvous, Abandoned
<1>5. {} # {"line"}
  OBVIOUS
<1>6. CASE UNCHANGED <<memory, late, swung>>
  BY <1>2, <1>5, <1>6 DEF ThreadHistory
<1>7. CASE msg.cmd = "VALUE" /\ Evaluate(t, msg.value)
  <2>1. memory[t] \in TriggerMemory /\ msg.value \in Values
    BY <1>1, <1>2, <1>7, OwnReading
  <2>2. memory'[t].ready = result.ready
    BY <1>1, <1>7, <2>1 DEF Evaluate, TriggerMemory
  <2>3. /\ late'[t] \in 0 .. 1
        /\ late'[t] = 1 => rule[t] = "removing"
    BY <1>1, <1>3, <1>7 DEF Evaluate
  <2>4. swung'[t] = (~result.acts /\ (swung[t] \/ Resets(config[t], memory[t], msg.value)))
    BY <1>1, <1>7 DEF Evaluate
  <2>5. result.ready => ~result.acts /\ (memory[t].ready \/ Resets(config[t], memory[t], msg.value))
    BY <2>1, ReadyHasSwung
  <2> HIDE DEF result, msg
  <2>6. memory[t].ready => swung[t]
    BY <1>2 DEF ThreadHistory
  <2>7. memory'[t].ready => swung'[t]
    BY <2>2, <2>4, <2>5, <2>6, Zenon
  <2> QED
    BY <1>2, <1>4, <1>5, <2>3, <2>7 DEF ThreadHistory
<1> QED
  BY <1>6, <1>7 DEF HandleLine, WakeUp, GoDormant

LEMMA ThreadHistoryStep ==
    ASSUME IInv, [Next]_vars, NEW t \in Triggers, ThreadHistory(t)
    PROVE  ThreadHistory(t)'
<1>0. /\ rule \in [Triggers -> {"absent", "forked", "creating", "installed", "removing"}]
      /\ control \in [Triggers -> {"none", "ping", "pong", "bad trigger",
                                   "no such trigger", "Destroy", "ok"}]
      /\ thread \in [Triggers -> {"none", "starting", "polling"}]
      /\ revents \in [Triggers -> SUBSET {"control", "line"}]
      /\ late \in [Triggers -> 0 .. 2]
      /\ swung \in [Triggers -> BOOLEAN]
      /\ Rendezvous(t) \/ Abandoned(t)
      /\ TypeOK
  BY DEF IInv, TypeOK, TriggerTypeOK, ControlProtocol
<1>1. CASE ~(WorkerStep(t) \/ TriggerStep(t))
  BY <1>0, <1>1, OnlyItsOwn DEF ThreadState, ThreadHistory
<1>2. CASE WorkerStep(t)
  <2>1. UNCHANGED <<memory, revents, late, swung>> /\ late[t] \in 0 .. 1
    BY <1>2 DEF WorkerStep, CreateTrigger, SendPing, TriggerCreated, RemoveRule, RuleRemoved,
       threadVars, ThreadHistory
  <2>2. ~(rule[t] = "removing" /\ control[t] = "Destroy")
    BY <1>2 DEF WorkerStep, CreateTrigger, SendPing, TriggerCreated, RemoveRule, RuleRemoved
  <2>3. thread'[t] = thread[t] \/ (thread[t] = "none" /\ thread'[t] = "starting")
    BY <1>0, <1>2 DEF WorkerStep, CreateTrigger, SendPing, TriggerCreated, RemoveRule, RuleRemoved,
       threadVars, Rendezvous, Abandoned
  <2>4. late[t] = 0
    BY <2>1, <2>2 DEF ThreadHistory
  <2> QED
    BY <2>1, <2>3, <2>4 DEF ThreadHistory
<1>3. CASE Reject(t) \/ HandleControl(t)
  <2>1. /\ thread'[t] = "none"
        /\ late'[t] = 0
    BY <1>0, <1>3 DEF Reject, HandleControl, Exit
  <2>2. swung' = [swung EXCEPT ![t] = TRUE]
    BY <1>3 DEF Reject, HandleControl, Exit
  <2>3. swung'[t]
    BY <1>0, <2>2, Zenon
  <2> QED
    BY <2>1, <2>3 DEF ThreadHistory
<1>4. CASE Start(t)
  <2>1. thread[t] = "starting" /\ rule[t] # "removing"
    BY <1>0, <1>4 DEF Start, Rendezvous, Abandoned
  <2>2. swung[t] /\ late[t] \in 0 .. 1 /\ late[t] # 1
    BY <2>1 DEF ThreadHistory
  <2>3. UNCHANGED <<late, swung>>
    BY <1>4 DEF Start
  <2> QED
    BY <2>2, <2>3 DEF ThreadHistory
<1>5. CASE Poll(t)
  <2>1. /\ UNCHANGED <<rule, control, thread, memory, late, swung>>
        /\ control[t] = "Destroy" => "control" \in revents'[t]
    <3>1. UNCHANGED <<rule, control, thread, memory, late, swung>>
      BY <1>5 DEF Poll, workerVars
    <3>2. \E read \in SUBSET {"line"} :
             revents' = [revents EXCEPT ![t] =
                 read \union (IF control[t] = "Destroy" THEN {"control"} ELSE {})]
      BY <1>5 DEF Poll
    <3>3. control[t] = "Destroy" => "control" \in revents'[t]
      <4> SUFFICES ASSUME control[t] = "Destroy" PROVE "control" \in revents'[t]
        OBVIOUS
      <4>1. PICK read \in SUBSET {"line"} :
               revents' = [revents EXCEPT ![t] = read \union {"control"}]
        BY <3>2
      <4> QED
        BY <1>0, <4>1
    <3> QED
      BY <3>1, <3>3
  <2> QED
    BY <2>1 DEF ThreadHistory
<1>6. CASE HandleLine(t)
  BY <1>6, HandleLineHistory
<1> QED
  BY <1>1, <1>2, <1>3, <1>4, <1>5, <1>6 DEF TriggerStep

LEMMA ThreadHistories == Spec => [](\A t \in Triggers : ThreadHistory(t))
<1>1. Init => \A t \in Triggers : ThreadHistory(t)
  BY DEF Init, TriggerInit, ThreadHistory
<1>2. /\ IInv
      /\ \A t \in Triggers : ThreadHistory(t)
      /\ [Next]_vars
      => (\A t \in Triggers : ThreadHistory(t))'
  BY ThreadHistoryStep
<1> QED
  BY <1>1, <1>2, Invariance, PTL DEF Spec

\* Once its removal has begun, a rule acts at most once more (trigger.c:272-292).
THEOREM OneActionAfterDestroy == Spec => []AtMostOneActionAfterDestroy
<1>1. (\A t \in Triggers : ThreadHistory(t)) => AtMostOneActionAfterDestroy
  BY DEF ThreadHistory, AtMostOneActionAfterDestroy
<1> QED
  BY <1>1, ThreadHistories, PTL

\* Nothing but a reading at its reset level arms a rule again: not the line's
\* absence from its channel, and not its return.
THEOREM ResetArms == Spec => []ArmedOnlyAfterReset
<1>1. (\A t \in Triggers : ThreadHistory(t)) => ArmedOnlyAfterReset
  BY DEF ThreadHistory, ArmedOnlyAfterReset
<1> QED
  BY <1>1, ThreadHistories, PTL

-----------------------------------------------------------------------------
\* Lemmas about the stays in a queue.

\* p is q with the publications of one reading behind it: one value at most, the
\* last message, of the channel and the epoch the line is in then, and surely
\* one if the reading has taken the line there from the old channel.
Continues(p, q, old, oldEpoch, new, newEpoch) ==
    /\ Len(q) \in Nat /\ DOMAIN q = 1 .. Len(q)
    /\ Len(p) \in Nat /\ DOMAIN p = 1 .. Len(p)
    /\ Len(q) <= Len(p)
    /\ \A i \in DOMAIN q : p[i] = q[i]
    /\ \A i \in DOMAIN p \ DOMAIN q :
          IsValue(p[i]) => i = Len(p) /\ p[i].channel = new /\ p[i].epoch = newEpoch
    /\ \/ new = old /\ newEpoch = oldEpoch
       \/ new # old /\ Len(q) < Len(p) /\ IsValue(p[Len(p)])

LEMMA ReadingContinues ==
    ASSUME NEW q \in Seq(Message), NEW channel \in Channels, NEW value \in Values,
           NEW m \in ChannelMemory, NEW e \in Epochs
    PROVE  LET new == NextEpoch(channel, m, e)
           IN  Continues(q \o Publications(channel, value, m, new), q,
                         m.current_channel, e,
                         Remember(channel, m).current_channel, new)
<1> DEFINE new == NextEpoch(channel, m, e)
           out == Publications(channel, value, m, new)
           p   == q \o out
           c   == Remember(channel, m).current_channel
<1>1. new \in Epochs /\ out \in Seq(Message)
  BY NextEpochType, PublicationsType
<1>2. /\ p \in Seq(Message)
      /\ Len(p) = Len(q) + Len(out)
      /\ \A i \in 1 .. Len(q) + Len(out) : p[i] =
             IF i <= Len(q) THEN q[i] ELSE out[i - Len(q)]
  BY <1>1, ConcatProperties
<1>3. /\ Len(q) \in Nat /\ DOMAIN q = 1 .. Len(q)
      /\ Len(p) \in Nat /\ DOMAIN p = 1 .. Len(p)
      /\ Len(out) \in Nat
  BY <1>1, <1>2, LenProperties
<1>4. c = IF PortChanged(channel, m) THEN channel ELSE m.current_channel
  BY RememberChannel
<1>5. CASE PortChanged(channel, m)
  <2>1. out = <<ChannelChange(channel, new), Value(channel, value, new)>>
    BY <1>5 DEF Publications
  <2>2. Len(out) = 2 /\ out[1] = ChannelChange(channel, new)
                    /\ out[2] = Value(channel, value, new)
    BY <2>1
  <2>3. ~IsValue(out[1]) /\ IsValue(out[2])
        /\ out[2].channel = channel /\ out[2].epoch = new
    BY <2>2 DEF ChannelChange, Value, IsValue
  <2>4. c = channel /\ channel # m.current_channel
    BY <1>4, <1>5 DEF PortChanged
  <2> HIDE DEF new, out, p, c
  <2>5. Len(p) = Len(q) + 2 /\ p[Len(q) + 1] = out[1] /\ p[Len(q) + 2] = out[2]
    BY <1>2, <1>3, <2>2
  <2>6. \A i \in DOMAIN q : p[i] = q[i]
    BY <1>2, <1>3
  <2>7. \A i \in DOMAIN p \ DOMAIN q : i = Len(q) + 1 \/ i = Len(p)
    BY <1>3, <2>5
  <2>8. Continues(p, q, m.current_channel, e, c, new)
    BY <1>3, <2>3, <2>4, <2>5, <2>6, <2>7 DEF Continues
  <2> QED
    BY <2>8 DEF new, out, p, c
<1>6. CASE ~PortChanged(channel, m) /\ channel = m.current_channel
  <2>1. out = <<Value(channel, value, new)>>
    BY <1>6 DEF Publications
  <2>2. Len(out) = 1 /\ out[1] = Value(channel, value, new)
    BY <2>1
  <2>3. out[1].channel = channel /\ out[1].epoch = new
    BY <2>2 DEF Value
  <2>4. c = m.current_channel /\ new = e
    BY <1>4, <1>6 DEF NextEpoch
  <2> HIDE DEF new, out, p, c
  <2>5. Len(p) = Len(q) + 1 /\ p[Len(p)] = out[1]
    BY <1>2, <1>3, <2>2
  <2>6. \A i \in DOMAIN q : p[i] = q[i]
    BY <1>2, <1>3
  <2>7. \A i \in DOMAIN p \ DOMAIN q : i = Len(p)
    BY <1>3, <2>5
  <2>8. Continues(p, q, m.current_channel, e, c, new)
    BY <1>3, <1>6, <2>3, <2>4, <2>5, <2>6, <2>7 DEF Continues
  <2> QED
    BY <2>8 DEF new, out, p, c
<1>7. CASE ~PortChanged(channel, m) /\ channel # m.current_channel
  <2>1. out = << >>
    BY <1>7 DEF Publications
  <2>2. p = q
    BY <2>1, ConcatEmptySeq
  <2>3. c = m.current_channel /\ new = e
    BY <1>4, <1>7 DEF NextEpoch
  <2> HIDE DEF new, out, p, c
  <2>4. Continues(p, q, m.current_channel, e, c, new)
    BY <1>3, <2>2, <2>3 DEF Continues
  <2> QED
    BY <2>4 DEF new, out, p, c
<1> QED
  BY <1>5, <1>6, <1>7

\* The stays of a queue stay apart when it goes on.
LEMMA StaysContinue ==
    ASSUME NEW p, NEW q, NEW old, NEW oldEpoch, NEW new, NEW newEpoch,
           Continues(p, q, old, oldEpoch, new, newEpoch),
           Parted(q), PartedBefore(q, old, oldEpoch)
    PROVE  Parted(p) /\ PartedBefore(p, new, newEpoch)
<1> USE DEF Continues
<1>1. Parted(p)
  <2> SUFFICES ASSUME NEW i \in DOMAIN p, NEW j \in DOMAIN p, i < j,
                      IsValue(p[i]), IsValue(p[j]),
                      p[i].channel = p[j].channel, p[i].epoch # p[j].epoch
               PROVE  \E k \in DOMAIN p : i < k /\ k < j /\ Elsewhere(p[k], p[i].channel)
    BY DEF Parted
  <2>1. i \in DOMAIN q /\ p[i] = q[i]
    OBVIOUS
  <2>2. CASE j \in DOMAIN q
    <3>1. PICK k \in DOMAIN q : i < k /\ k < j /\ Elsewhere(q[k], q[i].channel)
      BY <2>1, <2>2 DEF Parted
    <3> QED
      BY <2>1, <3>1
  <2>3. CASE j \notin DOMAIN q
    <3>1. j = Len(p) /\ p[j].channel = new /\ p[j].epoch = newEpoch
      BY <2>3
    <3>2. ~(q[i].channel = old /\ q[i].epoch = oldEpoch)
      BY <2>1, <3>1
    <3>3. PICK k \in DOMAIN q : i < k /\ Elsewhere(q[k], q[i].channel)
      BY <2>1, <3>2 DEF PartedBefore
    <3> QED
      BY <2>1, <2>3, <3>1, <3>3
  <2> QED
    BY <2>2, <2>3
<1>2. PartedBefore(p, new, newEpoch)
  <2> SUFFICES ASSUME NEW i \in DOMAIN p, IsValue(p[i]),
                      ~(p[i].channel = new /\ p[i].epoch = newEpoch)
               PROVE  \E k \in DOMAIN p : i < k /\ Elsewhere(p[k], p[i].channel)
    BY DEF PartedBefore
  <2>1. i \in DOMAIN q /\ p[i] = q[i]
    OBVIOUS
  <2>2. CASE ~(q[i].channel = old /\ q[i].epoch = oldEpoch)
    <3>1. PICK k \in DOMAIN q : i < k /\ Elsewhere(q[k], q[i].channel)
      BY <2>1, <2>2 DEF PartedBefore
    <3> QED
      BY <2>1, <3>1
  <2>3. CASE q[i].channel = old /\ q[i].epoch = oldEpoch
    <3>1. new # old /\ Len(q) < Len(p) /\ IsValue(p[Len(p)])
      BY <2>1, <2>3
    <3>2. Len(p) \in DOMAIN p /\ Len(p) \notin DOMAIN q /\ i < Len(p)
      BY <2>1, <3>1
    <3> QED
      BY <2>1, <2>3, <3>1, <3>2 DEF Elsewhere
  <2> QED
    BY <2>2, <2>3
<1> QED
  BY <1>1, <1>2

LEMMA SourceContinues ==
    ASSUME NEW p, NEW q, NEW old, NEW oldEpoch, NEW new, NEW newEpoch,
           Continues(p, q, old, oldEpoch, new, newEpoch),
           NEW c, NEW e, PartedAfter(q, c, e),
           (old = c /\ oldEpoch = e) \/ LeftFor(q, c)
    PROVE  /\ PartedAfter(p, c, e)
           /\ (new = c /\ newEpoch = e) \/ LeftFor(p, c)
<1> USE DEF Continues
<1>1. LeftFor(q, c) => LeftFor(p, c)
  BY DEF LeftFor
<1>2. PartedAfter(p, c, e)
  <2> SUFFICES ASSUME NEW j \in DOMAIN p, IsValue(p[j]), p[j].channel = c, p[j].epoch # e
               PROVE  \E k \in DOMAIN p : k < j /\ Elsewhere(p[k], c)
    BY DEF PartedAfter
  <2>1. CASE j \in DOMAIN q
    BY <2>1 DEF PartedAfter
  <2>2. CASE j \notin DOMAIN q
    <3>1. j = Len(p) /\ new = c /\ newEpoch # e
      BY <2>2
    <3>2. PICK k \in DOMAIN q : Elsewhere(q[k], c)
      BY <3>1 DEF LeftFor
    <3> QED
      BY <2>2, <3>1, <3>2
  <2> QED
    BY <2>1, <2>2
<1>3. (new = c /\ newEpoch = e) \/ LeftFor(p, c)
  <2>1. CASE new # old
    <3>1. new # c => LeftFor(p, c)
      BY <2>1 DEF LeftFor, Elsewhere
    <3> QED
      BY <1>1, <2>1, <3>1
  <2> QED
    BY <1>1, <2>1
<1> QED
  BY <1>2, <1>3

\* What was behind the head of a queue is in its tail.
LEMMA TailShift ==
    ASSUME NEW q \in Seq(Message), q # << >>
    PROVE  /\ Len(q) \in Nat /\ DOMAIN q = 1 .. Len(q)
           /\ DOMAIN Tail(q) = 1 .. Len(q) - 1
           /\ \A i \in DOMAIN Tail(q) : i + 1 \in DOMAIN q /\ Tail(q)[i] = q[i + 1]
           /\ \A n \in DOMAIN q : 1 < n => n - 1 \in DOMAIN Tail(q) /\ Tail(q)[n - 1] = q[n]
           /\ 1 \in DOMAIN q /\ Head(q) = q[1]
<1>1. /\ Len(q) \in Nat /\ DOMAIN q = 1 .. Len(q)
      /\ DOMAIN Tail(q) = 1 .. Len(q) - 1
      /\ \A i \in DOMAIN Tail(q) : i + 1 \in DOMAIN q /\ Tail(q)[i] = q[i + 1]
      /\ \A n \in DOMAIN q : 1 < n => n - 1 \in DOMAIN Tail(q) /\ Tail(q)[n - 1] = q[n]
  BY HeadTailProperties, LenProperties
<1>2. Len(q) # 0
  BY EmptySeq
<1> QED
  BY <1>1, <1>2, HeadTailProperties

\* What reading the head of a queue leaves of its stays.
LEMMA StaysTail ==
    ASSUME NEW q \in Seq(Message), q # << >>, NEW channel, NEW e,
           Parted(q), PartedBefore(q, channel, e)
    PROVE  Parted(Tail(q)) /\ PartedBefore(Tail(q), channel, e)
<1> DEFINE r == Tail(q)
<1>1. /\ Len(q) \in Nat /\ DOMAIN q = 1 .. Len(q)
      /\ DOMAIN r = 1 .. Len(q) - 1
      /\ \A i \in DOMAIN r : i + 1 \in DOMAIN q /\ r[i] = q[i + 1]
      /\ \A n \in DOMAIN q : 1 < n => n - 1 \in DOMAIN r /\ r[n - 1] = q[n]
  BY TailShift
<1> HIDE DEF r
<1>2. Parted(r)
  <2> SUFFICES ASSUME NEW i \in DOMAIN r, NEW j \in DOMAIN r, i < j,
                      IsValue(r[i]), IsValue(r[j]),
                      r[i].channel = r[j].channel, r[i].epoch # r[j].epoch
               PROVE  \E k \in DOMAIN r : i < k /\ k < j /\ Elsewhere(r[k], r[i].channel)
    BY DEF Parted
  <2>1. PICK k \in DOMAIN q : i + 1 < k /\ k < j + 1 /\ Elsewhere(q[k], q[i + 1].channel)
    BY <1>1 DEF Parted
  <2>2. k - 1 \in DOMAIN r /\ i < k - 1 /\ k - 1 < j /\ r[k - 1] = q[k]
    BY <1>1, <2>1
  <2> QED
    BY <1>1, <2>1, <2>2
<1>3. PartedBefore(r, channel, e)
  <2> SUFFICES ASSUME NEW i \in DOMAIN r, IsValue(r[i]),
                      ~(r[i].channel = channel /\ r[i].epoch = e)
               PROVE  \E k \in DOMAIN r : i < k /\ Elsewhere(r[k], r[i].channel)
    BY DEF PartedBefore
  <2>1. PICK k \in DOMAIN q : i + 1 < k /\ Elsewhere(q[k], q[i + 1].channel)
    BY <1>1 DEF PartedBefore
  <2>2. k - 1 \in DOMAIN r /\ i < k - 1 /\ r[k - 1] = q[k]
    BY <1>1, <2>1
  <2> QED
    BY <1>1, <2>1, <2>2
<1> QED
  BY <1>2, <1>3 DEF r

\* A change of channel at the head says nothing of the stay that is shown.
LEMMA SourceTail ==
    ASSUME NEW q \in Seq(Message), q # << >>, Head(q).cmd = "CHANNEL_CHANGE",
           NEW channel, NEW e, PartedAfter(q, channel, e)
    PROVE  /\ PartedAfter(Tail(q), channel, e)
           /\ LeftFor(q, channel) => LeftFor(Tail(q), channel)
<1> DEFINE r == Tail(q)
<1>1. /\ Len(q) \in Nat /\ DOMAIN q = 1 .. Len(q)
      /\ DOMAIN r = 1 .. Len(q) - 1
      /\ \A i \in DOMAIN r : i + 1 \in DOMAIN q /\ r[i] = q[i + 1]
      /\ \A n \in DOMAIN q : 1 < n => n - 1 \in DOMAIN r /\ r[n - 1] = q[n]
      /\ ~Elsewhere(q[1], channel)
  BY TailShift DEF Elsewhere, IsValue
<1> HIDE DEF r
<1>2. PartedAfter(r, channel, e)
  <2> SUFFICES ASSUME NEW j \in DOMAIN r, IsValue(r[j]), r[j].channel = channel,
                      r[j].epoch # e
               PROVE  \E k \in DOMAIN r : k < j /\ Elsewhere(r[k], channel)
    BY DEF PartedAfter
  <2>1. PICK k \in DOMAIN q : k < j + 1 /\ Elsewhere(q[k], channel)
    BY <1>1 DEF PartedAfter
  <2>2. k # 1
    BY <1>1, <2>1
  <2>3. k - 1 \in DOMAIN r /\ k - 1 < j /\ r[k - 1] = q[k]
    BY <1>1, <2>1, <2>2
  <2> QED
    BY <2>1, <2>3
<1>3. LeftFor(q, channel) => LeftFor(r, channel)
  BY <1>1 DEF LeftFor
<1> QED
  BY <1>2, <1>3 DEF r

\* A reading at the head is of the stay that the tail goes on with or leaves.
LEMMA SourceOfHead ==
    ASSUME NEW q \in Seq(Message), q # << >>, IsValue(Head(q)),
           NEW channel, NEW e, Parted(q), PartedBefore(q, channel, e)
    PROVE  /\ PartedAfter(Tail(q), Head(q).channel, Head(q).epoch)
           /\ \/ channel = Head(q).channel /\ e = Head(q).epoch
              \/ LeftFor(Tail(q), Head(q).channel)
<1> DEFINE r == Tail(q)
           h == Head(q)
<1>1. /\ Len(q) \in Nat /\ DOMAIN q = 1 .. Len(q)
      /\ DOMAIN r = 1 .. Len(q) - 1
      /\ \A i \in DOMAIN r : i + 1 \in DOMAIN q /\ r[i] = q[i + 1]
      /\ \A n \in DOMAIN q : 1 < n => n - 1 \in DOMAIN r /\ r[n - 1] = q[n]
      /\ 1 \in DOMAIN q /\ h = q[1] /\ IsValue(h)
  BY TailShift
<1> HIDE DEF r, h
<1>2. PartedAfter(r, h.channel, h.epoch)
  <2> SUFFICES ASSUME NEW j \in DOMAIN r, IsValue(r[j]), r[j].channel = h.channel,
                      r[j].epoch # h.epoch
               PROVE  \E k \in DOMAIN r : k < j /\ Elsewhere(r[k], h.channel)
    BY DEF PartedAfter
  <2>1. j + 1 \in DOMAIN q /\ 1 < j + 1 /\ r[j] = q[j + 1]
    BY <1>1
  <2>2. PICK k \in DOMAIN q : 1 < k /\ k < j + 1 /\ Elsewhere(q[k], h.channel)
    BY <1>1, <2>1 DEF Parted
  <2>3. k - 1 \in DOMAIN r /\ k - 1 < j /\ r[k - 1] = q[k]
    BY <1>1, <2>2
  <2> QED
    BY <2>2, <2>3
<1>3. ~(channel = h.channel /\ e = h.epoch) => LeftFor(r, h.channel)
  <2> SUFFICES ASSUME ~(channel = h.channel /\ e = h.epoch)
               PROVE  LeftFor(r, h.channel)
    OBVIOUS
  <2>1. PICK k \in DOMAIN q : 1 < k /\ Elsewhere(q[k], h.channel)
    BY <1>1 DEF PartedBefore
  <2>2. k - 1 \in DOMAIN r /\ r[k - 1] = q[k]
    BY <1>1, <2>1
  <2> QED
    BY <2>1, <2>2 DEF LeftFor
<1> QED
  BY <1>2, <1>3 DEF r, h

\* The next reading of the stay's channel is of that stay.
LEMMA HeadIsOfSource ==
    ASSUME NEW q \in Seq(Message), q # << >>, IsValue(Head(q)),
           NEW e, PartedAfter(q, Head(q).channel, e)
    PROVE  Head(q).epoch = e
<1>1. /\ 1 \in DOMAIN q /\ Head(q) = q[1]
      /\ Len(q) \in Nat /\ DOMAIN q = 1 .. Len(q)
  BY TailShift
<1>2. \A k \in DOMAIN q : ~(k < 1)
  BY <1>1
<1> QED
  BY <1>1, <1>2 DEF PartedAfter

-----------------------------------------------------------------------------
\* The monitors.

MonitorState(m) == <<watch[m], watched[m], expired[m], source[m], overtime[m]>>

OwnStep(m) ==
    \/ \E channel \in MonitorChannels : AddMonitor(m, channel)
    \/ Expire(m)
    \/ MonitorStep(m)

\* No one moves a monitor but its worker, its thread and the clock, and no one
\* touches its queue but its thread and the line.
LEMMA OnlyMonitorsOwn ==
    ASSUME TypeOK, [Next]_vars, NEW m \in Monitors, ~OwnStep(m)
    PROVE  /\ UNCHANGED MonitorState(m)
           /\ LineStep \/ (UNCHANGED lineVars /\ inbox'[m] = inbox[m])
<1> USE DEF MonitorState
<1>0. /\ m \in Subscribers /\ m \notin Triggers
      /\ inbox \in [Subscribers -> Seq(Message)]
      /\ MonitorTypeOK
  BY BusAssumption DEF TypeOK, LineTypeOK
<1>1. CASE LineStep
  BY <1>1 DEF LineStep, monitorVars
<1>2. CASE UNCHANGED vars
  BY <1>2 DEF vars, lineVars, monitorVars
<1>3. ASSUME NEW t \in Triggers, WorkerStep(t) \/ TriggerStep(t), UNCHANGED monitorVars
      PROVE  UNCHANGED MonitorState(m) /\ UNCHANGED lineVars /\ inbox'[m] = inbox[m]
  <2>1. t # m
    BY <1>0
  <2>2. UNCHANGED lineVars
    BY <1>3 DEF WorkerStep, TriggerStep, CreateTrigger, SendPing, TriggerCreated, RemoveRule,
       RuleRemoved, Reject, Start, Poll, HandleControl, HandleLine
  <2>3. inbox' = inbox \/ \E q : inbox' = [inbox EXCEPT ![t] = q]
    BY <1>3 DEF WorkerStep, TriggerStep, CreateTrigger, SendPing, TriggerCreated, RemoveRule,
       RuleRemoved, Reject, Start, Poll, HandleControl, HandleLine, Exit
  <2> QED
    BY <1>0, <1>3, <2>1, <2>2, <2>3 DEF monitorVars
<1>4. ASSUME NEW n \in Monitors \ {m}, OwnStep(n)
      PROVE  UNCHANGED MonitorState(m) /\ UNCHANGED lineVars /\ inbox'[m] = inbox[m]
  <2>1. CASE \E channel \in MonitorChannels : AddMonitor(n, channel)
    BY <1>0, <2>1 DEF AddMonitor, MonitorTypeOK
  <2>2. CASE Expire(n) \/ Continue(n)
    BY <1>0, <2>2 DEF Expire, Continue, MonitorTypeOK
  <2>3. CASE Discard(n)
    BY <1>0, <2>3 DEF Discard, monitorVars
  <2>4. CASE Forward(n)
    BY <1>0, <2>4 DEF Forward, MonitorTypeOK
  <2>5. CASE MeetDeadline(n) \/ LoseChannel(n)
    BY <1>0, <2>5 DEF MeetDeadline, LoseChannel, Quit, MonitorTypeOK
  <2> QED
    BY <1>4, <2>1, <2>2, <2>3, <2>4, <2>5 DEF OwnStep, MonitorStep
<1> QED
  BY <1>1, <1>2, <1>3, <1>4 DEF Next, OwnStep

LEMMA MonitorHistoryStep ==
    ASSUME TypeOK, [Next]_vars, NEW m \in Monitors, MonitorHistory(m)
    PROVE  MonitorHistory(m)'
<1>0. MonitorTypeOK
  BY DEF TypeOK
<1>1. CASE ~OwnStep(m)
  BY <1>1, OnlyMonitorsOwn DEF MonitorState, MonitorHistory
<1>2. CASE \E channel \in MonitorChannels : AddMonitor(m, channel)
  BY <1>0, <1>2 DEF AddMonitor, MonitorTypeOK, MonitorHistory
<1>3. CASE Expire(m)
  BY <1>0, <1>3 DEF Expire, MonitorTypeOK, MonitorHistory
<1>4. CASE Continue(m)
  BY <1>0, <1>4 DEF Continue, MonitorTypeOK, MonitorHistory
<1>5. CASE Discard(m)
  BY <1>5 DEF Discard, monitorVars, MonitorHistory
<1>6. CASE Forward(m)
  <2>1. overtime[m] = 0
    BY <1>6 DEF Forward, Receive, MonitorHistory
  <2>2. /\ overtime'[m] = IF expired[m] THEN 1 ELSE 0
        /\ watch'[m] = "deadline" /\ expired' = expired
    BY <1>0, <1>6, <2>1 DEF Forward, MonitorTypeOK
  <2> QED
    BY <2>2 DEF MonitorHistory
<1>7. CASE MeetDeadline(m) \/ LoseChannel(m)
  BY <1>0, <1>7 DEF MeetDeadline, LoseChannel, Quit, MonitorTypeOK, MonitorHistory
<1> QED
  BY <1>1, <1>2, <1>3, <1>4, <1>5, <1>6, <1>7 DEF OwnStep, MonitorStep

\* A monitor forwards at most one reading after its minute (monitor.c:57-58).
THEOREM MonitorMeetsDeadline == Spec => []AtMostOneOvertime
<1>1. Init => \A m \in Monitors : MonitorHistory(m)
  BY DEF Init, MonitorInit, MonitorHistory
<1>2. TypeOK /\ (\A m \in Monitors : MonitorHistory(m)) /\ [Next]_vars
      => (\A m \in Monitors : MonitorHistory(m))'
  BY MonitorHistoryStep
<1>3. (\A m \in Monitors : MonitorHistory(m)) => AtMostOneOvertime
  BY DEF MonitorHistory, AtMostOneOvertime
<1> QED
  BY <1>1, <1>2, <1>3, TypeCorrectness, PTL DEF Spec

\* What a reading of the line makes of a monitor's queue.
LEMMA StayReading ==
    ASSUME IInv, LineStep, NEW m \in Monitors, StayInv(m)
    PROVE  StayInv(m)'
<1>1. PICK channel \in Channels, value \in Values :
         /\ Reading(channel, value, Connected)
         /\ UNCHANGED <<triggerVars, monitorVars>>
  BY DEF LineStep
<1>2. /\ m \in Subscribers /\ mem \in ChannelMemory /\ epoch \in Epochs
      /\ inbox[m] \in Seq(Message)
      /\ watch[m] = "none" => m \notin Connected /\ inbox[m] = << >>
      /\ watch[m] # "none" => m \in Connected
  BY BusAssumption DEF IInv, TypeOK, LineTypeOK, QueuesConsistent, Connected
<1>3. UNCHANGED <<watch, watched, source>>
  BY <1>1 DEF monitorVars
<1>4. CASE watch[m] = "none"
  <2>1. inbox'[m] = << >>
    BY <1>1, <1>2, <1>4 DEF Reading
  <2>2. DOMAIN inbox'[m] = {}
    BY <2>1
  <2>3. source'[m] = Nothing
    BY <1>3, <1>4 DEF StayInv, SourceInv
  <2> QED
    BY <2>2, <2>3 DEF StayInv, SourceInv, Parted, PartedBefore
<1>5. CASE watch[m] # "none"
  <2>1. Continues(inbox'[m], inbox[m], mem.current_channel, epoch,
                  mem'.current_channel, epoch')
    BY <1>1, <1>2, <1>5, ReadingContinues DEF Reading
  <2>2. Parted(inbox'[m]) /\ PartedBefore(inbox'[m], mem'.current_channel, epoch')
    BY <2>1, StaysContinue DEF StayInv
  <2>3. SourceInv(m)'
    BY <1>3, <2>1, SourceContinues DEF StayInv, SourceInv
  <2> QED
    BY <2>2, <2>3 DEF StayInv
<1> QED
  BY <1>4, <1>5

\* A monitor forwards the next reading of the stay it is in, or its first one.
LEMMA StayForward ==
    ASSUME IInv, NEW m \in Monitors, Forward(m), StayInv(m)
    PROVE  /\ StayInv(m)'
           /\ source[m] # Nothing => source'[m] = source[m]
<1>1. /\ inbox[m] \in Seq(Message) /\ inbox[m] # << >> /\ IsValue(Head(inbox[m]))
      /\ Head(inbox[m]).channel = watched[m]
      /\ inbox'[m] = Tail(inbox[m])
      /\ source'[m] = Head(inbox[m]).epoch
      /\ watch'[m] # "none"
      /\ UNCHANGED <<mem, epoch, watched>>
  BY BusAssumption DEF IInv, TypeOK, LineTypeOK, MonitorTypeOK, Forward, Receive,
     IsValue, lineVars
<1>2. Parted(inbox'[m]) /\ PartedBefore(inbox'[m], mem.current_channel, epoch)
  BY <1>1, StaysTail DEF StayInv
<1>3. SourceInv(m)'
  BY <1>1, SourceOfHead DEF StayInv, SourceInv
<1>4. source[m] # Nothing => source'[m] = source[m]
  BY <1>1, HeadIsOfSource DEF StayInv, SourceInv
<1> QED
  BY <1>1, <1>2, <1>3, <1>4 DEF StayInv

LEMMA StayStep ==
    ASSUME IInv, [Next]_vars, NEW m \in Monitors, StayInv(m)
    PROVE  /\ StayInv(m)'
           /\ source[m] # Nothing /\ source'[m] # Nothing => source'[m] = source[m]
<1>0. /\ m \in Subscribers
      /\ inbox \in [Subscribers -> Seq(Message)]
      /\ MonitorTypeOK /\ TypeOK
  BY BusAssumption DEF IInv, TypeOK, LineTypeOK
<1>1. CASE ~OwnStep(m)
  <2>1. UNCHANGED MonitorState(m)
    BY <1>0, <1>1, OnlyMonitorsOwn
  <2>2. CASE LineStep
    BY <2>1, <2>2, StayReading DEF MonitorState
  <2>3. CASE UNCHANGED lineVars /\ inbox'[m] = inbox[m]
    BY <2>1, <2>3 DEF lineVars, MonitorState, StayInv, SourceInv
  <2> QED
    BY <1>0, <1>1, <2>2, <2>3, OnlyMonitorsOwn
<1>2. CASE \E channel \in MonitorChannels : AddMonitor(m, channel)
  <2>1. source'[m] = Nothing /\ inbox' = inbox /\ UNCHANGED lineVars
    BY <1>2 DEF AddMonitor, StayInv, SourceInv
  <2> QED
    BY <2>1 DEF lineVars, StayInv, SourceInv
<1>3. CASE Expire(m) \/ Continue(m)
  <2>1. /\ UNCHANGED <<lineVars, inbox, watched, source>>
        /\ watch'[m] # "none"
    BY <1>0, <1>3 DEF Expire, Continue, MonitorTypeOK
  <2> QED
    BY <2>1 DEF lineVars, StayInv, SourceInv
<1>4. CASE Discard(m)
  <2>1. /\ inbox[m] # << >> /\ Head(inbox[m]).cmd = "CHANNEL_CHANGE"
        /\ inbox'[m] = Tail(inbox[m]) /\ inbox[m] \in Seq(Message)
        /\ UNCHANGED <<mem, epoch, watch, watched, source>>
    BY <1>0, <1>4 DEF Discard, lineVars, monitorVars
  <2>2. Parted(inbox'[m]) /\ PartedBefore(inbox'[m], mem.current_channel, epoch)
    BY <2>1, StaysTail DEF StayInv
  <2>3. SourceInv(m)'
    BY <2>1, SourceTail DEF StayInv, SourceInv
  <2> QED
    BY <2>1, <2>2, <2>3 DEF StayInv
<1>5. CASE Forward(m)
  BY <1>5, StayForward
<1>6. CASE MeetDeadline(m) \/ LoseChannel(m)
  <2>1. source'[m] = Nothing /\ inbox'[m] = << >>
    BY <1>0, <1>6 DEF MeetDeadline, LoseChannel, Quit, MonitorTypeOK
  <2>2. DOMAIN inbox'[m] = {}
    BY <2>1
  <2> QED
    BY <2>1, <2>2 DEF StayInv, SourceInv, Parted, PartedBefore
<1> QED
  BY <1>1, <1>2, <1>3, <1>4, <1>5, <1>6 DEF OwnStep, MonitorStep

\* Between its start and its end a monitor shows one stay of the line on its
\* channel: it never passes over the readings of another to go on with the next
\* (monitor.c:77-83).
THEOREM OneStayPerMonitor == Spec => MonitorStaysInOneEpoch
<1>1. Init => \A m \in Monitors : StayInv(m)
  <2> SUFFICES ASSUME Init, NEW m \in Monitors PROVE StayInv(m)
    OBVIOUS
  <2>1. inbox[m] = << >> /\ source[m] = Nothing
    BY BusAssumption DEF Init, LineInit, MonitorInit
  <2>2. DOMAIN inbox[m] = {}
    BY <2>1
  <2> QED
    BY <2>1, <2>2 DEF StayInv, SourceInv, Parted, PartedBefore
<1>2. IInv /\ (\A m \in Monitors : StayInv(m)) /\ [Next]_vars
      => (\A m \in Monitors : StayInv(m))'
  BY StayStep
<1>3. IInv /\ (\A m \in Monitors : StayInv(m)) /\ [Next]_vars
      => [\A m \in Monitors : source[m] # Nothing /\ source'[m] # Nothing
                              => source'[m] = source[m]]_vars
  BY StayStep
<1> QED
  BY <1>1, <1>2, <1>3, Invariance, PTL DEF Spec, MonitorStaysInOneEpoch

-----------------------------------------------------------------------------
\* The refinement of ValueFeed.

\* One more message at the end of a queue is one more reading or none.
LEMMA ReadingsOfAppend ==
    ASSUME NEW q \in Seq(Message), NEW msg \in Message, NEW channel
    PROVE  ReadingsOf(Append(q, msg), channel) =
              IF IsValueOf(msg, channel)
              THEN Append(ReadingsOf(q, channel), msg.value)
              ELSE ReadingsOf(q, channel)
<1> DEFINE p == Append(q, msg)
           n == Len(q)
           r == ReadingsUpTo(p, channel)
<1>1. /\ p \in Seq(Message) /\ Len(p) = n + 1 /\ n \in Nat
      /\ \A i \in 1 .. n : p[i] = q[i]
      /\ p[n + 1] = msg
  BY AppendProperties, LenProperties
<1> HIDE DEF p, n
<1>2. r[n] = ReadingsOf(q, channel)
  BY <1>1, ReadingsOfPrefix DEF n
<1>3. n \in 0 .. Len(p) - 1
  BY <1>1
<1>4. r[n + 1] = IF IsValueOf(p[n + 1], channel)
                 THEN Append(r[n], p[n + 1].value) ELSE r[n]
  BY <1>1, <1>3, ReadingsUpToStep
<1>5. ReadingsOf(p, channel) = r[n + 1]
  BY <1>1 DEF ReadingsOf
<1> HIDE DEF r
<1> QED
  BY <1>1, <1>2, <1>4, <1>5 DEF p

\* Two messages sent in one go come one after the other.
LEMMA TwoAppended ==
    ASSUME NEW S, NEW q \in Seq(S), NEW a \in S, NEW b \in S
    PROVE  q \o <<a, b>> = Append(Append(q, a), b)
<1>1. /\ <<a>> \in Seq(S) /\ <<b>> \in Seq(S)
      /\ Append(q, a) \in Seq(S)
  BY AppendProperties
<1>2. <<a, b>> = Append(<<a>>, b)
  OBVIOUS
<1>3. <<a, b>> = <<a>> \o <<b>>
  BY <1>1, <1>2, AppendIsConcat
<1>4. q \o <<a, b>> = (q \o <<a>>) \o <<b>>
  BY <1>1, <1>3, ConcatAssociative
<1> QED
  BY <1>1, <1>4, AppendIsConcat

\* A reading of the line is at most one reading for whoever follows a channel.
LEMMA ReadingsOfPublications ==
    ASSUME NEW q \in Seq(Message), NEW channel \in Channels, NEW value \in Values,
           NEW m, NEW e \in Epochs, NEW own
    PROVE  LET p == q \o Publications(channel, value, m, e)
           IN  \/ ReadingsOf(p, own) = ReadingsOf(q, own)
               \/ ReadingsOf(p, own) = Append(ReadingsOf(q, own), value)
<1> DEFINE change == ChannelChange(channel, e)
           reading == Value(channel, value, e)
<1>1. /\ change \in Message /\ reading \in Message
      /\ ~IsValueOf(change, own) /\ reading.value = value
  BY DEF ChannelChange, Value, Message, ChangeMessage, ValueMessage, IsValueOf
<1> HIDE DEF change, reading
<1>2. CASE Publications(channel, value, m, e) = << >>
  BY <1>2, ConcatEmptySeq
<1>3. CASE Publications(channel, value, m, e) = <<reading>>
  <2>1. q \o Publications(channel, value, m, e) = Append(q, reading)
    BY <1>1, <1>3, AppendIsConcat
  <2>2. \/ ReadingsOf(Append(q, reading), own) = ReadingsOf(q, own)
        \/ ReadingsOf(Append(q, reading), own) = Append(ReadingsOf(q, own), value)
    BY <1>1, ReadingsOfAppend
  <2> QED
    BY <2>1, <2>2
<1>4. CASE Publications(channel, value, m, e) = <<change, reading>>
  <2>1. Append(q, change) \in Seq(Message)
    BY <1>1, AppendProperties
  <2>2. q \o Publications(channel, value, m, e) = Append(Append(q, change), reading)
    BY <1>1, <1>4, TwoAppended
  <2>3. ReadingsOf(Append(q, change), own) = ReadingsOf(q, own)
    BY <1>1, ReadingsOfAppend
  <2>4. \/ ReadingsOf(Append(Append(q, change), reading), own) = ReadingsOf(q, own)
        \/ ReadingsOf(Append(Append(q, change), reading), own)
              = Append(ReadingsOf(q, own), value)
    BY <1>1, <2>1, <2>3, ReadingsOfAppend
  <2> QED
    BY <2>2, <2>4
<1> QED
  BY <1>2, <1>3, <1>4 DEF Publications, change, reading

\* What the refinement mapping is made of.
OwnState(t) == <<thread[t], config[t], memory[t], actions[t], inbox[t]>>

\* Who moves a rule, its queue included: its worker, its thread and the line.
LEMMA OnlyItsOwnFeed ==
    ASSUME TypeOK, [Next]_vars, NEW t \in Triggers,
           ~(WorkerStep(t) \/ TriggerStep(t)), ~LineStep
    PROVE  UNCHANGED OwnState(t)
<1> USE DEF OwnState
<1>0. /\ t \in Subscribers /\ t \notin Monitors
      /\ inbox \in [Subscribers -> Seq(Message)]
      /\ \A u \in Triggers \union Monitors : u \in Subscribers
      /\ thread \in [Triggers -> {"none", "starting", "polling"}]
      /\ config \in [Triggers -> Requests \union {NoRequest}]
      /\ memory \in [Triggers -> TriggerMemory \union {NoMemory}]
      /\ actions \in [Triggers -> 0 .. 1]
  BY BusAssumption DEF TypeOK, LineTypeOK, TriggerTypeOK
<1>1. CASE UNCHANGED vars
  BY <1>1 DEF vars, triggerVars, workerVars, threadVars
<1>2. ASSUME NEW u \in Triggers \ {t}, WorkerStep(u)
      PROVE  UNCHANGED OwnState(t)
  BY <1>0, <1>2 DEF WorkerStep, CreateTrigger, SendPing, TriggerCreated, RemoveRule, RuleRemoved,
     threadVars
<1>3. ASSUME NEW u \in Triggers \ {t}, TriggerStep(u)
      PROVE  UNCHANGED OwnState(t)
  <2>1. CASE Reject(u) \/ HandleControl(u)
    BY <1>0, <1>3, <2>1 DEF Reject, HandleControl, Exit
  <2>2. CASE Start(u)
    BY <1>0, <1>3, <2>2 DEF Start
  <2>3. CASE Poll(u)
    BY <1>0, <1>3, <2>3 DEF Poll, workerVars
  <2>4. CASE HandleLine(u)
    BY <1>0, <1>3, <2>4 DEF HandleLine, WakeUp, GoDormant, Evaluate, workerVars
  <2> QED
    BY <1>3, <2>1, <2>2, <2>3, <2>4 DEF TriggerStep
<1>4. ASSUME NEW m \in Monitors, OwnStep(m), UNCHANGED triggerVars
      PROVE  UNCHANGED OwnState(t)
  <2>1. UNCHANGED <<thread, config, memory, actions>>
    BY <1>4 DEF triggerVars, workerVars, threadVars
  <2>2. inbox'[t] = inbox[t]
    BY <1>0, <1>4 DEF OwnStep, AddMonitor, Expire, MonitorStep, MeetDeadline, Continue,
       Discard, Forward, LoseChannel, Quit, Receive
  <2> QED
    BY <2>1, <2>2
<1> QED
  BY <1>1, <1>2, <1>3, <1>4 DEF Next, OwnStep

\* The memory of a thread that does not run.
MemoryFreed == thread[aTrigger] # "polling" => memory[aTrigger] = NoMemory

LEMMA MemoryFreedStep ==
    ASSUME IInv, [Next]_vars, MemoryFreed
    PROVE  MemoryFreed'
<1> DEFINE t == aTrigger
<1>0. /\ t \in Triggers /\ TypeOK /\ (Rendezvous(t) \/ Abandoned(t))
      /\ thread \in [Triggers -> {"none", "starting", "polling"}]
      /\ memory \in [Triggers -> TriggerMemory \union {NoMemory}]
  BY FeedAssumption DEF IInv, TypeOK, TriggerTypeOK, ControlProtocol
<1> USE DEF MemoryFreed
<1>1. CASE LineStep
  BY <1>1 DEF LineStep, triggerVars, threadVars
<1>2. CASE ~LineStep /\ ~(WorkerStep(t) \/ TriggerStep(t))
  BY <1>0, <1>2, OnlyItsOwnFeed DEF OwnState
<1>3. CASE WorkerStep(t)
  BY <1>0, <1>3 DEF WorkerStep, CreateTrigger, SendPing, TriggerCreated, RemoveRule, RuleRemoved,
     threadVars, Rendezvous, Abandoned
<1>4. CASE Reject(t) \/ HandleControl(t)
  BY <1>0, <1>4 DEF Reject, HandleControl, Exit
<1>5. CASE Start(t)
  BY <1>0, <1>5 DEF Start
<1>6. CASE Poll(t) \/ HandleLine(t)
  BY <1>6 DEF Poll, HandleLine
<1> QED
  BY <1>1, <1>2, <1>3, <1>4, <1>5, <1>6 DEF TriggerStep

\* What the steps below have in common.
LEMMA FeedFacts ==
    ASSUME IInv, NEW t \in Triggers
    PROVE  /\ t \in Subscribers /\ t \notin Monitors
           /\ inbox \in [Subscribers -> Seq(Message)]
           /\ thread \in [Triggers -> {"none", "starting", "polling"}]
           /\ config \in [Triggers -> Requests \union {NoRequest}]
           /\ memory \in [Triggers -> TriggerMemory \union {NoMemory}]
           /\ actions \in [Triggers -> 0 .. 1]
           /\ thread[t] = "polling" => memory[t] \in TriggerMemory /\ t \in Connected
           /\ thread[t] \in {"polling", "starting"} => config[t] \in Requests
           /\ thread[t] # "polling" => inbox[t] = << >>
           /\ NoRequest \notin Requests
           /\ Rendezvous(t) \/ Abandoned(t)
BY BusAssumption, TriggerAssumption DEF IInv, TypeOK, LineTypeOK, TriggerTypeOK,
   ControlProtocol, Rendezvous, Abandoned, QueuesConsistent, Connected

\* A reading of the line publishes to the feed, or it is none of the rule's.
LEMMA FeedReading ==
    ASSUME IInv, LineStep
    PROVE  Feed!Publish \/ UNCHANGED Feed!vars
<1> DEFINE t == aTrigger
           own == config[t].channel
<1>0. PICK channel \in Channels, value \in Values :
         /\ Reading(channel, value, Connected)
         /\ UNCHANGED <<triggerVars, monitorVars>>
  BY DEF LineStep
<1>1. UNCHANGED <<thread, config, memory, actions>>
  BY <1>0 DEF triggerVars, workerVars, threadVars
<1>2. CASE thread[t] # "polling"
  BY <1>1, <1>2 DEF Feed!vars, Listening
<1>3. CASE thread[t] = "polling"
  <2> DEFINE e == NextEpoch(channel, mem, epoch)
             q == inbox[t]
  <2>1. /\ t \in Subscribers /\ t \in Connected /\ q \in Seq(Message)
        /\ config[t] # NoRequest
    BY <1>3, FeedAssumption, FeedFacts
  <2>2. inbox'[t] = q \o Publications(channel, value, mem, e)
    BY <1>0, <2>1 DEF Reading
  <2>3. e \in Epochs
    BY NextEpochType DEF IInv, TypeOK, LineTypeOK
  <2>4. \/ ReadingsOf(inbox'[t], own) = ReadingsOf(q, own)
        \/ ReadingsOf(inbox'[t], own) = Append(ReadingsOf(q, own), value)
    BY <2>1, <2>2, <2>3, ReadingsOfPublications
  <2> QED
    BY <1>1, <1>3, <2>1, <2>4 DEF Feed!vars, Feed!Publish, Listening
<1> QED
  BY <1>2, <1>3

\* The worker's steps are none of the feed's.
LEMMA FeedWorker ==
    ASSUME IInv, WorkerStep(aTrigger)
    PROVE  UNCHANGED Feed!vars
<1> DEFINE t == aTrigger
<1>1. /\ t \in Triggers /\ (Rendezvous(t) \/ Abandoned(t))
      /\ thread \in [Triggers -> {"none", "starting", "polling"}]
      /\ config \in [Triggers -> Requests \union {NoRequest}]
  BY FeedAssumption, FeedFacts
<1>2. /\ thread'[t] = "polling" <=> thread[t] = "polling"
      /\ thread[t] = "polling" => config'[t] = config[t]
      /\ UNCHANGED <<memory, actions, inbox>>
  BY <1>1 DEF WorkerStep, CreateTrigger, SendPing, TriggerCreated, RemoveRule, RuleRemoved,
     threadVars, Rendezvous, Abandoned
<1> QED
  BY <1>2 DEF Feed!vars, Listening

\* A thread that starts opens the feed.
LEMMA FeedStart ==
    ASSUME IInv, Start(aTrigger)
    PROVE  Feed!Open
<1> DEFINE t == aTrigger
           request == config[t]
<1>1. /\ t \in Triggers
      /\ thread[t] = "starting" /\ thread'[t] = "polling"
      /\ request \in Requests /\ config' = config
      /\ inbox' = inbox /\ inbox[t] = << >>
      /\ actions' = actions
      /\ memory \in [Triggers -> TriggerMemory \union {NoMemory}]
  BY FeedAssumption, FeedFacts DEF Start
<1>2. PICK garbage \in TriggerMemory : memory'[t] = parse_addins(request.addins, garbage)
  BY <1>1 DEF Start
<1>3. memory'[t] \in TriggerMemory
  BY <1>1, <1>2, AddinsType
<1>4. memory'[t] = parse_addins(request.addins, memory'[t])
  BY <1>2 DEF parse_addins
<1>5. ReadingsOf(<< >>, request.channel) = << >>
  <2>1. << >> \in Seq(Message) /\ Len(<< >>) = 0
    BY EmptySeq
  <2> QED
    BY <2>1, ReadingsUpToStep DEF ReadingsOf
<1>6. /\ AddinsAccepted(request.addins)
      /\ find_trigger(request.channel, request.trigger_name) # "NULL"
  BY DEF Start, Understood
<1>7. /\ Feed!AddinsAccepted(request.addins)
      /\ Feed!find_trigger(request.channel, request.trigger_name) # "NULL"
      /\ memory'[t] = Feed!parse_addins(request.addins, memory'[t])
  BY <1>4, <1>6 DEF Feed!AddinsAccepted, AddinsAccepted, Feed!find_trigger,
     find_trigger, Feed!parse_addins, parse_addins
<1> QED
  BY <1>1, <1>3, <1>5, <1>7 DEF Feed!Open, Listening, TriggerMemory

\* A thread that leaves its loop closes the feed.
LEMMA FeedControl ==
    ASSUME IInv, HandleControl(aTrigger)
    PROVE  Feed!Close
<1> DEFINE t == aTrigger
<1>1. /\ t \in Triggers /\ config[t] # NoRequest
      /\ thread[t] = "polling" /\ thread'[t] = "none"
      /\ memory'[t] = NoMemory /\ actions' = actions
  BY FeedAssumption, FeedFacts DEF HandleControl, Exit
<1> QED
  BY <1>1 DEF Feed!Close, Listening

\* What zmq_poll throws away holds no reading of the rule's channel: an awake
\* thread passes over changes only, and a dormant one finds the change that
\* wakes it before the first reading.
LEMMA FeedPoll ==
    ASSUME IInv, Poll(aTrigger)
    PROVE  UNCHANGED Feed!vars
<1> DEFINE t == aTrigger
           q == inbox[t]
           own == config[t].channel
<1>1. /\ t \in Triggers /\ t \in Subscribers
      /\ q \in Seq(Message)
      /\ inbox \in [Subscribers -> Seq(Message)]
      /\ thread[t] = "polling"
      /\ UNCHANGED <<thread, config, memory, actions>>
  BY FeedAssumption, FeedFacts DEF Poll, workerVars
<1>2. PICK k \in 0 .. Len(q) :
         /\ \A i \in 1 .. k : q[i].cmd \notin subs[t]
         /\ inbox' = [inbox EXCEPT ![t] = SubSeq(@, k + 1, Len(@))]
  BY DEF Poll
<1>3. inbox'[t] = SubSeq(q, k + 1, Len(q))
  BY <1>1, <1>2
<1>4. subs[t] \in {{"VALUE"}, {"CHANNEL_CHANGE"}}
  BY <1>1 DEF IInv, SubscriptionOK
<1>5. Len(q) \in Nat /\ DOMAIN q = 1 .. Len(q)
  BY <1>1, LenProperties
<1>6. ASSUME NEW j \in 1 .. k, IsValueOf(q[j], own)
      PROVE  FALSE
  <2>1. subs[t] = {"CHANNEL_CHANGE"}
    BY <1>2, <1>4, <1>6 DEF IsValueOf
  <2>2. Dormant(t) /\ j \in DOMAIN q
    BY <1>1, <1>5, <2>1 DEF Dormant
  <2>3. PICK i \in 1 .. j - 1 : IsReturn(t, q[i])
    BY <1>1, <1>6, <2>2 DEF IInv, NoValueLost, IsOwnValue
  <2>4. i \in 1 .. k /\ q[i].cmd = "CHANNEL_CHANGE"
    BY <1>5, <2>3 DEF IsReturn, Announces
  <2> QED
    BY <1>2, <2>1, <2>4
<1>7. ReadingsOf(inbox'[t], own) = ReadingsOf(q, own)
  BY <1>1, <1>3, <1>6, ReadingsOfSuffix
<1> QED
  BY <1>1, <1>7 DEF Feed!vars, Listening

\* A message from the line is the feed's next reading or none of its readings.
LEMMA FeedLine ==
    ASSUME IInv, HandleLine(aTrigger)
    PROVE  Feed!Evaluate \/ UNCHANGED Feed!vars
<1> DEFINE t == aTrigger
           q == inbox[t]
           own == config[t].channel
           msg == Head(q)
<1>1. /\ t \in Triggers /\ t \in Subscribers
      /\ q \in Seq(Message) /\ inbox \in [Subscribers -> Seq(Message)]
      /\ thread[t] = "polling" /\ thread' = thread
      /\ config[t] # NoRequest /\ config' = config
      /\ memory \in [Triggers -> TriggerMemory \union {NoMemory}]
      /\ actions \in [Triggers -> 0 .. 1]
  BY FeedAssumption, FeedFacts DEF HandleLine, workerVars
<1>2. q # << >>
  BY <1>1 DEF HandleLine, IInv, SubscriptionOK
<1>3. inbox'[t] = Tail(q)
  BY <1>1 DEF HandleLine
<1>4. CASE ~IsValueOf(msg, own)
  <2>1. UNCHANGED <<memory, actions>>
    BY <1>4 DEF HandleLine, WakeUp, GoDormant, IsValueOf
  <2>2. 1 \in 0 .. Len(q) /\ Tail(q) = SubSeq(q, 1 + 1, Len(q)) /\ q[1] = msg
    BY <1>1, <1>2, TailIsSuffix, TailShift
  <2>3. \A i \in 1 .. 1 : ~IsValueOf(q[i], own)
    BY <1>4, <2>2
  <2>4. ReadingsOf(SubSeq(q, 1 + 1, Len(q)), own) = ReadingsOf(q, own)
    BY <1>1, <2>2, <2>3, ReadingsOfSuffix
  <2>5. ReadingsOf(inbox'[t], own) = ReadingsOf(q, own)
    BY <1>3, <2>2, <2>4
  <2> QED
    BY <1>1, <2>1, <2>5 DEF Feed!vars, Listening
<1>5. CASE IsValueOf(msg, own)
  <2>1. /\ ReadingsOf(q, own) # << >>
        /\ Head(ReadingsOf(q, own)) = msg.value
        /\ Tail(ReadingsOf(q, own)) = ReadingsOf(inbox'[t], own)
    BY <1>1, <1>2, <1>3, <1>5, ReadingsOfTail
  <2> DEFINE result == trigger_func(config[t].channel, config[t].trigger_name,
                                    memory[t], msg.value)
  <2>2. Evaluate(t, msg.value)
    BY <1>5 DEF HandleLine, IsValueOf
  <2>3. /\ memory'[t] = [memory[t] EXCEPT !.ready = result.ready]
        /\ actions'[t] = IF result.acts THEN send_trigger(actions[t]) ELSE actions[t]
    BY <1>1, <2>2 DEF Evaluate
  <2>4. send_trigger(actions[t]) = 1 - actions[t]
    BY <1>1 DEF send_trigger
  <2>5. result = Feed!trigger_func(config[t].channel, config[t].trigger_name,
                                   memory[t], msg.value)
    BY DEF Feed!trigger_func, trigger_func, Feed!find_trigger, find_trigger,
       Feed!falls_below, falls_below, Feed!rises_above, rises_above
  <2> HIDE DEF result
  <2> QED
    BY <1>1, <2>1, <2>3, <2>4, <2>5 DEF Feed!Evaluate, Listening
<1> QED
  BY <1>4, <1>5

\* Each step of the bus is one of the feed or leaves it alone.
LEMMA FeedStep ==
    ASSUME IInv, MemoryFreed, [Next]_vars
    PROVE  [Feed!Next]_(Feed!vars)
<1> DEFINE t == aTrigger
<1>1. CASE LineStep
  BY <1>1, FeedReading DEF Feed!Next
<1>2. CASE ~LineStep /\ ~(WorkerStep(t) \/ TriggerStep(t))
  BY <1>2, FeedAssumption, OnlyItsOwnFeed DEF OwnState, IInv, Feed!vars, Listening
<1>3. CASE WorkerStep(t)
  BY <1>3, FeedWorker
<1>4. CASE Reject(t)
  <2>1. /\ thread[t] # "polling" /\ thread'[t] # "polling"
        /\ memory'[t] = NoMemory /\ memory[t] = NoMemory /\ actions' = actions
    BY <1>4, FeedAssumption, FeedFacts DEF Reject, Exit, MemoryFreed
  <2> QED
    BY <2>1 DEF Feed!vars, Listening
<1>5. CASE Start(t)
  BY <1>5, FeedStart DEF Feed!Next
<1>6. CASE HandleControl(t)
  BY <1>6, FeedControl DEF Feed!Next
<1>7. CASE Poll(t)
  BY <1>7, FeedPoll
<1>8. CASE HandleLine(t)
  BY <1>8, FeedLine DEF Feed!Next
<1> QED
  BY <1>1, <1>2, <1>3, <1>4, <1>5, <1>6, <1>7, <1>8 DEF TriggerStep

\* Every trigger thread implements ValueFeed: each reading of its rule's channel
\* that is published while it listens is evaluated once and in its turn, through
\* any number of changes of channel (trigger.c:294-338).
THEOREM TriggerIsFed == Spec => FeedsTrigger
<1>1. Init => Feed!Init /\ MemoryFreed
  BY FeedAssumption DEF Init, TriggerInit, Feed!Init, MemoryFreed, Listening
<1>2. IInv /\ MemoryFreed /\ [Next]_vars => MemoryFreed'
  BY MemoryFreedStep
<1>3. IInv /\ MemoryFreed /\ [Next]_vars => [Feed!Next]_(Feed!vars)
  BY FeedStep
<1> QED
  BY <1>1, <1>2, <1>3, Invariance, PTL DEF Spec, FeedsTrigger, Feed!Spec
=============================================================================
