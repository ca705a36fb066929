------------------------------- MODULE LineBus -------------------------------
(***************************************************************************)
(* One line with everything that listens to it: line_listener publishes,   *)
(* the trigger threads of the workers' rules and the monitors subscribe,   *)
(* and the workers fork and destroy them while readings keep coming.       *)
(***************************************************************************)
EXTENDS TriggerThread, MonitorThread

ASSUME BusAssumption ==
    /\ Subscribers = Triggers \union Monitors
    /\ Triggers \intersect Monitors = {}

vars == <<lineVars, inbox, triggerVars, monitorVars>>

\* The subscribers whose sockets are connected.
Connected ==
    {t \in Triggers : thread[t] = "polling"}
    \union {m \in Monitors : watch[m] # "none"}

Init == LineInit /\ TriggerInit /\ MonitorInit

LineStep ==
    \E channel \in Channels, value \in Values :
        /\ Reading(channel, value, Connected)
        /\ UNCHANGED <<triggerVars, monitorVars>>

WorkerStep(t) ==
    \/ \E request \in Requests : CreateTrigger(t, request)
    \/ SendPing(t)
    \/ TriggerCreated(t)
    \/ RemoveRule(t)
    \/ RuleRemoved(t)

TriggerStep(t) ==
    \/ Reject(t)
    \/ Start(t)
    \/ Poll(t)
    \/ HandleControl(t)
    \/ HandleLine(t)

MonitorStep(m) ==
    \/ MeetDeadline(m)
    \/ Continue(m)
    \/ Discard(m)
    \/ Forward(m)
    \/ LoseChannel(m)

Next ==
    \/ LineStep
    \/ \E t \in Triggers :
          (WorkerStep(t) \/ TriggerStep(t)) /\ UNCHANGED monitorVars
    \/ \E m \in Monitors :
          /\ \/ \E channel \in MonitorChannels : AddMonitor(m, channel)
             \/ Expire(m)
             \/ MonitorStep(m)
          /\ UNCHANGED triggerVars

Spec == Init /\ [][Next]_vars

(***************************************************************************)
(* Every thread runs on a scheduler of its own.  What arrives from outside *)
(* -- requests, readings, the end of a minute -- is not promised.          *)
(***************************************************************************)
Fairness ==
    /\ \A t \in Triggers :
          /\ WF_vars(TriggerStep(t) /\ UNCHANGED monitorVars)
          /\ WF_vars((SendPing(t) \/ TriggerCreated(t) \/ RuleRemoved(t))
                        /\ UNCHANGED monitorVars)
    /\ \A m \in Monitors : WF_vars(MonitorStep(m) /\ UNCHANGED triggerVars)

FairSpec == Spec /\ Fairness

-----------------------------------------------------------------------------
\* The types of all variables: the memory of the line within its rounds, the
\* queues made of the line's messages, the threads at their program points.
TypeOK ==
    /\ LineTypeOK
    /\ TriggerTypeOK
    /\ MonitorTypeOK

Dormant(t) == thread[t] = "polling" /\ "VALUE" \notin subs[t]

IsReturn(t, msg) == Announces(msg, config[t].channel)
IsOwnValue(t, msg) == IsValueOf(msg, config[t].channel)

\* A dormant trigger does not sleep through the return of its channel: while
\* the line is on the channel of its rule, a CHANNEL_CHANGE naming it is on
\* its way (the subscription swap in trigger.c:303-325).
NoMissedWakeup ==
    \A t \in Triggers :
        Dormant(t) /\ mem.current_channel = config[t].channel =>
            \E i \in DOMAIN inbox[t] : IsReturn(t, inbox[t][i])

\* Dormancy loses no reading of the rule's channel: every one that waits in a
\* dormant trigger's queue has the waking CHANNEL_CHANGE in front of it.
NoValueLost ==
    \A t \in Triggers : Dormant(t) =>
        \A j \in DOMAIN inbox[t] : IsOwnValue(t, inbox[t][j]) =>
            \E i \in 1 .. j - 1 : IsReturn(t, inbox[t][i])

\* Where the worker and the thread of a rule are while one of them has the next
\* move: the two send_sync and recv_sync of worker.c and their counterparts in
\* trigger.c.
Rendezvous(t) ==
    \/ rule[t] = "absent"    /\ control[t] = "none" /\ thread[t] = "none"
    \/ rule[t] = "forked"    /\ control[t] = "none" /\ thread[t] = "starting"
    \/ rule[t] = "creating"  /\ control[t] = "ping" /\ thread[t] = "starting"
    \/ rule[t] = "creating"  /\ control[t] = "pong" /\ thread[t] = "polling"
    \/ rule[t] = "creating"  /\ control[t] \in {"bad trigger", "no such trigger"}
                             /\ thread[t] = "none"
    \/ rule[t] = "installed" /\ control[t] = "none" /\ thread[t] = "polling"
    \/ rule[t] = "removing"  /\ control[t] = "Destroy" /\ thread[t] = "polling"
    \/ rule[t] = "removing"  /\ control[t] = "ok" /\ thread[t] = "none"

\* The thread has refused the rule and returned before the ping was sent, and
\* the worker waits for ever with the answer in front of it.
Abandoned(t) ==
    /\ rule[t] = "forked"
    /\ control[t] \in {"bad trigger", "no such trigger"}
    /\ thread[t] = "none"

\* A worker waits in vain for the thread of a rule in one case only, which is a
\* rule that its thread refuses before it is pinged.  No other order of their
\* sends, receives and returns makes either wait for what the other has said
\* already or will never say; a rule is refused only if it is not understood,
\* and a rule in the worker's hash has a live thread that has understood it
\* (worker.c:124-126 and 251-253, trigger.c:234-264).
ControlProtocol ==
    \A t \in Triggers :
        /\ Rendezvous(t) \/ Abandoned(t)
        /\ control[t] \in {"bad trigger", "no such trigger"} =>
               ~Understood(config[t])
        /\ thread[t] = "polling" => Understood(config[t])

\* What the invariants above rest on.  A subscriber's queue tells the whole
\* story of the line's channel, from its first message up to now ...
QueuesConsistent ==
    \A s \in Subscribers :
        /\ s \notin Connected => inbox[s] = << >>
        /\ Announced(inbox[s])
        /\ UpToDate(inbox[s], mem.current_channel)

\* ... and a trigger has one subscription at a time, and reads from the line
\* only what its poll has found there.
SubscriptionOK ==
    \A t \in Triggers :
        /\ thread[t] = "polling" => subs[t] \in {{"VALUE"}, {"CHANNEL_CHANGE"}}
        /\ thread[t] # "polling" => revents[t] = {}
        /\ "line" \in revents[t] =>
               inbox[t] # << >> /\ Head(inbox[t]).cmd \in subs[t]
        /\ "control" \in revents[t] => control[t] = "Destroy"

\* The inductive invariant of LineBusProofs.
IInv ==
    /\ TypeOK
    /\ ControlProtocol
    /\ QueuesConsistent
    /\ SubscriptionOK
    /\ NoMissedWakeup
    /\ NoValueLost

\* A rule that is being removed acts at most once more: the poll in progress
\* may have reported a reading only, but the next one sees the Destroy first
\* (trigger.c:272-292).
AtMostOneActionAfterDestroy == \A t \in Triggers : late[t] <= 1

\* A trigger is armed only if a reading has come to its reset level, or beyond
\* it, since it last acted, however often the line has left its channel in
\* between (trigger.c:132 and 153).
ArmedOnlyAfterReset ==
    \A t \in Triggers : thread[t] = "polling" /\ memory[t].ready => swung[t]

\* A trigger that has just started is ready to act: the trigger tests begin
\* with init_memory, which sets ready (test_trigger.c:6,25), and a new Trigger
\* fires on the first reading past its level (spec/trigger_spec.rb:40-42).
FreshTriggerIsReady ==
    [][\A t \in Triggers :
          thread[t] = "starting" /\ thread'[t] = "polling" => memory'[t].ready]_vars

\* A rule that has acted is not armed again by a reading at the reset level
\* itself: it "doesn't reset at boundary" (spec/trigger_spec.rb:22-26).
BoundaryDoesNotReset ==
    [][\A t \in Triggers :
          /\ HandleLine(t)
          /\ IsOwnValue(t, Head(inbox[t]))
          /\ Head(inbox[t]).value = memory[t].reset_level
          /\ ~swung[t]
          => ~memory'[t].ready]_vars

\* The line changes channel on evidence: LIMIT + 2 readings of other channels
\* have come before the one that settles it (line.c:36).
EnoughEvidence ==
    [][mem'.current_channel # mem.current_channel => doubt >= LIMIT + 2]_vars

\* A monitor shows one uninterrupted stay of the line on its channel: what it
\* forwards never comes from two of them (monitor.c:77-83).
MonitorStaysInOneEpoch ==
    [][\A m \in Monitors :
          source[m] # Nothing /\ source'[m] # Nothing => source'[m] = source[m]]_vars

\* A monitor reads the clock before it blocks, not after: at most one reading
\* is forwarded once its minute is over (monitor.c:57-58).
AtMostOneOvertime == \A m \in Monitors : overtime[m] <= 1

-----------------------------------------------------------------------------
\* The worker gets its answer, and so its next request, whatever the line
\* keeps publishing meanwhile: for every rule that is removed, that its thread
\* understands, or that was pinged before its thread gave it up (worker.c:126
\* and 253 block without a timeout).
HandshakesEnd ==
    \A t \in Triggers :
        (\/ rule[t] \in {"creating", "removing"}
         \/ rule[t] = "forked" /\ Understood(config[t]))
            ~> rule[t] \in {"absent", "installed"}

\* create_trigger returns for every rule, with NULL "if everything's ok" and
\* otherwise with the reason that is logged as "something went wrong creating a
\* trigger" (worker.c:119 and 134).
CreateTriggerReturns ==
    \A t \in Triggers :
        rule[t] \in {"forked", "creating"} ~> rule[t] \in {"absent", "installed"}

\* A dormant trigger wakes up if the line comes back to its channel and stays.
WakesUp ==
    \A t \in Triggers :
        Dormant(t) /\ mem.current_channel = config[t].channel
            ~> ~Dormant(t) \/ mem.current_channel # config[t].channel

\* A monitor whose minute is over ends with the next reading: it does not end
\* on a line that is silent (monitor.c:57-58).
ExpiredMonitorEnds ==
    \A m \in Monitors :
        expired[m] /\ (\E i \in DOMAIN inbox[m] : inbox[m][i].cmd = "VALUE")
            ~> watch[m] = "none"

ReadingOf(channel) ==
    /\ \E value \in Values : Reading(channel, value, Connected)
    /\ UNCHANGED <<triggerVars, monitorVars>>

\* A line that is given nothing but one channel settles on it, whatever
\* candidates and rounds the readings before have left (line.c:29-56).
LineSettles ==
    \A channel \in Channels :
        /\ <>[][\A other \in Channels \ {channel} : ~ReadingOf(other)]_vars
        /\ []<><<ReadingOf(channel)>>_vars
        => <>[](mem.current_channel = channel)
=============================================================================
