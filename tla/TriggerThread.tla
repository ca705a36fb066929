---------------------------- MODULE TriggerThread ----------------------------
(***************************************************************************)
(* The trigger threads of trigger.c, one per rule, and what a worker does  *)
(* to them over their control pipes (create_trigger and RemoveRule in      *)
(* worker.c).  A trigger follows the line while the line is on the channel *)
(* of its rule and sleeps through the rest: it changes its subscription    *)
(* from VALUE to CHANNEL_CHANGE and back.                                  *)
(***************************************************************************)
EXTENDS Line, LevelTrigger

CONSTANTS
    Triggers,  \* the rules, each with at most one thread
    Requests,  \* the AddTrigger requests the workers may receive
    NoRequest  \* a rule nobody has asked for

\* The addins reach msgpack_unpack as a C string: a rule with a level whose
\* encoding holds a zero byte is cut short there, what is left of it is read
\* from memory nobody has written, and this model has no such rule.  A number
\* is encoded in one, two or four bytes.
Width(level) == IF level < 256 THEN 1 ELSE IF level < 65536 THEN 2 ELSE 4

Packable ==
    {level \in Values :
        \A i \in 0 .. Width(level) - 1 : (level \div 256^i) % 256 # 0}

ASSUME TriggerAssumption ==
    /\ Triggers \subseteq Subscribers
    /\ Requests \subseteq [channel      : Channels,
                           trigger_name : TriggerNames,
                           addins       : UNION {[K -> Packable] : K \in
                               SUBSET {"line", "line_id",
                                       "trigger_level", "reset_level"}}]
    /\ NoRequest \notin Requests

VARIABLES
    rule,     \* the worker's view of the rule
    config,   \* the triggerconfig_t the worker made for it
    control,  \* the one message in flight on the thread's control pipe
    thread,   \* the program counter of the thread
    memory,   \* its triggermemory_t
    subs,     \* the subscriptions of its line socket
    revents,  \* what its last zmq_poll reported
    actions,  \* DoAction messages it has sent, modulo 2
    \* History variables.
    late,     \* DoAction messages sent while a Destroy was waiting, up to 2
    swung     \* a reading has reached the reset level since the last action

workerVars  == <<rule, config, control>>
threadVars  == <<thread, memory, subs, revents, actions, late, swung>>
triggerVars == <<workerVars, threadVars>>

TriggerMemory ==
    [ready : BOOLEAN, trigger_level : Values, reset_level : Values]

\* The memory of a thread that does not run.
NoMemory == [ready |-> FALSE, trigger_level |-> 0, reset_level |-> 0]

TriggerTypeOK ==
    /\ rule \in [Triggers -> {"absent", "forked", "creating", "installed",
                               "removing"}]
    /\ control \in [Triggers -> {"none", "ping", "pong", "bad trigger",
                                 "no such trigger", "Destroy", "ok"}]
    /\ thread \in [Triggers -> {"none", "starting", "polling"}]
    /\ config \in [Triggers -> Requests \union {NoRequest}]
    /\ \A t \in Triggers :
          /\ rule[t] # "absent" => config[t] \in Requests
          /\ thread[t] = "polling" => memory[t] \in TriggerMemory
    /\ memory \in [Triggers -> TriggerMemory \union {NoMemory}]
    /\ subs \in [Triggers -> SUBSET {"VALUE", "CHANNEL_CHANGE"}]
    /\ revents \in [Triggers -> SUBSET {"control", "line"}]
    /\ actions \in [Triggers -> 0 .. 1]
    /\ late \in [Triggers -> 0 .. 2]
    /\ swung \in [Triggers -> BOOLEAN]

TriggerInit ==
    /\ rule = [t \in Triggers |-> "absent"]
    /\ control = [t \in Triggers |-> "none"]
    /\ thread = [t \in Triggers |-> "none"]
    /\ config = [t \in Triggers |-> NoRequest]
    /\ memory = [t \in Triggers |-> NoMemory]
    /\ subs = [t \in Triggers |-> {}]
    /\ revents = [t \in Triggers |-> {}]
    /\ actions = [t \in Triggers |-> 0]
    /\ late = [t \in Triggers |-> 0]
    /\ swung = [t \in Triggers |-> TRUE]

-----------------------------------------------------------------------------
\* The worker's side.  A worker handles one request at a time: it waits for
\* the thread it has just forked, or told to quit, before it turns to another
\* rule of its channel.
WorkerIsFree(channel) ==
    \A t \in Triggers :
        rule[t] \in {"forked", "creating", "removing"} =>
            config[t].channel # channel

\* create_trigger forks the thread ...
CreateTrigger(t, request) ==
    /\ rule[t] = "absent"
    /\ WorkerIsFree(request.channel)
    /\ rule' = [rule EXCEPT ![t] = "forked"]
    /\ thread' = [thread EXCEPT ![t] = "starting"]
    /\ config' = [config EXCEPT ![t] = request]
    /\ UNCHANGED <<lineVars, inbox, control, memory, subs, revents, actions,
                   late, swung>>

\* ... and sends it "ping".  The send blocks while the pipe has nobody at its
\* other end: a thread that has returned leaves the worker here for good.
SendPing(t) ==
    /\ rule[t] = "forked"
    /\ thread[t] # "none"
    /\ rule' = [rule EXCEPT ![t] = "creating"]
    /\ control' = [control EXCEPT ![t] = "ping"]
    /\ UNCHANGED <<lineVars, inbox, config, threadVars>>

\* create_trigger's answer comes back: "pong" puts the pipe into the hash.
TriggerCreated(t) ==
    /\ rule[t] = "creating"
    /\ control[t] \in {"pong", "bad trigger", "no such trigger"}
    /\ rule' = [rule EXCEPT ![t] =
                    IF control[t] = "pong" THEN "installed" ELSE "absent"]
    /\ config' = [config EXCEPT ![t] =
                    IF control[t] = "pong" THEN @ ELSE NoRequest]
    /\ control' = [control EXCEPT ![t] = "none"]
    /\ UNCHANGED <<lineVars, inbox, threadVars>>

\* RemoveRule for a rule in the hash.
RemoveRule(t) ==
    /\ rule[t] = "installed"
    /\ WorkerIsFree(config[t].channel)
    /\ rule' = [rule EXCEPT ![t] = "removing"]
    /\ control' = [control EXCEPT ![t] = "Destroy"]
    /\ UNCHANGED <<lineVars, inbox, config, threadVars>>

\* The rest of RemoveRule, after recv_sync("ok").
RuleRemoved(t) ==
    /\ rule[t] = "removing"
    /\ control[t] = "ok"
    /\ rule' = [rule EXCEPT ![t] = "absent"]
    /\ config' = [config EXCEPT ![t] = NoRequest]
    /\ control' = [control EXCEPT ![t] = "none"]
    /\ UNCHANGED <<lineVars, inbox, threadVars>>

-----------------------------------------------------------------------------
\* The thread's side.

\* The thread returns, and its sockets close with its context.
Exit(t) ==
    /\ thread' = [thread EXCEPT ![t] = "none"]
    /\ memory' = [memory EXCEPT ![t] = NoMemory]
    /\ subs' = [subs EXCEPT ![t] = {}]
    /\ revents' = [revents EXCEPT ![t] = {}]
    /\ inbox' = [inbox EXCEPT ![t] = << >>]
    /\ late' = [late EXCEPT ![t] = 0]
    /\ swung' = [swung EXCEPT ![t] = TRUE]

\* The thread can make a rule of the request it was forked for.
Understood(request) ==
    /\ AddinsAccepted(request.addins)
    /\ find_trigger(request.channel, request.trigger_name) # "NULL"

\* A slip: the thread returns without an answer.
RejectSilently(t) ==
    /\ thread[t] = "starting"
    /\ ~Understood(config[t])
    /\ Exit(t)
    /\ UNCHANGED <<lineVars, rule, config, control, actions>>

\* The thread gives its rule up, says why, and returns.  It has not read the
\* ping, and does not wait for it: the ping may be in the pipe, and is lost, or
\* still to be sent.  The answer stays for the worker to read.
Reject(t) ==
    /\ thread[t] = "starting"
    /\ ~Understood(config[t])
    /\ control' = [control EXCEPT ![t] =
                       IF AddinsAccepted(config[t].addins)
                       THEN "no such trigger" ELSE "bad trigger"]
    /\ Exit(t)
    /\ UNCHANGED <<lineVars, rule, config, actions>>

\* The thread connects to its line, subscribes to VALUE, waits for the ping and
\* answers "pong".
Start(t) ==
    /\ thread[t] = "starting"
    /\ Understood(config[t])
    /\ control[t] = "ping"
    /\ control' = [control EXCEPT ![t] = "pong"]
    /\ thread' = [thread EXCEPT ![t] = "polling"]
    /\ \E garbage \in TriggerMemory :
          memory' = [memory EXCEPT ![t] = parse_addins(config[t].addins, garbage)]
    /\ subs' = [subs EXCEPT ![t] = {"VALUE"}]
    /\ UNCHANGED <<lineVars, inbox, rule, config, revents, actions, late, swung>>

\* A slip: the line comes first, and the control pipe when it is quiet.
PollLineFirst(t) ==
    /\ thread[t] = "polling"
    /\ revents[t] = {}
    /\ inbox[t] # << >> \/ control[t] = "Destroy"
    /\ \E k \in 0 .. Len(inbox[t]) :
          /\ \A i \in 1 .. k : inbox[t][i].cmd \notin subs[t]
          /\ k < Len(inbox[t]) => inbox[t][k + 1].cmd \in subs[t]
          /\ inbox' = [inbox EXCEPT ![t] = SubSeq(@, k + 1, Len(@))]
          /\ revents' = [revents EXCEPT ![t] =
                 IF k < Len(inbox[t]) THEN {"line"}
                 ELSE IF control[t] = "Destroy" THEN {"control"} ELSE {}]
    /\ UNCHANGED <<lineVars, workerVars, thread, memory, subs, actions,
                   late, swung>>

\* zmq_poll: the line socket throws away what the thread is not subscribed to,
\* up to the first message it is; the poll returns once there is one, or a
\* command on the control pipe.
Poll(t) ==
    /\ thread[t] = "polling"
    /\ revents[t] = {}
    /\ inbox[t] # << >> \/ control[t] = "Destroy"
    /\ \E k \in 0 .. Len(inbox[t]) :
          /\ \A i \in 1 .. k : inbox[t][i].cmd \notin subs[t]
          /\ k < Len(inbox[t]) => inbox[t][k + 1].cmd \in subs[t]
          /\ inbox' = [inbox EXCEPT ![t] = SubSeq(@, k + 1, Len(@))]
          /\ revents' = [revents EXCEPT ![t] =
                 (IF k < Len(inbox[t]) THEN {"line"} ELSE {})
                 \union (IF control[t] = "Destroy" THEN {"control"} ELSE {})]
    /\ UNCHANGED <<lineVars, workerVars, thread, memory, subs, actions,
                   late, swung>>

\* A slip: the thread answers but does not leave its loop.
HandleControlAndStay(t) ==
    /\ thread[t] = "polling"
    /\ "control" \in revents[t]
    /\ control' = [control EXCEPT ![t] = "ok"]
    /\ revents' = [revents EXCEPT ![t] = @ \ {"control"}]
    /\ UNCHANGED <<lineVars, inbox, rule, config, thread, memory, subs, actions,
                   late, swung>>

\* The control pipe comes first, and "Destroy" leaves the loop with what the
\* line had to say unread.
HandleControl(t) ==
    /\ thread[t] = "polling"
    /\ "control" \in revents[t]
    /\ control' = [control EXCEPT ![t] = "ok"]
    /\ Exit(t)
    /\ UNCHANGED <<lineVars, rule, config, actions>>

\* A history variable's view of the reset level, which counts as reached by a
\* reading equal to it.
Resets(request, m, value) ==
    IF find_trigger(request.channel, request.trigger_name) = "falls_below"
    THEN value >= m.reset_level
    ELSE value <= m.reset_level

\* send_trigger: one more DoAction leaves for the broker, whose answer nobody
\* waits for.
send_trigger(sent) == (sent + 1) % 2

\* A reading of the rule's channel is put to the trigger function.
Evaluate(t, value) ==
    LET result == trigger_func(config[t].channel, config[t].trigger_name,
                               memory[t], value)
    IN  /\ memory' = [memory EXCEPT ![t].ready = result.ready]
        /\ actions' = [actions EXCEPT ![t] =
                          IF result.acts THEN send_trigger(@) ELSE @]
        /\ late' = [late EXCEPT ![t] =
                       IF result.acts /\ rule[t] = "removing" /\ @ < 2
                       THEN @ + 1 ELSE @]
        /\ swung' = [swung EXCEPT ![t] =
                        ~result.acts /\ (@ \/ Resets(config[t], memory[t], value))]
        /\ UNCHANGED subs

\* Two slips: each gives up one subscription and forgets the other.
GoDormantForGood(t) ==
    /\ subs' = [subs EXCEPT ![t] = @ \ {"VALUE"}]
    /\ UNCHANGED <<memory, actions, late, swung>>

WakeUpToNothing(t) ==
    /\ subs' = [subs EXCEPT ![t] = @ \ {"CHANNEL_CHANGE"}]
    /\ UNCHANGED <<memory, actions, late, swung>>

\* A reading of another channel puts the trigger to sleep, and the line's
\* return to the rule's channel wakes it.
GoDormant(t) ==
    /\ subs' = [subs EXCEPT ![t] = (@ \union {"CHANNEL_CHANGE"}) \ {"VALUE"}]
    /\ UNCHANGED <<memory, actions, late, swung>>

WakeUp(t) ==
    /\ subs' = [subs EXCEPT ![t] = (@ \union {"VALUE"}) \ {"CHANNEL_CHANGE"}]
    /\ UNCHANGED <<memory, actions, late, swung>>

\* One message from the line.
HandleLine(t) ==
    /\ thread[t] = "polling"
    /\ revents[t] = {"line"}
    /\ LET msg == Head(inbox[t]) IN
          \/ /\ msg.cmd = "CHANNEL_CHANGE"
             /\ msg.channel = config[t].channel
             /\ WakeUp(t)
          \/ /\ msg.cmd = "CHANNEL_CHANGE"
             /\ msg.channel # config[t].channel
             /\ UNCHANGED <<memory, subs, actions, late, swung>>
          \/ /\ msg.cmd = "VALUE"
             /\ msg.channel # config[t].channel
             /\ GoDormant(t)
          \/ /\ msg.cmd = "VALUE"
             /\ msg.channel = config[t].channel
             /\ Evaluate(t, msg.value)
    /\ inbox' = [inbox EXCEPT ![t] = Tail(@)]
    /\ revents' = [revents EXCEPT ![t] = {}]
    /\ UNCHANGED <<lineVars, workerVars, thread>>
=============================================================================
