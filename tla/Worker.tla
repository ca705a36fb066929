------------------------------- MODULE Worker -------------------------------
(***************************************************************************)
(* One generic_worker of worker.c: the service of one channel.  It answers *)
(* requests one at a time, keeps a hash of the rules it has started and a  *)
(* table of rules in a database of its own, from which it starts them all  *)
(* again when the program comes back up.                                   *)
(*                                                                         *)
(* A trigger thread is here no more than alive or not: what passes between *)
(* it and the worker while it is created and destroyed is TriggerThread's  *)
(* subject, and here comes down to its outcomes.                           *)
(***************************************************************************)
EXTENDS Naturals, FiniteSets

CONSTANTS
    Ids,           \* the rule ids of the requests
    Stored,        \* the id the database gives back for one written to it
    NoId,          \* no rule
    InsertFails,   \* {FALSE}, or BOOLEAN if the database may refuse a row
    RowBound       \* bound: rows of one rule

\* The rule_id column is declared "string", which gives it numeric affinity:
\* an id that reads as a number comes back in that number's usual form.
ASSUME WorkerAssumption ==
    /\ Stored \in [Ids -> Ids]
    /\ \A id \in Ids : Stored[Stored[id]] = Stored[id]
    /\ NoId \notin Ids
    /\ InsertFails \in (SUBSET BOOLEAN) \ {{}}
    /\ RowBound \in Nat

\* AddBadTrigger is an AddTrigger whose rule is refused.
Commands == {"AddTrigger", "AddBadTrigger", "RemoveRule", "AddMonitor", "other"}
Refusals == {"bad trigger", "no such trigger"}
Replies  == {"ok", "duplicate", "rule not found", "empty"} \union Refusals

VARIABLES
    pc,       \* where the worker is
    command,  \* the request it handles
    id,       \* the rule the request names
    reply,    \* the reply the next mdwrk_recv will send, "none" before the first
    rules,    \* the ids in the rules hash
    threads,  \* for each id, its live trigger threads
    rows,     \* for each id, its rows in the rules table
    unread,   \* reload_rules: the rows the query has not delivered
    \* History variable: no guard reads it.
    book      \* what the replies have told the users of each rule

vars == <<pc, command, id, reply, rules, threads, rows, unread, book>>

TypeOK ==
    /\ pc \in {"down", "reload", "recv", "handle", "insert", "destroy", "abandoned"}
    /\ command \in Commands \union {"none"}
    /\ id \in Ids \union {NoId}
    /\ reply \in Replies \union {"none"}
    /\ rules \subseteq Ids
    /\ threads \in [Ids -> Nat]
    /\ rows \in [Ids -> 0 .. RowBound]
    /\ unread \in [Ids -> 0 .. RowBound]
    /\ book \in [Ids -> {"unsure", "present", "absent"}]
    /\ pc \in {"handle", "insert", "destroy"} => command # "none" /\ id \in Ids
    /\ pc = "abandoned" => command = "AddBadTrigger"

NoThreads == [i \in Ids |-> 0]

Init ==
    /\ pc = "down"
    /\ command = "none"
    /\ id = NoId
    /\ reply = "none"
    /\ rules = {}
    /\ threads = NoThreads
    /\ rows = [i \in Ids |-> 0]
    /\ unread = [i \in Ids |-> 0]
    /\ book = [i \in Ids |-> "unsure"]

-----------------------------------------------------------------------------
\* Start-up: open the database and query it.
Boot ==
    /\ pc = "down"
    /\ pc' = "reload"
    /\ unread' = rows
    /\ UNCHANGED <<command, id, reply, rules, threads, rows, book>>

\* create_trigger on success.  zhash_insert leaves an id that is in the hash
\* with the pipe it has, and nobody holds the pipe of the new thread.
CreateTrigger(i) ==
    /\ threads' = [threads EXCEPT ![i] = @ + 1]
    /\ rules' = rules \union {i}

\* What the missing return value of load_rule may come to elsewhere: the query
\* takes it for an error and stops.
LoadRuleAndAbort(i) ==
    /\ pc = "reload"
    /\ unread[i] > 0
    /\ unread' = [j \in Ids |-> 0]
    /\ CreateTrigger(i)
    /\ UNCHANGED <<pc, command, id, reply, rows, book>>

\* load_rule for one row.  The row was accepted when it was written.  The
\* function returns no value: compiled as the Makefile says, it passes on
\* create_trigger's NULL, and the query goes on.
LoadRule(i) ==
    /\ pc = "reload"
    /\ unread[i] > 0
    /\ unread' = [unread EXCEPT ![i] = @ - 1]
    /\ CreateTrigger(i)
    /\ UNCHANGED <<pc, command, id, reply, rows, book>>

\* A slip: the service is offered before the rules are loaded.
ConnectEarly ==
    /\ pc = "reload"
    /\ pc' = "recv"
    /\ UNCHANGED <<command, id, reply, rules, threads, rows, unread, book>>

\* mdwrk_new: the worker offers its service once every row is loaded.
Connect ==
    /\ pc = "reload"
    /\ \A i \in Ids : unread[i] = 0
    /\ pc' = "recv"
    /\ UNCHANGED <<command, id, reply, rules, threads, rows, unread, book>>

\* mdwrk_recv sends the reply to the last request before it waits for another.
Learned ==
    IF command \in {"AddTrigger", "AddBadTrigger"} /\ reply \in {"ok", "duplicate"}
    THEN "present"
    ELSE IF command = "RemoveRule" THEN "absent"
    ELSE book[id]

SendReply ==
    /\ pc = "recv"
    /\ reply # "none"
    /\ reply' = "none"
    /\ command' = "none"
    /\ id' = NoId
    /\ book' = [book EXCEPT ![id] = Learned]
    /\ UNCHANGED <<pc, rules, threads, rows, unread>>

Receive ==
    /\ pc = "recv"
    /\ reply = "none"
    /\ command' \in Commands
    /\ id' \in Ids
    /\ command' = "AddTrigger" /\ id' \notin rules => rows[Stored[id']] < RowBound
    /\ pc' = "handle"
    /\ book' = [book EXCEPT ![id'] =
                   IF command' \in {"AddMonitor", "other"} THEN @ ELSE "unsure"]
    /\ UNCHANGED <<reply, rules, threads, rows, unread>>

Answer(r) == reply' = r /\ pc' = "recv"

-----------------------------------------------------------------------------
\* Two slips: a duplicate is ignored without an answer, or is not recognised.
AddDuplicateIgnored ==
    /\ pc = "handle"
    /\ command \in {"AddTrigger", "AddBadTrigger"}
    /\ id \in rules
    /\ UNCHANGED vars

AddStartedAgain ==
    /\ pc = "handle"
    /\ command = "AddTrigger"
    /\ CreateTrigger(id)
    /\ pc' = "insert"
    /\ UNCHANGED <<command, id, reply, rows, unread, book>>

\* AddTrigger of a rule that is in the hash.
AddDuplicate ==
    /\ pc = "handle"
    /\ command \in {"AddTrigger", "AddBadTrigger"}
    /\ id \in rules
    /\ Answer("duplicate")
    /\ UNCHANGED <<command, id, rules, threads, rows, unread, book>>

\* The new thread does not understand the rule, says so and returns; its pipe is
\* neither kept nor closed.  The rule may be one that create_triggerconfig has
\* given up and left uninitialised, which nobody tells the thread: it is taken
\* to find no addins there, or to crash over what it finds.
AddRejected ==
    /\ pc = "handle"
    /\ command = "AddBadTrigger"
    /\ id \notin rules
    /\ \E refusal \in Refusals : Answer(refusal)
    /\ UNCHANGED <<command, id, rules, threads, rows, unread, book>>

\* It has returned before the worker has sent its ping, a send that does not
\* return (Abandoned in LineBus).
AddAbandoned ==
    /\ pc = "handle"
    /\ command = "AddBadTrigger"
    /\ id \notin rules
    /\ pc' = "abandoned"
    /\ UNCHANGED <<command, id, reply, rules, threads, rows, unread, book>>

\* The new thread runs.
AddStarted ==
    /\ pc = "handle"
    /\ command = "AddTrigger"
    /\ id \notin rules
    /\ CreateTrigger(id)
    /\ pc' = "insert"
    /\ UNCHANGED <<command, id, reply, rows, unread, book>>

\* Two slips with the statement: it is not executed, or executed twice.
InsertNothing ==
    /\ pc = "insert"
    /\ Answer("ok")
    /\ UNCHANGED <<command, id, rules, threads, rows, unread, book>>

InsertTwice ==
    /\ pc = "insert"
    /\ rows' = [rows EXCEPT ![Stored[id]] = @ + 2]
    /\ Answer("ok")
    /\ UNCHANGED <<command, id, rules, threads, unread, book>>

\* sqlite3_step writes the row, or does not: its result is not looked at.
Insert ==
    /\ pc = "insert"
    /\ \E fails \in InsertFails :
          rows' = IF fails THEN rows ELSE [rows EXCEPT ![Stored[id]] = @ + 1]
    /\ Answer("ok")
    /\ UNCHANGED <<command, id, rules, threads, unread, book>>

\* A slip: the pipe of the thread that has gone stays in the hash.
DestroyedButHashed ==
    /\ pc = "destroy"
    /\ threads[id] > 0
    /\ threads' = [threads EXCEPT ![id] = @ - 1]
    /\ Answer("ok")
    /\ UNCHANGED <<command, id, rules, rows, unread, book>>

\* RemoveRule of a rule in the hash: "Destroy" goes to its thread ...
RemoveFound ==
    /\ pc = "handle"
    /\ command = "RemoveRule"
    /\ id \in rules
    /\ pc' = "destroy"
    /\ UNCHANGED <<command, id, reply, rules, threads, rows, unread, book>>

\* ... which says "ok" and returns, if it is there.  The table keeps the row.
Destroyed ==
    /\ pc = "destroy"
    /\ threads[id] > 0
    /\ threads' = [threads EXCEPT ![id] = @ - 1]
    /\ rules' = rules \ {id}
    /\ Answer("ok")
    /\ UNCHANGED <<command, id, rows, unread, book>>

RemoveNotFound ==
    /\ pc = "handle"
    /\ command = "RemoveRule"
    /\ id \notin rules
    /\ Answer("rule not found")
    /\ UNCHANGED <<command, id, rules, threads, rows, unread, book>>

\* AddMonitor forks its three threads (see MonitorThread) and answers; any
\* other command gets a reply without frames.
AddMonitor ==
    /\ pc = "handle"
    /\ command = "AddMonitor"
    /\ Answer("ok")
    /\ UNCHANGED <<command, id, rules, threads, rows, unread, book>>

OtherCommand ==
    /\ pc = "handle"
    /\ command = "other"
    /\ Answer("empty")
    /\ UNCHANGED <<command, id, rules, threads, rows, unread, book>>

\* The program stops at any point; what is in the database stays.
Crash ==
    /\ pc # "down"
    /\ pc' = "down"
    /\ command' = "none"
    /\ id' = NoId
    /\ reply' = "none"
    /\ rules' = {}
    /\ threads' = NoThreads
    /\ unread' = [i \in Ids |-> 0]
    /\ UNCHANGED <<rows, book>>

Handle ==
    \/ AddDuplicate
    \/ AddRejected
    \/ AddAbandoned
    \/ AddStarted
    \/ Insert
    \/ RemoveFound
    \/ Destroyed
    \/ RemoveNotFound
    \/ AddMonitor
    \/ OtherCommand

Load == Connect \/ \E i \in Ids : LoadRule(i)

Next == Boot \/ Load \/ SendReply \/ Receive \/ Handle \/ Crash

Spec == Init /\ [][Next]_vars

\* A running worker makes progress; nobody promises it a request or a restart.
FairSpec == Spec /\ WF_vars(Load) /\ WF_vars(Handle) /\ WF_vars(SendReply)

-----------------------------------------------------------------------------
Idle == pc = "recv" /\ reply = "none"

\* The ids the database gives back as they were.
Kept == {i \in Ids : Stored[i] = i}

\* A rule in the hash has a live thread behind its pipe: otherwise RemoveRule
\* would wait for its "ok" forever (worker.c:251-253).
HashedRuleHasThread == \A i \in rules : threads[i] > 0

\* A rule the users were told is present runs and can be removed whenever the
\* worker is idle, restarts included (worker.c:77-78).
AcceptedRuleRuns ==
    Idle => \A i \in Kept : book[i] = "present" => i \in rules

\* A rule the users were told is present is in the database at all times, so
\* that no crash can lose it: the row comes before the reply (worker.c:228-238).
AcceptedRuleIsStored ==
    \A i \in Ids : book[i] = "present" => rows[Stored[i]] > 0

\* Threads that no request can reach come from rows written twice, which only
\* a removal in between makes possible: while the worker has one row of every
\* rule at most, it has one thread of it at most (worker.c:140 and 231-234).
NoStrayThreads ==
    \A i \in Ids : threads[i] <= 1 \/ threads[i] <= rows[i]

\* A rule the users were told is gone has no thread left when the worker is
\* idle: "RemoveRule can remove either Triggers or Actions" (worker.c:65-66).
RemovedRuleIsGone ==
    Idle => \A i \in Ids : book[i] = "absent" => threads[i] = 0

\* Every request is answered unless the program stops first, or the thread of a
\* new rule refuses it before it is pinged: each branch of the loop comes back
\* to the mdwrk_recv that sends its reply (worker.c:204-284, mdwrkapi.c:175).
RequestAnswered ==
    \A c \in Commands :
        pc = "handle" /\ command = c ~>
            Idle \/ pc = "down" \/ (c = "AddBadTrigger" /\ pc = "abandoned")

\* The worker implements RuleStore: a rule being added counts once its row is
\* written, and a worker that is still loading is not up.
Store == INSTANCE RuleStore WITH
    up      <- pc \notin {"down", "reload"},
    running <- IF pc \in {"down", "reload"} THEN {}
               ELSE IF pc = "insert" THEN rules \ {id} ELSE rules,
    stored  <- {i \in Ids : rows[i] > 0}

ImplementsRuleStore == Store!Spec
=============================================================================
