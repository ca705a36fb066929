---------------------------- MODULE WorkerProofs ----------------------------
(***************************************************************************)
(* Proofs about Worker, for any ids and any bound on the rows: what its    *)
(* users were told survives crashes, the threads behind its hash are       *)
(* there, and the worker implements RuleStore.                             *)
(***************************************************************************)
EXTENDS Worker, TLAPS

Up == pc \notin {"down", "reload"}

\* What is known of a request on its way through the loop.
RequestInv ==
    /\ pc # "recv" => reply = "none"
    /\ reply # "none" => command # "none" /\ id \in Ids
    /\ pc = "handle" /\ command = "AddTrigger" /\ id \notin rules =>
          rows[Stored[id]] < RowBound
    /\ pc = "insert" =>
          command = "AddTrigger" /\ id \in rules /\ rows[Stored[id]] < RowBound
    /\ pc = "destroy" => command = "RemoveRule" /\ id \in rules

\* While the rules are loaded, a row has become a thread or is still unread.
ReloadInv ==
    /\ pc = "down" => rules = {} /\ threads = NoThreads
    /\ pc = "reload" =>
          \A i \in Ids : threads[i] + unread[i] = rows[i]
                         /\ (i \in rules <=> threads[i] > 0)

\* A rule that is not in the hash can be added once more without a thread too
\* many: it has no thread, or a row to spare.
ThreadsInv ==
    /\ HashedRuleHasThread
    /\ NoStrayThreads
    /\ \A i \in Ids \ rules : threads[i] = 0 \/ threads[i] < rows[i]

\* The rows are those of ids the database keeps.
RowsInv == \A i \in Ids \ Kept : rows[i] = 0

WorkerInv == TypeOK /\ RequestInv /\ ReloadInv /\ ThreadsInv /\ RowsInv

\* What the users know, if the database refuses no row: what is in the hash is in
\* the table, except for the rule that is just being written; a rule whose
\* request is being handled is in doubt until the reply is sent; and a reply
\* that will say a rule is present says so truly.
BookInv ==
    /\ \A i \in rules : rows[Stored[i]] > 0 \/ (pc = "insert" /\ i = id)
    /\ AcceptedRuleIsStored
    /\ Up => \A i \in Kept : book[i] = "present" => i \in rules
    /\ command \in {"AddTrigger", "AddBadTrigger", "RemoveRule"} =>
          book[id] = "unsure"
    /\ command \in {"AddTrigger", "AddBadTrigger"} /\ reply \in {"ok", "duplicate"} =>
          id \in rules

LEMMA InitWorkerInv == Init => WorkerInv
BY WorkerAssumption DEF Init, WorkerInv, TypeOK, RequestInv, ReloadInv, ThreadsInv, RowsInv,
   HashedRuleHasThread, NoStrayThreads, NoThreads, Commands

LEMMA NextWorkerInv == WorkerInv /\ [Next]_vars => WorkerInv'
<1> SUFFICES ASSUME WorkerInv, [Next]_vars
             PROVE  WorkerInv'
  OBVIOUS
<1> USE DEF WorkerInv, TypeOK, RequestInv, ReloadInv, ThreadsInv, HashedRuleHasThread,
            NoStrayThreads, RowsInv
<1>1. CASE Boot
  <2>1. threads = NoThreads /\ rules = {} /\ \A i \in Ids : NoThreads[i] = 0
    BY <1>1 DEF Boot, NoThreads
  <2> QED
    BY <1>1, <2>1 DEF Boot
<1>2. CASE Connect
  BY <1>2 DEF Connect
<1>3. CASE \E i \in Ids : LoadRule(i)
  <2>1. PICK i \in Ids : LoadRule(i)
    BY <1>3
  <2>2. /\ threads' = [threads EXCEPT ![i] = @ + 1]
        /\ unread' = [unread EXCEPT ![i] = @ - 1]
        /\ rules' = rules \union {i} /\ pc = "reload" /\ unread[i] > 0
        /\ UNCHANGED <<pc, command, id, reply, rows, book>>
    BY <2>1 DEF LoadRule, CreateTrigger
  <2>3. /\ threads' \in [Ids -> Nat] /\ unread' \in [Ids -> 0 .. RowBound]
        /\ threads'[i] = threads[i] + 1 /\ unread'[i] = unread[i] - 1
        /\ \A j \in Ids \ {i} : threads'[j] = threads[j] /\ unread'[j] = unread[j]
    BY <2>2, WorkerAssumption
  <2>4. ReloadInv'
    BY <2>2, <2>3
  <2>5. ThreadsInv'
    BY <2>2, <2>3, <2>4
  <2> QED
    BY <2>2, <2>3, <2>4, <2>5
<1>4. CASE SendReply
  <2>1. id \in Ids /\ Learned \in {"unsure", "present", "absent"}
    BY <1>4 DEF SendReply, Learned
  <2> QED
    BY <1>4, <2>1 DEF SendReply
<1>5. CASE Receive
  BY <1>5, WorkerAssumption DEF Receive, Commands
<1>6. CASE AddDuplicate
  BY <1>6 DEF AddDuplicate, Answer, Replies
<1>7. CASE AddRejected
  BY <1>7 DEF AddRejected, Answer, Replies
<1>17. CASE AddAbandoned
  BY <1>17 DEF AddAbandoned
<1>8. CASE AddStarted
  BY <1>8 DEF AddStarted, CreateTrigger
<1>9. CASE Insert
  BY <1>9, WorkerAssumption DEF Insert, Answer, Replies, Kept
<1>10. CASE RemoveFound
  BY <1>10 DEF RemoveFound
<1>11. CASE Destroyed
  BY <1>11 DEF Destroyed, Answer, Replies
<1>12. CASE RemoveNotFound
  BY <1>12 DEF RemoveNotFound, Answer, Replies
<1>13. CASE AddMonitor
  BY <1>13 DEF AddMonitor, Answer, Replies
<1>14. CASE OtherCommand
  BY <1>14 DEF OtherCommand, Answer, Replies
<1>15. CASE Crash
  <2>1. /\ NoThreads \in [Ids -> Nat]
        /\ \A i \in Ids : NoThreads[i] = 0
    BY DEF NoThreads
  <2>2. unread' \in [Ids -> 0 .. RowBound]
    BY <1>15, WorkerAssumption DEF Crash
  <2>3. TypeOK'
    BY <1>15, <2>1, <2>2 DEF Crash
  <2>4. ThreadsInv'
    BY <1>15, <2>1 DEF Crash
  <2> QED
    BY <1>15, <2>3, <2>4 DEF Crash
<1>16. CASE UNCHANGED vars
  BY <1>16 DEF vars
<1> QED
  BY <1>1, <1>2, <1>3, <1>4, <1>5, <1>6, <1>7, <1>8, <1>9, <1>10, <1>11, <1>12, <1>13, <1>14, <1>15, <1>16, <1>17
  DEF Next, Load, Handle

LEMMA WorkerInvariance == Spec => []WorkerInv
BY InitWorkerInv, NextWorkerInv, PTL DEF Spec

LEMMA InitBookInv == Init => BookInv
BY DEF Init, BookInv, AcceptedRuleIsStored, Up

LEMMA NextBookInv ==
    ASSUME InsertFails = {FALSE}, WorkerInv, BookInv, [Next]_vars
    PROVE  BookInv'
<1> USE DEF WorkerInv, TypeOK, RequestInv, BookInv, AcceptedRuleIsStored
<1>1. CASE Boot
  BY <1>1 DEF Boot, Up
<1>2. CASE Connect
  BY <1>2 DEF Connect, Kept, Up, ReloadInv, RowsInv, Kept
<1>3. CASE \E i \in Ids : LoadRule(i)
  BY <1>3, WorkerAssumption DEF LoadRule, CreateTrigger, Up, ReloadInv, RowsInv, Kept
<1>4. CASE SendReply
  BY <1>4 DEF SendReply, Learned, Up, Kept
<1>5. CASE Receive
  BY <1>5 DEF Receive, Up, Kept
<1>6. CASE AddDuplicate
  BY <1>6 DEF AddDuplicate, Answer, Up
<1>7. CASE AddRejected
  BY <1>7 DEF AddRejected, Answer, Refusals, Up
<1>17. CASE AddAbandoned
  BY <1>17 DEF AddAbandoned, Up
<1>8. CASE AddStarted
  BY <1>8 DEF AddStarted, CreateTrigger,Up
<1>9. CASE Insert
  BY <1>9, WorkerAssumption DEF Insert, Answer,Up
<1>10. CASE RemoveFound
  BY <1>10 DEF RemoveFound, Up
<1>11. CASE Destroyed
  BY <1>11 DEF Destroyed, Answer, Up
<1>12. CASE RemoveNotFound
  BY <1>12 DEF RemoveNotFound, Answer, Up
<1>13. CASE AddMonitor
  BY <1>13 DEF AddMonitor, Answer, Up
<1>14. CASE OtherCommand
  BY <1>14 DEF OtherCommand, Answer, Up
<1>15. CASE Crash
  BY <1>15 DEF Crash, Up
<1>16. CASE UNCHANGED vars
  BY <1>16 DEF vars,Up
<1> QED
  BY <1>1, <1>2, <1>3, <1>4, <1>5, <1>6, <1>7, <1>8, <1>9, <1>10, <1>11, <1>12, <1>13, <1>14, <1>15, <1>16, <1>17
  DEF Next, Load, Handle

LEMMA BookInvariance == ASSUME InsertFails = {FALSE} PROVE Spec => []BookInv
<1>1. WorkerInv /\ BookInv /\ [Next]_vars => BookInv'
  BY NextBookInv
<1> QED
  BY InitBookInv, WorkerInvariance, <1>1, PTL DEF Spec

-----------------------------------------------------------------------------
\* The bookkeeping of a worker stays in its types whatever the requests are, and
\* the rows of a rule stay within the bound that is put on the requests.
THEOREM WorkerTypes == Spec => []TypeOK
<1>1. WorkerInv => TypeOK
  BY DEF WorkerInv
<1> QED
  BY <1>1, WorkerInvariance, PTL

\* RemoveRule never waits for the answer of a thread that is not there
\* (worker.c:251-253), restarts and refused rows included.
THEOREM HashedRulesHaveThreads == Spec => []HashedRuleHasThread
<1>1. WorkerInv => HashedRuleHasThread
  BY DEF WorkerInv, ThreadsInv
<1> QED
  BY <1>1, WorkerInvariance, PTL

\* A rule has more than one thread only if the table has as many rows of it
\* (worker.c:140 and 231-234).
THEOREM StrayThreadsAreRows == Spec => []NoStrayThreads
<1>1. WorkerInv => NoStrayThreads
  BY DEF WorkerInv, ThreadsInv
<1> QED
  BY <1>1, WorkerInvariance, PTL

\* If the database refuses no row, what a user was told is present is stored at
\* all times: no crash between two steps can lose it (worker.c:228-238).
THEOREM AcceptedRulesAreStored ==
    ASSUME InsertFails = {FALSE} PROVE Spec => []AcceptedRuleIsStored
<1>1. BookInv => AcceptedRuleIsStored
  BY DEF BookInv
<1> QED
  BY <1>1, BookInvariance, PTL

\* ... and it runs, and can be removed, whenever the worker is idle
\* (worker.c:77-78).
THEOREM AcceptedRulesRun ==
    ASSUME InsertFails = {FALSE} PROVE Spec => []AcceptedRuleRuns
<1>1. BookInv => AcceptedRuleRuns
  BY DEF BookInv, AcceptedRuleRuns, Idle, Up
<1> QED
  BY <1>1, BookInvariance, PTL

-----------------------------------------------------------------------------
\* Every step of the worker is one of RuleStore, or leaves it alone.
LEMMA StoreStep ==
    ASSUME InsertFails = {FALSE}, WorkerInv, [Next]_vars
    PROVE  [Store!Next]_(Store!vars)
<1> USE DEF WorkerInv, TypeOK, RequestInv, Store!vars
<1>1. CASE Boot
  BY <1>1 DEF Boot
<1>2. CASE Connect
  <2>1. rules = {i \in Ids : rows[i] > 0}
    BY <1>2 DEF Connect, ReloadInv
  <2>2. Store!Restart
    BY <1>2, <2>1 DEF Connect, Store!Restart
  <2> QED
    BY <2>2 DEF Store!Next
<1>3. CASE \E i \in Ids : LoadRule(i)
  BY <1>3 DEF LoadRule, CreateTrigger
<1>4. CASE SendReply
  BY <1>4 DEF SendReply
<1>5. CASE Receive
  BY <1>5 DEF Receive
<1>6. CASE \/ AddDuplicate \/ AddRejected \/ AddAbandoned \/ RemoveFound
           \/ RemoveNotFound \/ AddMonitor \/ OtherCommand
  BY <1>6 DEF AddDuplicate, AddRejected, AddAbandoned, RemoveFound, RemoveNotFound, AddMonitor, OtherCommand, Answer
<1>7. CASE AddStarted
  BY <1>7 DEF AddStarted, CreateTrigger
<1>8. CASE Insert
  <2>1. rows' = [rows EXCEPT ![Stored[id]] = @ + 1] /\ Stored[id] \in Ids
    BY <1>8, WorkerAssumption DEF Insert
  <2>2. {i \in Ids : rows'[i] > 0} = {i \in Ids : rows[i] > 0} \union {Stored[id]}
    BY <2>1
  <2>3. PICK i \in Ids : i = id
    BY <1>8 DEF Insert
  <2>4. rules = (rules \ {i}) \union {i}
    BY <1>8, <2>3 DEF Insert
  <2>5. Store!Add(i)
    BY <1>8, <2>2, <2>3, <2>4 DEF Insert, Answer, Store!Add
  <2> QED
    BY <2>5 DEF Store!Next
<1>9. CASE Destroyed
  <2>1. Store!Remove(id)
    BY <1>9 DEF Destroyed, Answer, Store!Remove
  <2> QED
    BY <1>9, <2>1 DEF Destroyed, Store!Next
<1>10. CASE Crash
  <2>1. CASE pc = "reload"
    BY <1>10, <2>1 DEF Crash
  <2>2. CASE pc # "reload"
    <3>1. Store!Stop
      BY <1>10, <2>2 DEF Crash, Store!Stop
    <3> QED
      BY <3>1 DEF Store!Next
  <2> QED
    BY <2>1, <2>2
<1>11. CASE UNCHANGED vars
  BY <1>11 DEF vars
<1> QED
  BY <1>1, <1>2, <1>3, <1>4, <1>5, <1>6, <1>7, <1>8, <1>9, <1>10, <1>11 DEF Next, Load, Handle

\* A worker with a database that refuses no row implements RuleStore: a rule it
\* accepts runs and is stored in one step, and after a restart exactly the
\* stored rules run.
THEOREM WorkerImplementsRuleStore ==
    ASSUME InsertFails = {FALSE} PROVE Spec => ImplementsRuleStore
<1>1. Init => Store!Init
  BY DEF Init, Store!Init
<1>2. WorkerInv /\ [Next]_vars => [Store!Next]_(Store!vars)
  BY StoreStep
<1> QED
  BY <1>1, <1>2, WorkerInvariance, PTL DEF Spec, ImplementsRuleStore, Store!Spec
=============================================================================
