----------------------------- MODULE SqlPlugin ------------------------------
(***************************************************************************)
(* The sqlite plugin: open() and close() on the script thread, exec() and  *)
(* query() as jobs of one worker started on demand, the update hook that   *)
(* settles them, and shutdown.  The worker looks a database up with the    *)
(* mutex of the map held and uses the pointer after it has released it.    *)
(* The condition variable is modelled as in PamWorker.  All names carry    *)
(* the prefix Sql.                                                         *)
(***************************************************************************)
EXTENDS Integers, Sequences, FiniteSets, SequencesExt

CONSTANTS SqlMaxDbs,   \* databases the script opens
          SqlMaxJobs   \* exec() and query() calls

ASSUME SqlBoundsAssumption == SqlMaxDbs \in Nat /\ SqlMaxJobs \in Nat

VARIABLES
    sqlJs,       \* script thread: [pc, db]
    sqlWorker,   \* worker: [pc, job]
    sqlRunning,  \* workerRunning
    sqlJobs,     \* jobs
    sqlDone,     \* completions
    sqlDbs,      \* ids in databases
    sqlHandle,   \* the sqlite3 object of each id: "none", "open", "freed", "leaked"
    sqlNextDb,   \* nextDatabaseId
    sqlDb,       \* sqlDb[j]: the database job j was given; 0: not called yet
    sqlSettled,  \* jobs whose promise is settled
    sqlStale     \* jobs that used a freed handle

sqlVars == <<sqlJs, sqlWorker, sqlRunning, sqlJobs, sqlDone, sqlDbs, sqlHandle, sqlNextDb,
             sqlDb, sqlSettled, sqlStale>>

sqlData == <<sqlDbs, sqlHandle, sqlNextDb>>
sqlTold == <<sqlDb, sqlSettled, sqlStale>>

SqlDbIds == 1..SqlMaxDbs
SqlJobIds == 1..SqlMaxJobs

SqlAt(pc) == [pc |-> pc, db |-> 0]
SqlBusy(pc) == [pc |-> pc, job |-> 0]

SqlInit ==
    /\ sqlJs = SqlAt("script")
    /\ sqlWorker = SqlBusy("none")
    /\ sqlRunning = FALSE
    /\ sqlJobs = <<>>
    /\ sqlDone = <<>>
    /\ sqlDbs = {}
    /\ sqlHandle = [d \in SqlDbIds |-> "none"]
    /\ sqlNextDb = 1
    /\ sqlDb = [j \in SqlJobIds |-> 0]
    /\ sqlSettled = {}
    /\ sqlStale = {}

\* jobMutex: the script thread's own critical sections are single steps.
SqlJobMutexFree == sqlWorker.pc \notin {"parking", "chosen"}

SqlNotified == IF sqlWorker.pc = "asleep" THEN [sqlWorker EXCEPT !.pc = "test"] ELSE sqlWorker

\* A statement of the worker keeps sqlite3_close from freeing its database.
SqlHasStatement(d) == sqlWorker.pc = "stepping" /\ sqlDb[sqlWorker.job] = d

-----------------------------------------------------------------------------
(* The functions of the script                                             *)

\* open(), openInMemory(): a failure throws and changes nothing.
SqlOpen ==
    /\ sqlJs.pc = "script" /\ sqlNextDb \in SqlDbIds
    /\ sqlDbs' = sqlDbs \cup {sqlNextDb}
    /\ sqlHandle' = [sqlHandle EXCEPT ![sqlNextDb] = "open"]
    /\ sqlNextDb' = sqlNextDb + 1
    /\ UNCHANGED <<sqlJs, sqlWorker, sqlRunning, sqlJobs, sqlDone, sqlTold>>

\* Variant: the entry of a closed database stays in the map.
SqlCloseKeepsEntry(d) ==
    /\ sqlJs.pc = "script" /\ d \in sqlDbs
    /\ sqlJs' = [pc |-> "close", db |-> d]
    /\ UNCHANGED <<sqlWorker, sqlRunning, sqlJobs, sqlDone, sqlData, sqlTold>>

\* close(): the entry goes under the mutex, the database is closed without it.
SqlClose(d) ==
    /\ sqlJs.pc = "script" /\ d \in sqlDbs
    /\ sqlDbs' = sqlDbs \ {d}
    /\ sqlJs' = [pc |-> "close", db |-> d]
    /\ UNCHANGED <<sqlWorker, sqlRunning, sqlJobs, sqlDone, sqlHandle, sqlNextDb, sqlTold>>

\* sqlite3_close: SQLITE_BUSY, which is not looked at, leaves the database behind.
SqlCloses ==
    /\ sqlJs.pc = "close"
    /\ sqlHandle' = [sqlHandle EXCEPT
                        ![sqlJs.db] = IF SqlHasStatement(sqlJs.db) THEN "leaked" ELSE "freed"]
    /\ sqlJs' = SqlAt("script")
    /\ UNCHANGED <<sqlWorker, sqlRunning, sqlJobs, sqlDone, sqlDbs, sqlNextDb, sqlTold>>

\* Variant: the push leaves the worker to find out by itself.
SqlCallUnnotified(d) ==
    /\ sqlJs.pc = "script" /\ d < sqlNextDb
    /\ SqlJobMutexFree
    /\ \E j \in SqlJobIds :
          /\ sqlDb[j] = 0 /\ \A i \in 1..(j - 1) : sqlDb[i] # 0
          /\ sqlDb' = [sqlDb EXCEPT ![j] = d]
          /\ sqlJobs' = Append(sqlJobs, j)
    /\ sqlRunning' = TRUE
    /\ sqlWorker' = IF sqlRunning THEN sqlWorker ELSE SqlBusy("check")
    /\ UNCHANGED <<sqlJs, sqlDone, sqlData, sqlSettled, sqlStale>>

\* exec(), query(), on a database that may be closed by now: the job is queued, the
\* worker started if there is none, then notified.
SqlCall(d) ==
    /\ sqlJs.pc = "script" /\ d < sqlNextDb
    /\ SqlJobMutexFree
    /\ \E j \in SqlJobIds :
          /\ sqlDb[j] = 0 /\ \A i \in 1..(j - 1) : sqlDb[i] # 0
          /\ sqlDb' = [sqlDb EXCEPT ![j] = d]
          /\ sqlJobs' = Append(sqlJobs, j)
    /\ sqlRunning' = TRUE
    /\ sqlWorker' = IF sqlRunning THEN sqlWorker ELSE SqlBusy("check")
    /\ sqlJs' = SqlAt("notify")
    /\ UNCHANGED <<sqlDone, sqlData, sqlSettled, sqlStale>>

SqlNotify ==
    /\ sqlJs.pc = "notify"
    /\ sqlWorker' = SqlNotified
    /\ sqlJs' = SqlAt("script")
    /\ UNCHANGED <<sqlRunning, sqlJobs, sqlDone, sqlData, sqlTold>>

\* The update hook takes the completions and runs them: promises are settled, their
\* handlers run later.
SqlUpdate ==
    /\ sqlJs.pc = "script" /\ sqlDone # <<>>
    /\ sqlSettled' = sqlSettled \cup {sqlDone[i] : i \in DOMAIN sqlDone}
    /\ sqlDone' = <<>>
    /\ UNCHANGED <<sqlJs, sqlWorker, sqlRunning, sqlJobs, sqlData, sqlDb, sqlStale>>

-----------------------------------------------------------------------------
(* worker_thread_body                                                      *)

SqlWorkerChecks ==
    /\ sqlWorker.pc = "check"
    /\ sqlWorker' = SqlBusy(IF sqlRunning THEN "test" ELSE "done")
    /\ UNCHANGED <<sqlJs, sqlRunning, sqlJobs, sqlDone, sqlData, sqlTold>>

\* Takes jobMutex and evaluates the predicate of wait().
SqlWorkerTests ==
    /\ sqlWorker.pc = "test"
    /\ sqlWorker' = SqlBusy(IF sqlRunning /\ sqlJobs = <<>> THEN "parking" ELSE "chosen")
    /\ UNCHANGED <<sqlJs, sqlRunning, sqlJobs, sqlDone, sqlData, sqlTold>>

SqlWorkerParks ==
    /\ sqlWorker.pc = "parking"
    /\ sqlWorker' = SqlBusy("asleep")
    /\ UNCHANGED <<sqlJs, sqlRunning, sqlJobs, sqlDone, sqlData, sqlTold>>

SqlWorkerWakesSpuriously ==
    /\ sqlWorker.pc = "asleep"
    /\ sqlWorker' = SqlBusy("test")
    /\ UNCHANGED <<sqlJs, sqlRunning, sqlJobs, sqlDone, sqlData, sqlTold>>

\* Variant: the newest job first.
SqlWorkerTakesNewest ==
    /\ sqlWorker.pc = "chosen"
    /\ IF sqlRunning
       THEN /\ sqlWorker' = [pc |-> "lookup", job |-> Last(sqlJobs)]
            /\ sqlJobs' = Front(sqlJobs)
       ELSE /\ sqlWorker' = SqlBusy("done")
            /\ UNCHANGED sqlJobs
    /\ UNCHANGED <<sqlJs, sqlRunning, sqlDone, sqlData, sqlTold>>

SqlWorkerTakes ==
    /\ sqlWorker.pc = "chosen"
    /\ IF sqlRunning
       THEN /\ sqlWorker' = [pc |-> "lookup", job |-> Head(sqlJobs)]
            /\ sqlJobs' = Tail(sqlJobs)
       ELSE /\ sqlWorker' = SqlBusy("done")
            /\ UNCHANGED sqlJobs
    /\ UNCHANGED <<sqlJs, sqlRunning, sqlDone, sqlData, sqlTold>>

\* With sqlMutex held; a job whose database is gone is rejected.
SqlWorkerLooksUp ==
    /\ sqlWorker.pc = "lookup"
    /\ sqlWorker' = [sqlWorker EXCEPT
                        !.pc = IF sqlDb[sqlWorker.job] \in sqlDbs THEN "prepare" ELSE "post"]
    /\ UNCHANGED <<sqlJs, sqlRunning, sqlJobs, sqlDone, sqlData, sqlTold>>

\* sqlite3_prepare, and then the steps of the statement; either may be the last.  On a
\* handle that was freed their outcome is undefined: this one is recorded.
SqlWorkerUses ==
    /\ sqlWorker.pc \in {"prepare", "stepping"}
    /\ sqlStale' = IF sqlHandle[sqlDb[sqlWorker.job]] = "freed" THEN sqlStale \cup {sqlWorker.job}
                                                                ELSE sqlStale
    /\ \E pc \in {"stepping", "post"} :
          /\ pc = "stepping" => sqlWorker.pc = "prepare"
          /\ sqlWorker' = [sqlWorker EXCEPT !.pc = pc]
    /\ UNCHANGED <<sqlJs, sqlRunning, sqlJobs, sqlDone, sqlData, sqlDb, sqlSettled>>

SqlWorkerPosts ==
    /\ sqlWorker.pc = "post"
    /\ sqlDone' = Append(sqlDone, sqlWorker.job)
    /\ sqlWorker' = SqlBusy("check")
    /\ UNCHANGED <<sqlJs, sqlRunning, sqlJobs, sqlData, sqlTold>>

-----------------------------------------------------------------------------
(* scriptShutdown                                                          *)

SqlShutdown ==
    /\ sqlJs.pc = "script"
    /\ sqlRunning' = FALSE
    /\ sqlJs' = SqlAt("wake")
    /\ UNCHANGED <<sqlWorker, sqlJobs, sqlDone, sqlData, sqlTold>>

SqlShutdownWakes ==
    /\ sqlJs.pc = "wake"
    /\ sqlWorker' = SqlNotified
    /\ sqlJs' = SqlAt("join")
    /\ UNCHANGED <<sqlRunning, sqlJobs, sqlDone, sqlData, sqlTold>>

\* The join; what is queued is dropped and every database in the map closed.
SqlShutdownEnds ==
    /\ sqlJs.pc = "join" /\ sqlWorker.pc \in {"none", "done"}
    /\ sqlJobs' = <<>>
    /\ sqlDone' = <<>>
    /\ sqlDbs' = {}
    /\ sqlHandle' = [d \in SqlDbIds |-> IF d \in sqlDbs THEN "freed" ELSE sqlHandle[d]]
    /\ sqlJs' = SqlAt("over")
    /\ UNCHANGED <<sqlWorker, sqlRunning, sqlNextDb, sqlTold>>

-----------------------------------------------------------------------------

SqlWorkerSteps ==
    \/ SqlWorkerChecks
    \/ SqlWorkerTests
    \/ SqlWorkerParks
    \/ SqlWorkerTakes
    \/ SqlWorkerLooksUp
    \/ SqlWorkerUses
    \/ SqlWorkerPosts

SqlHostSteps ==
    \/ SqlCloses
    \/ SqlNotify
    \/ SqlUpdate
    \/ SqlShutdownWakes
    \/ SqlShutdownEnds

SqlScriptSteps ==
    \/ SqlOpen
    \/ \E d \in SqlDbIds : SqlClose(d) \/ SqlCall(d)
    \/ SqlShutdown

SqlNext == SqlScriptSteps \/ SqlHostSteps \/ SqlWorkerSteps \/ SqlWorkerWakesSpuriously

SqlSpec == SqlInit /\ [][SqlNext]_sqlVars

\* The worker runs and statements end; the host calls the update hook and lets the
\* script thread go on inside a function it has entered.
SqlFairness == WF_sqlVars(SqlHostSteps) /\ WF_sqlVars(SqlWorkerSteps)

SqlFairSpec == SqlSpec /\ SqlFairness

-----------------------------------------------------------------------------

SqlTypeOK ==
    /\ sqlJs \in [pc : {"script", "close", "notify", "wake", "join", "over"},
                  db : 0..SqlMaxDbs]
    /\ sqlWorker \in [pc : {"none", "check", "test", "parking", "asleep", "chosen", "lookup",
                            "prepare", "stepping", "post", "done"}, job : 0..SqlMaxJobs]
    /\ sqlRunning \in BOOLEAN
    /\ sqlJobs \in Seq(SqlJobIds) /\ sqlDone \in Seq(SqlJobIds)
    /\ sqlDbs \in SUBSET SqlDbIds
    /\ sqlHandle \in [SqlDbIds -> {"none", "open", "freed", "leaked"}]
    /\ sqlNextDb \in 1..(SqlMaxDbs + 1)
    /\ sqlDb \in [SqlJobIds -> 0..SqlMaxDbs]
    /\ sqlSettled \in SUBSET SqlJobIds /\ sqlStale \in SUBSET SqlJobIds

\* close() pulls a database from under at most one job, the one in the worker's hands:
\* every job looked up later is refused (js_close, worker_thread_body).
SqlOneStaleUse ==
    \A i, j \in sqlStale : sqlDb[i] = sqlDb[j] => i = j

\* The jobs under way, oldest first, wherever they stand.
SqlInHand == IF sqlWorker.pc \in {"lookup", "prepare", "stepping", "post"}
             THEN <<sqlWorker.job>> ELSE <<>>
SqlLine == sqlDone \o SqlInHand \o sqlJobs

\* exec() and query() are a queue: jobs are served one by one in the order they were
\* made and leave it in that order, each update hook with all that are served (js_exec,
\* worker_thread_body, scriptUpdate).  The code sets no limit to it.
SqlQueue == INSTANCE WorkQueue WITH
               Ids <- SqlJobIds, Limit <- SqlMaxJobs, Batches <- Nat,
               line <- SqlLine, ready <- Len(sqlDone), open <- sqlJs.pc # "over"

SqlImplementsQueue == SqlQueue!QueueSpec

\* Until shutdown, the calls not settled are those under way: none is lost, and none is
\* served after it was settled (js_exec, worker_thread_body, scriptUpdate).
SqlCallsAccounted ==
    sqlJs.pc # "over" => \A j \in SqlJobIds :
        sqlDb[j] # 0 /\ j \notin sqlSettled <=> \E i \in 1..Len(SqlLine) : SqlLine[i] = j

\* Shutdown is about to notify the worker, which is not about to sleep.
SqlJoining == sqlJs.pc = "wake" /\ sqlWorker.pc # "parking"

\* Calls not settled, before shutdown.
SqlWaiting ==
    {j \in SqlJobIds : sqlDb[j] # 0 /\ j \notin sqlSettled /\ sqlJs.pc \notin {"wake", "join", "over"}}

=============================================================================
