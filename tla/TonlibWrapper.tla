---------------------------- MODULE TonlibWrapper ----------------------------
(***************************************************************************)
(* One AsyncTonLibJsonWrapper (provider/_tonlibjson/_async/_wrapper.py)    *)
(* with the tonlib client it talks to, the thread pool its blocking calls  *)
(* run in and the tasks that use it.                                       *)
(*                                                                         *)
(* A step is what the event loop runs between two awaits, or one call of   *)
(* a pool thread into tonlib.  An extra id is the request itself: the id   *)
(* holds a random number, so no two requests share one.                    *)
(***************************************************************************)
EXTENDS Naturals, FiniteSets

CONSTANTS
    Requests,        \* the requests the callers may make
    Workers,         \* threads of the default executor
    MaxRequests,     \* max_requests of set_restart_hook, 1024 in init
    MaxRestartTasks, \* bound: restart() tasks waiting for the loop
    Faults           \* which of FaultKinds happen

\* create, send, receive: the call into tonlib raises.  query: the query holds
\* a value json.dumps refuses.  garbled: what tonlib returned is not JSON.
\* stuck: receive overruns its timeout and delta.  cancel: a caller gives up.
FaultKinds ==
    {"create", "send", "query", "receive", "garbled", "stuck", "cancel"}

ASSUME RequestsAssumption == IsFiniteSet(Requests)
ASSUME WorkersAssumption == Workers \in Nat \ {0}
ASSUME MaxRequestsAssumption == MaxRequests \in Nat \ {0}
ASSUME MaxRestartTasksAssumption == MaxRestartTasks \in Nat \ {0}
ASSUME FaultsAssumption == Faults \subseteq FaultKinds

VARIABLES
    fut,        \* fut[r]: the future that execute returned for r
    futures,    \* the keys of self.futures
    expired,    \* requests whose expiry time, part of the id, has passed
    refused,    \* requests whose query json.dumps would not write
    shutdown,   \* self.shutdown_state, "open" for False
    hookSet,    \* set_restart_hook was called
    asked,      \* how often restart_hook was scheduled
    replaced,   \* the client uses another wrapper, or none at all
    restarts,   \* restart() tasks that have not run yet
    reader,     \* read_results: "pause" before its loop test, "await" or "stopped"
    reaper,     \* del_expired_futures_loop: "alive", "dead" or "stopped"
    unsent,     \* requests whose send waits for a pool thread
    rcv,        \* the receive call the reader awaits
    got,        \* the answer that call brought, as a set of at most one
    abandoned,  \* receive calls still running that nobody awaits
    created,    \* tonlib_client_json_create returned a client
    inside,     \* requests tonlib works on
    ready       \* requests whose answer tonlib has ready

callVars == <<fut, futures, expired, refused>>
lifeVars == <<shutdown, hookSet, asked, replaced>>
taskVars == <<reader, reaper>>
poolVars == <<unsent, rcv, got, abandoned>>
libVars  == <<created, inside, ready>>
vars == <<callVars, lifeVars, restarts, taskVars, poolVars, libVars>>

Init ==
    /\ fut = [r \in Requests |-> "idle"]
    /\ futures = {}
    /\ expired = {}
    /\ refused = {}
    /\ shutdown = "open"
    /\ hookSet = FALSE
    /\ asked = 0
    /\ replaced = FALSE
    /\ reader = "pause"
    /\ reaper = "alive"
    /\ unsent = {}
    /\ rcv = "none"
    /\ got = {}
    /\ abandoned = 0
    /\ created \in IF "create" \in Faults THEN BOOLEAN ELSE {TRUE}
    /\ restarts = IF created THEN 0 ELSE 1
    /\ inside = {}
    /\ ready = {}

\* self.request_num: every request is made once.
request_num == Cardinality({r \in Requests : fut[r] # "idle"})

\* A pool thread is free to start a job.
WorkerFree == abandoned + (IF rcv = "running" THEN 1 ELSE 0) < Workers

\* asyncio.ensure_future(self.restart()): a task, not a call.
ScheduleRestart ==
    /\ restarts < MaxRestartTasks
    /\ restarts' = restarts + 1

\* Mutant: the table of futures is not looked at.
IsFinishing_ignores_table(table) == shutdown \in {"started", "finished"}

\* _is_finishing, for a given content of self.futures.
IsFinishing(table) == table = {} /\ shutdown \in {"started", "finished"}

----------------------------------------------------------------------------
(* The tasks that use the wrapper.                                         *)

\* execute: the send is handed to the pool and the future registered.
Execute(r) ==
    /\ ~ replaced
    /\ fut[r] = "idle"
    /\ fut' = [fut EXCEPT ![r] = "pending"]
    /\ futures' = futures \cup {r}
    /\ unsent' = unsent \cup {r}
    /\ IF hookSet /\ MaxRequests < request_num'
       THEN ScheduleRestart
       ELSE restarts' = restarts
    /\ UNCHANGED <<expired, refused, lifeVars, taskVars, rcv, got, abandoned,
                   libVars>>

\* The task that awaits the future is cancelled, and the future with it.
Cancel(r) ==
    /\ "cancel" \in Faults
    /\ fut[r] = "pending"
    /\ fut' = [fut EXCEPT ![r] = "cancelled"]
    /\ UNCHANGED <<futures, expired, refused, lifeVars, restarts, taskVars,
                   poolVars, libVars>>

\* set_restart_hook, called by the client once tonlib answered its init.
SetRestartHook ==
    /\ ~ hookSet
    /\ hookSet' = TRUE
    /\ UNCHANGED <<callVars, shutdown, asked, replaced, restarts, taskVars,
                   poolVars, libVars>>

\* The scheduled restart_hook reaches the point where the client swaps its
\* wrapper.  It may also fail on the way there: then this step never comes.
HookReplaces ==
    /\ asked > 0
    /\ ~ replaced
    /\ replaced' = TRUE
    /\ UNCHANGED <<callVars, shutdown, hookSet, asked, restarts, taskVars,
                   poolVars, libVars>>

Expire(r) ==
    /\ r \in futures \ expired
    /\ expired' = expired \cup {r}
    /\ UNCHANGED <<fut, futures, refused, lifeVars, restarts, taskVars,
                   poolVars, libVars>>

----------------------------------------------------------------------------
(* restart().  Without a hook the coroutine dies of an AttributeError just *)
(* after it changed shutdown_state, and later calls return at once.        *)

\* Mutant: the state is not tested, every restart asks for a new wrapper.
Restart_unguarded ==
    /\ restarts > 0
    /\ restarts' = restarts - 1
    /\ shutdown' = "started"
    /\ asked' = IF hookSet THEN asked + 1 ELSE asked
    /\ UNCHANGED <<callVars, hookSet, replaced, taskVars, poolVars, libVars>>

Restart ==
    /\ restarts > 0
    /\ restarts' = restarts - 1
    /\ IF shutdown = "open"
       THEN /\ shutdown' = "started"
            /\ asked' = IF hookSet THEN asked + 1 ELSE asked
       ELSE UNCHANGED <<shutdown, asked>>
    /\ UNCHANGED <<callVars, hookSet, replaced, taskVars, poolVars, libVars>>

----------------------------------------------------------------------------
(* Pool threads inside send and receive.  Both catch what the call into    *)
(* tonlib raises and schedule a restart; receive then returns None.  What  *)
(* json.dumps raises in send is not caught: it goes into the future of     *)
(* run_in_executor, which nobody keeps.                                    *)

Send(r) ==
    /\ r \in unsent
    /\ WorkerFree
    /\ created
    /\ unsent' = unsent \ {r}
    /\ inside' = inside \cup {r}
    /\ UNCHANGED <<callVars, lifeVars, restarts, taskVars, rcv, got,
                   abandoned, created, ready>>

\* Mutant: the exception is swallowed.
SendRaises_swallowed(r) ==
    /\ "send" \in Faults \/ ~ created
    /\ r \in unsent
    /\ WorkerFree
    /\ unsent' = unsent \ {r}
    /\ UNCHANGED <<callVars, lifeVars, restarts, taskVars, rcv, got,
                   abandoned, libVars>>

SendRaises(r) ==
    /\ "send" \in Faults \/ ~ created
    /\ r \in unsent
    /\ WorkerFree
    /\ unsent' = unsent \ {r}
    /\ ScheduleRestart
    /\ UNCHANGED <<callVars, lifeVars, taskVars, rcv, got, abandoned, libVars>>

SendRefuses(r) ==
    /\ "query" \in Faults
    /\ r \in unsent
    /\ WorkerFree
    /\ unsent' = unsent \ {r}
    /\ refused' = refused \cup {r}
    /\ UNCHANGED <<fut, futures, expired, lifeVars, restarts, taskVars, rcv,
                   got, abandoned, libVars>>

ReceiveStarts ==
    /\ rcv = "queued"
    /\ WorkerFree
    /\ rcv' = "running"
    /\ UNCHANGED <<callVars, lifeVars, restarts, taskVars, unsent, got,
                   abandoned, libVars>>

ReceiveAnswer(r) ==
    /\ rcv = "running"
    /\ r \in ready
    /\ rcv' = "answer"
    /\ got' = {r}
    /\ ready' = ready \ {r}
    /\ UNCHANGED <<callVars, lifeVars, restarts, taskVars, unsent, abandoned,
                   created, inside>>

ReceiveNothing ==
    /\ rcv = "running"
    /\ created
    /\ ready = {}
    /\ rcv' = "empty"
    /\ UNCHANGED <<callVars, lifeVars, restarts, taskVars, unsent, got,
                   abandoned, libVars>>

ReceiveRaises ==
    /\ "receive" \in Faults \/ ~ created
    /\ rcv = "running"
    /\ rcv' = "empty"
    /\ ScheduleRestart
    /\ UNCHANGED <<callVars, lifeVars, taskVars, unsent, got, abandoned,
                   libVars>>

\* json.loads or decode raises after the answer was taken out of tonlib.
ReceiveGarbled(r) ==
    /\ "garbled" \in Faults
    /\ rcv = "running"
    /\ r \in ready
    /\ rcv' = "raised"
    /\ ready' = ready \ {r}
    /\ UNCHANGED <<callVars, lifeVars, restarts, taskVars, unsent, got,
                   abandoned, created, inside>>

\* A receive nobody awaits any more ends, with an answer, with none, or by
\* an exception.
AbandonedAnswer(r) ==
    /\ abandoned > 0
    /\ r \in ready
    /\ abandoned' = abandoned - 1
    /\ ready' = ready \ {r}
    /\ UNCHANGED <<callVars, lifeVars, restarts, taskVars, unsent, rcv, got,
                   created, inside>>

AbandonedNothing ==
    /\ abandoned > 0
    /\ created
    /\ ready = {}
    /\ abandoned' = abandoned - 1
    /\ UNCHANGED <<callVars, lifeVars, restarts, taskVars, unsent, rcv, got,
                   libVars>>

AbandonedRaises ==
    /\ "receive" \in Faults \/ ~ created
    /\ abandoned > 0
    /\ abandoned' = abandoned - 1
    /\ ScheduleRestart
    /\ UNCHANGED <<callVars, lifeVars, taskVars, unsent, rcv, got, libVars>>

----------------------------------------------------------------------------
(* tonlib itself: it answers every query, in an order of its own.          *)

TonlibAnswers(r) ==
    /\ r \in inside
    /\ inside' = inside \ {r}
    /\ ready' = ready \cup {r}
    /\ UNCHANGED <<callVars, lifeVars, restarts, taskVars, poolVars, created>>

----------------------------------------------------------------------------
(* read_results.                                                           *)

\* The test of the while loop and what follows it up to the next await.
LoopTest(table) ==
    \/ /\ IsFinishing(table)
       /\ reader' = "stopped"
       /\ shutdown' = "finished"
       /\ rcv' = "none"
    \/ /\ ~ IsFinishing(table)
       /\ reader' = "await"
       /\ rcv' = "queued"
       /\ shutdown' = shutdown

\* Mutant: the result is set whatever state the future is in.
Delivered_unchecked == got \cap futures

\* The futures the answer at hand resolves: only one that is not done().
Delivered == {r \in got \cap futures : fut[r] = "pending"}

\* Mutant: the future is resolved but stays in the table.
ReaderResumes_keeps_entry ==
    /\ reader = "await"
    /\ rcv \in {"answer", "empty"}
    /\ fut' = [r \in Requests |-> IF r \in Delivered THEN "done" ELSE fut[r]]
    /\ futures' = futures
    /\ got' = {}
    /\ LoopTest(futures)
    /\ UNCHANGED <<expired, refused, hookSet, asked, replaced, restarts,
                   reaper, unsent, abandoned, libVars>>

ReaderResumes ==
    /\ reader = "await"
    /\ rcv \in {"answer", "empty"}
    /\ fut' = [r \in Requests |-> IF r \in Delivered THEN "done" ELSE fut[r]]
    /\ futures' = futures \ Delivered
    /\ got' = {}
    /\ LoopTest(futures \ Delivered)
    /\ UNCHANGED <<expired, refused, hookSet, asked, replaced, restarts,
                   reaper, unsent, abandoned, libVars>>

\* "crashed!": the awaited call ended with an exception.
ReaderCrashes ==
    /\ reader = "await"
    /\ rcv = "raised"
    /\ rcv' = "none"
    /\ reader' = "pause"
    /\ ScheduleRestart
    /\ UNCHANGED <<callVars, lifeVars, reaper, unsent, got, abandoned, libVars>>

\* "Stuck!": wait_for gives up.  A call that still waits for a thread is
\* taken back, a running one goes on with nobody to take its result.
ReaderTimesOut ==
    /\ "stuck" \in Faults
    /\ reader = "await"
    /\ rcv \in {"queued", "running"}
    /\ abandoned' = IF rcv = "running" THEN abandoned + 1 ELSE abandoned
    /\ rcv' = "none"
    /\ reader' = "pause"
    /\ ScheduleRestart
    /\ UNCHANGED <<callVars, lifeVars, reaper, unsent, got, libVars>>

\* The task runs for the first time or wakes up from asyncio.sleep(0.05).
ReaderLoops ==
    /\ reader = "pause"
    /\ LoopTest(futures)
    /\ UNCHANGED <<callVars, hookSet, asked, replaced, restarts, reaper,
                   unsent, got, abandoned, libVars>>

----------------------------------------------------------------------------
(* del_expired_futures_loop.  cancel_futures calls cancel() on the key of  *)
(* the first expired entry, a str: the AttributeError ends the task before *)
(* it cancelled or removed anything.                                       *)

ReaperStops ==
    /\ reaper = "alive"
    /\ IsFinishing(futures)
    /\ reaper' = "stopped"
    /\ UNCHANGED <<callVars, lifeVars, restarts, reader, poolVars, libVars>>

\* Mutant: the entry is removed, its future left alone.
ReaperDies_removes ==
    /\ reaper = "alive"
    /\ futures \cap expired # {}
    /\ futures' = futures \ expired
    /\ UNCHANGED <<fut, expired, refused, reaper, lifeVars, restarts, reader,
                   poolVars, libVars>>

ReaperDies ==
    /\ reaper = "alive"
    /\ ~ IsFinishing(futures)
    /\ futures \cap expired # {}
    /\ reaper' = "dead"
    /\ UNCHANGED <<callVars, lifeVars, restarts, reader, poolVars, libVars>>

----------------------------------------------------------------------------
Callers == SetRestartHook \/ HookReplaces
             \/ \E r \in Requests : Execute(r) \/ Cancel(r) \/ Expire(r)

Threads == ReceiveStarts \/ ReceiveNothing \/ ReceiveRaises
             \/ AbandonedNothing \/ AbandonedRaises
             \/ \E r \in Requests :
                  \/ Send(r) \/ SendRaises(r) \/ SendRefuses(r)
                  \/ ReceiveAnswer(r) \/ ReceiveGarbled(r)
                  \/ AbandonedAnswer(r)

Tasks == Restart \/ ReaderResumes \/ ReaderCrashes \/ ReaderTimesOut
           \/ ReaderLoops \/ ReaperStops \/ ReaperDies

Next == Callers \/ Threads \/ Tasks \/ \E r \in Requests : TonlibAnswers(r)

Spec == Init /\ [][Next]_vars

\* The loop runs every task that can go on, a receive call ends within its
\* timeout, and tonlib answers.  The pool takes its jobs in the order they
\* came, so a send that finds a free thread again and again is not passed
\* over for ever: strong fairness.
Fairness ==
    /\ WF_vars(Restart)
    /\ WF_vars(ReaderResumes) /\ WF_vars(ReaderCrashes) /\ WF_vars(ReaderLoops)
    /\ WF_vars(ReaperStops) /\ WF_vars(ReaperDies)
    /\ WF_vars(ReceiveStarts) /\ WF_vars(ReceiveNothing)
    /\ WF_vars(\E r \in Requests : ReceiveAnswer(r))
    /\ \A r \in Requests : SF_vars(Send(r)) /\ WF_vars(TonlibAnswers(r))

FairSpec == Spec /\ Fairness

----------------------------------------------------------------------------
TypeOK ==
    /\ fut \in [Requests -> {"idle", "pending", "done", "cancelled"}]
    /\ futures \subseteq Requests /\ expired \subseteq Requests
    /\ refused \subseteq Requests
    /\ shutdown \in {"open", "started", "finished"}
    /\ hookSet \in BOOLEAN /\ replaced \in BOOLEAN /\ created \in BOOLEAN
    /\ asked \in Nat /\ restarts \in Nat
    /\ reader \in {"pause", "await", "stopped"}
    /\ reaper \in {"alive", "dead", "stopped"}
    /\ rcv \in {"none", "queued", "running", "answer", "empty", "raised"}
    /\ abandoned \in 0 .. Workers
    /\ unsent \subseteq Requests /\ got \subseteq Requests
    /\ inside \subseteq Requests /\ ready \subseteq Requests

TableExact == futures = {r \in Requests : fut[r] \in {"pending", "cancelled"}}

(* self.futures holds exactly the futures whose answer has not been set:   *)
(* nobody waits on a future the reader would no longer find, and no        *)
(* resolved future keeps the wrapper from finishing.  A future its caller  *)
(* cancelled stays in the table.                                           *)
TableInv == TypeOK /\ TableExact

\* The query or its answer is somewhere on the way to the reader.
UnderWay(r) == reader # "stopped" /\ r \in unsent \cup inside \cup ready \cup got

(* When the answer to a pending request can no longer come (tonlib raised  *)
(* in send, the answer was unreadable or went to an abandoned receive, the *)
(* reader ended), the wrapper has been told to restart.  There is one way  *)
(* to wait in silence, and no other: a query that json.dumps refuses,      *)
(* outside the try of send.  The reader then never ends, because the       *)
(* request stays in the table.                                             *)
LossCausesRestart ==
    \A r \in Requests :
        fut[r] = "pending" /\ ~ UnderWay(r)
            => \/ restarts > 0 \/ shutdown # "open" \/ rcv = "raised"
               \/ r \in refused /\ r \in futures /\ reader # "stopped"

(* However many of the send threads, the receive threads, the reader and   *)
(* execute ask for a restart, the client is asked to reconnect once.       *)
OneReconnect == asked <= 1 /\ (asked = 1 => shutdown # "open")

(* An answer never reaches a future twice, nor one its caller cancelled:   *)
(* a settled future stays as it is.                                        *)
SettledForGood ==
    [][\A r \in Requests : fut[r] \in {"done", "cancelled"} => fut'[r] = fut[r]]_vars

(* The reader leaves only when nobody waits for an answer, so a restart    *)
(* never cuts off a request that was made before it.                       *)
ReaderLeavesNobody ==
    [][reader # "stopped" /\ reader' = "stopped"
         => \A r \in Requests : fut'[r] # "pending"]_vars

(* A request made while the reader runs is answered.                       *)
Answered ==
    \A r \in Requests :
        (fut[r] = "pending" /\ reader # "stopped") ~> (fut[r] = "done")

(* A wrapper that is told to restart serves what it has taken on and then  *)
(* ends both of its tasks.                                                 *)
Drains == (shutdown = "started") ~> (shutdown = "finished" /\ reader = "stopped")

(* The wrapper is a request channel.                                       *)
Channel == INSTANCE RequestChannel
             WITH call <- fut, phase <- shutdown,
                  asked <- (asked > 0), replaced <- replaced

ImplementsChannel == Channel!Spec
=============================================================================
