------------------------ MODULE TonlibWrapperProofs ------------------------
(***************************************************************************)
(* Theorems about one wrapper, for every set of requests, pool size,       *)
(* request limit and choice of faults.                                     *)
(***************************************************************************)
EXTENDS TonlibWrapper, TLAPS

\* A pool thread that runs a receive is one of Workers.
PoolBounded == abandoned + (IF rcv = "running" THEN 1 ELSE 0) <= Workers

\* The reader alone writes "finished", and it is the last thing it does.
FinishedMeansStopped == shutdown = "finished" <=> reader = "stopped"

\* The receive the reader awaits, and the one answer it may hold.
ReceiveAwaited ==
    /\ rcv # "none" => reader = "await"
    /\ rcv # "answer" => got = {}
    /\ \A r, s \in got : r = s

\* A receive is abandoned only along with a restart.
AbandonedMeansRestart == abandoned > 0 => restarts > 0 \/ shutdown # "open"

IInv ==
    /\ TypeOK
    /\ PoolBounded
    /\ FinishedMeansStopped
    /\ ReceiveAwaited
    /\ AbandonedMeansRestart
    /\ TableExact
    /\ LossCausesRestart
    /\ OneReconnect

LEMMA InitIInv == Init => IInv
<1> SUFFICES ASSUME Init PROVE IInv
  OBVIOUS
<1>1. created \in BOOLEAN /\ restarts \in Nat
  BY DEF Init
<1>2. abandoned = 0 /\ rcv = "none" /\ abandoned \in 0 .. Workers
  BY WorkersAssumption DEF Init
<1>3. PoolBounded
  BY <1>2, WorkersAssumption DEF PoolBounded
<1>4. TypeOK
  BY <1>1, <1>2 DEF Init, TypeOK
<1>5. /\ FinishedMeansStopped /\ AbandonedMeansRestart /\ ReceiveAwaited
      /\ TableExact /\ OneReconnect
  BY DEF Init, FinishedMeansStopped, AbandonedMeansRestart, ReceiveAwaited,
         TableExact, OneReconnect
<1>6. LossCausesRestart
  BY DEF Init, LossCausesRestart
<1> QED
  BY <1>3, <1>4, <1>5, <1>6 DEF IInv

----------------------------------------------------------------------------
\* The actions of the callers.
LEMMA CallersIInv == ASSUME IInv, Callers PROVE IInv'
<1> USE DEF callVars, lifeVars, taskVars, poolVars, libVars
<1>1. ASSUME NEW r \in Requests, Execute(r) PROVE IInv'
  <2>1. restarts' \in Nat /\ (restarts > 0 => restarts' > 0)
    BY <1>1 DEF Execute, ScheduleRestart, IInv, TypeOK
  <2>2. TypeOK'
    BY <1>1, <2>1 DEF Execute, IInv, TypeOK
  <2>3. TableExact'
    BY <1>1 DEF Execute, IInv, TypeOK, TableExact
  <2>4. LossCausesRestart'
    BY <1>1, <2>1
       DEF Execute, IInv, TypeOK, LossCausesRestart, UnderWay,
           FinishedMeansStopped
  <2>5. (PoolBounded /\ FinishedMeansStopped /\ ReceiveAwaited)'
    BY <1>1 DEF Execute, IInv, PoolBounded, FinishedMeansStopped,
                ReceiveAwaited
  <2>6. (AbandonedMeansRestart /\ OneReconnect)'
    BY <1>1, <2>1 DEF Execute, IInv, AbandonedMeansRestart, OneReconnect
  <2> QED
    BY <2>2, <2>3, <2>4, <2>5, <2>6 DEF IInv
<1>2. ASSUME NEW r \in Requests, Cancel(r) PROVE IInv'
  BY <1>2 DEF Cancel, IInv, TypeOK, PoolBounded, FinishedMeansStopped,
              AbandonedMeansRestart, ReceiveAwaited, TableExact,
              LossCausesRestart, UnderWay, OneReconnect
<1>3. ASSUME NEW r \in Requests, Expire(r) PROVE IInv'
  BY <1>3 DEF Expire, IInv, TypeOK, PoolBounded, FinishedMeansStopped,
              AbandonedMeansRestart, ReceiveAwaited, TableExact,
              LossCausesRestart, UnderWay, OneReconnect
<1>4. CASE SetRestartHook
  BY <1>4 DEF SetRestartHook, IInv, TypeOK, PoolBounded, FinishedMeansStopped,
              AbandonedMeansRestart, ReceiveAwaited, TableExact,
              LossCausesRestart, UnderWay, OneReconnect
<1>5. CASE HookReplaces
  BY <1>5 DEF HookReplaces, IInv, TypeOK, PoolBounded, FinishedMeansStopped,
              AbandonedMeansRestart, ReceiveAwaited, TableExact,
              LossCausesRestart, UnderWay, OneReconnect
<1> QED
  BY <1>1, <1>2, <1>3, <1>4, <1>5 DEF Callers

\* The actions of the pool threads and of tonlib.
LEMMA ThreadsIInv ==
    ASSUME IInv, Threads \/ \E r \in Requests : TonlibAnswers(r)
    PROVE  IInv'
<1> USE DEF callVars, lifeVars, taskVars, poolVars, libVars
<1>1. ASSUME NEW r \in Requests, Send(r) PROVE IInv'
  BY <1>1 DEF Send, IInv, TypeOK, PoolBounded, FinishedMeansStopped,
              AbandonedMeansRestart, ReceiveAwaited, TableExact,
              LossCausesRestart, UnderWay, OneReconnect
<1>2. ASSUME NEW r \in Requests, SendRaises(r) PROVE IInv'
  BY <1>2 DEF SendRaises, ScheduleRestart, IInv, TypeOK, PoolBounded,
              FinishedMeansStopped, AbandonedMeansRestart, ReceiveAwaited,
              TableExact, LossCausesRestart, UnderWay, OneReconnect
<1>3. CASE ReceiveStarts
  <2>1. abandoned' \in 0 .. Workers /\ PoolBounded'
    BY <1>3, WorkersAssumption
       DEF ReceiveStarts, WorkerFree, IInv, TypeOK, PoolBounded
  <2> QED
    BY <1>3, <2>1
       DEF ReceiveStarts, WorkerFree, IInv, TypeOK, FinishedMeansStopped,
           AbandonedMeansRestart, ReceiveAwaited, TableExact,
           LossCausesRestart, UnderWay, OneReconnect
<1>4. ASSUME NEW r \in Requests, ReceiveAnswer(r) PROVE IInv'
  BY <1>4 DEF ReceiveAnswer, IInv, TypeOK, PoolBounded, FinishedMeansStopped,
              AbandonedMeansRestart, ReceiveAwaited, TableExact,
              LossCausesRestart, UnderWay, OneReconnect
<1>5. CASE ReceiveNothing
  BY <1>5 DEF ReceiveNothing, IInv, TypeOK, PoolBounded, FinishedMeansStopped,
              AbandonedMeansRestart, ReceiveAwaited, TableExact,
              LossCausesRestart, UnderWay, OneReconnect
<1>6. CASE ReceiveRaises
  BY <1>6 DEF ReceiveRaises, ScheduleRestart, IInv, TypeOK, PoolBounded,
              FinishedMeansStopped, AbandonedMeansRestart, ReceiveAwaited,
              TableExact, LossCausesRestart, UnderWay, OneReconnect
<1>7. ASSUME NEW r \in Requests, ReceiveGarbled(r) PROVE IInv'
  BY <1>7 DEF ReceiveGarbled, IInv, TypeOK, PoolBounded, FinishedMeansStopped,
              AbandonedMeansRestart, ReceiveAwaited, TableExact,
              LossCausesRestart, UnderWay, OneReconnect
<1>8. ASSUME NEW r \in Requests, AbandonedAnswer(r) PROVE IInv'
  <2>1. abandoned' \in 0 .. Workers /\ PoolBounded'
    BY <1>8, WorkersAssumption
       DEF AbandonedAnswer, IInv, TypeOK, PoolBounded
  <2> QED
    BY <1>8, <2>1
       DEF AbandonedAnswer, IInv, TypeOK, FinishedMeansStopped,
           AbandonedMeansRestart, ReceiveAwaited, TableExact,
           LossCausesRestart, UnderWay, OneReconnect
<1>9. CASE AbandonedNothing
  <2>1. abandoned' \in 0 .. Workers /\ PoolBounded'
    BY <1>9, WorkersAssumption
       DEF AbandonedNothing, IInv, TypeOK, PoolBounded
  <2> QED
    BY <1>9, <2>1
       DEF AbandonedNothing, IInv, TypeOK, FinishedMeansStopped,
           AbandonedMeansRestart, ReceiveAwaited, TableExact,
           LossCausesRestart, UnderWay, OneReconnect
<1>10. CASE AbandonedRaises
  <2>1. abandoned' \in 0 .. Workers /\ PoolBounded'
    BY <1>10, WorkersAssumption
       DEF AbandonedRaises, IInv, TypeOK, PoolBounded
  <2> QED
    BY <1>10, <2>1
       DEF AbandonedRaises, ScheduleRestart, IInv, TypeOK,
           FinishedMeansStopped, AbandonedMeansRestart, ReceiveAwaited,
           TableExact, LossCausesRestart, UnderWay, OneReconnect
<1>11. ASSUME NEW r \in Requests, TonlibAnswers(r) PROVE IInv'
  BY <1>11 DEF TonlibAnswers, IInv, TypeOK, PoolBounded, FinishedMeansStopped,
               AbandonedMeansRestart, ReceiveAwaited, TableExact,
               LossCausesRestart, UnderWay, OneReconnect
<1>12. ASSUME NEW r \in Requests, SendRefuses(r) PROVE IInv'
  <2>1. fut[r] = "pending" => r \in futures
    BY DEF IInv, TableExact
  <2> QED
    BY <1>12, <2>1
       DEF SendRefuses, IInv, TypeOK, PoolBounded, FinishedMeansStopped,
           AbandonedMeansRestart, ReceiveAwaited, TableExact,
           LossCausesRestart, UnderWay, OneReconnect
<1> QED
  BY <1>1, <1>2, <1>3, <1>4, <1>5, <1>6, <1>7, <1>8, <1>9, <1>10, <1>11,
     <1>12
     DEF Threads

----------------------------------------------------------------------------
\* The loop test, with the table as the step leaves it.
LEMMA LoopTestKeeps ==
    ASSUME IInv, NEW table, LoopTest(table), reader # "stopped"
    PROVE  /\ reader' \in {"await", "stopped"} /\ rcv' \in {"none", "queued"}
           /\ shutdown' \in {"open", "started", "finished"}
           /\ shutdown # "open" => shutdown' # "open"
           /\ rcv' # "none" => reader' = "await"
           /\ FinishedMeansStopped'
           /\ reader' = "stopped" => table = {} /\ shutdown = "started"
           /\ reader' = "await" => shutdown' = shutdown
BY DEF LoopTest, IsFinishing, IInv, TypeOK, FinishedMeansStopped

\* The actions of the tasks.
LEMMA TasksIInv == ASSUME IInv, Tasks PROVE IInv'
<1> USE DEF callVars, lifeVars, taskVars, poolVars, libVars
<1>1. CASE Restart
  BY <1>1 DEF Restart, IInv, TypeOK, PoolBounded, FinishedMeansStopped,
              AbandonedMeansRestart, ReceiveAwaited, TableExact,
              LossCausesRestart, UnderWay, OneReconnect
<1>2. CASE ReaderResumes
  <2>1. LoopTest(futures \ Delivered) /\ reader = "await"
    BY <1>2 DEF ReaderResumes
  <2>2. /\ fut' = [r \in Requests |->
                    IF r \in Delivered THEN "done" ELSE fut[r]]
        /\ futures' = futures \ Delivered
        /\ got' = {}
        /\ UNCHANGED <<expired, refused, hookSet, asked, replaced, restarts,
                       reaper, unsent, abandoned, created, inside, ready>>
    BY <1>2 DEF ReaderResumes
  <2>3. \A r \in Requests : r \in Delivered <=> r \in got /\ fut[r] = "pending"
    BY DEF Delivered, IInv, TypeOK, TableExact
  <2>4. TypeOK'
    BY <2>1, <2>2, LoopTestKeeps DEF IInv, TypeOK
  <2>5. TableExact'
    BY <2>2, <2>3 DEF IInv, TypeOK, TableExact
  <2>6. PoolBounded'
    BY <2>1, <2>2, LoopTestKeeps, WorkersAssumption DEF IInv, TypeOK,
                                                        PoolBounded
  <2>7. /\ FinishedMeansStopped' /\ AbandonedMeansRestart'
        /\ ReceiveAwaited' /\ OneReconnect'
    BY <2>1, <2>2, LoopTestKeeps
       DEF IInv, ReceiveAwaited, AbandonedMeansRestart, OneReconnect
  <2>8. LossCausesRestart'
    <3> SUFFICES ASSUME NEW r \in Requests,
                        fut'[r] = "pending", ~ UnderWay(r)'
                 PROVE  \/ restarts' > 0 \/ shutdown' # "open"
                        \/ /\ r \in refused' /\ r \in futures'
                           /\ reader' # "stopped"
      BY DEF LossCausesRestart
    <3>1. fut[r] = "pending" /\ r \notin got
      BY <2>2, <2>3
    <3>2. CASE reader' = "stopped"
      BY <2>1, <3>2, LoopTestKeeps DEF FinishedMeansStopped
    <3>3. CASE reader' # "stopped"
      <4>1. ~ UnderWay(r)
        BY <2>2, <3>1, <3>3 DEF UnderWay
      <4>2. rcv # "raised"
        BY <1>2 DEF ReaderResumes
      <4>3. \/ restarts > 0 \/ shutdown # "open"
            \/ r \in refused /\ r \in futures
        BY <3>1, <4>1, <4>2 DEF IInv, LossCausesRestart
      <4>4. r \in futures => r \in futures'
        BY <2>2, <2>3, <3>1
      <4>5. restarts' = restarts /\ refused' = refused
        BY <2>2
      <4>6. shutdown # "open" => shutdown' # "open"
        BY <2>1, LoopTestKeeps
      <4> QED
        BY <3>3, <4>3, <4>4, <4>5, <4>6
    <3> QED
      BY <3>2, <3>3
  <2> QED
    BY <2>4, <2>5, <2>6, <2>7, <2>8 DEF IInv
<1>3. CASE ReaderCrashes
  BY <1>3 DEF ReaderCrashes, ScheduleRestart, IInv, TypeOK, PoolBounded,
              FinishedMeansStopped, AbandonedMeansRestart, ReceiveAwaited,
              TableExact, LossCausesRestart, UnderWay, OneReconnect
<1>4. CASE ReaderTimesOut
  <2>1. abandoned' \in 0 .. Workers /\ PoolBounded'
    BY <1>4, WorkersAssumption DEF ReaderTimesOut, IInv, TypeOK, PoolBounded
  <2> QED
    BY <1>4, <2>1
       DEF ReaderTimesOut, ScheduleRestart, IInv, TypeOK,
           FinishedMeansStopped, AbandonedMeansRestart, ReceiveAwaited,
           TableExact, LossCausesRestart, UnderWay, OneReconnect
<1>5. CASE ReaderLoops
  <2>1. /\ LoopTest(futures) /\ reader = "pause"
        /\ UNCHANGED <<callVars, hookSet, asked, replaced, restarts, reaper,
                       unsent, got, abandoned, libVars>>
    BY <1>5 DEF ReaderLoops
  <2>2. rcv = "none"
    BY <2>1 DEF IInv, ReceiveAwaited
  <2>3. TypeOK' /\ PoolBounded'
    BY <2>1, LoopTestKeeps, WorkersAssumption DEF IInv, TypeOK, PoolBounded
  <2>4. /\ FinishedMeansStopped' /\ AbandonedMeansRestart'
        /\ ReceiveAwaited' /\ OneReconnect' /\ TableExact'
    BY <2>1, <2>2, LoopTestKeeps
       DEF IInv, ReceiveAwaited, AbandonedMeansRestart, OneReconnect,
           TableExact
  <2>5. LossCausesRestart'
    BY <2>1, <2>2, LoopTestKeeps
       DEF IInv, LossCausesRestart, UnderWay, FinishedMeansStopped
  <2> QED
    BY <2>3, <2>4, <2>5 DEF IInv
<1>6. CASE ReaperStops
  BY <1>6 DEF ReaperStops, IInv, TypeOK, PoolBounded, FinishedMeansStopped,
              AbandonedMeansRestart, ReceiveAwaited, TableExact,
              LossCausesRestart, UnderWay, OneReconnect
<1>7. CASE ReaperDies
  BY <1>7 DEF ReaperDies, IInv, TypeOK, PoolBounded, FinishedMeansStopped,
              AbandonedMeansRestart, ReceiveAwaited, TableExact,
              LossCausesRestart, UnderWay, OneReconnect
<1> QED
  BY <1>1, <1>2, <1>3, <1>4, <1>5, <1>6, <1>7 DEF Tasks

LEMMA NextIInv == IInv /\ [Next]_vars => IInv'
<1>1. ASSUME IInv, UNCHANGED vars PROVE IInv'
  BY <1>1 DEF vars, callVars, lifeVars, taskVars, poolVars, libVars, IInv,
              TypeOK, PoolBounded, FinishedMeansStopped,
              AbandonedMeansRestart, ReceiveAwaited, TableExact,
              LossCausesRestart, UnderWay, OneReconnect
<1> QED
  BY <1>1, CallersIInv, ThreadsIInv, TasksIInv DEF Next

\* Callers, threads and tasks keep it.
LEMMA Invariance == Spec => []IInv
BY InitIInv, NextIInv, PTL DEF Spec

(* For any number of requests and threads and any of the faults: when the  *)
(* answer to a pending request can no longer come, a restart is under way, *)
(* or json.dumps refused the query and the reader waits with its caller.   *)
THEOREM LossesRestart == Spec => []LossCausesRestart
<1>1. IInv => LossCausesRestart
  BY DEF IInv
<1> QED
  BY <1>1, Invariance, PTL

(* self.futures keeps a request until its answer is set, a cancelled one    *)
(* too: nobody waits on a future the reader would no longer find, and no    *)
(* resolved one keeps the wrapper from finishing.                           *)
THEOREM TableIsExact == Spec => []TableInv
<1>1. IInv => TableInv
  BY DEF IInv, TableInv
<1> QED
  BY <1>1, Invariance, PTL

(* However many calls of send and receive fail, and whoever calls restart,  *)
(* the restart hook is scheduled at most once, and only when the wrapper    *)
(* leaves the open state.                                                   *)
THEOREM OnlyOneReconnect == Spec => []OneReconnect
<1>1. IInv => OneReconnect
  BY DEF IInv
<1> QED
  BY <1>1, Invariance, PTL

----------------------------------------------------------------------------
\* Which steps change a future, and how.
LEMMA FutureSteps ==
    ASSUME IInv, [Next]_vars
    PROVE  \/ fut' = fut
           \/ \E r \in Requests : Execute(r) \/ Cancel(r)
           \/ ReaderResumes
<1> USE DEF callVars, lifeVars, taskVars, poolVars, libVars
<1>1. CASE Callers
  BY <1>1 DEF Callers, SetRestartHook, HookReplaces, Expire
<1>2. CASE Threads
  BY <1>2
     DEF Threads, ReceiveStarts, ReceiveNothing, ReceiveRaises,
         AbandonedNothing, AbandonedRaises, Send, SendRaises, SendRefuses,
         ReceiveAnswer, ReceiveGarbled, AbandonedAnswer
<1>3. CASE Tasks
  BY <1>3
     DEF Tasks, Restart, ReaderCrashes, ReaderTimesOut, ReaderLoops,
         ReaperStops, ReaperDies
<1>4. CASE \E r \in Requests : TonlibAnswers(r)
  BY <1>4 DEF TonlibAnswers
<1>5. CASE UNCHANGED vars
  BY <1>5 DEF vars
<1> QED
  BY <1>1, <1>2, <1>3, <1>4, <1>5 DEF Next

(* A future that is resolved or cancelled never changes again.             *)
THEOREM SettledFuturesStay == Spec => SettledForGood
<1>1. ASSUME IInv, [Next]_vars, NEW r \in Requests,
             fut[r] \in {"done", "cancelled"}
      PROVE  fut'[r] = fut[r]
  <2>1. CASE \E s \in Requests : Execute(s) \/ Cancel(s)
    BY <1>1, <2>1 DEF Execute, Cancel, IInv, TypeOK
  <2>2. CASE ReaderResumes
    BY <1>1, <2>2 DEF ReaderResumes, Delivered
  <2> QED
    BY <1>1, <2>1, <2>2, FutureSteps
<1>2. IInv /\ [Next]_vars
        => [\A r \in Requests :
              fut[r] \in {"done", "cancelled"} => fut'[r] = fut[r]]_vars
  BY <1>1
<1> QED
  BY <1>2, Invariance, PTL DEF Spec, SettledForGood

\* Which steps end the reader.
LEMMA StoppingSteps ==
    ASSUME IInv, [Next]_vars, reader # "stopped", reader' = "stopped"
    PROVE  ReaderResumes \/ ReaderLoops
<1> USE DEF callVars, lifeVars, taskVars, poolVars, libVars
<1>1. CASE Callers
  BY <1>1 DEF Callers, Execute, Cancel, SetRestartHook, HookReplaces, Expire
<1>2. CASE Threads
  BY <1>2
     DEF Threads, ReceiveStarts, ReceiveNothing, ReceiveRaises,
         AbandonedNothing, AbandonedRaises, Send, SendRaises, SendRefuses,
         ReceiveAnswer, ReceiveGarbled, AbandonedAnswer
<1>3. CASE Tasks
  BY <1>3
     DEF Tasks, Restart, ReaderCrashes, ReaderTimesOut, ReaperStops, ReaperDies
<1>4. CASE \E r \in Requests : TonlibAnswers(r)
  BY <1>4 DEF TonlibAnswers
<1>5. CASE UNCHANGED vars
  BY <1>5 DEF vars
<1> QED
  BY <1>1, <1>2, <1>3, <1>4, <1>5 DEF Next

(* When the reader ends no request is waiting for an answer.               *)
THEOREM ReaderLeavesNobodyWaiting == Spec => ReaderLeavesNobody
<1>1. ASSUME IInv, [Next]_vars, reader # "stopped", reader' = "stopped",
             NEW r \in Requests
      PROVE  fut'[r] # "pending"
  <2>1. TableExact' /\ futures' = {}
    <3>1. TableExact'
      BY <1>1, NextIInv DEF IInv
    <3>2. CASE ReaderResumes
      <4>1. LoopTest(futures \ Delivered) /\ futures' = futures \ Delivered
        BY <3>2 DEF ReaderResumes
      <4> QED
        BY <1>1, <3>1, <4>1, LoopTestKeeps
    <3>3. CASE ReaderLoops
      <4>1. LoopTest(futures) /\ futures' = futures
        BY <3>3 DEF ReaderLoops, callVars
      <4> QED
        BY <1>1, <3>1, <4>1, LoopTestKeeps
    <3> QED
      BY <1>1, <3>1, <3>2, <3>3, StoppingSteps
  <2> QED
    BY <2>1 DEF TableExact
<1>2. IInv /\ [Next]_vars
        => [reader # "stopped" /\ reader' = "stopped"
              => \A r \in Requests : fut'[r] # "pending"]_vars
  BY <1>1
<1> QED
  BY <1>2, Invariance, PTL DEF Spec, ReaderLeavesNobody

----------------------------------------------------------------------------
\* The steps of the reader, seen as steps of the channel.
LEMMA LoopsRefine ==
    ASSUME IInv, ReaderLoops
    PROVE  Channel!Finish \/ UNCHANGED Channel!vars
<1>1. /\ reader = "pause" /\ LoopTest(futures)
      /\ UNCHANGED <<fut, futures, asked, replaced>>
  BY DEF ReaderLoops, callVars
<1>2. CASE reader' = "stopped"
  <2>1. futures = {} /\ shutdown = "started" /\ shutdown' = "finished"
    BY <1>1, <1>2, LoopTestKeeps DEF FinishedMeansStopped
  <2>2. Channel!Outstanding = {}
    BY <2>1 DEF IInv, TableExact, Channel!Outstanding
  <2> QED
    BY <1>1, <2>1, <2>2 DEF Channel!Finish
<1>3. CASE reader' # "stopped"
  BY <1>1, <1>3, LoopTestKeeps DEF Channel!vars
<1> QED
  BY <1>2, <1>3

LEMMA ResumesRefine ==
    ASSUME IInv, ReaderResumes
    PROVE  Channel!Next \/ UNCHANGED Channel!vars
<1>1. /\ reader = "await" /\ LoopTest(futures \ Delivered)
      /\ fut' = [r \in Requests |-> IF r \in Delivered THEN "done" ELSE fut[r]]
      /\ UNCHANGED <<asked, replaced>>
  BY DEF ReaderResumes
<1>2. /\ reader' = "stopped"
           => /\ futures \ Delivered = {}
              /\ shutdown = "started" /\ shutdown' = "finished"
      /\ reader' # "stopped" => shutdown' = shutdown
  BY <1>1, LoopTestKeeps DEF FinishedMeansStopped
<1>3. shutdown # "finished"
  BY <1>1 DEF IInv, FinishedMeansStopped
<1>4. futures = Channel!Outstanding
  BY DEF IInv, TableExact, Channel!Outstanding
<1>5. CASE Delivered = {}
  <2>1. fut' = fut
    BY <1>1, <1>5 DEF IInv, TypeOK
  <2> QED
    BY <1>1, <1>2, <1>4, <1>5, <2>1
       DEF Channel!Next, Channel!Finish, Channel!vars
<1>6. CASE Delivered # {}
  <2>1. PICK r \in Delivered : Delivered = {r}
    BY <1>6 DEF Delivered, IInv, ReceiveAwaited
  <2>2. r \in Requests /\ fut[r] = "pending" /\ r \in futures
    BY <2>1 DEF Delivered, IInv, TypeOK
  <2>3. fut' = [fut EXCEPT ![r] = "done"]
    BY <1>1, <2>1 DEF IInv, TypeOK
  <2>4. reader' = "stopped" => Channel!Outstanding = {r}
    BY <1>2, <1>4, <2>1, <2>2
  <2>5. Channel!Answer(r)
    BY <1>1, <1>2, <1>3, <2>2, <2>3, <2>4 DEF Channel!Answer
  <2> QED
    BY <2>2, <2>5 DEF Channel!Next
<1> QED
  BY <1>5, <1>6

(* One wrapper implements the request channel.                             *)
THEOREM Refinement == Spec => ImplementsChannel
<1>1. Init => Channel!Init
  BY DEF Init, Channel!Init
<1>2. ASSUME IInv, [Next]_vars PROVE Channel!Next \/ UNCHANGED Channel!vars
  <2> USE DEF callVars, lifeVars, taskVars, poolVars, libVars
  <2>1. ASSUME NEW r \in Requests, Execute(r) PROVE Channel!Next
    BY <2>1 DEF Execute, Channel!Next, Channel!Call
  <2>2. ASSUME NEW r \in Requests, Cancel(r) PROVE Channel!Next
    BY <2>2 DEF Cancel, Channel!Next, Channel!GiveUp
  <2>3. CASE HookReplaces
    BY <2>3 DEF HookReplaces, Channel!Next, Channel!Replace
  <2>4. CASE Restart
    <3>1. asked \in Nat /\ asked' \in Nat
      BY <1>2, <2>4, NextIInv DEF IInv, TypeOK
    <3>2. CASE shutdown = "open"
      BY <2>4, <3>1, <3>2 DEF Restart, Channel!Next, Channel!Start
    <3>3. CASE shutdown # "open"
      BY <2>4, <3>3 DEF Restart, Channel!vars
    <3> QED
      BY <3>2, <3>3
  <2>5. CASE SetRestartHook \/ \E r \in Requests : Expire(r)
    BY <2>5 DEF SetRestartHook, Expire, Channel!vars
  <2>6. CASE Threads
    BY <2>6
       DEF Threads, ReceiveStarts, ReceiveNothing, ReceiveRaises,
           AbandonedNothing, AbandonedRaises, Send, SendRaises, SendRefuses,
           ReceiveAnswer, ReceiveGarbled, AbandonedAnswer, Channel!vars
  <2>7. CASE ReaderCrashes \/ ReaderTimesOut \/ ReaperStops \/ ReaperDies
    BY <2>7
       DEF ReaderCrashes, ReaderTimesOut, ReaperStops, ReaperDies, Channel!vars
  <2>8. CASE ReaderLoops
    BY <1>2, <2>8, LoopsRefine DEF Channel!Next
  <2>9. CASE ReaderResumes
    BY <1>2, <2>9, ResumesRefine
  <2>10. CASE \E r \in Requests : TonlibAnswers(r)
    BY <2>10 DEF TonlibAnswers, Channel!vars
  <2>11. CASE UNCHANGED vars
    BY <2>11 DEF vars, Channel!vars
  <2> QED
    BY <1>2, <2>1, <2>2, <2>3, <2>4, <2>5, <2>6, <2>7, <2>8, <2>9, <2>10,
       <2>11
       DEF Next, Callers, Tasks
<1>3. IInv /\ [Next]_vars => [Channel!Next]_(Channel!vars)
  BY <1>2
<1> QED
  BY <1>1, <1>3, Invariance, PTL DEF Spec, ImplementsChannel, Channel!Spec
============================================================================
