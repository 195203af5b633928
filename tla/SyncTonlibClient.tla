--------------------------- MODULE SyncTonlibClient ---------------------------
(***************************************************************************)
(* SyncTonlibClient and SyncTonLibWrapper (provider/_tonlibjson/_sync).    *)
(* One thread sends queries and gets their ids back at once; it reads the  *)
(* answers of some of them later, in one loop around tonlib's receive.     *)
(* Whatever that loop receives for a query it was not asked to read is     *)
(* gone.  raw_run_method runs such a loop of its own, inside the call, for *)
(* the smc.load that comes first.                                          *)
(***************************************************************************)
EXTENDS Naturals, FiniteSets

CONSTANTS
    Queries,   \* calls the application makes
    RunMethods \* those that are raw_run_method

Setup == {<<"init", "verbosity">>, <<"init", "options">>}
Load(q) == <<"load", q>>
Main(q) == <<"main", q>>
Requests == Setup \cup {Load(q) : q \in RunMethods} \cup {Main(q) : q \in Queries}

VARIABLES
    orderly,   \* the application has no query open when it runs a method,
               \* and reads all open queries together, as the README does
    deadlines, \* the application reads with a deadline, which may run out
    pc,      \* "new", "init", "idle", "read" or "load"
    order,   \* the keys left in queries_order of the loop that runs
    batch,   \* the queries that loop reads
    method,  \* the raw_run_method that waits for its load, as a set
    fresh,   \* calls not made yet
    open,    \* queries sent whose answer nobody has read
    inside,  \* requests tonlib works on
    ready,   \* requests whose answer tonlib has ready
    dropped, \* answers received and thrown away
    late     \* requests nobody reads any more since a read ended with an exception

surroundings == <<orderly, deadlines>>
vars == <<surroundings, pc, order, batch, method, fresh, open, inside, ready, dropped, late>>

Init ==
    /\ orderly \in BOOLEAN
    /\ deadlines \in BOOLEAN
    /\ pc = "new"
    /\ order = {} /\ batch = {} /\ method = {}
    /\ fresh = Queries
    /\ open = {}
    /\ inside = {} /\ ready = {}
    /\ dropped = {} /\ late = {}

\* init: a new tonlib client, two queries and one loop that reads both.
ClientInit ==
    /\ pc = "new"
    /\ pc' = "init"
    /\ order' = Setup
    /\ inside' = Setup /\ ready' = {}
    /\ late' = late \ Setup /\ dropped' = dropped \ Setup
    /\ UNCHANGED <<surroundings, batch, method, fresh, open>>

\* raw_get_account_state and raw_send_message return the query's id.
Execute(q) ==
    /\ pc = "idle"
    /\ q \in fresh \ RunMethods
    /\ fresh' = fresh \ {q}
    /\ open' = open \cup {q}
    /\ inside' = inside \cup {Main(q)}
    /\ UNCHANGED <<surroundings, pc, order, batch, method, ready, dropped, late>>

\* raw_run_method: smc.load is sent and its answer read before anything else.
RunMethod(q) ==
    /\ pc = "idle"
    /\ q \in fresh \cap RunMethods
    /\ orderly => open = {}
    /\ fresh' = fresh \ {q}
    /\ pc' = "load"
    /\ method' = {q}
    /\ order' = {Load(q)}
    /\ inside' = inside \cup {Load(q)}
    /\ UNCHANGED <<surroundings, batch, open, ready, dropped, late>>

\* read_result and read_results, of ids not read yet or left by an exception.
Read(qs) ==
    /\ pc = "idle"
    /\ qs # {}
    /\ orderly => qs = open
    /\ pc' = "read"
    /\ batch' = qs
    /\ order' = {Main(q) : q \in qs}
    /\ open' = open \ qs
    /\ UNCHANGED <<surroundings, method, fresh, inside, ready, dropped, late>>

\* One round of the loop that receives an answer.
Receive(r) ==
    /\ order # {}
    /\ r \in ready
    /\ ready' = ready \ {r}
    /\ order' = order \ {r}
    /\ dropped' = IF r \in order THEN dropped ELSE dropped \cup {r}
    /\ UNCHANGED <<surroundings, pc, batch, method, fresh, open, inside, late>>

\* An exception ends the loop, and the answers it has received so far are lost
\* with it.  The application has the ids that are left, and may keep them to read
\* them again.
LoopEnds ==
    /\ order # {}
    /\ pc' = IF pc = "init" THEN "new" ELSE "idle"
    /\ \E kept \in SUBSET {q \in batch : Main(q) \in order} :
          /\ open' = open \cup kept
          /\ late' = late \cup (order \ {Main(q) : q \in kept})
    /\ order' = {} /\ batch' = {} /\ method' = {}
    /\ UNCHANGED <<surroundings, fresh, inside, ready, dropped>>

\* init and _load_contract always read with a deadline, of 5 seconds.
HasDeadline == deadlines \/ pc \in {"init", "load"}

\* Mutant: the deadline is looked at only after an answer came.
Deadline_needs_answer == HasDeadline /\ ready # {} /\ LoopEnds

\* A round that finds the deadline passed: TimeoutError.
Deadline == HasDeadline /\ LoopEnds

\* tonlib's receive raises; what it gives is JSON.
ReceiveRaises == LoopEnds

\* Mutant: the loop is left with the first answer.
Returns_after_first ==
    /\ pc \in {"init", "read"}
    /\ order # (IF pc = "init" THEN Setup ELSE {Main(q) : q \in batch})
    /\ pc' = "idle"
    /\ order' = {} /\ batch' = {}
    /\ UNCHANGED <<surroundings, method, fresh, open, inside, ready, dropped, late>>

\* The loop has all its answers.
Returns ==
    /\ pc \in {"init", "read"}
    /\ order = {}
    /\ pc' = "idle"
    /\ batch' = {}
    /\ UNCHANGED <<surroundings, order, method, fresh, open, inside, ready, dropped, late>>

\* _load_contract returns an id and smc.runGetMethod goes out, or it raises
\* TonLibWrongResult.
LoadReturns ==
    /\ pc = "load"
    /\ order = {}
    /\ pc' = "idle"
    /\ method' = {}
    /\ \/ /\ open' = open \cup method
          /\ inside' = inside \cup {Main(q) : q \in method}
       \/ UNCHANGED <<open, inside>>
    /\ UNCHANGED <<surroundings, order, batch, fresh, ready, dropped, late>>

TonlibAnswers(r) ==
    /\ r \in inside
    /\ inside' = inside \ {r}
    /\ ready' = ready \cup {r}
    /\ UNCHANGED <<surroundings, pc, order, batch, method, fresh, open, dropped, late>>

\* A round of the loop that receives nothing, and an application that does
\* something else.
Waiting ==
    /\ order # {} \/ pc = "idle"
    /\ UNCHANGED vars

Next ==
    \/ Waiting
    \/ ClientInit \/ Deadline \/ ReceiveRaises \/ Returns \/ LoadReturns
    \/ \E q \in Queries : Execute(q) \/ RunMethod(q)
    \/ \E qs \in SUBSET open : Read(qs)
    \/ \E r \in Requests : Receive(r) \/ TonlibAnswers(r)

Spec == Init /\ [][Next]_vars

\* The thread goes on with the call it is in and tonlib answers.
FairSpec ==
    /\ Spec
    /\ WF_vars(Deadline) /\ WF_vars(Returns) /\ WF_vars(LoadReturns)
    /\ \A r \in Requests : WF_vars(Receive(r)) /\ WF_vars(TonlibAnswers(r))

----------------------------------------------------------------------------
TypeOK ==
    /\ orderly \in BOOLEAN /\ deadlines \in BOOLEAN
    /\ pc \in {"new", "init", "idle", "read", "load"}
    /\ order \subseteq Requests
    /\ batch \subseteq Queries /\ method \subseteq RunMethods
    /\ fresh \subseteq Queries /\ open \subseteq Queries
    /\ inside \subseteq Requests /\ ready \subseteq Requests
    /\ dropped \subseteq Requests /\ late \subseteq Requests

(* When the application has nothing open while it runs a method and reads  *)
(* what it has open together, what an exception left unread too, only an   *)
(* answer that nobody reads any more is thrown away: no result that is     *)
(* still to be read is lost.                                               *)
OnlyLateAnswersDropped == orderly => dropped \subseteq late

InCall == pc \in {"init", "read", "load"}

(* Every call into the client comes back: with its results or a            *)
(* TimeoutError where there is a deadline, even when an answer it waits    *)
(* for was thrown away before; and without one, too, for an application    *)
(* that works in this order.                                               *)
CallsReturn == ((deadlines \/ orderly) /\ InCall) ~> ~InCall
=============================================================================
