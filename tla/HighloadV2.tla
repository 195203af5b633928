------------------------------- MODULE HighloadV2 -------------------------------
(***************************************************************************)
(* The queries of a highload wallet v2                                     *)
(* (contract/wallet/_highload_wallet_contract_v2.py) and what the contract *)
(* makes of them.  A query's id has its deadline in front: 32 bits of      *)
(* seconds, then 32 bits for the caller.  The wallet object remembers      *)
(* nothing: an application that has no answer makes its query again, in    *)
(* the same second or a later one, with the id it chose or with the id     *)
(* that it was told.  Messages arrive late, several times or never.        *)
(***************************************************************************)
EXTENDS Integers, Sequences, FiniteSets

CONSTANTS
    Span,       \* the ids within a second: 2^32
    Timeouts,   \* what is given for timeout
    Recipients, \* lists of recipients
    GivenIds,   \* query ids an application chooses, below Span
    Grace,      \* seconds the contract keeps an expired query: 64
    MaxClock,   \* bound: the clock stops
    MaxMade     \* bound: messages made

VARIABLES
    clock,      \* seconds of time.time()
    made,       \* history: the messages made
    deployed,   \* the contract's: it has its code
    recorded,   \* the contract's: ids it has executed, until it forgets them
    executed    \* history: the executions, [message, at]

highloadVars == <<clock, made, deployed, recorded, executed>>

Init ==
    /\ clock = 1 /\ made = {}
    /\ deployed = FALSE /\ recorded = {} /\ executed = << >>

\* Mutant: the timeout is not part of the id.
QueryId_untimed(query_id, timeout) ==
    LET t == clock * Span IN IF query_id < t THEN t + query_id ELSE query_id

\* The id a message gets, which is also what the caller is told: it is read from
\* the signing message.
QueryId(query_id, timeout) ==
    LET t == (clock + timeout) * Span IN IF query_id < t THEN t + query_id ELSE query_id

Message(payload, given, timeout, init, dummy) ==
    [payload |-> payload, given |-> given, deadline |-> clock + timeout, init |-> init,
     dummy |-> dummy, id |-> QueryId(given, timeout)]

\* create_transfer_message: the messages go into a dictionary behind the id.
CreateTransfer(payload, given, timeout, dummy) ==
    /\ made' = made \cup {Message(payload, given, timeout, FALSE, dummy)}
    /\ UNCHANGED <<clock, deployed, recorded, executed>>

\* create_init_external_message: the state, the time and no messages.
CreateInit(timeout) ==
    /\ made' = made \cup {Message("none", 0, timeout, TRUE, FALSE)}
    /\ UNCHANGED <<clock, deployed, recorded, executed>>

\* The contract: refuses what is not signed, what has expired and what it has
\* executed; forgets what expired more than Grace seconds ago.
Accepts(m) ==
    /\ deployed \/ m.init
    /\ ~m.dummy
    /\ m.id >= clock * Span
    /\ m.id \notin recorded

Arrive(m) ==
    /\ IF Accepts(m)
       THEN /\ deployed' = TRUE
            /\ recorded' = {id \in recorded \cup {m.id} : id >= (clock - Grace) * Span}
            /\ executed' = Append(executed, [message |-> m, at |-> clock])
       ELSE UNCHANGED <<deployed, recorded, executed>>
    /\ UNCHANGED <<clock, made>>

Tick ==
    /\ clock < MaxClock
    /\ clock' = clock + 1
    /\ UNCHANGED <<made, deployed, recorded, executed>>

\* A query is made with an id of the application's or one it has been told.
Next ==
    \/ /\ Cardinality(made) < MaxMade
       /\ \E timeout \in Timeouts :
            \/ CreateInit(timeout)
            \/ \E payload \in Recipients, dummy \in BOOLEAN,
                  given \in GivenIds \cup {m.id : m \in made} :
                  CreateTransfer(payload, given, timeout, dummy)
    \/ \E m \in made : Arrive(m)
    \/ Tick

Spec == Init /\ [][Next]_highloadVars

-----------------------------------------------------------------------------
\* A query of its own: its id was chosen for it.  What is told an older query's id
\* in a later second gets the sum of both deadlines, far in the future.
OwnId(m) == m.given < Span

\* Two queries have the same id, so that the contract executes only one of them,
\* exactly if they were given the same one for the same deadline; the deployment
\* counts as one that was given 0.
TwinsOnly ==
    \A m, n \in {k \in made : OwnId(k)} :
        m.id = n.id <=> m.given = n.given /\ m.deadline = n.deadline

\* No id is executed twice, however late and often messages arrive, also when a
\* query is made again with the id the caller was told.
ExecutedOnce ==
    \A j, k \in DOMAIN executed : executed[j].message.id = executed[k].message.id => j = k

\* Nothing is executed after its timeout, and until then it can be, unless its
\* twin was.
UntilTimeout ==
    /\ \A k \in DOMAIN executed :
          OwnId(executed[k].message) => executed[k].at <= executed[k].message.deadline
    /\ deployed =>
          \A m \in {k \in made : OwnId(k) /\ ~k.dummy} :
              clock <= m.deadline =>
                  Accepts(m) \/ \E k \in DOMAIN executed : executed[k].message.id = m.id

\* What an application may count on when it has no answer.
QueriesInv ==
    /\ clock \in 1 .. MaxClock /\ deployed \in BOOLEAN
    /\ TwinsOnly
    /\ ExecutedOnce
    /\ UntilTimeout
=================================================================================
