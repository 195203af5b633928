----------------------------- MODULE MCClientCalls -----------------------------
(***************************************************************************)
(* The callers of the tonlib clients: the three calls of AsyncTonlibClient *)
(* that make one request after another, get_transactions (AccountHistory), *)
(* get_block_transactions (BlockListing) and try_locate_tx_by_*            *)
(* (LocateTransaction), and a session with SyncTonlibClient; and what they *)
(* are called with and through: addresses (Addresses) and retry_async      *)
(* (RetryAsync).  A behaviour is one call, one session or one chain of     *)
(* conversions; the variables of the others stay "unused".                 *)
(***************************************************************************)
EXTENDS AccountHistory, FiniteSets

CONSTANTS MaxSize, Counts, ServerPage,
          Shards, Blocks, Span, Step, MinLimit, MaxTxs,
          Queries, RunMethods,
          Hashes, Special, MaxSteps, MaxRepeats

ASSUME ListingAssumption == MaxSize \in Nat /\ Counts \subseteq Nat /\ ServerPage \in Nat
ASSUME SearchAssumption ==
    /\ Shards \in Nat \ {0} /\ Blocks \in Nat /\ Span \in Nat \ {0} /\ Step \in Nat
    /\ MinLimit \in Nat
ASSUME SpecialAssumption == Special \subseteq Hashes
ASSUME BoundsAssumption == MaxSteps \in Nat /\ MaxRepeats \in Nat

VARIABLES
    call,
    size, hashed, count, start, listing_pc, after, total,
    direction, home, txs, match, foreign, creation, tip, search_pc,
    shard, probe, block, candidate, found, cut_short,
    orderly, deadlines, session_pc, order, batch, method, fresh, open, inside,
    ready, dropped, late,
    value, steps, meant, flag, test, writer,
    repeats, last_archval, raise_error, attempts, result, exception, retry_pc

B == INSTANCE BlockListing WITH pc <- listing_pc
S == INSTANCE SyncTonlibClient WITH pc <- session_pc
L == INSTANCE LocateTransaction WITH pc <- search_pc, b <- probe, count <- found
A == INSTANCE Addresses
R == INSTANCE RetryAsync

listingVars == <<size, hashed, count, start, listing_pc, after, total>>
searchVars == <<direction, home, txs, match, foreign, creation, tip, search_pc,
                shard, probe, block, candidate, found, cut_short>>
sessionVars == <<orderly, deadlines, session_pc, order, batch, method, fresh,
                 open, inside, ready, dropped, late>>
addressVars == <<value, steps, meant, flag, test, writer>>
retryVars == <<repeats, last_archval, raise_error, attempts, result, exception, retry_pc>>
allVars == <<call, vars, listingVars, searchVars, sessionVars, addressVars, retryVars>>

NoHistory ==
    /\ top = "unused" /\ given = "unused" /\ to = "unused" /\ limit = "unused"
    /\ pc = "unused" /\ from = "unused" /\ current = "unused"
    /\ reach_lt = "unused" /\ all = "unused" /\ refused = "unused"

NoListing ==
    /\ size = "unused" /\ hashed = "unused" /\ count = "unused"
    /\ start = "unused" /\ listing_pc = "unused" /\ after = "unused"
    /\ total = "unused"

NoSearch ==
    /\ direction = "unused" /\ home = "unused" /\ txs = "unused"
    /\ match = "unused" /\ foreign = "unused" /\ creation = "unused"
    /\ tip = "unused" /\ search_pc = "unused" /\ shard = "unused"
    /\ probe = "unused" /\ block = "unused" /\ candidate = "unused"
    /\ found = "unused" /\ cut_short = "unused"

NoSession ==
    /\ orderly = "unused" /\ deadlines = "unused" /\ session_pc = "unused"
    /\ order = "unused" /\ batch = "unused" /\ method = "unused"
    /\ fresh = "unused" /\ open = "unused" /\ inside = "unused"
    /\ ready = "unused" /\ dropped = "unused" /\ late = "unused"

NoAddress ==
    /\ value = "unused" /\ steps = "unused" /\ meant = "unused" /\ flag = "unused"
    /\ test = "unused" /\ writer = "unused"

NoRetry ==
    /\ repeats = "unused" /\ last_archval = "unused" /\ raise_error = "unused"
    /\ attempts = "unused" /\ result = "unused" /\ exception = "unused"
    /\ retry_pc = "unused"

InHistory == call = "get_transactions"
InListing == call = "get_block_transactions"
InSearch == call = "try_locate_tx"
InSession == call = "session"
InAddresses == call = "addresses"
InRetry == call = "retry_async"

CallsPartsInit ==
    /\ \/ InHistory /\ Init
       \/ ~InHistory /\ NoHistory
    /\ \/ InListing /\ B!Init
       \/ ~InListing /\ NoListing
    /\ \/ InSearch /\ L!Init
       \/ ~InSearch /\ NoSearch
    /\ \/ InSession /\ S!Init
       \/ ~InSession /\ NoSession
    /\ \/ InAddresses /\ A!Init
       \/ ~InAddresses /\ NoAddress
    /\ \/ InRetry /\ R!Init
       \/ ~InRetry /\ NoRetry

Uses ==
    {"get_transactions", "get_block_transactions", "try_locate_tx", "session",
     "addresses", "retry_async"}

CallsInit == call \in Uses /\ CallsPartsInit

CallsNext ==
    /\ UNCHANGED call
    /\ \/ InHistory /\ Next
       \/ ~InHistory /\ UNCHANGED vars
    /\ \/ InListing /\ B!Next
       \/ ~InListing /\ UNCHANGED listingVars
    /\ \/ InSearch /\ L!Next
       \/ ~InSearch /\ UNCHANGED searchVars
    /\ \/ InSession /\ S!Next
       \/ ~InSession /\ UNCHANGED sessionVars
    /\ \/ InAddresses /\ A!Next
       \/ ~InAddresses /\ UNCHANGED addressVars
    /\ \/ InRetry /\ R!Next
       \/ ~InRetry /\ UNCHANGED retryVars

\* Each has the fairness of its own module.
CallsFairness ==
    /\ InHistory => WF_vars(AccountState \/ PageArrives \/ EmptyPage \/ Return)
    /\ InListing => WF_listingVars(B!Lookup) /\ WF_listingVars(B!PageArrives)
    /\ InSession =>
         /\ WF_sessionVars(InSession /\ (S!Deadline \/ S!Returns \/ S!LoadReturns))
         /\ \A r \in S!Requests :
              /\ WF_sessionVars(InSession /\ S!Receive(r))
              /\ WF_sessionVars(InSession /\ S!TonlibAnswers(r))

CallsSpec == CallsInit /\ [][CallsNext]_allVars /\ CallsFairness

-----------------------------------------------------------------------------
\* The properties, as stated and explained in the four modules.  The first
\* holds at every step of every call, the others when a call returns:
\* the variables have their types, and the pages get_transactions has joined
\* have no gap and no repetition.
CallsInvariant ==
    /\ InHistory => TypeOK /\ ContiguousRun /\ PagesJoin
    /\ InListing => B!TypeOK
    /\ InSearch => L!TypeOK
    /\ InSession => S!TypeOK

HistoryReturnsNewestOrAll == InHistory => ReturnsNewestOrAll
ListingListsRestOnce == InListing => B!ListsRestOnce
SearchNothingMissed == InSearch => L!NothingMissed

SessionAnswersKept == InSession => S!OnlyLateAnswersDropped

\* The conversions keep what an address form says; a success makes up for the
\* failures before it.
FormsKept == InAddresses => A!FormsKept
RetryKeepsSuccess == InRetry => R!RetryKeepsSuccess

CallsEnd == (InHistory => CallEnds) /\ (InListing => B!CallEnds)
SessionCallsReturn ==
    (InSession /\ (deadlines \/ orderly) /\ S!InCall) ~> ~S!InCall
================================================================================
