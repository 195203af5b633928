-------------------------- MODULE LocateTransaction --------------------------
(***************************************************************************)
(* AsyncTonlibClient.try_locate_tx_by_incoming_message ("in") and          *)
(* try_locate_tx_by_outcoming_message ("out"): given a message's source,   *)
(* destination and creation_lt, find the transaction that received or sent *)
(* it, by looking through blocks of every shard near creation_lt.          *)
(*                                                                         *)
(* The two calls it makes are used through what they promise:              *)
(* get_block_transactions lists a whole block (BlockListing), and          *)
(* get_transactions returns the newest `limit` transactions up to the one  *)
(* asked for (AccountHistory), or fewer when a lite server answers a page  *)
(* with an error.                                                          *)
(***************************************************************************)
EXTENDS Naturals, FiniteSets

CONSTANTS
    Shards,      \* number of shards get_shards answers with
    Blocks,      \* bound: blocks of a shard that ever exist
    Span,        \* logical times in a block
    Step,        \* 1000000 in the code: how far apart blocks are probed
    MinLimit,    \* 10 in the code: the least limit passed to get_transactions
    MaxTxs       \* bound: transactions of the account

Lts == 1 .. Blocks * Span
BlockAt(lt) == (lt - 1) \div Span + 1   \* the block with that logical time

VARIABLES
    direction,  \* "in" or "out"
    home,       \* the shard of the account that is searched
    txs,        \* the account's transactions, by lt
    match,      \* the one that is looked for, 0 when there is none
    foreign,    \* one that sends an external message, 0 when there is none
    creation,   \* creation_lt
    tip,        \* the latest block
    pc,         \* "shards", "lookup", "list", "history", "found", "not found"
                \* or "raised"
    shard,      \* the shard the outer loop is at
    b,          \* the probe the inner loop is at
    block,      \* the block it found
    candidate,  \* the account's latest transaction in it, 0 for an empty tuple
    count,      \* the number of the account's transactions in it
    cut_short   \* whether get_transactions returned less than it was asked for,
                \* which the code cannot tell

facts == <<direction, home, txs, match, foreign, creation>>
vars == <<facts, tip, pc, shard, b, block, candidate, count, cut_short>>

\* range(3), or the single block of an outgoing message.
Probes == IF direction = "in" THEN 0 .. 2 ELSE {0}
ProbeLt(n) == creation + n * Step

Init ==
    /\ direction \in {"in", "out"}
    /\ home \in 1 .. Shards
    /\ txs \in {s \in SUBSET Lts : Cardinality(s) <= MaxTxs}
    /\ match \in txs \cup {0}
    /\ foreign \in txs \cup {0}
    /\ creation \in Lts
    /\ tip \in 1 .. Blocks
    /\ pc = "shards"
    /\ shard = 1 /\ b = 0 /\ block = 0 /\ candidate = 0 /\ count = 0
    /\ cut_short = FALSE

\* The chain goes on while the call runs.
NewBlock ==
    /\ tip < Blocks
    /\ tip' = tip + 1
    /\ UNCHANGED <<facts, pc, shard, b, block, candidate, count, cut_short>>

\* Any request may raise, and an error object has none of the keys that are
\* read from it: the call ends with that exception.
Raises ==
    /\ pc \in {"shards", "lookup", "list", "history"}
    /\ pc' = "raised"
    /\ UNCHANGED <<facts, tip, shard, b, block, candidate, count, cut_short>>

GetShards ==
    /\ pc = "shards"
    /\ pc' = "lookup"
    /\ UNCHANGED <<facts, tip, shard, b, block, candidate, count, cut_short>>

\* lookup_block: a block that does not exist yet is an error object.
LookupBlock ==
    /\ pc = "lookup"
    /\ IF BlockAt(ProbeLt(b)) <= tip
       THEN pc' = "list" /\ block' = BlockAt(ProbeLt(b))
       ELSE pc' = "raised" /\ block' = block
    /\ UNCHANGED <<facts, tip, shard, b, candidate, count, cut_short>>

\* The account's transactions among those of a block of a shard.
InBlock(s, k) == IF s = home THEN {lt \in txs : BlockAt(lt) = k} ELSE {}

\* The latest of a set of transactions, 0 for an empty one.
Latest(s) == IF s = {} THEN 0 ELSE CHOOSE lt \in s : \A l \in s : l <= lt

\* The next probe of this shard, else the next shard, else "Tx not found".
Continue ==
    \/ b + 1 \in Probes /\ b' = b + 1 /\ shard' = shard /\ pc' = "lookup"
    \/ b + 1 \notin Probes /\ shard < Shards
         /\ b' = 0 /\ shard' = shard + 1 /\ pc' = "lookup"
    \/ b + 1 \notin Probes /\ shard = Shards
         /\ UNCHANGED <<b, shard>> /\ pc' = "not found"

ListBlock ==
    /\ pc = "list"
    /\ count' = Cardinality(InBlock(shard, block))
    /\ candidate' = Latest(InBlock(shard, block))
    /\ IF candidate' = 0 THEN Continue
       ELSE pc' = "history" /\ UNCHANGED <<b, shard>>
    /\ UNCHANGED <<facts, tip, block, cut_short>>

\* Mutant: the limit of get_transactions does not follow the count.
Limit_fixed == MinLimit

Limit == IF count > MinLimit THEN count ELSE MinLimit

\* What get_transactions returns: the newest n up to the candidate, n being the
\* limit unless a lite server answers a page with an error.
Newest(n) ==
    {lt \in txs : lt <= candidate
                  /\ Cardinality({l \in txs : lt < l /\ l <= candidate}) < n}

\* The scan, newest first, returns the match.  detect_address raises on the
\* empty destination of an external message; an empty source is skipped.
Scan(history) ==
    LET stops == {lt \in history : \/ lt = match
                                   \/ direction = "out" /\ lt = foreign}
        first == Latest(stops)
    IN  \/ stops = {} /\ Continue
        \/ /\ first # 0 /\ first = match
           /\ pc' = "found" /\ UNCHANGED <<b, shard>>
        \/ /\ first # 0 /\ direction = "out" /\ first = foreign
           /\ pc' = "raised" /\ UNCHANGED <<b, shard>>

ScanHistory ==
    /\ pc = "history"
    /\ \E n \in 0 .. Limit :
         /\ Scan(Newest(n))
         /\ cut_short' = (cut_short \/ Newest(n) # Newest(Limit))
    /\ UNCHANGED <<facts, tip, block, candidate, count>>

Ended == pc \in {"found", "not found", "raised"} /\ UNCHANGED vars

Next ==
    \/ NewBlock \/ Raises \/ GetShards \/ LookupBlock \/ ListBlock
    \/ ScanHistory \/ Ended

Spec == Init /\ [][Next]_vars

-----------------------------------------------------------------------------
TypeOK ==
    /\ direction \in {"in", "out"} /\ home \in 1 .. Shards
    /\ txs \subseteq Lts /\ match \in txs \cup {0} /\ foreign \in txs \cup {0}
    /\ creation \in Lts /\ tip \in 1 .. Blocks
    /\ pc \in {"shards", "lookup", "list", "history", "found", "not found",
               "raised"}
    /\ shard \in 1 .. Shards /\ b \in Probes
    /\ block \in 0 .. tip
    /\ candidate \in txs \cup {0} /\ count \in 0 .. Cardinality(txs)
    /\ cut_short \in BOOLEAN

\* The probes that are behind the search.
Behind(s, n) ==
    \/ s < shard
    \/ s = shard /\ n < b
    \/ pc = "not found"

\* The search never leaves a block behind that has the transaction it looks
\* for: the candidate is the latest one of the block and the limit reaches
\* back to the first one.  "Tx not found" so means that no probed block has it,
\* unless get_transactions returned less than it was asked for.
NothingMissed ==
    ~cut_short /\ pc \in {"lookup", "list", "history", "not found"} =>
        \A s \in 1 .. Shards, n \in Probes :
            Behind(s, n) => match \notin InBlock(s, BlockAt(ProbeLt(n)))
===============================================================================
