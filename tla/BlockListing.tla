----------------------------- MODULE BlockListing -----------------------------
(***************************************************************************)
(* AsyncTonlibClient.get_block_transactions and its twin                   *)
(* get_block_transactions_ext: one call that lists the transactions of a   *)
(* block, page by page, each page asked for by the last transaction seen.  *)
(*                                                                         *)
(* A block does not change.  Its transactions are named 1, 2, ... in the   *)
(* order of (account, lt) in which a lite server lists them; 0 stands for  *)
(* the zero account and lt 0 before all of them.                           *)
(***************************************************************************)
EXTENDS Naturals, Sequences

CONSTANTS
    MaxSize,    \* bound: transactions in a block
    Counts,     \* values of count
    ServerPage  \* the most transactions a lite server puts in one answer

VARIABLES
    size,     \* transactions in the block
    hashed,   \* root_hash and file_hash were passed
    count,
    start,    \* after_hash and after_lt as passed, 0 when missing
    pc,       \* "lookup", "page", "page again", "returned", "error" or "raised"
    after,    \* after_tx
    total     \* total_result: its transactions and its flag incomplete

args == <<size, hashed, count, start>>
vars == <<args, pc, after, total>>

Empty == [transactions |-> << >>, incomplete |-> TRUE]

Init ==
    /\ size \in 0 .. MaxSize
    /\ hashed \in BOOLEAN
    /\ count \in Counts
    /\ start \in 0 .. size
    /\ pc = IF hashed THEN "page" ELSE "lookup"
    /\ after = start
    /\ total = Empty

\* lookup_block finds the block, or its error object is what the call returns.
Lookup ==
    /\ pc = "lookup"
    /\ pc' \in {"page", "error"}
    /\ UNCHANGED <<args, after, total>>

\* The future of a request raises and the call with it.
RequestRaises ==
    /\ pc \in {"lookup", "page", "page again"}
    /\ pc' = "raised"
    /\ UNCHANGED <<args, after, total>>

\* An error object is asked about once more, then raised.
PageError ==
    /\ pc \in {"page", "page again"}
    /\ pc' = IF pc = "page" THEN "page again" ELSE "raised"
    /\ UNCHANGED <<args, after, total>>

\* What a lite server lists of k transactions after `after`.
Listed(k) == [i \in 1 .. k |-> after + i]

\* The first page becomes total_result, later ones are appended to it.
Merged(result) ==
    [transactions |-> total.transactions \o result.transactions,
     incomplete   |-> result.incomplete]

\* Mutant: the next page starts at the last transaction instead of after it.
NextAfter_first(result) == result.transactions[1]

\* after_tx for the next request: the last transaction of the page.
NextAfter(result) == result.transactions[Len(result.transactions)]

PageArrives ==
    /\ pc \in {"page", "page again"}
    /\ \E k \in 0 .. size - after :
         LET result == [transactions |-> Listed(k),
                        incomplete   |-> after + k < size]
         IN  /\ k <= count /\ k <= ServerPage
             /\ (k = 0) => (count = 0 \/ after = size)
             /\ total' = Merged(result)
             /\ IF ~result.incomplete
                THEN pc' = "returned" /\ after' = after
                ELSE IF k = 0              \* IndexError: there is no last one
                THEN pc' = "raised" /\ after' = after
                ELSE pc' = "page" /\ after' = NextAfter(result)
    /\ UNCHANGED args

Ended == pc \in {"returned", "error", "raised"} /\ UNCHANGED vars

Next == Lookup \/ RequestRaises \/ PageError \/ PageArrives \/ Ended

Spec == Init /\ [][Next]_vars

\* Every request is answered (the wrapper's Answered); errors and exceptions
\* may or may not happen.
FairSpec == Spec /\ WF_vars(Lookup) /\ WF_vars(PageArrives)

-----------------------------------------------------------------------------
TypeOK ==
    /\ size \in 0 .. MaxSize /\ hashed \in BOOLEAN /\ count \in Counts
    /\ start \in 0 .. size
    /\ pc \in {"lookup", "page", "page again", "returned", "error", "raised"}
    /\ after \in 0 .. size
    /\ total \in [transactions : Seq(1 .. size), incomplete : BOOLEAN]
    /\ Len(total.transactions) <= size - start

EachOnceInOrder ==
    total.transactions = [i \in 1 .. Len(total.transactions) |-> start + i]

ReturnsRestOfBlock ==
    pc = "returned" =>
        /\ Len(total.transactions) = size - start
        /\ ~total.incomplete

\* Wherever pages are cut and whichever of them are asked for twice, every
\* transaction after start is collected once and in the block's order, and a
\* call that returns has the rest of the block, as its flag says.
ListsRestOnce == EachOnceInOrder /\ ReturnsRestOfBlock

\* The call ends, also when it asks for no transaction at a time.
CallEnds == <>(pc \in {"returned", "error", "raised"})
===============================================================================
