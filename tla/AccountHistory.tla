---------------------------- MODULE AccountHistory ----------------------------
(***************************************************************************)
(* AsyncTonlibClient.get_transactions: one call that pages backwards       *)
(* through the transactions of an account while the account goes on        *)
(* getting new ones.                                                       *)
(*                                                                         *)
(* Transactions are named by their position in the account's history,      *)
(* which orders them as their logical times do: 1 is the oldest, 0 stands  *)
(* for the lt 0 that tonlib names as the predecessor of the oldest.  Each  *)
(* request is one await of the wrapper: its answer is a result, an error   *)
(* object, or an exception that ends the call (TonlibWrapper).             *)
(***************************************************************************)
EXTENDS Naturals, Sequences

CONSTANTS
    MaxTop,     \* bound: transactions the account ever has
    PageSize,   \* the most transactions a lite server puts in one answer
    Limits      \* values of limit

ASSUME MaxTopAssumption == MaxTop \in Nat
ASSUME PageSizeAssumption == PageSize \in Nat \ {0}
ASSUME LimitsAssumption == Limits \subseteq Nat

Lts == 0 .. MaxTop
Last == 0     \* from_transaction_lt or from_transaction_hash is None

VARIABLES
    top,        \* the account's latest transaction
    given,      \* from_transaction_lt as passed, Last when either part is missing
    to,         \* to_transaction_lt
    limit,
    pc,         \* "state", "state again", "page", "cut", "returned" or "raised"
    from,       \* from_transaction_lt as resolved
    current,    \* current_lt
    reach_lt,
    all,        \* all_transactions
    refused     \* whether a page was answered with an error (the code forgets)

args == <<given, to, limit>>
vars == <<top, args, pc, from, current, reach_lt, all, refused>>

Init ==
    /\ top \in Lts
    /\ given \in 0 .. top
    /\ to \in Lts
    /\ limit \in Limits
    /\ pc = IF given = Last THEN "state" ELSE "page"
    /\ from = given
    /\ current = given
    /\ reach_lt = FALSE
    /\ all = << >>
    /\ refused = FALSE

\* The account gets a transaction, whatever the call is doing.
NewTransaction ==
    /\ top < MaxTop
    /\ top' = top + 1
    /\ UNCHANGED <<args, pc, from, current, reach_lt, all, refused>>

\* raw_get_account_state answers, perhaps from a server that lags behind.
AccountState ==
    /\ pc \in {"state", "state again"}
    /\ \E lt \in 0 .. top : from' = lt /\ current' = lt
    /\ pc' = "page"
    /\ UNCHANGED <<top, args, reach_lt, all, refused>>

\* An error is asked about once more and then raised as TonLibWrongResult.
AccountStateError ==
    /\ pc \in {"state", "state again"}
    /\ pc' = IF pc = "state" THEN "state again" ELSE "raised"
    /\ UNCHANGED <<top, args, from, current, reach_lt, all, refused>>

\* The future of any request raises (a restart, a timeout), or the account
\* state has no last_transaction_id.
RequestRaises ==
    /\ pc \in {"state", "state again", "page"}
    /\ pc' = "raised"
    /\ UNCHANGED <<top, args, from, current, reach_lt, all, refused>>

\* The condition of the while loop.
Wanted == ~reach_lt /\ Len(all) < limit

\* The lite server's pages: the transaction asked for and its predecessors.
Pages == {k \in 1 .. PageSize : k <= current}

\* The transactions of a page of k, newest first.
Page(k) == [i \in 1 .. k |-> current + 1 - i]

\* Mutant: to_transaction_lt itself is taken.
Below_strict(lt) == lt < to

\* tlt <= to_transaction_lt
Below(lt) == lt <= to

\* The part of the page before the first transaction at or below to.
Taken(page) ==
    SubSeq(page, 1, CHOOSE n \in 0 .. Len(page) :
                        /\ \A i \in 1 .. n : ~Below(page[i])
                        /\ n < Len(page) => Below(page[n + 1]))

\* Whether that loop met such a transaction.
Reaches(page) == \E i \in DOMAIN page : Below(page[i])

\* The body of the while loop after a page.  Only the page with the oldest
\* transaction may come without previous_transaction_id.
PageArrives ==
    /\ pc = "page"
    /\ Wanted
    /\ \E k \in Pages, hasNext \in BOOLEAN :
         LET page == Page(k)
             next == current - k
         IN  /\ hasNext \/ next = 0
             /\ all' = all \o Taken(page)
             /\ reach_lt' = Reaches(page)
             /\ current' = IF hasNext THEN next ELSE current
             /\ pc' = IF hasNext /\ next # 0 THEN "page" ELSE "cut"
    /\ UNCHANGED <<top, args, from, refused>>

\* Mutant: an empty page is asked for again.
EmptyPage_asks_again ==
    /\ pc = "page"
    /\ Wanted
    /\ current = 0
    /\ UNCHANGED vars

\* An account without transactions has an empty page and no predecessor.
EmptyPage ==
    /\ pc = "page"
    /\ Wanted
    /\ current = 0
    /\ pc' = "cut"
    /\ UNCHANGED <<top, args, from, current, reach_lt, all, refused>>

\* An error in place of a page leaves the loop like the end of the history.
PageError ==
    /\ pc = "page"
    /\ Wanted
    /\ pc' = "cut"
    /\ refused' = TRUE
    /\ UNCHANGED <<top, args, from, current, reach_lt, all>>

\* Mutant: one transaction too many is left.
Cut_off_by_one(s) == SubSeq(s, 1, IF limit < Len(s) THEN limit + 1 ELSE Len(s))

\* The result is cut to the limit and decoded; decoding a message changes
\* only the message, and its exceptions stay inside the loop.
Cut(s) == SubSeq(s, 1, IF limit < Len(s) THEN limit ELSE Len(s))

Return ==
    /\ pc = "cut" \/ (pc = "page" /\ ~Wanted)
    /\ pc' = "returned"
    /\ all' = Cut(all)
    /\ UNCHANGED <<top, args, from, current, reach_lt, refused>>

Ended == pc \in {"returned", "raised"} /\ UNCHANGED vars

Next ==
    \/ NewTransaction \/ AccountState \/ AccountStateError \/ RequestRaises
    \/ PageArrives \/ EmptyPage \/ PageError \/ Return \/ Ended

Spec == Init /\ [][Next]_vars

\* Every request is answered (the wrapper's Answered); errors and exceptions
\* may or may not happen.
FairSpec ==
    /\ Spec
    /\ WF_vars(AccountState \/ PageArrives \/ EmptyPage \/ Return)

-----------------------------------------------------------------------------
TypeOK ==
    /\ top \in Lts /\ given \in Lts /\ to \in Lts /\ limit \in Limits
    /\ pc \in {"state", "state again", "page", "cut", "returned", "raised"}
    /\ from \in Lts /\ current \in Lts
    /\ reach_lt \in BOOLEAN /\ refused \in BOOLEAN
    /\ all \in Seq(1 .. MaxTop)

\* What the call is asked for: the transactions after to up to from, newest
\* first, and no more of them than limit.
Asked ==
    LET n == IF from > to THEN from - to ELSE 0
        m == IF n < limit THEN n ELSE limit
    IN  [i \in 1 .. m |-> from + 1 - i]

\* However pages are cut and whatever arrives meanwhile, the list collected
\* runs down from `from` without a gap or a repetition and never below to.
ContiguousRun ==
    /\ \A i \in DOMAIN all : all[i] = from + 1 - i
    /\ \A i \in DOMAIN all : all[i] > to

\* The next page continues where the list ends, so no page is asked for twice
\* and none is skipped.
PagesJoin ==
    (pc = "page" /\ ~reach_lt) => current + Len(all) = from

\* A call that returns does so with all that was asked for: the docstring of
\* get_transactions ("Return all transactions between ...").
ReturnsAllAsked == pc = "returned" => all = Asked

\* It does when no page was answered with an error, and whatever the lite
\* servers answer, what is returned starts with the newest transaction asked
\* for, has no gap and respects limit.
ReturnsNewestOrAll ==
    pc = "returned" => /\ Len(all) <= Len(Asked)
                       /\ all = SubSeq(Asked, 1, Len(all))
                       /\ refused \/ all = Asked

\* The call ends although the account goes on getting transactions.
CallEnds == <>(pc \in {"returned", "raised"})
===============================================================================
