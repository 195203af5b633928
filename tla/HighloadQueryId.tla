-------------------------- MODULE HighloadQueryId --------------------------
(***************************************************************************)
(* The query ids of a highload wallet v3                                   *)
(* (contract/wallet/_highload_query_id.py).                                *)
(*                                                                         *)
(* An id is a pair (shift, bit number).  get_next walks through the pairs, *)
(* query_id packs a pair into shift * 2^10 + bit number, to_seqno numbers  *)
(* the pairs without the gaps of the packing.  The object is immutable;    *)
(* the state here is the one id a sender holds between two transfers, and  *)
(* the number, in either encoding, from which it takes the id up again     *)
(* after a restart.                                                        *)
(***************************************************************************)
EXTENDS Integers

CONSTANT MAX_SHIFT

ASSUME MaxShiftAssumption == MAX_SHIFT \in Nat

MAX_BIT_NUMBER == 1022

BIT_NUMBER_SPAN == 1024   \* 1 << BIT_NUMBER_SIZE

QueryId == [shift : 0 .. MAX_SHIFT, bit_number : 0 .. MAX_BIT_NUMBER]

----------------------------------------------------------------------------
(* Constructors and conversions.  A call that raises ValueError has no     *)
(* value: the Is... operators say when one returns.                        *)

IsValid(shift, bit_number) ==
    /\ 0 <= shift /\ shift <= MAX_SHIFT
    /\ 0 <= bit_number /\ bit_number <= MAX_BIT_NUMBER

from_shift_and_bit_number(shift, bit_number) ==
    [shift |-> shift, bit_number |-> bit_number]

query_id(id) == id.shift * BIT_NUMBER_SPAN + id.bit_number

from_query_id(num) ==
    from_shift_and_bit_number(num \div BIT_NUMBER_SPAN, num % BIT_NUMBER_SPAN)

\* Mutant: no range check on the bit number.
AcceptsQueryId_unchecked(num) == 0 <= num /\ num \div BIT_NUMBER_SPAN <= MAX_SHIFT

AcceptsQueryId(num) ==
    IsValid(num \div BIT_NUMBER_SPAN, num % BIT_NUMBER_SPAN)

from_seqno(i) == from_shift_and_bit_number(i \div 1023, i % 1023)

AcceptsSeqno(i) == IsValid(i \div 1023, i % 1023)

to_seqno(id) == id.bit_number + id.shift * 1023

----------------------------------------------------------------------------
(* get_next and has_next.                                                  *)

\* get_next raises "Overload".
Overload(id) ==
    \/ id.shift = MAX_SHIFT /\ id.bit_number + 1 > MAX_BIT_NUMBER - 1
    \/ id.bit_number + 1 > MAX_BIT_NUMBER /\ id.shift + 1 > MAX_SHIFT

\* Mutant: the carry forgets to reset the bit number to 0.
get_next_carry_to_one(id) ==
    IF id.bit_number + 1 > MAX_BIT_NUMBER
    THEN from_shift_and_bit_number(id.shift + 1, 1)
    ELSE from_shift_and_bit_number(id.shift, id.bit_number + 1)

get_next(id) ==
    IF id.bit_number + 1 > MAX_BIT_NUMBER
    THEN from_shift_and_bit_number(id.shift + 1, 0)
    ELSE from_shift_and_bit_number(id.shift, id.bit_number + 1)

has_next(id) ==
    ~ (id.bit_number >= MAX_BIT_NUMBER - 1 /\ id.shift = MAX_SHIFT)

----------------------------------------------------------------------------
VARIABLES q,        \* the id the sender holds
          stored,   \* the number it wrote down last: [kind, num]
          raised    \* the latest get_next raised "Overload"

vars == <<q, stored, raised>>

Init ==
    /\ q = from_shift_and_bit_number(0, 0)
    /\ stored = [kind |-> "seqno", num |-> 0]
    /\ raised = FALSE

GetNext ==
    /\ ~ Overload(q)
    /\ q' = get_next(q)
    /\ raised' = FALSE
    /\ stored' = stored

GetNextRaises ==
    /\ Overload(q)
    /\ raised' = TRUE
    /\ UNCHANGED <<q, stored>>

SaveQueryId ==
    /\ stored' = [kind |-> "query_id", num |-> query_id(q)]
    /\ UNCHANGED <<q, raised>>

SaveSeqno ==
    /\ stored' = [kind |-> "seqno", num |-> to_seqno(q)]
    /\ UNCHANGED <<q, raised>>

Decode(s) == IF s.kind = "query_id" THEN from_query_id(s.num)
                                    ELSE from_seqno(s.num)

\* The sender starts again from what it wrote down.
Reload ==
    /\ q' = Decode(stored)
    /\ raised' = FALSE
    /\ stored' = stored

Next == GetNext \/ GetNextRaises \/ SaveQueryId \/ SaveSeqno \/ Reload

Spec == Init /\ [][Next]_vars

----------------------------------------------------------------------------
\* The id of the emergency withdrawal, "we left one queryId".
EmergencyId == from_shift_and_bit_number(MAX_SHIFT, MAX_BIT_NUMBER)

\* The numbers a sender may find written down.
StoredOK(s) ==
    \/ s.kind = "query_id" /\ AcceptsQueryId(s.num)
    \/ s.kind = "seqno" /\ AcceptsSeqno(s.num)

TypeOK ==
    /\ q \in QueryId
    /\ stored \in [kind : {"query_id", "seqno"}, num : Nat]
    /\ raised \in BOOLEAN

\* get_next never hands out the id kept for the emergency withdrawal.
EmergencyIdKept == q # EmergencyId

\* has_next is FALSE exactly where get_next raises.
HasNextTruthful == has_next(q) <=> ~ Overload(q)

\* Either encoding of the held id decodes to that id.
EncodingsInvert ==
    /\ from_query_id(query_id(q)) = q
    /\ from_seqno(to_seqno(q)) = q

\* Around the number of the held id, which takes in the negative numbers, the
\* unused number 1023 of every shift and the numbers beyond the last shift:
\* a number is accepted only if it is the number of the id it decodes to.
AcceptsOnlyOwnNumbers ==
    \A d \in -1 .. 3 :
        LET num == query_id(q) + d
            id == from_query_id(num)
        IN  AcceptsQueryId(num) <=> id \in QueryId /\ query_id(id) = num

(* However a sender counts up, writes its id down in either encoding and    *)
(* starts again from it: what is written down is accepted by the            *)
(* constructor of its kind, the emergency id is never handed out, has_next  *)
(* tells the truth, and neither a written number nor one next to it names   *)
(* an id it is not the number of.                                           *)
IdsInv ==
    /\ TypeOK /\ StoredOK(stored)
    /\ EmergencyIdKept /\ HasNextTruthful
    /\ EncodingsInvert /\ AcceptsOnlyOwnNumbers

(* The ids a sender goes through are the numbers of a counter that stops   *)
(* one before the emergency id.                                            *)
Counter == INSTANCE SeqnoCounter
             WITH Last <- to_seqno(EmergencyId) - 1,
                  n <- to_seqno(q),
                  saved <- to_seqno(Decode(stored)),
                  refused <- raised

ImplementsCounter == Counter!Spec
============================================================================
