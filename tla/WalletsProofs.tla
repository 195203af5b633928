----------------------------- MODULE WalletsProofs -----------------------------
(***************************************************************************)
(* Theorems about the wallets, for every value of the constants: the       *)
(* query ids of a highload wallet v3, the message of a plain wallet, the   *)
(* orders of a multi-signature wallet, the queries of a highload wallet    *)
(* v2, how wallets are found again, which words are drawn, and the amounts *)
(* they are given.                                                         *)
(***************************************************************************)
EXTENDS MCWallets, Sequences, DataLemmas, TLAPS

-----------------------------------------------------------------------------
(* The query ids of a highload wallet v3                                  *)

\* What the two constructors and the two conversions do to one id.
LEMMA EncodingsOfOneId ==
    ASSUME NEW id \in QueryId
    PROVE  /\ from_query_id(query_id(id)) = id
           /\ AcceptsQueryId(query_id(id))
           /\ query_id(id) \in Nat
           /\ from_seqno(to_seqno(id)) = id
           /\ AcceptsSeqno(to_seqno(id))
           /\ to_seqno(id) \in Nat
<1>1. PICK s \in 0 .. MAX_SHIFT, b \in 0 .. MAX_BIT_NUMBER :
        id = [shift |-> s, bit_number |-> b]
  BY DEF QueryId
<1>2. s \in Nat /\ s <= MAX_SHIFT /\ b \in Nat /\ b <= 1022
  BY MaxShiftAssumption DEF MAX_BIT_NUMBER
<1>3. (s * 1024 + b) \div 1024 = s /\ (s * 1024 + b) % 1024 = b
  BY <1>2
<1>4. (b + s * 1023) \div 1023 = s /\ (b + s * 1023) % 1023 = b
  BY <1>2
<1> QED
  BY <1>1, <1>2, <1>3, <1>4, MaxShiftAssumption
     DEF from_query_id, query_id, AcceptsQueryId, from_seqno, to_seqno,
         AcceptsSeqno, IsValid, from_shift_and_bit_number, BIT_NUMBER_SPAN,
         MAX_BIT_NUMBER

\* A number that a constructor accepts becomes an id.
LEMMA AcceptedNumbersDecode ==
    ASSUME NEW num \in Nat
    PROVE  /\ AcceptsQueryId(num) => from_query_id(num) \in QueryId
           /\ AcceptsSeqno(num) => from_seqno(num) \in QueryId
<1>1. /\ num \div 1024 \in Int /\ num % 1024 \in Int
      /\ num \div 1023 \in Int /\ num % 1023 \in Int
  OBVIOUS
<1> QED
  BY <1>1, MaxShiftAssumption
     DEF AcceptsQueryId, AcceptsSeqno, IsValid, from_query_id, from_seqno,
         from_shift_and_bit_number, QueryId, BIT_NUMBER_SPAN, MAX_BIT_NUMBER

\* get_next, where it does not raise, counts up by one and stays in range.
LEMMA GetNextCounts ==
    ASSUME NEW id \in QueryId, ~ Overload(id)
    PROVE  /\ get_next(id) \in QueryId
           /\ to_seqno(get_next(id)) = to_seqno(id) + 1
           /\ query_id(get_next(id)) > query_id(id)
           /\ get_next(id) # EmergencyId
<1>1. PICK s \in 0 .. MAX_SHIFT, b \in 0 .. MAX_BIT_NUMBER :
        id = [shift |-> s, bit_number |-> b]
  BY DEF QueryId
<1>2. s \in Nat /\ s <= MAX_SHIFT /\ b \in Nat /\ b <= 1022
  BY MaxShiftAssumption DEF MAX_BIT_NUMBER
<1>3. CASE b + 1 > MAX_BIT_NUMBER
  <2>1. get_next(id) = [shift |-> s + 1, bit_number |-> 0] /\ b = 1022
    BY <1>1, <1>2, <1>3
       DEF get_next, from_shift_and_bit_number, MAX_BIT_NUMBER
  <2>2. s + 1 <= MAX_SHIFT
    BY <1>1, <1>2, <1>3, MaxShiftAssumption DEF Overload
  <2> QED
    BY <1>1, <1>2, <2>1, <2>2, MaxShiftAssumption
       DEF QueryId, to_seqno, query_id, EmergencyId, BIT_NUMBER_SPAN,
           from_shift_and_bit_number, MAX_BIT_NUMBER
<1>4. CASE ~ (b + 1 > MAX_BIT_NUMBER)
  <2>1. get_next(id) = [shift |-> s, bit_number |-> b + 1]
    BY <1>1, <1>2, <1>4 DEF get_next, from_shift_and_bit_number
  <2>2. ~ (s = MAX_SHIFT /\ b + 1 > 1021)
    BY <1>1, <1>2 DEF Overload, MAX_BIT_NUMBER
  <2>3. b + 1 <= 1022 /\ b + 1 \in Nat
    BY <1>2, <1>4 DEF MAX_BIT_NUMBER
  <2>4. get_next(id) \in QueryId
    BY <1>2, <2>1, <2>3, MaxShiftAssumption DEF QueryId, MAX_BIT_NUMBER
  <2>5. get_next(id) # EmergencyId
    BY <1>2, <2>1, <2>2
       DEF EmergencyId, from_shift_and_bit_number, MAX_BIT_NUMBER
  <2> QED
    BY <1>1, <1>2, <2>1, <2>4, <2>5 DEF to_seqno, query_id, BIT_NUMBER_SPAN
<1> QED
  BY <1>3, <1>4

-----------------------------------------------------------------------------
\* The strengthening of the safety invariants: neither the held id nor the
\* one written down is the emergency id.
IdsIInv ==
    /\ TypeOK /\ StoredOK(stored)
    /\ EmergencyIdKept /\ Decode(stored) # EmergencyId

LEMMA StoredDecodes ==
    ASSUME TypeOK, StoredOK(stored) PROVE Decode(stored) \in QueryId
BY AcceptedNumbersDecode DEF TypeOK, StoredOK, Decode

LEMMA InitIdsIInv == Init => IdsIInv
<1> SUFFICES ASSUME Init PROVE IdsIInv
  OBVIOUS
<1>1. q = [shift |-> 0, bit_number |-> 0] /\ q \in QueryId
  BY MaxShiftAssumption
     DEF Init, from_shift_and_bit_number, QueryId, MAX_BIT_NUMBER
<1>2. stored = [kind |-> "seqno", num |-> 0] /\ raised = FALSE
  BY DEF Init
<1>3. AcceptsSeqno(0) /\ from_seqno(0) = q
  BY <1>1, MaxShiftAssumption
     DEF AcceptsSeqno, IsValid, from_seqno, from_shift_and_bit_number,
         MAX_BIT_NUMBER
<1>4. q # EmergencyId
  BY <1>1 DEF EmergencyId, from_shift_and_bit_number, MAX_BIT_NUMBER
<1> QED
  BY <1>1, <1>2, <1>3, <1>4
     DEF IdsIInv, TypeOK, StoredOK, EmergencyIdKept, Decode

LEMMA NextIdsIInv == IdsIInv /\ [Next]_vars => IdsIInv'
<1> SUFFICES ASSUME IdsIInv, [Next]_vars PROVE IdsIInv'
  OBVIOUS
<1> USE DEF IdsIInv
<1>0. q \in QueryId /\ Decode(stored) \in QueryId
  BY StoredDecodes DEF TypeOK
<1>1. CASE GetNext
  <2>1. q' \in QueryId /\ q' # EmergencyId
    BY <1>0, <1>1, GetNextCounts DEF GetNext
  <2> QED
    BY <1>1, <2>1
       DEF GetNext, TypeOK, EmergencyIdKept, EmergencyId, Decode, StoredOK
<1>2. CASE GetNextRaises
  BY <1>2 DEF GetNextRaises, TypeOK, EmergencyIdKept, EmergencyId, Decode, StoredOK
<1>3. CASE SaveQueryId
  <2>1. Decode(stored') = q /\ AcceptsQueryId(stored'.num)
    BY <1>0, <1>3, EncodingsOfOneId DEF SaveQueryId, Decode
  <2>2. stored' \in [kind : {"query_id", "seqno"}, num : Nat]
    BY <1>0, <1>3, EncodingsOfOneId DEF SaveQueryId
  <2> QED
    BY <1>3, <2>1, <2>2
       DEF SaveQueryId, TypeOK, EmergencyIdKept, EmergencyId, Decode, StoredOK
<1>4. CASE SaveSeqno
  <2>1. Decode(stored') = q /\ AcceptsSeqno(stored'.num)
    BY <1>0, <1>4, EncodingsOfOneId DEF SaveSeqno, Decode
  <2>2. stored' \in [kind : {"query_id", "seqno"}, num : Nat]
    BY <1>0, <1>4, EncodingsOfOneId DEF SaveSeqno
  <2> QED
    BY <1>4, <2>1, <2>2
       DEF SaveSeqno, TypeOK, EmergencyIdKept, EmergencyId, Decode, StoredOK
<1>5. CASE Reload
  BY <1>0, <1>5
     DEF Reload, TypeOK, EmergencyIdKept, EmergencyId, Decode, StoredOK
<1>6. CASE UNCHANGED vars
  BY <1>6 DEF vars, TypeOK, EmergencyIdKept, EmergencyId, Decode, StoredOK
<1> QED
  BY <1>1, <1>2, <1>3, <1>4, <1>5, <1>6 DEF Next

\* has_next is FALSE exactly where get_next raises.
LEMMA HasNextOfOneId == ASSUME NEW id \in QueryId PROVE has_next(id) <=> ~ Overload(id)
<1>1. PICK s \in 0 .. MAX_SHIFT, b \in 0 .. MAX_BIT_NUMBER :
        id = [shift |-> s, bit_number |-> b]
  BY DEF QueryId
<1> QED
  BY <1>1, MaxShiftAssumption DEF has_next, Overload, MAX_BIT_NUMBER

\* A number is accepted exactly if it is the number of the id it decodes to.
LEMMA AcceptedNumbersAreOwn ==
    ASSUME NEW num \in Int
    PROVE  AcceptsQueryId(num) <=>
              from_query_id(num) \in QueryId /\ query_id(from_query_id(num)) = num
<1>1. num \div 1024 \in Int /\ num % 1024 \in Int
  OBVIOUS
<1>2. (num \div 1024) * 1024 + (num % 1024) = num
  OBVIOUS
<1> QED
  BY <1>1, <1>2, MaxShiftAssumption
     DEF AcceptsQueryId, IsValid, from_query_id, query_id, QueryId,
         from_shift_and_bit_number, BIT_NUMBER_SPAN, MAX_BIT_NUMBER

LEMMA IdsIInvIsEnough == IdsIInv => IdsInv
<1> SUFFICES ASSUME IdsIInv PROVE IdsInv
  OBVIOUS
<1>1. q \in QueryId
  BY DEF IdsIInv, TypeOK
<1>2. EncodingsInvert /\ HasNextTruthful
  BY <1>1, EncodingsOfOneId, HasNextOfOneId DEF EncodingsInvert, HasNextTruthful
<1>3. AcceptsOnlyOwnNumbers
  BY <1>1, EncodingsOfOneId, AcceptedNumbersAreOwn DEF AcceptsOnlyOwnNumbers
<1> QED
  BY <1>2, <1>3 DEF IdsIInv, IdsInv

(* In every reachable state the ids are in range, what is written down is   *)
(* accepted again, the emergency id has not been handed out, has_next tells *)
(* the truth and the encodings name no other id.                            *)
THEOREM IdsSafe == Spec => []IdsInv
BY InitIdsIInv, NextIdsIInv, IdsIInvIsEnough, PTL DEF Spec

-----------------------------------------------------------------------------
(* The detailed specification implements the counter: get_next is Advance, *)
(* and it raises exactly when the counter stands at its last number.       *)
THEOREM IdsCount == Spec => ImplementsCounter
<1> DEFINE last == to_seqno(EmergencyId) - 1
<1>1. EmergencyId = [shift |-> MAX_SHIFT, bit_number |-> 1022]
  BY DEF EmergencyId, from_shift_and_bit_number, MAX_BIT_NUMBER
<1>2. last = 1021 + MAX_SHIFT * 1023
  BY <1>1, MaxShiftAssumption DEF to_seqno
<1>3. Init => Counter!Init
  <2>1. from_seqno(0) = [shift |-> 0, bit_number |-> 0]
    BY DEF from_seqno, from_shift_and_bit_number
  <2> QED
    BY <2>1
       DEF Init, Counter!Init, Decode, to_seqno, from_shift_and_bit_number
<1>4. IdsIInv /\ [Next]_vars => [Counter!Next]_(Counter!vars)
  <2> SUFFICES ASSUME IdsIInv, [Next]_vars
               PROVE  Counter!Next \/ UNCHANGED Counter!vars
    OBVIOUS
  <2>0. q \in QueryId /\ q # EmergencyId
    BY DEF IdsIInv, TypeOK, EmergencyIdKept
  <2>1. PICK s \in 0 .. MAX_SHIFT, b \in 0 .. MAX_BIT_NUMBER :
          q = [shift |-> s, bit_number |-> b]
    BY <2>0 DEF QueryId
  <2>2. /\ s \in Nat /\ s <= MAX_SHIFT /\ b \in Nat /\ b <= 1022
        /\ ~ (s = MAX_SHIFT /\ b = 1022)
        /\ to_seqno(q) = b + s * 1023
    BY <1>1, <2>0, <2>1, MaxShiftAssumption DEF MAX_BIT_NUMBER, to_seqno
  <2>3. Overload(q) <=> to_seqno(q) = last
    BY <1>2, <2>1, <2>2, MaxShiftAssumption DEF Overload, MAX_BIT_NUMBER
  <2>4. to_seqno(q) <= last
    BY <1>2, <2>2, MaxShiftAssumption
  <2>5. to_seqno(q) \in Nat
    BY <2>2
  <2>6. last \in Nat
    BY <1>2, MaxShiftAssumption
  <2> HIDE DEF last
  <2>7. CASE GetNext
    <3>1. to_seqno(q') = to_seqno(q) + 1
      BY <2>0, <2>7, GetNextCounts DEF GetNext
    <3>2. to_seqno(q) < last
      BY <2>3, <2>4, <2>5, <2>6, <2>7 DEF GetNext
    <3> QED
      BY <2>7, <3>1, <3>2
         DEF GetNext, Counter!Next, Counter!Advance, Decode, last
  <2>8. CASE GetNextRaises
    BY <2>3, <2>8
       DEF GetNextRaises, Counter!Next, Counter!Refuse, Decode, last
  <2>9. CASE SaveQueryId
    <3>1. Decode(stored') = q
      BY <2>0, <2>9, EncodingsOfOneId DEF SaveQueryId, Decode
    <3> QED
      BY <2>9, <3>1 DEF SaveQueryId, Counter!Next, Counter!Save, Decode
  <2>10. CASE SaveSeqno
    <3>1. Decode(stored') = q
      BY <2>0, <2>10, EncodingsOfOneId DEF SaveSeqno, Decode
    <3> QED
      BY <2>10, <3>1 DEF SaveSeqno, Counter!Next, Counter!Save, Decode
  <2>11. CASE Reload
    BY <2>11 DEF Reload, Counter!Next, Counter!Restore, Decode
  <2>12. CASE UNCHANGED vars
    BY <2>12 DEF vars, Counter!vars, Decode
  <2> QED
    BY <2>7, <2>8, <2>9, <2>10, <2>11, <2>12 DEF Next
<1> QED
  BY <1>3, <1>4, InitIdsIInv, NextIdsIInv, PTL DEF Spec, ImplementsCounter, Counter!Spec

-----------------------------------------------------------------------------
(* The message of a plain wallet                                           *)

CellSizes == [bits : Nat, refs : Nat]
PartSizes == [cell : CellSizes, state_init : CellSizes, body : CellSizes]

MessageTypes ==
    /\ pc \in {"idle", "messages", "made", "sent", "raised"}
    /\ seqno \in {0, 1} /\ left \in Nat
    /\ signing \in CellSizes /\ message \in CellSizes
    /\ parts \subseteq PartSizes

\* The signing message refers to each of the messages, four at most.
ReferencesLeft == pc = "messages" => signing.refs + left <= 4

\* A part has too many references only with those of its state and of its payload.
PartsFit ==
    \A p \in parts : p.cell.refs > W!RefLimit =>
        p.state_init.refs + p.body.refs > W!RefLimit

MessageFits ==
    pc \in {"made", "sent"} /\ message.refs > W!RefLimit => seqno = 0 /\ signing.refs > 2

\* What has been hashed is no longer than a cell.
HashedFit == pc = "sent" => \A c \in W!OwnCells \cup {message} : c.bits <= W!BitLimit

MessageIInv == MessageTypes /\ ReferencesLeft /\ PartsFit /\ MessageFits /\ HashedFit

\* Sizes of cells and their limits.
LEMMA CellsAre ==
    /\ \A b, r : W!Cell(b, r).bits = b /\ W!Cell(b, r).refs = r
    /\ \A b, r \in Nat : W!Cell(b, r) \in CellSizes
    /\ W!Nothing \in CellSizes /\ W!StateInit \in CellSizes
    /\ W!Nothing.refs = 0 /\ W!StateInit.refs = 2 /\ W!RefLimit = 4 /\ W!BitLimit = 1023
BY DEF W!Cell, W!Nothing, W!StateInit, W!RefLimit, W!BitLimit, CellSizes

\* A descriptor that fits into a byte is that of a cell that is not too long.
LEMMA HashableFits == ASSUME NEW c \in CellSizes, W!Hashable(c) PROVE c.bits <= 1023
BY DEF W!Hashable, CellSizes

\* What create_common_msg_info copies or refers to: of the state two references at
\* most, of the body its own ones or one to it.
LEMMA CommonInfo ==
    ASSUME NEW header \in CellSizes, header.refs = 0,
           NEW state \in {W!Nothing, W!StateInit}, NEW body \in CellSizes
    PROVE  LET info == W!create_common_msg_info(header, state, body)
           IN  /\ info \in CellSizes
               /\ \E s \in 0 .. 2, p \in {0, 1, body.refs} :
                     /\ info.refs = s + p
                     /\ state = W!Nothing => s = 0
<1> DEFINE with == W!WithStateInit(header, state)
           info == W!create_common_msg_info(header, state, body)
<1>1. with \in CellSizes /\ with.refs \in 0 .. 2 /\ (state = W!Nothing => with.refs = 0)
  BY DEF W!WithStateInit, W!Flag, W!Copied, W!Referred, W!Cell, W!StateInit, CellSizes
<1>2. /\ info \in CellSizes
      /\ info.refs \in {with.refs, with.refs + 1, with.refs + body.refs}
  <2> HIDE DEF with
  <2>1. info = W!WithBody(with, body)
    BY DEF W!create_common_msg_info, with
  <2>2. with.bits \in Nat /\ with.refs \in Nat /\ body.bits \in Nat /\ body.refs \in Nat
    BY <1>1 DEF CellSizes
  <2> HIDE DEF info
  <2>3. /\ W!Flag(with).bits = with.bits + 1 /\ W!Flag(with).refs = with.refs
        /\ W!Flag(with) = W!Cell(with.bits + 1, with.refs)
    BY CellsAre DEF W!Flag
  <2>4. \/ info = W!Cell(with.bits + 1, with.refs)
        \/ info = W!Cell(with.bits + 1 + body.bits, with.refs + body.refs)
        \/ info = W!Cell(with.bits + 1, with.refs + 1)
    BY <2>1, <2>3 DEF W!WithBody, W!Copied, W!Referred
  <2> QED
    BY <2>2, <2>4, CellsAre
<1>3. with.refs + 0 = with.refs
  BY <1>1
<1> QED
  BY <1>1, <1>2, <1>3

\* A text cell has no references; what else is sent is one of PayloadCells.
LEMMA PayloadsAre ==
    ASSUME NEW payload \in W!Payloads
    PROVE  payload \in CellSizes /\ (payload.refs = 0 \/ payload \in PayloadCells)
<1>1. CASE payload \in PayloadCells
  BY <1>1, MessageAssumption DEF CellSizes
<1>2. ASSUME NEW length \in Texts, payload = W!TextCell(length)
      PROVE  payload \in CellSizes /\ payload.refs = 0
  <2>1. 32 + 8 * length \in Nat
    BY MessageAssumption
  <2> QED
    BY <1>2, <2>1, CellsAre DEF W!TextCell
<1> QED
  BY <1>1, <1>2 DEF W!Payloads

LEMMA MessageInit == W!Init => MessageIInv
BY CellsAre DEF W!Init, MessageIInv, MessageTypes, ReferencesLeft, PartsFit, MessageFits, HashedFit

LEMMA CreateTransferKeeps ==
    ASSUME MessageIInv, NEW s \in {0, 1}, NEW n \in Counts, NEW d \in BOOLEAN, NEW size \in Nat,
           W!CreateTransfer(s, n, d, size)
    PROVE  MessageIInv'
<1>1. CASE n \notin 1 .. 4
  BY <1>1 DEF W!CreateTransfer, W!Raise, MessageIInv, MessageTypes, ReferencesLeft, PartsFit,
              MessageFits, HashedFit
<1>2. CASE n \in 1 .. 4
  <2>1. /\ pc = "idle" /\ pc' = "messages" /\ seqno' = s /\ left' = n
        /\ signing' = W!Cell(size, 0) /\ UNCHANGED <<parts, message>>
    BY <1>2 DEF W!CreateTransfer
  <2> QED
    BY <1>2, <2>1, CellsAre
       DEF MessageIInv, MessageTypes, ReferencesLeft, PartsFit, MessageFits, HashedFit
<1> QED
  BY <1>1, <1>2

\* One message more: it is one reference of the signing message.
LEMMA AddMessageKeeps ==
    ASSUME MessageIInv, NEW sz \in Nat, NEW payload \in W!Payloads,
           NEW state \in {W!Nothing, W!StateInit}, W!AddMessage(sz, payload, state)
    PROVE  MessageIInv'
<1> DEFINE header == W!InternalHeader(sz)
           out == W!create_common_msg_info(header, state, payload)
           own == W!OwnParts(header, state, payload)
<1>1. CASE W!Raise
  BY <1>1 DEF W!Raise, MessageIInv, MessageTypes, ReferencesLeft, PartsFit, MessageFits, HashedFit
<1>2. CASE ~W!Raise
  <2>1. /\ pc = "messages" /\ left > 0 /\ left' = left - 1
        /\ signing' = W!Cell(signing.bits + 8, signing.refs + 1)
        /\ parts' = parts \cup {W!Part(out, state, payload)} \cup own
        /\ UNCHANGED <<pc, seqno, dummy, message>>
    BY <1>2 DEF W!AddMessage
  <2>2. header \in CellSizes /\ header.refs = 0
    BY CellsAre DEF W!InternalHeader
  <2>3. payload \in CellSizes /\ (payload.refs = 0 \/ payload \in PayloadCells)
    BY PayloadsAre
  <2>4. own \subseteq {W!Part(state, state, W!Nothing), W!Part(payload, W!Nothing, payload)}
    BY DEF W!OwnParts
  <2>5. /\ out \in CellSizes
        /\ \E s \in 0 .. 2, p \in {0, 1, payload.refs} :
              out.refs = s + p /\ (state = W!Nothing => s = 0)
    BY <2>2, <2>3, CommonInfo
  <2> HIDE DEF header, out, own
  <2>6. /\ signing.bits \in Nat /\ signing.refs \in Nat /\ left \in Nat
        /\ signing.refs + left <= 4 /\ payload.refs \in Nat /\ out.refs \in Nat
    BY <2>1, <2>3, <2>5 DEF MessageIInv, MessageTypes, ReferencesLeft, CellSizes
  <2>7. signing' \in CellSizes /\ signing'.refs = signing.refs + 1
    BY <2>1, <2>6, CellsAre
  <2>8. MessageTypes'
    <3>1. /\ W!Part(out, state, payload) \in PartSizes
          /\ own \subseteq PartSizes
      BY <2>3, <2>4, <2>5, CellsAre DEF W!Part, PartSizes
    <3>2. parts' \subseteq PartSizes
      BY <2>1, <3>1 DEF MessageIInv, MessageTypes
    <3> QED
      BY <2>1, <2>6, <2>7, <3>2 DEF MessageIInv, MessageTypes
  <2>9. ASSUME NEW p \in parts', p.cell.refs > 4
        PROVE  p.state_init.refs + p.body.refs > 4
    <3>1. CASE p \in parts
      BY <2>9, <3>1, CellsAre DEF MessageIInv, PartsFit
    <3>2. CASE p = W!Part(out, state, payload)
      <4>1. p.cell = out /\ p.state_init = state /\ p.body = payload
        BY <3>2 DEF W!Part
      <4>2. state.refs = IF state = W!Nothing THEN 0 ELSE 2
        BY CellsAre
      <4> QED
        BY <2>5, <2>6, <2>9, <4>1, <4>2
    <3>3. CASE p = W!Part(state, state, W!Nothing)
      BY <2>9, <3>3, CellsAre DEF W!Part
    <3>4. CASE p = W!Part(payload, W!Nothing, payload)
      <4>1. p.cell = payload /\ p.state_init.refs = 0 /\ p.body = payload
        BY <3>4, CellsAre DEF W!Part
      <4> QED
        BY <2>6, <2>9, <4>1
    <3> QED
      BY <2>1, <2>4, <3>1, <3>2, <3>3, <3>4
  <2>10. PartsFit'
    BY <2>9, CellsAre DEF PartsFit
  <2>11. ReferencesLeft' /\ MessageFits' /\ HashedFit'
    BY <2>1, <2>6, <2>7 DEF ReferencesLeft, MessageFits, HashedFit
  <2> QED
    BY <2>8, <2>10, <2>11 DEF MessageIInv
<1> QED
  BY <1>1, <1>2

\* The external message refers to what the signing message refers to, or to that, and
\* to the two parts of a state, or to that.
LEMMA EnclosedFits ==
    ASSUME NEW state \in {W!Nothing, W!StateInit}, NEW signed \in CellSizes, signed.refs <= 4
    PROVE  /\ W!Enclosed(state, signed) \in CellSizes
           /\ W!Enclosed(state, signed).refs > 4 => state # W!Nothing /\ signed.refs > 2
<1> DEFINE header == W!ExternalHeader
           body == W!Copied(W!Cell(512, 0), signed)
           enclosed == W!create_common_msg_info(header, state, body)
<1>1. header \in CellSizes /\ header.refs = 0
  BY CellsAre DEF W!ExternalHeader
<1>2. body \in CellSizes /\ body.refs = signed.refs
  BY DEF W!Copied, W!Cell, CellSizes
<1>3. W!Enclosed(state, signed) = enclosed
  BY DEF W!Enclosed
<1>4. enclosed \in CellSizes
      /\ \E s \in 0 .. 2, p \in {0, 1, body.refs} :
            enclosed.refs = s + p /\ (state = W!Nothing => s = 0)
  BY <1>1, <1>2, CommonInfo
<1> HIDE DEF header, body, enclosed
<1>5. signed.refs \in Nat
  BY DEF CellSizes
<1> QED
  BY <1>2, <1>3, <1>4, <1>5

LEMMA CreateExternalKeeps == ASSUME MessageIInv, W!CreateExternal PROVE MessageIInv'
<1>1. CASE W!Raise
  BY <1>1 DEF W!Raise, MessageIInv, MessageTypes, ReferencesLeft, PartsFit, MessageFits, HashedFit
<1>2. CASE ~W!Raise
  <2> DEFINE state == IF seqno = 0 THEN W!StateInit ELSE W!Nothing
  <2>1. /\ pc = "messages" /\ left = 0 /\ pc' = "made" /\ message' = W!Enclosed(state, signing)
        /\ UNCHANGED <<seqno, dummy, left, signing, parts>>
    BY <1>2 DEF W!CreateExternal
  <2>2. state \in {W!Nothing, W!StateInit} /\ (state # W!Nothing => seqno = 0)
    OBVIOUS
  <2>3. signing \in CellSizes /\ signing.refs <= 4
    BY <2>1 DEF MessageIInv, MessageTypes, ReferencesLeft, CellSizes
  <2> HIDE DEF state
  <2>4. message' \in CellSizes /\ (message'.refs > 4 => seqno = 0 /\ signing.refs > 2)
    BY <2>1, <2>2, <2>3, EnclosedFits
  <2> QED
    BY <2>1, <2>4, CellsAre
       DEF MessageIInv, MessageTypes, ReferencesLeft, PartsFit, MessageFits, HashedFit
<1> QED
  BY <1>1, <1>2

LEMMA CreateInitExternalKeeps ==
    ASSUME MessageIInv, NEW size \in Nat, W!CreateInitExternal(size) PROVE MessageIInv'
<1>1. /\ pc = "idle" /\ pc' = "made" /\ signing' = W!Cell(size, 0)
      /\ message' = W!Enclosed(W!StateInit, W!Cell(size, 0))
      /\ UNCHANGED <<seqno, dummy, left, parts>>
  BY DEF W!CreateInitExternal
<1>2. W!Cell(size, 0) \in CellSizes /\ W!Cell(size, 0).refs = 0
  BY CellsAre
<1>3. message' \in CellSizes /\ ~(message'.refs > 4)
  BY <1>1, <1>2, EnclosedFits
<1> QED
  BY <1>1, <1>2, <1>3, CellsAre
     DEF MessageIInv, MessageTypes, ReferencesLeft, PartsFit, MessageFits, HashedFit

LEMMA ToBocKeeps == ASSUME MessageIInv, W!ToBoc PROVE MessageIInv'
<1>1. CASE W!Raise
  BY <1>1 DEF W!Raise, MessageIInv, MessageTypes, ReferencesLeft, PartsFit, MessageFits, HashedFit
<1>2. CASE ~W!Raise
  <2>1. /\ pc = "made" /\ pc' = "sent" /\ \A c \in W!OwnCells \cup {message} : W!Hashable(c)
        /\ UNCHANGED <<seqno, dummy, left, signing, parts, message>>
    BY <1>2 DEF W!ToBoc
  <2>2. /\ \A c \in W!OwnCells \cup {message} : c.bits <= 1023
        /\ W!OwnCells' = W!OwnCells
    BY <2>1, HashableFits DEF MessageIInv, MessageTypes, PartSizes, W!OwnCells
  <2> QED
    BY <2>1, <2>2, CellsAre
       DEF MessageIInv, MessageTypes, ReferencesLeft, PartsFit, MessageFits, HashedFit
<1> QED
  BY <1>1, <1>2

LEMMA MessageStep ==
    ASSUME MessageIInv, W!Next \/ UNCHANGED messageVars PROVE MessageIInv'
<1>1. CASE UNCHANGED messageVars
  BY <1>1 DEF messageVars, MessageIInv, MessageTypes, ReferencesLeft, PartsFit, MessageFits, HashedFit,
              W!OwnCells
<1>2. CASE UNCHANGED W!walletVars
  BY <1>1, <1>2 DEF W!walletVars, messageVars
<1> QED
  BY <1>1, <1>2, CreateTransferKeeps, AddMessageKeeps, CreateExternalKeeps,
     CreateInitExternalKeeps, ToBocKeeps, MessageAssumption DEF W!Next

-----------------------------------------------------------------------------
(* The orders of a multi-signature wallet                                  *)

OrderPayloads == [query : Queries, messages : 0 .. OrderRefs]

IsOrder(x) ==
    /\ x # O!None
    /\ x = [payload |-> x.payload, signatures |-> x.signatures]
    /\ x.payload \in OrderPayloads

AllHold(order) ==
    \A id \in DOMAIN order.signatures : O!Verifies(id, order.payload, order.signatures[id])

OrderTypes ==
    /\ builder \in [Owners -> OrderPayloads \cup {O!None}]
    /\ DOMAIN orders = Owners
    /\ \A o \in Owners : orders[o] = O!None \/ IsOrder(orders[o])

\* Only a careless signature or union puts one into an order that does not verify.
CleanHold == \A o \in Owners \ spoilt : IsOrder(orders[o]) => AllHold(orders[o])

\* A message is made of an order as it is.
MessageOfOrder ==
    \/ order_message = O!None
    \/ \E o \in Owners :
          /\ IsOrder(orders[o])
          /\ order_message = [root |-> o, order |-> orders[o],
                              refs |-> O!ToCellRefs(orders[o]), spoilt |-> o \in spoilt]

OrderIInv == OrderTypes /\ CleanHold /\ MessageOfOrder

\* A record with other fields is not None.
LEMMA NotNone ==
    /\ \A i, m : [query |-> i, messages |-> m] # O!None
    /\ \A p, s : [payload |-> p, signatures |-> s] # O!None
    /\ \A r, o, n, b : [root |-> r, order |-> o, refs |-> n, spoilt |-> b] # O!None
<1>1. "none" \in DOMAIN O!None
  BY DEF O!None
<1>2. \A i, m : "none" \notin DOMAIN [query |-> i, messages |-> m]
  OBVIOUS
<1>3. \A p, s : "none" \notin DOMAIN [payload |-> p, signatures |-> s]
  OBVIOUS
<1>4. \A r, o, n, b : "none" \notin DOMAIN [root |-> r, order |-> o, refs |-> n, spoilt |-> b]
  OBVIOUS
<1> QED
  BY <1>1, <1>2, <1>3, <1>4

\* Signatures that verify for the same payload do so together.
LEMMA MergedHold ==
    ASSUME NEW f, NEW g, NEW payload,
           \A id \in DOMAIN f : O!Verifies(id, payload, f[id]),
           \A id \in DOMAIN g : O!Verifies(id, payload, g[id])
    PROVE  \A id \in DOMAIN O!Merged(f, g) : O!Verifies(id, payload, O!Merged(f, g)[id])
BY DEF O!Merged

\* One more signature over the same payload.
LEMMA WithHolds ==
    ASSUME NEW f, NEW key, NEW signature, NEW payload,
           \A id \in DOMAIN f : O!Verifies(id, payload, f[id]),
           O!Verifies(key, payload, signature)
    PROVE  \A id \in DOMAIN O!With(f, key, signature) :
               O!Verifies(id, payload, O!With(f, key, signature)[id])
<1>1. \A id \in DOMAIN [i \in {key} |-> signature] :
          O!Verifies(id, payload, [i \in {key} |-> signature][id])
  OBVIOUS
<1> QED
  BY <1>1, MergedHold DEF O!With

LEMMA OrderInit == O!Init => OrderIInv
<1> SUFFICES ASSUME O!Init PROVE OrderIInv
  OBVIOUS
<1>1. \A o \in Owners : ~IsOrder(orders[o])
  BY DEF O!Init, IsOrder
<1> QED
  BY <1>1 DEF O!Init, OrderIInv, OrderTypes, CleanHold, MessageOfOrder

\* An order's signatures are replaced; they verify, unless the order is spoilt now.
LEMMA SetSignaturesKeeps ==
    ASSUME OrderIInv, NEW o \in Owners, NEW signatures, IsOrder(orders[o]),
           O!SetSignatures(o, signatures), spoilt \ {o} \subseteq spoilt',
           o \notin spoilt' =>
               \A id \in DOMAIN signatures :
                   O!Verifies(id, orders[o].payload, signatures[id])
    PROVE  OrderIInv'
<1> DEFINE payload == orders[o].payload
<1>1. orders[o] = [payload |-> payload, signatures |-> orders[o].signatures]
      /\ payload \in OrderPayloads
  BY DEF IsOrder
<1> HIDE DEF payload
<1>2. /\ orders' = [orders EXCEPT ![o] = [payload |-> payload, signatures |-> signatures]]
      /\ order_message' = O!None /\ builder' = builder
  <2>1. \A p, b : [[payload |-> p, signatures |-> b] EXCEPT !.signatures = signatures]
                  = [payload |-> p, signatures |-> signatures]
    OBVIOUS
  <2>2. [orders[o] EXCEPT !.signatures = signatures]
           = [payload |-> payload, signatures |-> signatures]
    BY <1>1, <2>1
  <2>3. /\ orders' = [orders EXCEPT ![o] = [orders[o] EXCEPT !.signatures = signatures]]
        /\ order_message' = O!None /\ builder' = builder
    BY DEF O!SetSignatures
  <2> QED
    BY <2>2, <2>3
<1>3. /\ DOMAIN orders' = Owners
      /\ orders'[o] = [payload |-> payload, signatures |-> signatures]
      /\ \A p \in Owners \ {o} : orders'[p] = orders[p]
  BY <1>2 DEF OrderIInv, OrderTypes
<1>4. IsOrder(orders'[o]) /\ (o \notin spoilt' => AllHold(orders'[o]))
  BY <1>1, <1>3, NotNone DEF IsOrder, AllHold
<1>5. OrderTypes'
  BY <1>2, <1>3, <1>4 DEF OrderIInv, OrderTypes
<1>6. CleanHold'
  BY <1>3, <1>4 DEF OrderIInv, CleanHold
<1> QED
  BY <1>2, <1>5, <1>6 DEF OrderIInv, MessageOfOrder

\* What is done with a builder does not touch the orders.
LEMMA BuilderKeeps ==
    ASSUME OrderIInv, builder' \in [Owners -> OrderPayloads \cup {O!None}],
           order_message' = O!None, UNCHANGED <<orders, spoilt>>
    PROVE  OrderIInv'
BY DEF OrderIInv, OrderTypes, CleanHold, MessageOfOrder

\* What is there is an order, or the payload of one.
LEMMA OrdersThere ==
    ASSUME OrderIInv, NEW o \in Owners, O!IsThere(orders[o]) PROVE IsOrder(orders[o])
BY DEF OrderIInv, OrderTypes, O!IsThere

LEMMA BuildersThere ==
    ASSUME OrderIInv, NEW o \in Owners, O!IsThere(builder[o])
    PROVE  builder[o] \in OrderPayloads
BY DEF OrderIInv, OrderTypes, O!IsThere

LEMMA BuildKeeps == ASSUME OrderIInv, NEW o \in Owners, O!Build(o) PROVE OrderIInv'
<1>1. /\ builder[o] \in OrderPayloads /\ order_message' = O!None /\ builder' = builder
      /\ spoilt' = spoilt \ {o}
      /\ orders' = [orders EXCEPT ![o] =
                       [payload |-> builder[o], signatures |-> O!NoSignatures]]
  BY BuildersThere DEF O!Build
<1>2. /\ DOMAIN orders' = Owners
      /\ orders'[o] = [payload |-> builder[o], signatures |-> O!NoSignatures]
      /\ \A p \in Owners \ {o} : orders'[p] = orders[p]
  BY <1>1 DEF OrderIInv, OrderTypes
<1>3. DOMAIN O!NoSignatures = {}
  BY DEF O!NoSignatures
<1>4. IsOrder(orders'[o]) /\ AllHold(orders'[o])
  BY <1>1, <1>2, <1>3, NotNone DEF IsOrder, AllHold
<1>5. OrderTypes'
  BY <1>1, <1>2, <1>4 DEF OrderIInv, OrderTypes
<1>6. CleanHold'
  BY <1>1, <1>2, <1>4 DEF OrderIInv, CleanHold
<1> QED
  BY <1>1, <1>5, <1>6 DEF OrderIInv, MessageOfOrder

LEMMA OrderStep ==
    ASSUME OrderIInv, O!Next \/ UNCHANGED orderVars PROVE OrderIInv'
<1>1. CASE UNCHANGED orderVars
  BY <1>1 DEF orderVars, OrderIInv, OrderTypes, CleanHold, MessageOfOrder
<1>2. ASSUME NEW o \in Owners, NEW query \in Queries, O!NewBuilder(o, query)
      PROVE  OrderIInv'
  <2>1. [query |-> query, messages |-> 0] \in OrderPayloads
    BY OrderAssumption DEF OrderPayloads
  <2> QED
    BY <1>2, <2>1, BuilderKeeps DEF O!NewBuilder, OrderIInv, OrderTypes
<1>3. ASSUME NEW o \in Owners, O!AddMessage(o)
      PROVE  OrderIInv'
  <2>1. builder[o] \in OrderPayloads /\ builder[o].messages < OrderRefs
    BY <1>3, BuildersThere DEF O!AddMessage
  <2>2. [builder[o] EXCEPT !.messages = @ + 1] \in OrderPayloads
    BY <2>1, OrderAssumption DEF OrderPayloads
  <2> QED
    BY <1>3, <2>2, BuilderKeeps DEF O!AddMessage, OrderIInv, OrderTypes
<1>4. ASSUME NEW o \in Owners, O!ClearMessages(o)
      PROVE  OrderIInv'
  <2>1. [builder[o] EXCEPT !.messages = 0] \in OrderPayloads
    BY <1>4, BuildersThere, OrderAssumption DEF O!ClearMessages, OrderPayloads
  <2> QED
    BY <1>4, <2>1, BuilderKeeps DEF O!ClearMessages, OrderIInv, OrderTypes
<1>5. ASSUME NEW o \in Owners, O!ClearSignatures(o)
      PROVE  OrderIInv'
  <2>1. DOMAIN O!NoSignatures = {}
    BY DEF O!NoSignatures
  <2> QED
    BY <1>5, <2>1, OrdersThere, SetSignaturesKeeps DEF O!ClearSignatures
<1>6. ASSUME NEW o \in Owners, O!CreateTransferMessage(o)
      PROVE  OrderIInv'
  <2>1. IsOrder(orders[o])
    BY <1>6, OrdersThere DEF O!CreateTransferMessage
  <2> QED
    BY <1>6, <2>1
       DEF O!CreateTransferMessage, OrderIInv, OrderTypes, CleanHold, MessageOfOrder
<1>7. ASSUME NEW o \in Owners, NEW id \in Owners, O!Sign(o, id)
      PROVE  OrderIInv'
  <2> DEFINE signature == O!Signature(o, orders[o].payload)
             signatures == O!With(orders[o].signatures, id, signature)
  <2>1. /\ IsOrder(orders[o]) /\ O!SetSignatures(o, signatures)
        /\ spoilt' = IF id = o THEN spoilt ELSE spoilt \cup {o}
    BY <1>7, OrdersThere DEF O!Sign
  <2>2. ASSUME o \notin spoilt'
        PROVE  \A i \in DOMAIN signatures : O!Verifies(i, orders[o].payload, signatures[i])
    <3>1. id = o /\ AllHold(orders[o])
      BY <2>1, <2>2 DEF OrderIInv, CleanHold
    <3>2. O!Verifies(id, orders[o].payload, signature)
      BY <3>1 DEF O!Verifies
    <3> QED
      BY <3>1, <3>2, WithHolds DEF AllHold
  <2> HIDE DEF signatures
  <2> QED
    BY <2>1, <2>2, SetSignaturesKeeps
<1>8. ASSUME NEW o \in Owners, NEW p \in Owners, O!UnionSignatures(o, p)
      PROVE  OrderIInv'
  <2> DEFINE signatures == O!Merged(orders[o].signatures, orders[p].signatures)
  <2>1. /\ IsOrder(orders[o]) /\ IsOrder(orders[p]) /\ O!SetSignatures(o, signatures)
        /\ spoilt' = IF p \in spoilt \/ orders[o].payload # orders[p].payload
                     THEN spoilt \cup {o} ELSE spoilt
    BY <1>8, OrdersThere DEF O!UnionSignatures
  <2>2. ASSUME o \notin spoilt'
        PROVE  \A i \in DOMAIN signatures : O!Verifies(i, orders[o].payload, signatures[i])
    <3>1. /\ orders[o].payload = orders[p].payload
          /\ AllHold(orders[o]) /\ AllHold(orders[p])
      BY <2>1, <2>2 DEF OrderIInv, CleanHold
    <3> QED
      BY <3>1, MergedHold DEF AllHold
  <2> HIDE DEF signatures
  <2> QED
    BY <2>1, <2>2, SetSignaturesKeeps
<1>9. ASSUME NEW o \in Owners, NEW p \in Owners, NEW id \in Owners, O!AddSignature(o, p, id)
      PROVE  OrderIInv'
  <2> DEFINE signatures == O!With(orders[o].signatures, id, orders[p].signatures[id])
  <2>1. /\ IsOrder(orders[o]) /\ O!SetSignatures(o, signatures) /\ spoilt' = spoilt
        /\ O!Verifies(id, orders[o].payload, orders[p].signatures[id])
    BY <1>9, OrdersThere DEF O!AddSignature
  <2>2. ASSUME o \notin spoilt'
        PROVE  \A i \in DOMAIN signatures : O!Verifies(i, orders[o].payload, signatures[i])
    <3>1. AllHold(orders[o])
      BY <2>1, <2>2 DEF OrderIInv, CleanHold
    <3> QED
      BY <2>1, <3>1, WithHolds DEF AllHold
  <2> HIDE DEF signatures
  <2> QED
    BY <2>1, <2>2, SetSignaturesKeeps
<1> QED
  BY <1>1, <1>2, <1>3, <1>4, <1>5, <1>6, <1>7, <1>8, <1>9, BuildKeeps DEF O!Next

\* A builder takes no more messages than a cell has references: one too many there is
\* only with the reference to the signatures.
LEMMA OrderFollows == ASSUME OrderIInv PROVE O!CleanOrdersAreTaken
<1> SUFFICES ASSUME order_message # O!None, ~order_message.spoilt
             PROVE  \/ O!ContractTakes(order_message)
                    \/ /\ O!SignaturesHold(order_message)
                       /\ order_message.order.payload.messages = OrderRefs
                       /\ order_message.order.signatures # O!NoSignatures
  BY DEF O!CleanOrdersAreTaken, O!IsThere
<1>1. PICK o \in Owners :
         /\ IsOrder(orders[o])
         /\ order_message = [root |-> o, order |-> orders[o],
                             refs |-> O!ToCellRefs(orders[o]), spoilt |-> o \in spoilt]
  BY DEF OrderIInv, MessageOfOrder
<1> DEFINE payload == orders[o].payload
           signatures == orders[o].signatures
<1>2. payload \in OrderPayloads
  BY <1>1 DEF IsOrder
<1>3. payload.messages \in 0 .. OrderRefs
  BY <1>2 DEF OrderPayloads
<1>4. O!SignaturesHold(order_message)
  <2>1. o \notin spoilt
    BY <1>1
  <2>2. AllHold(orders[o])
    BY <1>1, <2>1 DEF OrderIInv, CleanHold
  <2> QED
    BY <1>1, <2>2 DEF AllHold, O!SignaturesHold
<1>5. order_message.refs = (IF signatures = O!NoSignatures THEN 0 ELSE 1) + payload.messages
  BY <1>1, <1>2 DEF O!ToCellRefs
<1>6. /\ order_message.order.payload.messages = payload.messages
      /\ order_message.order.signatures = signatures
  BY <1>1, <1>2
<1> QED
  BY <1>3, <1>4, <1>5, <1>6, OrderAssumption DEF O!ContractTakes

-----------------------------------------------------------------------------
(* The queries of a highload wallet v2                                     *)

QueryMessages ==
    [payload : Recipients \cup {"none"}, given : Nat, deadline : Nat,
     init : BOOLEAN, dummy : BOOLEAN, id : Nat]

QueryExecutions == [message : QueryMessages, at : Nat]

QueryTypes ==
    /\ clock \in 1 .. MaxClock
    /\ made \subseteq QueryMessages
    /\ deployed \in BOOLEAN
    /\ recorded \subseteq Nat
    /\ executed \in Seq(QueryExecutions)

\* The id of a message follows from its deadline and what was given.
QueryIdsFollow ==
    \A m \in made :
        /\ m.deadline >= 1
        /\ m.id = IF m.given < m.deadline * Span THEN m.deadline * Span + m.given
                  ELSE m.given

\* What the contract has executed was made, had not expired then, and is remembered
\* until it has; it remembers nothing else.
QueryMemory ==
    /\ \A k \in DOMAIN executed :
          /\ executed[k].message \in made
          /\ executed[k].at * Span <= executed[k].message.id
          /\ executed[k].message.id \in recorded
             \/ executed[k].message.id < clock * Span
    /\ \A id \in recorded : \E k \in DOMAIN executed : executed[k].message.id = id

QueryIInv == QueryTypes /\ QueryIdsFollow /\ QueryMemory /\ V!ExecutedOnce

-----------------------------------------------------------------------------
\* A larger factor gives a larger product.
LEMMA SpanProducts ==
    ASSUME NEW a \in Nat, NEW b \in Nat, a <= b
    PROVE  a * Span \in Nat /\ b * Span \in Nat /\ a * Span <= b * Span
<1>1. PICK d \in Nat : b = a + d
  <2>1. b - a \in Nat /\ b = a + (b - a)
    OBVIOUS
  <2> QED
    BY <2>1
<1>2. a * Span \in Nat /\ d * Span \in Nat
  BY QueryAssumption
<1>3. b * Span = a * Span + d * Span
  BY <1>1, QueryAssumption
<1> QED
  BY <1>2, <1>3

\* A number below the next second's has no later deadline in front.
LEMMA BeforeDeadline ==
    ASSUME NEW a \in Nat, NEW b \in Nat, NEW g \in Nat, g < Span,
           a * Span <= b * Span + g
    PROVE  a <= b
<1>1. SUFFICES ASSUME b + 1 <= a PROVE FALSE
  OBVIOUS
<1>2. (b + 1) * Span <= a * Span
  BY <1>1, SpanProducts
<1>3. (b + 1) * Span = b * Span + Span /\ b * Span \in Nat /\ a * Span \in Nat
  BY QueryAssumption
<1> QED
  BY <1>2, <1>3, QueryAssumption

\* An id says its deadline and what was given.
LEMMA IdsOfTheirOwn ==
    ASSUME QueryIdsFollow, NEW m \in made, m \in QueryMessages, V!OwnId(m)
    PROVE  m.id = m.deadline * Span + m.given /\ m.deadline * Span \in Nat
<1>1. m.deadline \in Nat /\ m.given \in Nat /\ m.deadline >= 1 /\ m.given < Span
  BY DEF QueryMessages, QueryIdsFollow, V!OwnId
<1>2. 1 * Span <= m.deadline * Span /\ m.deadline * Span \in Nat
  BY <1>1, SpanProducts
<1> QED
  BY <1>1, <1>2, QueryAssumption DEF QueryIdsFollow

\* An execution has the time and the message, which was made.
LEMMA ExecutionsHave ==
    ASSUME QueryIInv, NEW k \in DOMAIN executed
    PROVE  /\ executed[k].at \in Nat /\ executed[k].message \in QueryMessages
           /\ executed[k].message.id \in Nat
<1>1. executed \in Seq(QueryExecutions)
  BY DEF QueryIInv, QueryTypes
<1>2. executed[k] \in QueryExecutions
  BY <1>1
<1>3. executed[k].at \in Nat /\ executed[k].message \in QueryMessages
  BY <1>2 DEF QueryExecutions
<1> QED
  BY <1>3 DEF QueryMessages

-----------------------------------------------------------------------------
\* Nothing is made and nothing executed when the clock starts.
LEMMA QueryInit == ASSUME V!Init PROVE QueryIInv
<1>1. QueryTypes
  <2>1. << >> \in Seq(QueryExecutions)
    OBVIOUS
  <2>2. clock \in 1 .. MaxClock
    BY QueryAssumption DEF V!Init
  <2> QED
    BY <2>1, <2>2 DEF V!Init, QueryTypes
<1>2. DOMAIN executed = {}
  BY DEF V!Init
<1>3. QueryIdsFollow
  BY DEF V!Init, QueryIdsFollow
<1>4. QueryMemory /\ V!ExecutedOnce
  BY <1>2 DEF V!Init, QueryMemory, V!ExecutedOnce
<1> QED
  BY <1>1, <1>3, <1>4 DEF QueryIInv

\* A message that is made now.
LEMMA QueryMade ==
    ASSUME QueryIInv,
           NEW payload \in Recipients \cup {"none"}, NEW given \in Nat,
           NEW timeout \in Timeouts, NEW is_init \in BOOLEAN, NEW is_dummy \in BOOLEAN,
           made' = made \cup {V!Message(payload, given, timeout, is_init, is_dummy)},
           UNCHANGED <<clock, deployed, recorded, executed>>
    PROVE  QueryIInv'
<1> DEFINE m == V!Message(payload, given, timeout, is_init, is_dummy)
<1>1. clock \in Nat /\ clock >= 1 /\ timeout \in Nat /\ Span \in Nat
  BY QueryAssumption DEF QueryIInv, QueryTypes
<1>2. clock + timeout \in Nat /\ clock + timeout >= 1
  BY <1>1
<1>3. (clock + timeout) * Span \in Nat
  BY <1>1, <1>2
<1>4. V!QueryId(given, timeout) \in Nat
  BY <1>3 DEF V!QueryId
<1>5. m \in QueryMessages
  BY <1>2, <1>4 DEF V!Message, QueryMessages
<1>6. /\ m.deadline >= 1
      /\ m.id = IF m.given < m.deadline * Span THEN m.deadline * Span + m.given
                ELSE m.given
  BY <1>2 DEF V!Message, V!QueryId
<1>7. QueryTypes'
  BY <1>5 DEF QueryIInv, QueryTypes
<1>8. QueryIdsFollow'
  BY <1>6 DEF QueryIInv, QueryIdsFollow
<1>9. QueryMemory' /\ V!ExecutedOnce'
  BY DEF QueryIInv, QueryMemory, V!ExecutedOnce
<1> QED
  BY <1>7, <1>8, <1>9 DEF QueryIInv

\* A message arrives, maybe once more: what the contract forgets has expired.
LEMMA QueryArrives ==
    ASSUME QueryIInv, NEW m \in made, V!Arrive(m)
    PROVE  QueryIInv'
<1>1. CASE ~V!Accepts(m)
  BY <1>1 DEF V!Arrive, QueryIInv, QueryTypes, QueryIdsFollow, QueryMemory, V!ExecutedOnce
<1>2. CASE V!Accepts(m)
  <2> DEFINE e == [message |-> m, at |-> clock]
  <2>1. /\ deployed' = TRUE /\ UNCHANGED <<clock, made>>
        /\ recorded' = {id \in recorded \cup {m.id} : id >= (clock - Grace) * Span}
        /\ executed' = Append(executed, e)
    BY <1>2 DEF V!Arrive
  <2>2. /\ m \in QueryMessages /\ m.id \in Nat /\ clock \in Nat /\ e.message = m
        /\ e.at = clock /\ executed \in Seq(QueryExecutions)
    BY DEF QueryIInv, QueryTypes, QueryMessages
  <2>3. /\ clock * Span \in Nat /\ (clock - Grace) * Span \in Int
        /\ (clock - Grace) * Span <= clock * Span
    <3>1. clock * Span \in Nat /\ Grace * Span \in Nat
      BY <2>2, QueryAssumption
    <3>2. (clock - Grace) * Span = clock * Span - Grace * Span
      BY <2>2, QueryAssumption
    <3> QED
      BY <3>1, <3>2
  <2>4. /\ DOMAIN executed' = 1 .. Len(executed) + 1 /\ Len(executed) \in Nat
        /\ DOMAIN executed = 1 .. Len(executed)
        /\ executed'[Len(executed) + 1] = e
        /\ \A k \in DOMAIN executed : executed'[k] = executed[k]
    BY <2>1, <2>2
  <2>5. m.id >= clock * Span /\ m.id \notin recorded
    BY <1>2 DEF V!Accepts
  <2>6. QueryTypes'
    <3>1. e \in QueryExecutions
      BY <2>2 DEF QueryExecutions
    <3>2. executed' \in Seq(QueryExecutions)
      BY <2>1, <2>2, <3>1
    <3>3. recorded' \subseteq Nat
      BY <2>1, <2>2 DEF QueryIInv, QueryTypes
    <3> QED
      BY <2>1, <3>2, <3>3 DEF QueryIInv, QueryTypes
  <2>7. QueryIdsFollow'
    BY <2>1 DEF QueryIInv, QueryIdsFollow
  <2>8. \A k \in DOMAIN executed : executed[k].message.id # m.id
    <3>1. SUFFICES ASSUME NEW k \in DOMAIN executed, executed[k].message.id = m.id
                   PROVE  FALSE
      OBVIOUS
    <3>2. m.id < clock * Span
      BY <2>5, <3>1 DEF QueryIInv, QueryMemory
    <3> QED
      BY <2>2, <2>3, <2>5, <3>2
  <2>9. V!ExecutedOnce'
    <3>1. SUFFICES ASSUME NEW j \in DOMAIN executed', NEW k \in DOMAIN executed',
                          executed'[j].message.id = executed'[k].message.id
                   PROVE  j = k
      BY DEF V!ExecutedOnce
    <3>2. CASE j \in DOMAIN executed /\ k \in DOMAIN executed
      BY <2>4, <3>1, <3>2 DEF QueryIInv, V!ExecutedOnce
    <3>3. CASE j = Len(executed) + 1 \/ k = Len(executed) + 1
      BY <2>2, <2>4, <2>8, <3>1, <3>3
    <3> QED
      BY <2>4, <3>2, <3>3
  <2>10. \A id \in recorded' : \E k \in DOMAIN executed' : executed'[k].message.id = id
    <3>1. SUFFICES ASSUME NEW id \in recorded'
                   PROVE  \E k \in DOMAIN executed' : executed'[k].message.id = id
      OBVIOUS
    <3>2. CASE id = m.id
      <4>1. Len(executed) + 1 \in DOMAIN executed'
        BY <2>4
      <4> QED
        BY <2>2, <2>4, <3>2, <4>1
    <3>3. CASE id \in recorded
      <4>1. PICK k \in DOMAIN executed : executed[k].message.id = id
        BY <3>3 DEF QueryIInv, QueryMemory
      <4>2. k \in DOMAIN executed' /\ executed'[k] = executed[k]
        BY <2>4
      <4> QED
        BY <4>1, <4>2
    <3> QED
      BY <2>1, <3>2, <3>3
  <2>11. ASSUME NEW k \in DOMAIN executed'
         PROVE  /\ executed'[k].message \in made'
                /\ executed'[k].at * Span <= executed'[k].message.id
                /\ executed'[k].message.id \in recorded'
                   \/ executed'[k].message.id < clock' * Span
    <3>1. CASE k = Len(executed) + 1
      <4>1. m.id \in recorded'
        BY <2>1, <2>2, <2>3, <2>5
      <4> QED
        BY <2>1, <2>2, <2>4, <2>5, <3>1, <4>1
    <3>2. CASE k \in DOMAIN executed
      <4> DEFINE id == executed[k].message.id
      <4>1. /\ executed'[k] = executed[k] /\ id \in Nat
        BY <2>4, <3>2, ExecutionsHave
      <4>2. /\ executed[k].message \in made /\ executed[k].at * Span <= id
            /\ id \in recorded \/ id < clock * Span
        BY <3>2 DEF QueryIInv, QueryMemory
      <4>3. id \in recorded' \/ id < clock * Span
        <5>1. CASE id >= (clock - Grace) * Span
          BY <2>1, <4>2, <5>1
        <5>2. CASE id < (clock - Grace) * Span
          BY <2>3, <4>1, <5>2
        <5> QED
          BY <2>3, <4>1, <5>1, <5>2
      <4> QED
        BY <2>1, <4>1, <4>2, <4>3
    <3> QED
      BY <2>4, <3>1, <3>2
  <2>12. QueryMemory'
    BY <2>10, <2>11 DEF QueryMemory
  <2> QED
    BY <2>6, <2>7, <2>9, <2>12 DEF QueryIInv
<1> QED
  BY <1>1, <1>2

\* Time only makes more ids expire.
LEMMA QueryTick == ASSUME QueryIInv, V!Tick PROVE QueryIInv'
<1>1. /\ clock \in Nat /\ clock' = clock + 1 /\ clock' \in 1 .. MaxClock
      /\ UNCHANGED <<made, deployed, recorded, executed>>
  BY QueryAssumption DEF V!Tick, QueryIInv, QueryTypes
<1>2. clock * Span \in Nat /\ clock' * Span \in Nat /\ clock * Span <= clock' * Span
  BY <1>1, SpanProducts
<1>3. QueryTypes' /\ QueryIdsFollow' /\ V!ExecutedOnce'
  BY <1>1 DEF QueryIInv, QueryTypes, QueryIdsFollow, V!ExecutedOnce
<1>4. \A k \in DOMAIN executed : executed[k].message.id \in Nat
  BY ExecutionsHave
<1>5. QueryMemory'
  BY <1>1, <1>2, <1>4 DEF QueryIInv, QueryMemory
<1> QED
  BY <1>3, <1>5 DEF QueryIInv

\* Every step keeps the invariant.
LEMMA QueryStep == ASSUME QueryIInv, [V!Next]_queryVars PROVE QueryIInv'
<1>1. ASSUME NEW timeout \in Timeouts, V!CreateInit(timeout)
      PROVE  QueryIInv'
  BY <1>1, QueryMade DEF V!CreateInit
<1>2. ASSUME NEW timeout \in Timeouts, NEW payload \in Recipients,
             NEW is_dummy \in BOOLEAN, NEW given \in GivenIds \cup {m.id : m \in made},
             V!CreateTransfer(payload, given, timeout, is_dummy)
      PROVE  QueryIInv'
  <2>1. given \in Nat
    BY QueryAssumption DEF QueryIInv, QueryTypes, QueryMessages
  <2> QED
    BY <1>2, <2>1, QueryMade DEF V!CreateTransfer
<1>3. ASSUME NEW m \in made, V!Arrive(m)
      PROVE  QueryIInv'
  BY <1>3, QueryArrives
<1>4. CASE V!Tick
  BY <1>4, QueryTick
<1>5. CASE UNCHANGED queryVars
  BY <1>5 DEF queryVars, QueryIInv, QueryTypes, QueryIdsFollow, QueryMemory, V!ExecutedOnce
<1> QED
  BY <1>1, <1>2, <1>3, <1>4, <1>5 DEF V!Next

-----------------------------------------------------------------------------
\* The ids of the caller's second cannot meet those of another second.
LEMMA TwinsFollow == ASSUME QueryIInv PROVE V!TwinsOnly
<1>1. SUFFICES ASSUME NEW m \in made, NEW n \in made, V!OwnId(m), V!OwnId(n)
               PROVE  m.id = n.id <=> m.given = n.given /\ m.deadline = n.deadline
  BY DEF V!TwinsOnly
<1>2. /\ m \in QueryMessages /\ n \in QueryMessages
      /\ m.given \in Nat /\ n.given \in Nat /\ m.given < Span /\ n.given < Span
      /\ m.deadline \in Nat /\ n.deadline \in Nat
  BY <1>1 DEF QueryIInv, QueryTypes, QueryMessages, V!OwnId
<1>3. /\ m.id = m.deadline * Span + m.given /\ m.deadline * Span \in Nat
      /\ n.id = n.deadline * Span + n.given /\ n.deadline * Span \in Nat
  BY <1>1, <1>2, IdsOfTheirOwn DEF QueryIInv
<1>4. ASSUME m.id = n.id
      PROVE  m.given = n.given /\ m.deadline = n.deadline
  <2>1. /\ m.deadline * Span <= n.deadline * Span + n.given
        /\ n.deadline * Span <= m.deadline * Span + m.given
    BY <1>2, <1>3, <1>4
  <2>2. m.deadline <= n.deadline /\ n.deadline <= m.deadline
    BY <1>2, <2>1, BeforeDeadline
  <2>3. m.deadline = n.deadline
    BY <1>2, <2>2
  <2> QED
    BY <1>2, <1>3, <1>4, <2>3
<1>5. ASSUME m.given = n.given, m.deadline = n.deadline
      PROVE  m.id = n.id
  BY <1>3, <1>5
<1> QED
  BY <1>4, <1>5

\* The id of a query that is accepted is not before the clock.
LEMMA TimeoutsHold == ASSUME QueryIInv PROVE V!UntilTimeout
<1>1. ASSUME NEW k \in DOMAIN executed, V!OwnId(executed[k].message)
      PROVE  executed[k].at <= executed[k].message.deadline
  <2> DEFINE m == executed[k].message
  <2>1. /\ m \in made /\ m \in QueryMessages /\ executed[k].at \in Nat
        /\ m.deadline \in Nat /\ m.given \in Nat /\ m.given < Span
        /\ executed[k].at * Span <= m.id
    <3>1. m \in QueryMessages /\ executed[k].at \in Nat
      BY <1>1, ExecutionsHave
    <3>2. m \in made /\ executed[k].at * Span <= m.id
      BY <1>1 DEF QueryIInv, QueryMemory
    <3> QED
      BY <1>1, <3>1, <3>2 DEF QueryMessages, V!OwnId
  <2>2. m.id = m.deadline * Span + m.given
    BY <1>1, <2>1, IdsOfTheirOwn DEF QueryIInv
  <2> QED
    BY <2>1, <2>2, BeforeDeadline
<1>2. ASSUME deployed, NEW m \in made, V!OwnId(m), ~m.dummy, clock <= m.deadline
      PROVE  V!Accepts(m) \/ \E k \in DOMAIN executed : executed[k].message.id = m.id
  <2>1. m \in QueryMessages /\ m.deadline \in Nat /\ m.given \in Nat /\ clock \in Nat
    BY DEF QueryIInv, QueryTypes, QueryMessages
  <2>2. m.id = m.deadline * Span + m.given
    BY <1>2, <2>1, IdsOfTheirOwn DEF QueryIInv
  <2>3. clock * Span \in Nat /\ clock * Span <= m.deadline * Span /\ m.deadline * Span \in Nat
    BY <1>2, <2>1, SpanProducts
  <2>4. m.id >= clock * Span
    BY <2>1, <2>2, <2>3
  <2>5. CASE m.id \in recorded
    BY <2>5 DEF QueryIInv, QueryMemory
  <2>6. CASE m.id \notin recorded
    BY <1>2, <2>4, <2>6 DEF V!Accepts
  <2> QED
    BY <2>5, <2>6
<1> QED
  BY <1>1, <1>2 DEF V!UntilTimeout

LEMMA QueryFollows == ASSUME QueryIInv PROVE V!QueriesInv
BY TwinsFollow, TimeoutsHold DEF QueryIInv, QueryTypes, V!QueriesInv

-----------------------------------------------------------------------------
(* How wallets are found again                                             *)

\* A wallet's id follows from what was given; its workchain is its address's.
IsWallet(w) ==
    /\ w = [version |-> w.version, key |-> w.key, wc |-> w.wc, wallet_id |-> w.wallet_id,
            address |-> w.address, chosen |-> w.chosen]
    /\ w.version \in Versions /\ w.chosen \in WalletIds \cup {F!None}
    /\ w.wallet_id = F!WalletId(w.version, w.wc, w.chosen)
    /\ w.address = F!None \/ w.address.wc = w.wc

WalletsWell ==
    /\ wallets \in Seq(F!Range(wallets))
    /\ \A k \in DOMAIN wallets : IsWallet(wallets[k])

\* The code and the wallet id of an account are those its address is the hash of.
AccountsWell ==
    \A a \in DOMAIN accounts :
        /\ accounts[a] = [code |-> accounts[a].code, data |-> accounts[a].data]
        /\ accounts[a].code = a.hash_part.code
        /\ {1, 2} \subseteq DOMAIN accounts[a].data
        /\ F!HasWalletId(a.hash_part.code.bag) /\ a.hash_part.code \in F!TableCodes =>
               accounts[a].data[2] = a.hash_part.data[2]

ToldWell ==
    told # F!None =>
        /\ told.address.hash_part.code \in F!TableCodes
        /\ told.wallet_id = IF F!HasWalletId(told.address.hash_part.code.bag)
                            THEN [id |-> told.address.hash_part.data[2]] ELSE F!None

FactoryIInv == WalletsWell /\ AccountsWell /\ ToldWell /\ F!PhrasesOpen

\* An id is not None, and a record of its number.
LEMMA IdsAre ==
    /\ \A n : [id |-> n] # F!None /\ [id |-> n].id = n
    /\ \A i \in WalletIds : i = [id |-> i.id]
<1>1. "none" \in DOMAIN F!None
  BY DEF F!None
<1>2. \A n : "none" \notin DOMAIN [id |-> n]
  OBVIOUS
<1>3. \A i \in WalletIds : i = [id |-> i.id]
  BY DEF WalletIds
<1> QED
  BY <1>1, <1>2, <1>3

\* v2 has no wallet id, the others have a number.
LEMMA WalletIdOf ==
    ASSUME NEW w, IsWallet(w)
    PROVE  IF F!HasWalletId(w.version) THEN w.wallet_id = [id |-> w.wallet_id.id]
           ELSE w.wallet_id = F!None
BY IdsAre DEF IsWallet, F!WalletId

LEMMA AddressOf == ASSUME NEW w, IsWallet(w) PROVE F!Address(w).wc = w.wc
BY DEF IsWallet, F!Address, F!StateAddress

\* What the state of a wallet says: its version, and its wallet id where it has one.
LEMMA StateSays ==
    ASSUME NEW w, IsWallet(w)
    PROVE  /\ F!StateAddress(w).wc = w.wc /\ F!StateAddress(w).hash_part = F!StateInit(w)
           /\ F!StateInit(w) = [code |-> F!StateInit(w).code, data |-> F!StateInit(w).data]
           /\ F!StateInit(w).code = F!Code(w.version) /\ F!StateInit(w).data = F!DataCell(w)
           /\ {1, 2} \subseteq DOMAIN F!DataCell(w)
           /\ F!HasWalletId(w.version) /\ w.version # "hv2" =>
                  F!DataCell(w)[2] = w.wallet_id.id
           /\ F!Code(w.version).bag = w.version
           /\ F!Code(w.version) \in F!TableCodes => w.version # "hv2"
<1>1. w.version \in {"v2r1", "v2r2", "v3r1", "v3r2", "v4r1", "v4r2", "hv2"}
  BY VersionsAssumption DEF IsWallet
<1>2. {1, 2} \subseteq DOMAIN F!DataCell(w)
  BY <1>1 DEF F!DataCell
<1>3. F!HasWalletId(w.version) /\ w.version # "hv2" => F!DataCell(w)[2] = w.wallet_id.id
  BY <1>1 DEF F!DataCell, F!HasWalletId
<1>4. /\ F!Code(w.version).bag = w.version
      /\ F!Code(w.version) \in F!TableCodes => w.version # "hv2"
  BY DEF F!Code, F!TableCodes
<1> QED
  BY <1>2, <1>3, <1>4 DEF F!StateAddress, F!StateInit

\* Two wallets have the same state exactly if they have the same version, key and
\* wallet id.
LEMMA SameState ==
    ASSUME NEW v, NEW w, IsWallet(v), IsWallet(w)
    PROVE  F!StateInit(v) = F!StateInit(w)
               <=> (v.version = w.version /\ v.key = w.key /\ v.wallet_id = w.wallet_id)
<1>1. v.version \in {"v2r1", "v2r2", "v3r1", "v3r2", "v4r1", "v4r2", "hv2"}
  BY VersionsAssumption DEF IsWallet
<1>2. ASSUME F!StateInit(v) = F!StateInit(w)
      PROVE  v.version = w.version /\ v.key = w.key /\ v.wallet_id = w.wallet_id
  <2>1. v.version = w.version /\ F!DataCell(v) = F!DataCell(w)
    BY <1>2, StateSays DEF F!Code
  <2>2. CASE v.version \in {"v2r1", "v2r2"}
    <3>1. F!DataCell(v)[2] = v.key /\ F!DataCell(w)[2] = w.key
      BY <2>1, <2>2 DEF F!DataCell
    <3>2. v.wallet_id = F!None /\ w.wallet_id = F!None
      BY <2>1, <2>2, WalletIdOf DEF F!HasWalletId
    <3> QED
      BY <2>1, <3>1, <3>2
  <2>3. CASE v.version \in {"v3r1", "v3r2", "v4r1", "v4r2"}
    <3>1. /\ F!DataCell(v)[2] = v.wallet_id.id /\ F!DataCell(w)[2] = w.wallet_id.id
          /\ F!DataCell(v)[3] = v.key /\ F!DataCell(w)[3] = w.key
      BY <2>1, <2>3 DEF F!DataCell
    <3>2. v.wallet_id = [id |-> v.wallet_id.id] /\ w.wallet_id = [id |-> w.wallet_id.id]
      BY <2>1, <2>3, WalletIdOf DEF F!HasWalletId
    <3> QED
      BY <2>1, <3>1, <3>2
  <2>4. CASE v.version = "hv2"
    <3>1. /\ F!DataCell(v)[1] = v.wallet_id.id /\ F!DataCell(w)[1] = w.wallet_id.id
          /\ F!DataCell(v)[3] = v.key /\ F!DataCell(w)[3] = w.key
      BY <2>1, <2>4 DEF F!DataCell
    <3>2. v.wallet_id = [id |-> v.wallet_id.id] /\ w.wallet_id = [id |-> w.wallet_id.id]
      BY <2>1, <2>4, WalletIdOf DEF F!HasWalletId
    <3> QED
      BY <2>1, <3>1, <3>2
  <2> QED
    BY <1>1, <2>2, <2>3, <2>4
<1>3. ASSUME v.version = w.version, v.key = w.key, v.wallet_id = w.wallet_id
      PROVE  F!StateInit(v) = F!StateInit(w)
  BY <1>3 DEF F!StateInit, F!DataCell
<1> QED
  BY <1>2, <1>3

LEMMA FactoryInit == F!Init => FactoryIInv
<1> SUFFICES ASSUME F!Init PROVE FactoryIInv
  OBVIOUS
<1>1. wallets = << >> /\ phrases = {} /\ told = F!None /\ accounts = [a \in {} |-> F!None]
  BY DEF F!Init
<1>2. DOMAIN accounts = {} /\ DOMAIN wallets = {}
  BY <1>1
<1>3. wallets \in Seq(F!Range(wallets))
  BY <1>1
<1> QED
  BY <1>1, <1>2, <1>3 DEF FactoryIInv, WalletsWell, AccountsWell, ToldWell, F!PhrasesOpen

\* One more element, and one other element.
LEMMA AppendedRange ==
    ASSUME NEW s, s \in Seq(F!Range(s)), NEW e
    PROVE  /\ Append(s, e) \in Seq(F!Range(Append(s, e)))
           /\ \A k \in DOMAIN Append(s, e) :
                 \/ Append(s, e)[k] = e
                 \/ (k \in DOMAIN s /\ Append(s, e)[k] = s[k])
<1> DEFINE t == Append(s, e)
<1>1. /\ Len(s) \in Nat /\ DOMAIN s = 1 .. Len(s)
      /\ t \in Seq(F!Range(s) \cup {e}) /\ Len(t) = Len(s) + 1 /\ DOMAIN t = 1 .. Len(s) + 1
      /\ t[Len(s) + 1] = e /\ \A k \in 1 .. Len(s) : t[k] = s[k]
  OBVIOUS
<1> HIDE DEF t
<1>2. t \in Seq(F!Range(t))
  BY <1>1 DEF F!Range
<1>3. \A k \in DOMAIN t : t[k] = e \/ (k \in DOMAIN s /\ t[k] = s[k])
  BY <1>1
<1> QED
  BY <1>2, <1>3 DEF t

\* A list with changed elements is a list over its new range.
LEMMA ChangedRange ==
    ASSUME NEW s, s \in Seq(F!Range(s)), NEW t,
           DOMAIN t = DOMAIN s, t = [j \in DOMAIN s |-> t[j]]
    PROVE  t \in Seq(F!Range(t))
<1>1. Len(s) \in Nat /\ DOMAIN s = 1 .. Len(s)
  OBVIOUS
<1>2. \A j \in 1 .. Len(s) : t[j] \in F!Range(t)
  BY <1>1 DEF F!Range
<1> QED
  BY <1>1, <1>2

\* A wallet is opened in whatever way.
LEMMA OpenKeeps ==
    ASSUME FactoryIInv, NEW version \in Versions, NEW key, NEW wc,
           NEW wallet_id \in WalletIds \cup {F!None}, NEW address,
           address = F!None \/ address.wc = wc,
           F!Open(F!Wallet(version, key, wc, wallet_id, address)),
           UNCHANGED <<accounts, told>>, F!PhrasesOpen'
    PROVE  FactoryIInv'
<1> DEFINE w == F!Wallet(version, key, wc, wallet_id, address)
<1>1. IsWallet(w)
  BY DEF F!Wallet, IsWallet
<1>2. wallets' = Append(wallets, w)
  BY DEF F!Open
<1> HIDE DEF w
<1>3. WalletsWell'
  BY <1>1, <1>2, AppendedRange DEF FactoryIInv, WalletsWell
<1>4. AccountsWell' /\ ToldWell'
  BY DEF FactoryIInv, AccountsWell, ToldWell
<1> QED
  BY <1>3, <1>4 DEF FactoryIInv

\* The address of a wallet object is kept.
LEMMA KeptAddress ==
    ASSUME FactoryIInv, NEW k \in DOMAIN wallets,
           wallets' = [wallets EXCEPT ![k].address = F!Address(wallets[k])]
    PROVE  WalletsWell'
<1> DEFINE w == wallets[k]
           e == [w EXCEPT !.address = F!Address(w)]
<1>1. wallets' = [wallets EXCEPT ![k] = e]
  OBVIOUS
<1>2. IsWallet(w)
  BY DEF FactoryIInv, WalletsWell
<1>3. F!Address(w).wc = w.wc
  BY <1>2, AddressOf
<1>4. IsWallet(e)
  <2> HIDE DEF w
  <2>1. w = [version |-> w.version, key |-> w.key, wc |-> w.wc, wallet_id |-> w.wallet_id,
             address |-> w.address, chosen |-> w.chosen]
    BY <1>2 DEF IsWallet
  <2>2. e = [version |-> w.version, key |-> w.key, wc |-> w.wc, wallet_id |-> w.wallet_id,
             address |-> F!Address(w), chosen |-> w.chosen]
    BY <2>1
  <2> HIDE DEF e
  <2> QED
    BY <1>2, <1>3, <2>2 DEF IsWallet
<1> HIDE DEF e
<1>5. wallets \in Seq(F!Range(wallets)) /\ \A j \in DOMAIN wallets : IsWallet(wallets[j])
  BY DEF FactoryIInv, WalletsWell
<1>6. /\ wallets' = [j \in DOMAIN wallets |-> wallets'[j]] /\ DOMAIN wallets' = DOMAIN wallets
      /\ \A j \in DOMAIN wallets : wallets'[j] = IF j = k THEN e ELSE wallets[j]
  BY <1>1
<1>7. wallets' \in Seq(F!Range(wallets'))
  BY <1>5, <1>6, ChangedRange
<1>8. \A j \in DOMAIN wallets' : IsWallet(wallets'[j])
  BY <1>4, <1>5, <1>6
<1> QED
  BY <1>7, <1>8 DEF WalletsWell

LEMMA ReadAddressKeeps ==
    ASSUME FactoryIInv, NEW k \in DOMAIN wallets, F!ReadAddress(k) PROVE FactoryIInv'
<1>1. WalletsWell'
  BY KeptAddress DEF F!ReadAddress
<1> QED
  BY <1>1 DEF F!ReadAddress, FactoryIInv, AccountsWell, ToldWell, F!PhrasesOpen

\* The account of a wallet is made with the state its address is the hash of.
LEMMA DeployKeeps ==
    ASSUME FactoryIInv, NEW k \in DOMAIN wallets, F!Deploy(k) PROVE FactoryIInv'
<1> DEFINE w == wallets[k]
           there == F!Address(w)
<1>1. /\ F!Address(w) = F!StateAddress(w)
      /\ accounts' = [a \in DOMAIN accounts \cup {there} |->
                         IF a = there THEN F!StateInit(w) ELSE accounts[a]]
      /\ wallets' = [wallets EXCEPT ![k].address = F!Address(wallets[k])]
      /\ UNCHANGED <<range, drawn, phrases, told>>
  BY DEF F!Deploy
<1>2. WalletsWell'
  BY <1>1, KeptAddress
<1>3. IsWallet(w)
  BY DEF FactoryIInv, WalletsWell
<1>4. /\ F!StateInit(w) = [code |-> F!StateInit(w).code, data |-> F!StateInit(w).data]
      /\ F!StateInit(w).code = there.hash_part.code
      /\ F!StateInit(w).data = there.hash_part.data
      /\ {1, 2} \subseteq DOMAIN F!StateInit(w).data
  BY <1>1, <1>3, StateSays
<1> HIDE DEF there
<1>5. AccountsWell'
  BY <1>1, <1>4 DEF FactoryIInv, AccountsWell
<1> QED
  BY <1>1, <1>2, <1>5 DEF FactoryIInv, ToldWell, F!PhrasesOpen

\* The seqno is the first number of the data.
LEMMA TransferKeeps ==
    ASSUME FactoryIInv, NEW a \in DOMAIN accounts, F!Transfer(a) PROVE FactoryIInv'
<1> DEFINE data == accounts[a].data
           more == [data EXCEPT ![1] = data[1] + 1]
<1>1. /\ accounts[a] = [code |-> accounts[a].code, data |-> data]
      /\ {1, 2} \subseteq DOMAIN data
  BY DEF FactoryIInv, AccountsWell
<1>2. /\ accounts' = [accounts EXCEPT ![a] = [accounts[a] EXCEPT !.data = more]]
      /\ UNCHANGED <<range, drawn, phrases, wallets, told>>
  BY DEF F!Transfer
<1>3. DOMAIN more = DOMAIN data /\ more[2] = data[2]
  BY <1>1
<1> HIDE DEF more, data
<1>4. [accounts[a] EXCEPT !.data = more] = [code |-> accounts[a].code, data |-> more]
  BY <1>1
<1>5. /\ DOMAIN accounts' = DOMAIN accounts
      /\ accounts'[a] = [code |-> accounts[a].code, data |-> more]
      /\ \A c \in DOMAIN accounts \ {a} : accounts'[c] = accounts[c]
  BY <1>2, <1>4
<1>6. AccountsWell'
  BY <1>1, <1>3, <1>5 DEF FactoryIInv, AccountsWell, data
<1> QED
  BY <1>2, <1>6 DEF FactoryIInv, WalletsWell, ToldWell, F!PhrasesOpen

LEMMA ExtractKeeps ==
    ASSUME FactoryIInv, NEW a \in DOMAIN accounts, F!Extract(a) PROVE FactoryIInv'
<1>1. /\ accounts[a].code \in F!TableCodes /\ accounts[a].code = a.hash_part.code
      /\ F!HasWalletId(a.hash_part.code.bag) => accounts[a].data[2] = a.hash_part.data[2]
  BY DEF F!Extract, FactoryIInv, AccountsWell
<1>2. /\ told'.address = a
      /\ told'.wallet_id = IF F!HasWalletId(accounts[a].code.bag)
                           THEN [id |-> accounts[a].data[2]] ELSE F!None
      /\ UNCHANGED <<range, drawn, phrases, wallets, accounts>>
  BY DEF F!Extract
<1>3. ToldWell'
  BY <1>1, <1>2 DEF ToldWell
<1> QED
  BY <1>2, <1>3 DEF FactoryIInv, WalletsWell, AccountsWell, F!PhrasesOpen

\* The phrase that a password gives is the first basic one of those it chooses.
LEMMA PasswordOpens ==
    ASSUME NEW password \in DOMAIN PasswordPhrase
    PROVE  F!mnemonic_is_valid(F!FromPassword(password))
<1> DEFINE choices == PasswordPhrase[password]
           First(k) == /\ F!IsBasicSeed(choices[k])
                       /\ \A j \in 1 .. k - 1 : ~F!IsBasicSeed(choices[j])
           first == CHOOSE k \in DOMAIN choices : First(k)
<1>1. PICK k \in DOMAIN choices : F!mnemonic_is_valid(choices[k]) /\ First(k)
  BY PasswordAssumption DEF F!mnemonic_is_valid
<1>2. first \in DOMAIN choices /\ First(first)
  BY <1>1
<1>3. DOMAIN choices \subseteq Nat \ {0}
  BY DEF PasswordPhrase
<1> HIDE DEF first
<1>4. k = first
  <2>1. k \in Nat /\ first \in Nat /\ k >= 1 /\ first >= 1
    BY <1>1, <1>2, <1>3
  <2>2. ~(k < first) /\ ~(first < k)
    BY <1>1, <1>2, <2>1 DEF F!IsBasicSeed
  <2> QED
    BY <2>1, <2>2
<1>5. F!FromPassword(password) = choices[first]
  BY DEF F!FromPassword, first
<1> QED
  BY <1>1, <1>4, <1>5

LEMMA FactoryStep ==
    ASSUME FactoryIInv, F!Next \/ UNCHANGED factoryVars PROVE FactoryIInv'
<1>1. CASE UNCHANGED <<phrases, wallets, accounts, told>>
  BY <1>1 DEF FactoryIInv, WalletsWell, AccountsWell, ToldWell, F!PhrasesOpen
<1>2. ASSUME NEW res \in F!Bytes, F!DrawWord(res)
      PROVE  FactoryIInv'
  BY <1>1, <1>2 DEF F!DrawWord
<1>3. CASE F!DrawAgain
  BY <1>1, <1>3 DEF F!DrawAgain
<1>4. ASSUME NEW version \in Versions, NEW wc \in Workchains,
             NEW wallet_id \in WalletIds \cup {F!None}, F!Create(version, wc, wallet_id)
      PROVE  FactoryIInv'
  <2>1. F!PhrasesOpen'
    BY <1>4 DEF F!Create, F!PhrasesOpen, F!mnemonic_is_valid, FactoryIInv
  <2> QED
    BY <1>4, <2>1, OpenKeeps DEF F!Create
<1>5. ASSUME NEW version \in Versions, NEW wc \in Workchains,
             NEW wallet_id \in WalletIds \cup {F!None}, NEW password \in DOMAIN PasswordPhrase,
             F!CreateFromPassword(password, version, wc, wallet_id)
      PROVE  FactoryIInv'
  <2>1. F!PhrasesOpen'
    BY <1>5, PasswordOpens DEF F!CreateFromPassword, F!PhrasesOpen, FactoryIInv
  <2> QED
    BY <1>5, <2>1, OpenKeeps DEF F!CreateFromPassword
<1>6. ASSUME NEW version \in Versions, NEW wc \in Workchains,
             NEW wallet_id \in WalletIds \cup {F!None}, NEW phrase,
             F!FromMnemonics(phrase, version, wc, wallet_id)
      PROVE  FactoryIInv'
  <2>1. F!PhrasesOpen'
    BY <1>6 DEF F!FromMnemonics, F!PhrasesOpen, FactoryIInv
  <2> QED
    BY <1>6, <2>1, OpenKeeps DEF F!FromMnemonics
<1>7. ASSUME NEW version \in Versions, NEW wc \in Workchains,
             NEW wallet_id \in WalletIds \cup {F!None}, NEW key,
             F!FromPrivateKey(key, version, wc, wallet_id)
      PROVE  FactoryIInv'
  <2>1. F!PhrasesOpen'
    BY <1>7 DEF F!FromPrivateKey, F!PhrasesOpen, FactoryIInv
  <2> QED
    BY <1>7, <2>1, OpenKeeps DEF F!FromPrivateKey
<1>8. ASSUME NEW version \in Versions, NEW key, NEW address,
             F!FromAddress(key, version, address)
      PROVE  FactoryIInv'
  <2>1. F!PhrasesOpen'
    BY <1>8 DEF F!FromAddress, F!PhrasesOpen, FactoryIInv
  <2>2. F!None \in WalletIds \cup {F!None}
    OBVIOUS
  <2> QED
    BY <1>8, <2>1, <2>2, OpenKeeps DEF F!FromAddress
<1>9. CASE UNCHANGED factoryVars
  BY <1>1, <1>9 DEF factoryVars
<1> QED
  BY <1>2, <1>3, <1>4, <1>5, <1>6, <1>7, <1>8, <1>9, ReadAddressKeeps, DeployKeeps,
     TransferKeeps, ExtractKeeps DEF F!Next

LEMMA SameAddressFollows == ASSUME FactoryIInv PROVE F!SameAddress
<1> SUFFICES ASSUME NEW v \in F!Range(wallets), NEW w \in F!Range(wallets),
                    F!Address(v) = F!StateAddress(v), F!Address(w) = F!StateAddress(w)
             PROVE  F!Address(v) = F!Address(w) <=> F!Identity(v) = F!Identity(w)
  BY DEF F!SameAddress
<1>1. IsWallet(v) /\ IsWallet(w)
  BY DEF FactoryIInv, WalletsWell, F!Range
<1>2. F!StateAddress(v) = F!StateAddress(w)
          <=> v.wc = w.wc /\ F!StateInit(v) = F!StateInit(w)
  BY DEF F!StateAddress
<1>3. F!Identity(v) = F!Identity(w)
          <=> /\ v.version = w.version /\ v.key = w.key /\ v.wc = w.wc
              /\ v.wallet_id = w.wallet_id
  BY DEF F!Identity
<1> QED
  BY <1>1, <1>2, <1>3, SameState

LEMMA SameAtAddressFollows == ASSUME FactoryIInv PROVE F!SameAtAddress
<1> SUFFICES ASSUME NEW v \in F!Range(wallets), NEW w \in F!Range(wallets),
                    F!Address(v) = F!Address(w), v.version = w.version, v.key = w.key,
                    v.chosen = F!None, F!Address(v) = F!StateAddress(v), w.chosen = F!None
             PROVE  F!StateAddress(w) = F!Address(w)
  BY DEF F!SameAtAddress
<1>1. IsWallet(v) /\ IsWallet(w)
  BY DEF FactoryIInv, WalletsWell, F!Range
<1>2. v.wc = w.wc
  BY <1>1, AddressOf
<1>3. v.wallet_id = w.wallet_id
  BY <1>1, <1>2 DEF IsWallet
<1>4. F!StateInit(v) = F!StateInit(w)
  BY <1>1, <1>3, SameState
<1> QED
  BY <1>2, <1>4 DEF F!StateAddress

LEMMA ExtractedFollows == ASSUME FactoryIInv PROVE F!ExtractedOpens
<1> SUFFICES ASSUME told # F!None, NEW w \in F!Range(wallets),
                    F!Address(w) = told.address, F!Address(w) = F!StateAddress(w)
             PROVE  F!StateAddress(F!Wallet(w.version, w.key, told.address.wc, told.wallet_id,
                                            F!None)) = told.address
  BY DEF F!ExtractedOpens
<1> DEFINE opened == F!Wallet(w.version, w.key, told.address.wc, told.wallet_id, F!None)
<1>1. IsWallet(w)
  BY DEF FactoryIInv, WalletsWell, F!Range
<1>2. /\ told.address.wc = w.wc /\ told.address.hash_part = F!StateInit(w)
      /\ told.address.hash_part.code = F!Code(w.version)
      /\ told.address.hash_part.data = F!DataCell(w)
  BY <1>1, StateSays
<1>3. w.version # "hv2" /\ told.wallet_id = IF F!HasWalletId(w.version)
                                            THEN [id |-> F!DataCell(w)[2]] ELSE F!None
  BY <1>1, <1>2, StateSays DEF FactoryIInv, ToldWell
<1>4. told.wallet_id = w.wallet_id
  BY <1>1, <1>3, StateSays, WalletIdOf
<1>5. /\ opened.version = w.version /\ opened.key = w.key /\ opened.wc = w.wc
      /\ opened.wallet_id = F!WalletId(w.version, w.wc, told.wallet_id)
  BY <1>2 DEF F!Wallet
<1>6. opened.wallet_id = w.wallet_id
  <2> HIDE DEF opened
  <2>1. CASE F!HasWalletId(w.version)
    <3>1. w.wallet_id # F!None
      BY <1>1, <2>1, WalletIdOf, IdsAre
    <3> QED
      BY <1>4, <1>5, <2>1, <3>1 DEF F!WalletId
  <2>2. CASE ~F!HasWalletId(w.version)
    <3>1. w.wallet_id = F!None
      BY <1>1, <2>2, WalletIdOf
    <3>2. F!WalletId(w.version, w.wc, told.wallet_id) = F!None
      BY <2>2 DEF F!WalletId
    <3> QED
      BY <1>5, <3>1, <3>2
  <2> QED
    BY <2>1, <2>2
<1> HIDE DEF opened
<1>7. F!StateInit(opened) = F!StateInit(w) /\ F!StateAddress(opened) = F!StateAddress(w)
  BY <1>5, <1>6 DEF F!StateAddress, F!StateInit, F!DataCell
<1> QED
  BY <1>7 DEF opened

LEMMA FactoryFollows == ASSUME FactoryIInv PROVE F!FoundAgain
<1>1. F!GivenIdKept
  <2> SUFFICES ASSUME NEW w \in F!Range(wallets), F!HasWalletId(w.version), w.chosen # F!None
               PROVE  w.wallet_id = w.chosen
    BY DEF F!GivenIdKept
  <2>1. IsWallet(w)
    BY DEF FactoryIInv, WalletsWell, F!Range
  <2>2. w.wallet_id = F!WalletId(w.version, w.wc, w.chosen)
    BY <2>1 DEF IsWallet
  <2> QED
    BY <2>2 DEF F!WalletId
<1> QED
  BY <1>1, SameAddressFollows, SameAtAddressFollows, ExtractedFollows
     DEF FactoryIInv, F!FoundAgain

-----------------------------------------------------------------------------
(* Words are drawn evenly                                                  *)

\* Words so far are of the list, which is one of those asked for.
DrawnInv == range \in {English} \cup Ranges /\ drawn \in Seq(0 .. range - 1)

\* The bits that are needed are there, and so are the bytes for them.
LEMMA BitsEnough ==
    ASSUME range \in Nat \ {0}
    PROVE  F!BitsNeeded \in Nat /\ range <= Power(F!BitsNeeded)
<1> DEFINE T == {b \in 0 .. range : range <= Power(b)}
           Is(b) == range <= 2 ^ b /\ (b = 0 \/ 2 ^ (b - 1) < range)
<1>1. T \in SUBSET Nat
  OBVIOUS
<1>2. range \in T
  <2>1. range \in Nat /\ Power(range) \in Nat /\ Power(range) >= range + 1
    BY Powers
  <2> QED
    BY <2>1
<1>3. PICK b \in T : \A c \in T : b <= c
  BY <1>1, <1>2, Least, Zenon
<1>4. b = 0 \/ Power(b - 1) < range
  <2>1. SUFFICES ASSUME b # 0 PROVE Power(b - 1) < range
    OBVIOUS
  <2>2. b - 1 \in 0 .. range /\ ~(b <= b - 1)
    BY <2>1
  <2>3. Power(b - 1) \in Nat
    BY <2>2, Powers
  <2> QED
    BY <1>3, <2>2, <2>3
<1>5. b \in 0 .. range /\ Is(b)
  BY <1>3, <1>4 DEF Power
<1>6. F!BitsNeeded = CHOOSE c \in 0 .. range : Is(c)
  BY DEF F!BitsNeeded
<1> HIDE DEF Is
<1>7. F!BitsNeeded \in 0 .. range /\ Is(F!BitsNeeded)
  BY <1>5, <1>6, Zenon
<1> QED
  BY <1>7 DEF Is, Power

LEMMA BytesEnough ==
    ASSUME range \in Nat \ {0}
    PROVE  F!BytesNeeded \in Nat /\ F!BitsNeeded <= ByteBits * F!BytesNeeded
<1> DEFINE bits == F!BitsNeeded
           bytes == F!BytesNeeded
           m == bits + ByteBits - 1
<1>1. bits \in Nat /\ ByteBits \in Nat \ {0}
  BY BitsEnough, RangesAssumption
<1>2. bytes = m \div ByteBits
  BY DEF F!BytesNeeded
<1> HIDE DEF bits, bytes
<1>3. m \in Nat /\ m \div ByteBits \in Nat
  BY <1>1
<1>4. bytes \in Nat /\ m < ByteBits * bytes + ByteBits
  BY <1>1, <1>2, <1>3, Quotient
<1>5. ByteBits * bytes \in Nat
  BY <1>1, <1>4
<1>6. bits <= ByteBits * bytes
  BY <1>1, <1>4, <1>5
<1> QED
  BY <1>4, <1>6 DEF bits, bytes

\* The number of some bytes, of whose bits as many as are needed are taken.
LEMMA NumberIs ==
    ASSUME range \in Nat \ {0}
    PROVE  \E val : /\ Numbers(val, Power(ByteBits), F!BytesNeeded)
                    /\ \A res \in F!Bytes : F!Number(res) = val[res] % Power(F!BitsNeeded)
<1> DEFINE w == F!BytesNeeded
           base == Power(ByteBits)
           Value(s) == CHOOSE f : f = [i \in 0 .. w |-> IF i = 0 THEN 0 ELSE 2 ^ ByteBits * f[i - 1] + s[i]]
           val == [s \in F!Bytes |-> Value(s)[w]]
<1>1. F!Bytes = [1 .. w -> 0 .. base - 1]
  BY DEF F!Bytes, Power
<1>2. ASSUME NEW s PROVE IsValue(Value(s), base, s, w)
  <2>1. w \in Nat
    BY BytesEnough
  <2>2. \E f : IsValue(f, base, s, w)
    BY <2>1, ValueThere
  <2>3. \E f : f = [i \in 0 .. w |-> IF i = 0 THEN 0 ELSE 2 ^ ByteBits * f[i - 1] + s[i]]
    BY <2>2 DEF IsValue, Power
  <2>4. Value(s) = [i \in 0 .. w |-> IF i = 0 THEN 0 ELSE 2 ^ ByteBits * Value(s)[i - 1] + s[i]]
    BY <2>3
  <2> QED
    BY <2>4 DEF IsValue, Power
<1>3. \A res \in F!Bytes : F!Number(res) = Value(res)[w] % Power(F!BitsNeeded)
  BY DEF F!Number, Power
<1> HIDE DEF Value
<1>4. Numbers(val, base, w)
  <2>1. \A s \in F!Bytes : IsValue(Value(s), base, s, w) /\ val[s] = Value(s)[w]
    BY <1>2
  <2> HIDE DEF val, base, w
  <2>2. \A s \in F!Bytes : \E f : IsValue(f, base, s, w) /\ val[s] = f[w]
    BY <2>1
  <2> QED
    BY <1>1, <2>2 DEF Numbers
<1>5. \A res \in F!Bytes : F!Number(res) = val[res] % Power(F!BitsNeeded)
  BY <1>3
<1> QED
  BY <1>4, <1>5

\* Each number below the bits' bound comes of as many bytes, of those the bits
\* that are not taken give.
LEMMA WaysAreMany ==
    ASSUME range \in Nat \ {0}, NEW n \in 0 .. range - 1
    PROVE  /\ Power(ByteBits * F!BytesNeeded - F!BitsNeeded) > 0
           /\ Cardinality({res \in F!Bytes : F!Number(res) = n})
                = Power(ByteBits * F!BytesNeeded - F!BitsNeeded)
<1> DEFINE w == F!BytesNeeded
           base == Power(ByteBits)
           m == Power(F!BitsNeeded)
           spare == ByteBits * w - F!BitsNeeded
           r == Power(spare)
           bound == [i \in 0 .. w |-> Power(ByteBits * i)]
<1>1. w \in Nat /\ spare \in Nat /\ F!BitsNeeded \in Nat /\ ByteBits \in Nat /\ range <= m
  BY BitsEnough, BytesEnough, RangesAssumption
<1>2. PICK val : /\ Numbers(val, base, w)
                 /\ \A res \in F!Bytes : F!Number(res) = val[res] % m
  BY NumberIs
<1>3. F!Bytes = [1 .. w -> 0 .. base - 1]
  BY DEF F!Bytes, Power
<1>4. base \in Nat \ {0} /\ m \in Nat \ {0} /\ r \in Nat /\ r > 0
  <2>1. \A k \in Nat : Power(k) \in Nat /\ Power(k) >= k + 1
    BY Powers
  <2> HIDE DEF spare
  <2> QED
    BY <1>1, <2>1
<1>5. IsBound(bound, base, w)
  <2>1. bound[0] = 1
    BY <1>1, Powers
  <2>2. ASSUME NEW i \in 1 .. w PROVE bound[i] \in Nat /\ bound[i] = base * bound[i - 1]
    <3>1. ByteBits * (i - 1) \in Nat /\ ByteBits * i = ByteBits + ByteBits * (i - 1)
      BY <1>1
    <3>2. Power(ByteBits * i) = base * Power(ByteBits * (i - 1))
      BY <1>1, <3>1, PowerSum
    <3>3. ByteBits * i \in Nat
      BY <1>1
    <3>4. Power(ByteBits * i) \in Nat
      BY <3>3, Powers
    <3>5. i \in 0 .. w /\ i - 1 \in 0 .. w
      <4> HIDE DEF w
      <4> QED
        BY <1>1
    <3> QED
      BY <3>2, <3>4, <3>5
  <2> HIDE DEF bound, base
  <2> QED
    BY <2>1, <2>2 DEF IsBound
<1>6. bound[w] = m * r
  <2>1. ByteBits * w = F!BitsNeeded + spare
    BY <1>1
  <2>2. Power(ByteBits * w) = m * r
    <3> HIDE DEF spare
    <3> QED
      BY <1>1, <2>1, PowerSum
  <2> QED
    BY <1>1, <2>2
<1>7. n \in 0 .. m - 1
  BY <1>1, <1>4
<1>8. {res \in F!Bytes : F!Number(res) = n} = Leaving(val, base, w, m, n)
  BY <1>2, <1>3 DEF Leaving
<1> HIDE DEF w, base, m, r, bound
<1>9. Cardinality(Leaving(val, base, w, m, n)) = r
  <2>1. Numbers(val, base, w)
    BY <1>2
  <2>2. w \in Nat /\ r \in Nat
    BY <1>1, <1>4
  <2> QED
    BY <1>4, <1>5, <1>6, <1>7, <2>1, <2>2, EvenRemainders
<1> QED
  BY <1>4, <1>8, <1>9 DEF r, spare, w

LEMMA DrawnFollows == ASSUME DrawnInv PROVE F!DrawnEvenly
<1>1. range \in Nat \ {0}
  BY RangesAssumption DEF DrawnInv
<1> DEFINE ways == [n \in 0 .. range - 1 |-> Cardinality({res \in F!Bytes : F!Number(res) = n})]
           r == Power(ByteBits * F!BytesNeeded - F!BitsNeeded)
<1>2. \A n \in 0 .. range - 1 : ways[n] = r /\ r > 0
  BY <1>1, WaysAreMany
<1>3. 0 \in 0 .. range - 1 /\ DOMAIN ways = 0 .. range - 1
  BY <1>1
<1>4. drawn \in Seq(DOMAIN ways) /\ \A n \in DOMAIN ways : ways[n] = ways[0] /\ ways[n] > 0
  <2> HIDE DEF ways, r
  <2> QED
    BY <1>2, <1>3 DEF DrawnInv
<1>5. \A S : F!Cardinality(S) = Cardinality(S)
  BY DEF F!Cardinality, Cardinality
<1>6. ways = [n \in 0 .. range - 1 |-> F!Cardinality({res \in F!Bytes : F!Number(res) = n})]
  BY <1>5
<1> QED
  BY <1>4, <1>6, Zenon DEF F!DrawnEvenly

LEMMA DrawnStep == ASSUME DrawnInv, [F!Next]_factoryVars PROVE DrawnInv'
<1>1. range' = range
  BY DEF F!Next, F!DrawWord, F!DrawAgain, F!Create, F!CreateFromPassword, F!FromMnemonics,
         F!FromPrivateKey, F!FromAddress, F!ReadAddress, F!Deploy, F!Transfer, F!Extract,
         factoryVars
<1>2. CASE drawn' = drawn \/ drawn' = << >>
  <2>1. drawn \in Seq(0 .. range - 1) /\ << >> \in Seq(0 .. range - 1)
    BY DEF DrawnInv
  <2>2. drawn' \in Seq(0 .. range - 1)
    BY <1>2, <2>1
  <2> QED
    BY <1>1, <2>2 DEF DrawnInv
<1>3. CASE \E res \in F!Bytes : F!DrawWord(res)
  <2>1. PICK res \in F!Bytes : F!DrawWord(res)
    BY <1>3
  <2>2. F!Number(res) \in 0 .. range - 1
    <3>1. range \in Nat \ {0}
      BY RangesAssumption DEF DrawnInv
    <3> DEFINE w == F!BytesNeeded
               m == Power(F!BitsNeeded)
               base == Power(ByteBits)
    <3>2. PICK val : /\ Numbers(val, base, w)
                     /\ \A s \in F!Bytes : F!Number(s) = val[s] % m
      BY <3>1, NumberIs
    <3>3. F!Bytes = [1 .. w -> 0 .. base - 1]
      BY DEF F!Bytes, Power
    <3>4. PICK f : IsValue(f, base, res, w) /\ val[res] = f[w]
      BY <3>2, <3>3 DEF Numbers
    <3>5. w \in Nat /\ base \in Nat /\ m \in Nat \ {0}
      <4>1. \A k \in Nat : Power(k) \in Nat /\ Power(k) >= k + 1
        BY Powers
      <4> QED
        BY <3>1, <4>1, BitsEnough, BytesEnough, RangesAssumption
    <3>6. \A i \in 1 .. w : res[i] \in Nat
      BY <3>3, <3>5
    <3> HIDE DEF w, base, m
    <3>7. f[w] \in Nat
      <4>1. \A i \in 0 .. w : f[i] \in Nat
        BY <3>4, <3>5, <3>6, ValueSteps
      <4> QED
        BY <3>5, <4>1
    <3>8. F!Number(res) \in Nat
      BY <3>2, <3>4, <3>5, <3>7
    <3> QED
      BY <2>1, <3>1, <3>8 DEF F!DrawWord
  <2>3. drawn' = Append(drawn, F!Number(res))
    BY <2>1 DEF F!DrawWord
  <2> QED
    BY <1>1, <2>2, <2>3 DEF DrawnInv
<1> QED
  BY <1>2, <1>3 DEF F!Next, F!DrawAgain, F!Create, F!CreateFromPassword, F!FromMnemonics,
         F!FromPrivateKey, F!FromAddress, F!ReadAddress, F!Deploy, F!Transfer, F!Extract,
         factoryVars

-----------------------------------------------------------------------------
(* Amounts                                                                 *)

AmountNumbers == [coef : Int, point : Nat, exponent : Int, tiny : {-1, 0, 1}]

\* The powers of ten, each ten times the one before.
LEMMA TensAre ==
    /\ M!Tens(0) = 1
    /\ \A n \in Nat : /\ M!Tens(n) \in Nat /\ M!Tens(n) > n
                      /\ M!Tens(n + 1) = 10 * M!Tens(n)
<1> DEFINE Is(f, n) == f = [k \in 0 .. n |-> IF k = 0 THEN 1 ELSE 10 * f[k - 1]]
           Ten(n) == CHOOSE f : Is(f, n)
<1>1. \A n : M!Tens(n) = Ten(n)[n]
  BY DEF M!Tens
<1>2. ASSUME NEW n \in Nat PROVE IsTens(Ten(n), n)
  <2>1. \E f : IsTens(f, n)
    BY TensThere
  <2>2. \E f : Is(f, n)
    BY <2>1 DEF IsTens
  <2> HIDE DEF Is
  <2>3. Is(Ten(n), n)
    BY <2>2
  <2> QED
    BY <2>3 DEF Is, IsTens
<1> HIDE DEF Ten
<1>3. M!Tens(0) = 1
  BY <1>1, <1>2, TensSteps
<1>4. ASSUME NEW n \in Nat
      PROVE  M!Tens(n) \in Nat /\ M!Tens(n) > n /\ M!Tens(n + 1) = 10 * M!Tens(n)
  <2>1. n + 1 \in Nat /\ n <= n + 1 /\ n + 1 \in 1 .. n + 1 /\ (n + 1) - 1 = n /\ n \in 0 .. n
    OBVIOUS
  <2>2. IsTens(Ten(n), n) /\ IsTens(Ten(n + 1), n + 1)
    BY <1>2, <2>1
  <2>3. Ten(n)[n] \in Nat /\ Ten(n)[n] > n
    BY <2>1, <2>2, TensSteps
  <2>4. Ten(n + 1)[n + 1] = 10 * Ten(n + 1)[n]
    <3> DEFINE g == Ten(n + 1)
               m == n + 1
    <3>1. IsTens(g, m) /\ m \in Nat /\ m \in 1 .. m /\ m - 1 = n
      BY <2>1, <2>2
    <3> HIDE DEF g, m
    <3>2. g[m] = 10 * g[m - 1]
      BY <3>1, TensSteps
    <3>3. g[m] = 10 * g[n]
      BY <3>1, <3>2
    <3> QED
      BY <3>3 DEF g, m
  <2>5. Ten(n)[n] = Ten(n + 1)[n]
    BY <2>1, <2>2, TensSame
  <2> QED
    BY <1>1, <2>3, <2>4, <2>5
<1> QED
  BY <1>3, <1>4

LEMMA TensRise ==
    ASSUME NEW m \in Nat, NEW n \in Nat, m <= n
    PROVE  M!Tens(m) <= M!Tens(n)
<1> DEFINE T == {k \in Nat : m <= k /\ ~(M!Tens(m) <= M!Tens(k))}
<1>1. T = {}
  <2> SUFFICES ASSUME T # {} PROVE FALSE
    OBVIOUS
  <2>1. PICK k \in T : \A j \in T : k <= j
    BY Least
  <2>2. k # m
    BY <2>1, TensAre
  <2>3. k - 1 \in Nat /\ m <= k - 1 /\ ~(k <= k - 1) /\ (k - 1) + 1 = k
    BY <2>1, <2>2
  <2>4. M!Tens(m) <= M!Tens(k - 1)
    BY <2>1, <2>3
  <2>5. M!Tens(k) = 10 * M!Tens(k - 1) /\ M!Tens(k - 1) \in Nat /\ M!Tens(m) \in Nat
    BY <2>3, TensAre
  <2> QED
    BY <2>1, <2>4, <2>5
<1> QED
  BY <1>1

\* A number other than zero is at least a one with as many zeros as there are digits
\* behind the first.
LEMMA DigitsAre ==
    ASSUME NEW c \in Int, c # 0
    PROVE  /\ M!DigitsOf(c) \in Nat \ {0}
           /\ M!Tens(M!DigitsOf(c) - 1) <= M!Size(c) /\ M!Size(c) < M!Tens(M!DigitsOf(c))
<1> DEFINE size == M!Size(c)
           Is(d) == M!Tens(d - 1) <= size /\ size < M!Tens(d)
           T == {d \in Nat : size < M!Tens(d)}
<1>1. size \in Nat \ {0}
  BY DEF M!Size
<1>2. M!DigitsOf(c) = CHOOSE d \in 1 .. size : Is(d)
  BY DEF M!DigitsOf
<1> HIDE DEF size
<1>3. size \in T
  BY <1>1, TensAre
<1>4. PICK d \in T : \A e \in T : d <= e
  BY <1>3, Least
<1>5. d # 0
  BY <1>1, <1>4, TensAre
<1>6. d - 1 \in Nat /\ ~(d <= d - 1) /\ d <= size /\ d \in 1 .. size
  BY <1>1, <1>3, <1>4, <1>5
<1>7. M!Tens(d - 1) <= size
  <2>1. d - 1 \notin T
    BY <1>4, <1>6
  <2>2. M!Tens(d - 1) \in Nat
    BY <1>6, TensAre
  <2> QED
    BY <1>1, <1>6, <2>1, <2>2
<1>8. Is(d)
  BY <1>4, <1>7
<1> HIDE DEF Is
<1>9. M!DigitsOf(c) \in 1 .. size /\ Is(M!DigitsOf(c))
  BY <1>2, <1>6, <1>8, Zenon
<1> QED
  BY <1>1, <1>9 DEF Is, size

LEMMA FewDigits ==
    ASSUME NEW c \in Nat \ {0}, NEW p \in Nat, c < M!Tens(p)
    PROVE  M!DigitsOf(c) <= p
<1> DEFINE d == M!DigitsOf(c)
<1>1. d \in Nat \ {0} /\ M!Tens(d - 1) <= c
  BY DigitsAre DEF M!Size
<1> HIDE DEF d
<1>2. SUFFICES ASSUME ~(d <= p) PROVE FALSE
  BY DEF d
<1>3. d - 1 \in Nat /\ p <= d - 1
  BY <1>1, <1>2
<1>4. M!Tens(p) <= M!Tens(d - 1) /\ M!Tens(p) \in Nat /\ M!Tens(d - 1) \in Nat
  BY <1>3, TensRise, TensAre
<1> QED
  BY <1>1, <1>4

\* What lies within the bound when rounded; so does the number itself.
LEMMA AmountsFit ==
    ASSUME NEW x, x.coef \in Nat, x.exp \in Int, x.tiny = 0
    PROVE  /\ M!Floor(x) \in Nat
           /\ ~M!IsTooLarge(x) => M!Floor(x) <= MaxVal
<1>1. M!Floor(x) = IF x.exp >= 0 THEN x.coef * M!Tens(x.exp) ELSE x.coef \div M!Tens(-x.exp)
  BY DEF M!Floor
<1>2. M!Floor(x) \in Nat
  <2>1. CASE x.exp >= 0
    <3>1. x.exp \in Nat
      BY <2>1
    <3>2. M!Tens(x.exp) \in Nat
      BY <3>1, TensAre
    <3> QED
      BY <1>1, <2>1, <3>2
  <2>2. CASE ~(x.exp >= 0)
    <3>1. -x.exp \in Nat
      BY <2>2
    <3> DEFINE t == M!Tens(-x.exp)
    <3>2. t \in Nat \ {0}
      BY <3>1, TensAre
    <3>3. M!Floor(x) = x.coef \div t
      BY <1>1, <2>2
    <3> HIDE DEF t
    <3> QED
      BY <3>2, <3>3
  <2> QED
    BY <2>1, <2>2
<1>3. ~M!IsTooLarge(x) => ~(M!Floor(x) > MaxVal)
  BY DEF M!IsTooLarge
<1> QED
  BY <1>2, <1>3, AmountAssumption

\* Rounding leaves no more than the number had, and all of it if it has few digits.
LEMMA Rounded ==
    ASSUME NEW x \in [coef : Nat \ {0}, exp : Int, tiny : {-1, 0, 1}], NEW prec \in Nat
    PROVE  /\ M!Round(x, prec) \in [coef : Nat, exp : Int, tiny : {0}]
           /\ M!DigitsOf(x.coef) <= prec => M!Round(x, prec) = [x EXCEPT !.tiny = 0]
<1> DEFINE drop == M!DigitsOf(x.coef) - prec
           quot == x.coef \div M!Tens(drop)
           r == x.coef % M!Tens(drop)
           half == 5 * M!Tens(drop - 1)
           up == r > half \/ (r = half /\ (x.tiny > 0 \/ (x.tiny = 0 /\ quot % 2 = 1)))
           new == IF up THEN quot + 1 ELSE quot
<1>1. x.coef \in Nat \ {0} /\ x.exp \in Int /\ M!DigitsOf(x.coef) \in Nat /\ drop \in Int
  BY DigitsAre
<1>2. M!Round(x, prec) = IF drop <= 0 THEN [x EXCEPT !.tiny = 0]
                         ELSE [coef |-> new, exp |-> x.exp + drop, tiny |-> 0]
  BY DEF M!Round
<1>3. CASE drop <= 0
  <2>1. M!Round(x, prec) = [x EXCEPT !.tiny = 0]
    BY <1>2, <1>3
  <2> QED
    BY <1>1, <2>1
<1>4. CASE ~(drop <= 0)
  <2>1. drop \in Nat
    BY <1>1, <1>4
  <2>2. M!Tens(drop) \in Nat \ {0}
    <3> HIDE DEF drop
    <3> QED
      BY <2>1, TensAre
  <2>3. quot \in Nat
    <3> DEFINE t == M!Tens(drop)
    <3> HIDE DEF t
    <3>1. t \in Nat \ {0}
      BY <2>2 DEF t
    <3>2. x.coef \div t \in Nat
      BY <1>1, <3>1
    <3> QED
      BY <3>2 DEF t
  <2> HIDE DEF quot, up
  <2>4. new \in Nat
    BY <2>3
  <2> HIDE DEF new
  <2>5. M!Round(x, prec) = [coef |-> new, exp |-> x.exp + drop, tiny |-> 0]
    BY <1>2, <1>4
  <2>6. ~(M!DigitsOf(x.coef) <= prec)
    BY <1>1, <1>4
  <2> HIDE DEF drop
  <2> QED
    BY <1>1, <2>1, <2>4, <2>5, <2>6
<1> QED
  BY <1>3, <1>4

\* The characters behind the point that are multiplied away are no fewer than the
\* digits of a number below one, if it has one digit at most in front of the point.
LEMMA PrecisionEnough ==
    ASSUME NEW n \in AmountNumbers, n.coef \in Nat \ {0}, n.point > 0, M!IsNormal(n),
           M!IsBelowOne(M!Said(n))
    PROVE  M!DigitsOf(n.coef) <= M!BehindPoint(n)
<1>1. n.coef \in Nat \ {0} /\ n.point \in Nat /\ n.exponent \in Int
  BY DEF AmountNumbers
<1>2. CASE n.exponent = 0
  <2>1. M!BehindPoint(n) = n.point
    BY <1>1, <1>2 DEF M!BehindPoint
  <2>2. M!Said(n).exp = -n.point /\ M!Said(n).coef = n.coef
    BY <1>1, <1>2 DEF M!Said
  <2>3. n.coef < M!Tens(n.point)
    <3>1. -M!Said(n).exp = n.point
      BY <1>1, <2>2
    <3> QED
      BY <2>2, <3>1 DEF M!IsBelowOne
  <2> QED
    BY <1>1, <2>1, <2>3, FewDigits
<1>3. CASE n.exponent # 0
  <2>1. M!DigitsOf(n.coef) <= n.point + 1 /\ M!DigitsOf(n.coef) \in Nat
    BY <1>1, <1>3, DigitsAre DEF M!IsNormal
  <2>2. M!DigitsOf(n.exponent) \in Nat \ {0}
    BY <1>1, <1>3, DigitsAre
  <2>3. M!BehindPoint(n) = n.point + (2 + M!DigitsOf(n.exponent))
    BY <1>3 DEF M!BehindPoint
  <2> QED
    BY <1>1, <2>1, <2>2, <2>3
<1> QED
  BY <1>2, <1>3

\* to_nano of any number: an amount, the exact one if the number is normal.
LEMMA ToNanoIs ==
    ASSUME NEW n \in AmountNumbers, NEW d \in Nat
    PROVE  /\ M!ToNano(n, d) \in 0 .. MaxVal \cup {M!Raised}
           /\ M!IsNormal(n) => M!ToNano(n, d) = M!Exact(n, d)
<1> DEFINE m == M!BehindPoint(n)
           said == M!Said(n)
           float == [coef |-> n.coef, exp |-> said.exp + m, tiny |-> n.tiny]
           below == M!IsBelowOne(said) /\ n.point > 0
           plain == [said EXCEPT !.exp = @ + d]
           rounded == [M!Round(float, m) EXCEPT !.exp = @ + d - m]
           result == IF below THEN rounded ELSE plain
<1>1. n.coef \in Int /\ n.point \in Nat /\ n.exponent \in Int /\ n.tiny \in {-1, 0, 1}
  BY DEF AmountNumbers
<1>2. M!ToNano(n, d) = IF n.coef = 0 THEN 0
                       ELSE IF n.coef < 0 \/ M!IsTooLarge(result) THEN M!Raised
                       ELSE M!Floor(result)
  BY DEF M!ToNano
<1>3. M!Exact(n, d) = IF n.coef = 0 THEN 0
                      ELSE IF n.coef < 0 \/ M!IsTooLarge(plain) THEN M!Raised
                      ELSE M!Floor(plain)
  BY DEF M!Exact
<1>4. MaxVal \in Nat
  BY AmountAssumption
<1>5. CASE n.coef <= 0
  <2>1. M!ToNano(n, d) = M!Exact(n, d) /\ M!ToNano(n, d) \in {0, M!Raised}
    <3> HIDE DEF result, plain
    <3> QED
      BY <1>1, <1>2, <1>3, <1>5
  <2> QED
    BY <1>4, <2>1
<1>6. CASE n.coef > 0
  <2>1. n.coef \in Nat \ {0}
    BY <1>1, <1>6
  <2>2. m \in Nat
    <3>1. n.exponent # 0 => M!DigitsOf(n.exponent) \in Nat
      BY <1>1, DigitsAre
    <3> QED
      BY <1>1, <3>1 DEF M!BehindPoint
  <2>3. said = [coef |-> n.coef, exp |-> n.exponent - n.point, tiny |-> 0]
    BY DEF M!Said
  <2> DEFINE e == n.exponent - n.point
  <2>4. e \in Int
    BY <1>1
  <2> HIDE DEF m, e
  <2>5. said = [coef |-> n.coef, exp |-> e, tiny |-> 0]
    BY <2>3 DEF e
  <2> HIDE DEF said
  <2>6. float = [coef |-> n.coef, exp |-> e + m, tiny |-> n.tiny]
    BY <2>5
  <2>7. plain = [coef |-> n.coef, exp |-> e + d, tiny |-> 0]
    BY <2>5
  <2> HIDE DEF plain, float
  <2>8. float \in [coef : Nat \ {0}, exp : Int, tiny : {-1, 0, 1}]
    BY <1>1, <2>1, <2>2, <2>4, <2>6
  <2>9. /\ M!Round(float, m) \in [coef : Nat, exp : Int, tiny : {0}]
        /\ M!DigitsOf(n.coef) <= m => M!Round(float, m) = [float EXCEPT !.tiny = 0]
    BY <2>2, <2>6, <2>8, Rounded
  <2>10. rounded.coef \in Nat /\ rounded.exp \in Int /\ rounded.tiny = 0
    <3> DEFINE y == M!Round(float, m)
    <3>1. y \in [coef : Nat, exp : Int, tiny : {0}]
      BY <2>9
    <3> HIDE DEF y
    <3> DEFINE z == [y EXCEPT !.exp = @ + d - m]
    <3>2. z \in [coef : Nat, exp : Int, tiny : {0}]
      BY <2>2, <3>1
    <3>3. z = rounded
      BY DEF y
    <3> HIDE DEF z, rounded
    <3> QED
      BY <3>2, <3>3
  <2>11. M!IsNormal(n) /\ below => rounded = plain
    <3> SUFFICES ASSUME M!IsNormal(n), below PROVE rounded = plain
      OBVIOUS
    <3>1. M!DigitsOf(n.coef) <= m
      BY <2>1, PrecisionEnough DEF m, said
    <3>2. M!Round(float, m) = [coef |-> n.coef, exp |-> e + m, tiny |-> 0]
      BY <2>6, <2>9, <3>1
    <3>3. e + m + d - m = e + d
      BY <2>2, <2>4
    <3> QED
      BY <2>7, <3>2, <3>3
  <2>12. plain.coef \in Nat /\ plain.exp \in Int /\ plain.tiny = 0
    BY <2>1, <2>4, <2>7
  <2> HIDE DEF rounded, below
  <2>13. result.coef \in Nat /\ result.exp \in Int /\ result.tiny = 0
    BY <2>10, <2>12
  <2>14. M!IsNormal(n) => result = plain
    BY <2>11
  <2> HIDE DEF result
  <2>15. M!Floor(result) \in Nat /\ (~M!IsTooLarge(result) => M!Floor(result) <= MaxVal)
    BY <2>13, AmountsFit
  <2> QED
    BY <1>2, <1>3, <1>4, <2>14, <2>15
<1> QED
  BY <1>1, <1>5, <1>6

\* from_nano of an amount says the amount.
LEMMA FromNanoIs ==
    ASSUME NEW a \in 0 .. MaxVal, NEW d \in Nat
    PROVE  /\ M!FromNano(a, d) \in AmountNumbers
           /\ M!Exact(M!FromNano(a, d), d) = a
<1> DEFINE Is(z) == a % M!Tens(z) = 0 /\ (z = d \/ a % M!Tens(z + 1) # 0)
           zeros == CHOOSE z \in 0 .. d : Is(z)
           coef == a \div M!Tens(zeros)
           digits == M!DigitsOf(coef)
           first == digits - 1 + zeros - d
           n == M!FromNano(a, d)
<1>1. a \in Nat /\ MaxVal \in Nat /\ a <= MaxVal
  BY AmountAssumption
<1>2. CASE a = 0
  <2>1. n = [coef |-> 0, point |-> 0, exponent |-> 0, tiny |-> 0]
    BY <1>2 DEF M!FromNano
  <2> HIDE DEF n
  <2>2. n.coef = 0 /\ n \in AmountNumbers
    BY <2>1 DEF AmountNumbers
  <2>3. M!Exact(n, d) = 0
    BY <2>2 DEF M!Exact
  <2> QED
    BY <1>2, <2>2, <2>3 DEF n
<1>3. CASE a # 0
  <2>1. \E z \in 0 .. d : Is(z)
    <3> DEFINE T == {z \in Nat : z = d \/ a % M!Tens(z + 1) # 0}
    <3>1. d \in T /\ T \in SUBSET Nat
      OBVIOUS
    <3>2. PICK z \in T : \A y \in T : z <= y
      BY <3>1, Least, Zenon
    <3>3. z \in 0 .. d
      BY <3>1, <3>2
    <3>4. a % M!Tens(z) = 0
      <4>1. CASE z = 0
        <5>1. M!Tens(z) = 1
          BY <4>1, TensAre
        <5> DEFINE t == M!Tens(z)
        <5> HIDE DEF t
        <5>2. a % t = 0
          BY <1>1, <5>1 DEF t
        <5> QED
          BY <5>2 DEF t
      <4>2. CASE z # 0
        <5>1. z - 1 \in Nat /\ ~(z <= z - 1) /\ (z - 1) + 1 = z
          BY <3>3, <4>2
        <5>2. z - 1 \notin T
          BY <3>2, <5>1
        <5> QED
          BY <5>1, <5>2
      <4> QED
        BY <4>1, <4>2
    <3>5. z = d \/ a % M!Tens(z + 1) # 0
      BY <3>2
    <3> QED
      BY <3>3, <3>4, <3>5
  <2>2. n = IF first >= -Plain
            THEN [coef |-> coef, point |-> d - zeros, exponent |-> 0, tiny |-> 0]
            ELSE [coef |-> coef, point |-> digits - 1, exponent |-> first, tiny |-> 0]
    BY <1>3 DEF M!FromNano
  <2> HIDE DEF Is
  <2>3. zeros \in 0 .. d /\ Is(zeros)
    BY <2>1
  <2> HIDE DEF zeros
  <2> DEFINE t == M!Tens(zeros)
  <2>4. t \in Nat \ {0} /\ a % t = 0 /\ coef = a \div t
    BY <2>3, TensAre DEF Is
  <2> HIDE DEF t
  <2>5. a = t * (a \div t) + (a % t) /\ a \div t \in Nat
    BY <1>1, <2>4
  <2> DEFINE c == a \div t
  <2>6. c \in Nat \ {0} /\ c * t = a /\ coef = c
    <3>1. coef = c
      BY <2>4
    <3> HIDE DEF coef
    <3>2. c \in Nat /\ a = t * c + (a % t)
      BY <2>5
    <3> HIDE DEF c
    <3>3. a = t * c
      BY <2>4, <3>2
    <3> QED
      BY <1>3, <2>4, <3>1, <3>2, <3>3
  <2> HIDE DEF c, coef
  <2>7. digits \in Nat \ {0}
    BY <2>6, DigitsAre
  <2> HIDE DEF digits
  <2>8. first \in Int /\ d - zeros \in Nat /\ digits - 1 \in Nat
    BY <2>3, <2>7
  <2>9. n \in AmountNumbers /\ n.coef = c /\ n.exponent - n.point = zeros - d
    <3>1. first - (digits - 1) = zeros - d /\ 0 - (d - zeros) = zeros - d
      BY <2>3, <2>7
    <3> HIDE DEF n, first
    <3> QED
      BY <2>2, <2>6, <2>8, <3>1 DEF AmountNumbers
  <2> HIDE DEF n, first
  <2> DEFINE x == [M!Said(n) EXCEPT !.exp = @ + d]
  <2>10. x = [coef |-> c, exp |-> zeros, tiny |-> 0]
    <3>1. M!Said(n) = [coef |-> c, exp |-> zeros - d, tiny |-> 0]
      BY <2>9 DEF M!Said
    <3>2. zeros - d + d = zeros
      BY <2>3
    <3> QED
      BY <3>1, <3>2
  <2>11. M!Exact(n, d) = IF n.coef = 0 THEN 0
                         ELSE IF n.coef < 0 \/ M!IsTooLarge(x) THEN M!Raised
                         ELSE M!Floor(x)
    BY DEF M!Exact
  <2> HIDE DEF x
  <2>12. zeros >= 0 /\ x.exp = zeros /\ x.coef = c /\ x.tiny = 0
    BY <2>3, <2>10
  <2>13. M!Floor(x) = a
    <3>1. M!Floor(x) = x.coef * M!Tens(x.exp)
      BY <2>12 DEF M!Floor
    <3> QED
      BY <2>6, <2>12, <3>1 DEF t
  <2>14. M!IsWhole(x)
    BY <2>12 DEF M!IsWhole
  <2>15. ~M!IsTooLarge(x)
    BY <1>1, <2>12, <2>13, <2>14 DEF M!IsTooLarge
  <2>16. M!Exact(n, d) = a
    BY <2>6, <2>9, <2>11, <2>13, <2>15
  <2> QED
    BY <2>9, <2>16 DEF n
<1> QED
  BY <1>2, <1>3

\* What is returned is an amount or an error, the exact one of a normal number.
AmountInv ==
    /\ number \in AmountNumbers /\ unit \in Nat
    /\ nano \in 0 .. MaxVal \cup {M!Raised, M!NotYet}
    /\ nano = M!NotYet => exact = M!Exact(number, unit)
    /\ nano # M!NotYet /\ M!IsNormal(number) => nano = exact

LEMMA AmountInit == M!Init => AmountInv
<1> SUFFICES ASSUME M!Init PROVE AmountInv
  OBVIOUS
<1>1. number \in AmountNumbers /\ unit \in Nat
  BY AmountAssumption DEF M!Init, M!Numbers, AmountNumbers
<1> QED
  BY <1>1 DEF M!Init, AmountInv

LEMMA AmountStep == ASSUME AmountInv, M!Next \/ UNCHANGED currencyVars PROVE AmountInv'
<1>1. MaxVal \in Nat /\ Decimals \in Nat
  BY AmountAssumption
<1>2. M!Raised = -1 /\ M!NotYet = -2
  BY DEF M!Raised, M!NotYet
<1>3. CASE M!CallToNano
  <2>1. /\ nano = M!NotYet /\ nano' = M!ToNano(number, unit)
        /\ number' = number /\ unit' = unit /\ exact' = exact
    BY <1>3 DEF M!CallToNano
  <2>2. number \in AmountNumbers /\ unit \in Nat /\ exact = M!Exact(number, unit)
    BY <2>1 DEF AmountInv
  <2>3. nano' \in 0 .. MaxVal \cup {M!Raised} /\ (M!IsNormal(number) => nano' = exact)
    BY <2>1, <2>2, ToNanoIs
  <2>4. nano' # M!NotYet
    BY <1>1, <1>2, <2>3
  <2>5. M!IsNormal(number)' => M!IsNormal(number)
    BY <2>1 DEF M!IsNormal, M!DigitsOf, M!Size, M!Tens
  <2> QED
    BY <2>1, <2>2, <2>3, <2>4, <2>5 DEF AmountInv, M!NotYet, M!Raised
<1>4. CASE M!CallFromNano
  <2>1. PICK d \in {0, Decimals} :
          /\ number' = M!FromNano(nano, d) /\ unit' = d
          /\ exact' = nano /\ nano' = M!NotYet /\ nano >= 0
    BY <1>4 DEF M!CallFromNano
  <2>2. d \in Nat /\ nano \in 0 .. MaxVal
    BY <1>1, <1>2, <2>1 DEF AmountInv
  <2>3. M!FromNano(nano, d) \in AmountNumbers /\ M!Exact(M!FromNano(nano, d), d) = nano
    BY <2>2, FromNanoIs
  <2> QED
    BY <2>1, <2>2, <2>3 DEF AmountInv
<1>5. CASE M!Refused \/ UNCHANGED currencyVars
  <2>1. number' = number /\ unit' = unit /\ nano' = nano /\ exact' = exact
    BY <1>5 DEF M!Refused, currencyVars, M!currencyVars
  <2> QED
    BY <2>1 DEF AmountInv
<1> QED
  BY <1>3, <1>4, <1>5 DEF M!Next

LEMMA AmountFollows == ASSUME AmountInv PROVE M!AmountExact
BY DEF AmountInv, M!AmountExact

-----------------------------------------------------------------------------
(* The wallets together                                                    *)

\* All of them hold from the start, whichever wallet the behaviour is about.
WalletsIInv == MessageIInv /\ OrderIInv /\ QueryIInv /\ FactoryIInv /\ DrawnInv /\ AmountInv

LEMMA WalletsIInvInit == WalletsInit => WalletsIInv
<1>1. F!Init => DrawnInv
  BY DEF F!Init, DrawnInv
<1> QED
  BY <1>1, MessageInit, OrderInit, QueryInit, FactoryInit, AmountInit DEF WalletsInit, WalletsIInv

LEMMA OwnSteps ==
    ASSUME [WalletsNext]_allVars
    PROVE  /\ W!Next \/ UNCHANGED messageVars
           /\ O!Next \/ UNCHANGED orderVars
           /\ V!Next \/ UNCHANGED queryVars
           /\ F!Next \/ UNCHANGED factoryVars
           /\ M!Next \/ UNCHANGED currencyVars
BY DEF WalletsNext, allVars

LEMMA WalletsIInvStep == WalletsIInv /\ [WalletsNext]_allVars => WalletsIInv'
<1> SUFFICES ASSUME WalletsIInv, [WalletsNext]_allVars PROVE WalletsIInv'
  OBVIOUS
<1>1. MessageIInv'
  BY OwnSteps, MessageStep DEF WalletsIInv
<1>2. OrderIInv'
  BY OwnSteps, OrderStep DEF WalletsIInv
<1>3. QueryIInv'
  BY OwnSteps, QueryStep DEF WalletsIInv
<1>4. FactoryIInv'
  BY OwnSteps, FactoryStep DEF WalletsIInv
<1>5. DrawnInv'
  BY OwnSteps, DrawnStep DEF WalletsIInv
<1>6. AmountInv'
  BY OwnSteps, AmountStep DEF WalletsIInv
<1> QED
  BY <1>1, <1>2, <1>3, <1>4, <1>5, <1>6 DEF WalletsIInv

LEMMA Invariance == WalletsSpec => []WalletsIInv
BY WalletsIInvInit, WalletsIInvStep, PTL DEF WalletsSpec

-----------------------------------------------------------------------------
\* Whatever a wallet is asked to send, with whatever comments and payloads, what leaves
\* the process as a bag of cells keeps within a cell's bits; the message has more than
\* four references only where a deployment meets three or four messages, a part below
\* it only where its own state and payload have more than four together
\* (_wallet_contract.py, contract/__init__.py).
THEOREM SentFits == WalletsSpec => []SentMessagesFit
<1>1. WalletsIInv => SentMessagesFit
  BY DEF WalletsIInv, MessageIInv, PartsFit, MessageFits, HashedFit, SentMessagesFit, W!SentMessagesFit
<1> QED
  BY <1>1, Invariance, PTL

\* However many owners prepare, sign and exchange orders of a multi-signature wallet,
\* the contract takes the message made of one, unless a signature got into it
\* carelessly or it is signed and has all the messages a builder accepts
\* (_multisig_wallet_contract.py).
THEOREM OrdersAreTaken == WalletsSpec => []CleanOrdersAreTaken
<1>1. WalletsIInv => CleanOrdersAreTaken
  BY OrderFollows DEF WalletsIInv, CleanOrdersAreTaken
<1> QED
  BY <1>1, Invariance, PTL

\* No query of a highload wallet v2 is executed twice, none after its timeout and each
\* one in time unless its twin was (_highload_wallet_contract_v2.py).
THEOREM QueriesSafe == WalletsSpec => []QueriesInv
<1>1. WalletsIInv => QueriesInv
  BY QueryFollows DEF WalletsIInv, QueriesInv
<1> QED
  BY <1>1, Invariance, PTL

\* However many wallets are created, opened and deployed in any order: a phrase that
\* create gave opens its wallet again, the address says the key, version, workchain
\* and wallet id and nothing else, and what is extracted from an account, one of v2 or
\* v3, opens the wallet deployed there (contract/wallet/__init__.py,
\* provider/_wallet.py).
THEOREM WalletsAreFound == WalletsSpec => []FoundAgain
<1>1. WalletsIInv => FoundAgain
  BY FactoryFollows DEF WalletsIInv, FoundAgain
<1> QED
  BY <1>1, Invariance, PTL

\* Whatever the length of the list, each of its words comes of equally many random
\* bytes, and of some: reducing the number to the bits that are needed and drawing
\* again beyond the list prefers none (_mnemonic.py, _utils.py).
THEOREM WordsDrawnEvenly == WalletsSpec => []DrawnEvenly
<1>1. WalletsIInv => DrawnEvenly
  BY DrawnFollows DEF WalletsIInv, DrawnEvenly
<1> QED
  BY <1>1, Invariance, PTL

\* Whatever way a number is written, as a text or as a float that is not quite it, and
\* with one digit at most in front of the point if it has an exponent, to_nano gives
\* the exact amount or refuses it; and what from_nano makes of an amount is that
\* amount again (utils/_currency.py).
THEOREM AmountsAreExact == WalletsSpec => []AmountExact
<1>1. WalletsIInv => AmountExact
  BY AmountFollows DEF WalletsIInv, AmountExact
<1> QED
  BY <1>1, Invariance, PTL
===============================================================================
