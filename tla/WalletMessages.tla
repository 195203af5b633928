---------------------------- MODULE WalletMessages ----------------------------
(***************************************************************************)
(* How a wallet builds the message that carries its transfers              *)
(* (contract/wallet/_wallet_contract.py over contract/__init__.py): the    *)
(* out messages one by one, the signature, the external message, and       *)
(* to_boc at the end.  A cell is how many bits and references it has; what *)
(* decides whether a part is copied into a cell or referred to is that     *)
(* number of bits alone.                                                   *)
(***************************************************************************)
EXTENDS Naturals, FiniteSets

CONSTANTS
    SigningBits,  \* bits of create_signing_message: 64 (v2), 96 (v3), 104 (v4)
    AmountBytes,  \* bytes an amount of coins takes
    Texts,        \* lengths of comments
    PayloadCells, \* cells given as payload, [bits, refs]
    Counts        \* numbers of messages asked for

VARIABLES
    pc,       \* "idle", "messages", "made", "sent" or "raised"
    seqno,    \* whether the wallet is deployed by this message (0) or not (1)
    dummy,    \* dummy_signature
    left,     \* messages the loop has still to create
    signing,  \* signing_message
    parts,    \* the cells below the message, each with what it was made of
    message   \* result_message

walletVars == <<pc, seqno, dummy, left, signing, parts, message>>

\* A cell holds this much; BitString(1023) has an array of 128 bytes.
BitLimit == 1023
RefLimit == 4
ArrayBits == 1024

Cell(bits, refs) == [bits |-> bits, refs |-> refs]
Nothing == Cell(0, 0)

\* check_range compares the position with the length: writing stops with an
\* exception one bit late.
Overflow(cell) == cell.bits > BitLimit + 1

\* Mutant: the descriptor byte wraps around.
Hashable_wraps(cell) == TRUE

\* The descriptor of a cell's bits must fit into a byte.
Hashable(cell) == (cell.bits + 7) \div 8 + cell.bits \div 8 <= 255

Copied(cell, part) == Cell(cell.bits + part.bits, cell.refs + part.refs)
Flag(cell) == Cell(cell.bits + 1, cell.refs)
Referred(cell) == Cell(cell.bits, cell.refs + 1)

\* write_cell of an internal header with an amount, of an external one.
InternalHeader(sz) == Cell(382 + 8 * sz, 0)
ExternalHeader == Cell(275, 0)

\* Code and data, without library, split_depth and ticktock.
StateInit == Cell(5, 2)

StateInitFits(cell, state_init) == BitLimit - Flag(cell).bits >= state_init.bits + 1
BodyFits(cell, body) == BitLimit - cell.bits >= body.bits

\* An empty cell counts as none.
WithStateInit(cell, state_init) ==
    IF state_init = Nothing THEN Flag(cell)
    ELSE IF StateInitFits(cell, state_init) THEN Copied(Flag(Flag(cell)), state_init)
    ELSE Referred(Flag(Flag(cell)))

WithBody(cell, body) ==
    IF body = Nothing THEN Flag(cell)
    ELSE IF BodyFits(cell, body) THEN Copied(Flag(cell), body)
    ELSE Referred(Flag(cell))

create_common_msg_info(header, state_init, body) ==
    WithBody(WithStateInit(header, state_init), body)

\* A comment is 32 zero bits and its bytes, an empty one no payload at all.
TextCell(length) == IF length = 0 THEN Nothing ELSE Cell(32 + 8 * length, 0)
Payloads == {TextCell(length) : length \in Texts} \cup PayloadCells

\* A cell below the message, and the state and the body it was made of.
Part(cell, state_init, body) == [cell |-> cell, state_init |-> state_init, body |-> body]

\* The parts of a message that stay cells of their own.
OwnParts(header, state_init, body) ==
    {Part(c, c, Nothing) : c \in {s \in {state_init} : ~StateInitFits(header, s)}}
    \cup {Part(c, Nothing, c) :
             c \in {b \in {body} : ~BodyFits(WithStateInit(header, state_init), b)}}

Init ==
    /\ pc = "idle" /\ seqno = 0 /\ dummy = FALSE /\ left = 0
    /\ signing = Nothing /\ parts = {} /\ message = Nothing

Raise == pc' = "raised" /\ UNCHANGED <<seqno, dummy, left, signing, parts, message>>

CreateTransfer(s, count, d, bits) ==
    /\ pc = "idle"
    /\ IF count \notin 1 .. 4 THEN Raise
       ELSE /\ pc' = "messages"
            /\ seqno' = s /\ dummy' = d /\ left' = count
            /\ signing' = Cell(bits, 0)
            /\ UNCHANGED <<parts, message>>

\* One turn of the loop: create_out_msg, its mode and its reference.
AddMessage(sz, payload, state_init) ==
    LET header == InternalHeader(sz)
        out == create_common_msg_info(header, state_init, payload)
    IN
    /\ pc = "messages" /\ left > 0
    /\ IF Overflow(payload) \/ Overflow(out) THEN Raise
       ELSE /\ signing' = Cell(signing.bits + 8, signing.refs + 1)
            /\ parts' = parts \cup {Part(out, state_init, payload)}
                             \cup OwnParts(header, state_init, payload)
            /\ left' = left - 1
            /\ UNCHANGED <<pc, seqno, dummy, message>>

\* The external message with a signature of 64 bytes around the signed cell;
\* with an account that is still to be created, its state goes with it.
Enclosed(state_init, signed) ==
    create_common_msg_info(ExternalHeader, state_init, Copied(Cell(512, 0), signed))

\* The cells below the message.
OwnCells == {p.cell : p \in parts}

\* sign_message hashes the signing message and all that it refers to.
CreateExternal ==
    /\ pc = "messages" /\ left = 0
    /\ IF ~dummy /\ \E c \in OwnCells \cup {signing} : ~Hashable(c) THEN Raise
       ELSE /\ message' = Enclosed(IF seqno = 0 THEN StateInit ELSE Nothing, signing)
            /\ pc' = "made"
            /\ UNCHANGED <<seqno, dummy, left, signing, parts>>

\* create_init_external_message: the same without messages.
CreateInitExternal(bits) ==
    /\ pc = "idle"
    /\ signing' = Cell(bits, 0)
    /\ message' = Enclosed(StateInit, signing')
    /\ pc' = "made"
    /\ UNCHANGED <<seqno, dummy, left, parts>>

\* The application takes message.to_boc(), which hashes every cell.
ToBoc ==
    /\ pc = "made"
    /\ IF \E c \in OwnCells \cup {message} : ~Hashable(c) THEN Raise
       ELSE pc' = "sent" /\ UNCHANGED <<seqno, dummy, left, signing, parts, message>>

Next ==
    \/ \E s \in {0, 1}, count \in Counts, d \in BOOLEAN, bits \in SigningBits :
          CreateTransfer(s, count, d, bits)
    \/ \E sz \in AmountBytes, payload \in Payloads, state_init \in {Nothing, StateInit} :
          AddMessage(sz, payload, state_init)
    \/ CreateExternal
    \/ \E bits \in SigningBits : CreateInitExternal(bits)
    \/ ToBoc
    \/ pc \in {"sent", "raised"} /\ UNCHANGED walletVars

Spec == Init /\ [][Next]_walletVars

-----------------------------------------------------------------------------
\* The bound of check_range is one bit late and nothing bounds the references,
\* yet what leaves the process keeps within a cell's limits: a full cell has no
\* descriptor, so neither its signature nor its bag of cells can be made.  The
\* references of the message fit as long as one that deploys carries two at most;
\* those of a part fit unless the state and the payload that this very part was
\* made of have more than four together.
SentMessagesFit ==
    pc = "sent" =>
        /\ \A c \in OwnCells \cup {message} : c.bits <= BitLimit
        /\ message.refs > RefLimit => seqno = 0 /\ signing.refs > 2
        /\ \A p \in parts : p.cell.refs > RefLimit =>
              p.state_init.refs + p.body.refs > RefLimit

\* The docstring of check_range: "Throws an exception if the cursor + n is out
\* of range."
NoFullCell == \A c \in OwnCells \cup {message} : c.bits <= BitLimit

\* create_transfer_messages takes what it "expected", "1-4 messages", and gives
\* back a message that fits into a cell.
TransferFits == pc = "sent" => message.refs <= RefLimit
===============================================================================
