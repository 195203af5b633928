---------------------------- MODULE MultiSigOrders ----------------------------
(***************************************************************************)
(* The owners of a multi-signature wallet prepare an order, each with      *)
(* Python objects of its own (contract/wallet/_multisig_wallet_contract.py *)
(* ): MultiSigOrderBuilder, the MultiSigOrder it builds, and the message   *)
(* create_transfer_message makes of it.  They hand each other signatures,  *)
(* orders and query ids by other means.                                    *)
(*                                                                         *)
(* The messages of an order are all alike here, so that an order's payload *)
(* is its query id and their number.  The contract is not part of the      *)
(* repository; ContractTakes says what it refuses.                         *)
(***************************************************************************)
EXTENDS Naturals, FiniteSets

CONSTANTS
    Owners,    \* ids of the owners, each with a key of its own
    Careless,  \* owners who sign under other ids and unite different orders
    RefLimit,  \* references of a cell, and messages a builder takes: 4
    Queries    \* query ids, made of the time or passed on

VARIABLES
    builder,  \* builder[o]: [query, messages] or None
    orders,   \* orders[o]: [payload, signatures] or None
    spoilt,   \* owners whose order got a signature carelessly
    message   \* the last message made, or None

multiVars == <<builder, orders, spoilt, message>>

None == [none |-> TRUE]
NoSignatures == [id \in {} |-> None]
IsThere(x) == x # None

Init ==
    /\ builder = [o \in Owners |-> None]
    /\ orders = [o \in Owners |-> None]
    /\ spoilt = {}
    /\ message = None

\* A signature is the key it is made with and what is signed.
Signature(key, payload) == [key |-> key, payload |-> payload]

\* verify_sign with the public key of an owner id.
Verifies(id, payload, signature) == signature = Signature(id, payload)

\* Entries of the second replace those of the first.
Merged(f, g) ==
    [id \in DOMAIN f \cup DOMAIN g |-> IF id \in DOMAIN g THEN g[id] ELSE f[id]]

With(signatures, id, signature) == Merged(signatures, [i \in {id} |-> signature])

NewBuilder(o, query) ==
    /\ builder' = [builder EXCEPT ![o] = [query |-> query, messages |-> 0]]
    /\ message' = None
    /\ UNCHANGED <<orders, spoilt>>

\* One message more raises.
AddMessage(o) ==
    /\ IsThere(builder[o]) /\ builder[o].messages < RefLimit
    /\ builder' = [builder EXCEPT ![o].messages = @ + 1]
    /\ message' = None
    /\ UNCHANGED <<orders, spoilt>>

ClearMessages(o) ==
    /\ IsThere(builder[o])
    /\ builder' = [builder EXCEPT ![o].messages = 0]
    /\ message' = None
    /\ UNCHANGED <<orders, spoilt>>

\* The order has copies of the builder's bits and references: what is added to
\* the builder later does not change it.
Build(o) ==
    /\ IsThere(builder[o])
    /\ orders' = [orders EXCEPT ![o] =
                     [payload |-> builder[o], signatures |-> NoSignatures]]
    /\ spoilt' = spoilt \ {o}
    /\ message' = None
    /\ UNCHANGED builder

SetSignatures(o, signatures) ==
    /\ orders' = [orders EXCEPT ![o].signatures = signatures]
    /\ message' = None
    /\ UNCHANGED builder

\* sign looks at neither the id nor the key.
Sign(o, id) ==
    /\ IsThere(orders[o])
    /\ o \in Careless \/ id = o
    /\ SetSignatures(o, With(orders[o].signatures, id, Signature(o, orders[o].payload)))
    /\ spoilt' = IF id = o THEN spoilt ELSE spoilt \cup {o}

\* Mutant: the signature is not verified.
AddSignature_unverified(o, p, id) ==
    /\ IsThere(orders[o]) /\ IsThere(orders[p]) /\ id \in DOMAIN orders[p].signatures
    /\ SetSignatures(o, With(orders[o].signatures, id, orders[p].signatures[id]))
    /\ UNCHANGED spoilt

\* A signature of p's order; one that is not of this payload raises.
AddSignature(o, p, id) ==
    /\ IsThere(orders[o]) /\ IsThere(orders[p]) /\ id \in DOMAIN orders[p].signatures
    /\ Verifies(id, orders[o].payload, orders[p].signatures[id])
    /\ SetSignatures(o, With(orders[o].signatures, id, orders[p].signatures[id]))
    /\ UNCHANGED spoilt

\* union_signatures does not look at the payloads.
UnionSignatures(o, p) ==
    /\ IsThere(orders[o]) /\ IsThere(orders[p])
    /\ o \in Careless \/ orders[o].payload = orders[p].payload
    /\ SetSignatures(o, Merged(orders[o].signatures, orders[p].signatures))
    /\ spoilt' = IF p \in spoilt \/ orders[o].payload # orders[p].payload
                 THEN spoilt \cup {o} ELSE spoilt

\* The order is good again.
ClearSignatures(o) ==
    /\ IsThere(orders[o])
    /\ SetSignatures(o, NoSignatures)
    /\ spoilt' = spoilt \ {o}

\* The references of to_cell: one for the chain of signatures, if there is one,
\* and those of the payload.
ToCellRefs(order) ==
    (IF order.signatures = NoSignatures THEN 0 ELSE 1) + order.payload.messages

CreateTransferMessage(o) ==
    /\ IsThere(orders[o])
    /\ message' = [root |-> o, order |-> orders[o], refs |-> ToCellRefs(orders[o]),
                   spoilt |-> o \in spoilt]
    /\ UNCHANGED <<builder, orders, spoilt>>

Next ==
    \E o \in Owners :
        \/ \E query \in Queries : NewBuilder(o, query)
        \/ AddMessage(o) \/ ClearMessages(o) \/ Build(o)
        \/ ClearSignatures(o) \/ CreateTransferMessage(o)
        \/ \E id \in Owners : Sign(o, id)
        \/ \E p \in Owners \ {o} :
             \/ UnionSignatures(o, p)
             \/ \E id \in Owners : AddSignature(o, p, id)

Spec == Init /\ [][Next]_multiVars

-----------------------------------------------------------------------------
\* The contract reads a cell of at most four references and checks every
\* signature in it against the payload.
SignaturesHold(m) ==
    \A id \in DOMAIN m.order.signatures :
        Verifies(id, m.order.payload, m.order.signatures[id])
ContractTakes(m) == m.refs <= RefLimit /\ SignaturesHold(m)

\* However the owners build, extend, sign and exchange their orders, the
\* contract takes the message made of one, unless a signature got into it by
\* sign with another owner's id or by union with another order, or it has
\* signatures besides all the messages a builder accepts.
CleanOrdersAreTaken ==
    IsThere(message) /\ ~message.spoilt =>
        \/ ContractTakes(message)
        \/ /\ SignaturesHold(message)
           /\ message.order.payload.messages = RefLimit
           /\ message.order.signatures # NoSignatures
===============================================================================
