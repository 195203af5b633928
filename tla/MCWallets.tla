------------------------------- MODULE MCWallets -------------------------------
(***************************************************************************)
(* The wallets: the query ids of a highload wallet v3 (HighloadQueryId),   *)
(* the message of a plain wallet (WalletMessages), the orders of a         *)
(* multi-signature wallet (MultiSigOrders), the queries of a highload      *)
(* wallet v2 (HighloadV2), how wallets are made and found again            *)
(* (WalletFactory), and the amounts they are given (Currency).  A          *)
(* behaviour is about one of them; the others stay as they are at the      *)
(* start.                                                                  *)
(***************************************************************************)
EXTENDS MCHighloadQueryId, FiniteSets

CONSTANTS SigningBits, AmountBytes, Texts, PayloadCells, Counts,
          Owners, Careless, OrderRefs, Queries,
          Span, Timeouts, Recipients, GivenIds, Grace, MaxClock, MaxMade,
          English, WordsCount, ByteBits, Ranges, Versions, MaxWallets, MaxSeqno,
          Decimals, MaxVal, Plain, Digits, Points, Exponents

VARIABLES
    used,
    pc, seqno, dummy, left, signing, parts, message,
    builder, orders, spoilt, order_message,
    clock, made, deployed, recorded, executed,
    range, drawn, phrases, wallets, accounts, told,
    number, unit, nano, exact

\* A body with references of its own, and one of references only.
SomePayloads == {[bits |-> 500, refs |-> 2], [bits |-> 0, refs |-> 3]}

\* Two phrases of three words are basic; the password gives the second one in
\* the end.  The wallet id that is given is the masterchain's default.
BasicPhrases == {<<0, 1>>, <<2, 2>>}
OtherPhrases == {<<1, 1>>, <<2, 2, 2>>}
PasswordPhrase == [password \in {"secret"} |-> <<<<1, 2>>, <<2, 2>>>>]
Workchains == {0, -1}
WalletIds == {[id |-> 698983190]}

\* Numbers up to three digits, some whose rounding carries, and one that may be less
\* than one above the largest amount.
SomeDigits == (-2 .. 130) \cup {999, 1005, 99995}
SomePoints == 0 .. 4
SomeExponents == {-5, -3, -2, 0, 1}

W == INSTANCE WalletMessages
O == INSTANCE MultiSigOrders WITH message <- order_message, RefLimit <- OrderRefs
V == INSTANCE HighloadV2
F == INSTANCE WalletFactory
M == INSTANCE Currency

\* The lengths and numbers that the constants give are such.
ASSUME MessageAssumption ==
    /\ SigningBits \subseteq Nat /\ AmountBytes \subseteq Nat /\ Texts \subseteq Nat
    /\ PayloadCells \subseteq [bits : Nat, refs : Nat]
ASSUME OrderAssumption == OrderRefs \in Nat
ASSUME QueryAssumption ==
    /\ Span \in Nat \ {0} /\ Timeouts \subseteq Nat /\ GivenIds \subseteq Nat /\ Grace \in Nat
    /\ MaxClock \in Nat \ {0}

\* The versions are the library's; what random.Random(password) chooses comes to a
\* phrase whose seed is basic, and has the words of one.  There are words to draw
\* from, by bytes that have bits.
ASSUME VersionsAssumption ==
    Versions \subseteq {"v2r1", "v2r2", "v3r1", "v3r2", "v4r1", "v4r2", "hv2"}
ASSUME PasswordAssumption ==
    \A password \in DOMAIN PasswordPhrase :
        \E k \in DOMAIN PasswordPhrase[password] :
            /\ F!mnemonic_is_valid(PasswordPhrase[password][k])
            /\ \A j \in 1 .. k - 1 : ~F!IsBasicSeed(PasswordPhrase[password][j])

ASSUME RangesAssumption ==
    {English} \cup Ranges \subseteq Nat \ {0} /\ ByteBits \in Nat \ {0}

\* The number that stays when the behaviour is not about amounts is one of them.
ASSUME AmountAssumption ==
    /\ Digits \subseteq Int /\ Points \subseteq Nat /\ Exponents \subseteq Int
    /\ 1 \in Digits /\ 0 \in Points /\ 0 \in Exponents
    /\ Decimals \in Nat /\ MaxVal \in Nat

messageVars == <<pc, seqno, dummy, left, signing, parts, message>>
orderVars == <<builder, orders, spoilt, order_message>>
queryVars == <<clock, made, deployed, recorded, executed>>
factoryVars == <<range, drawn, phrases, wallets, accounts, told>>
currencyVars == <<number, unit, nano, exact>>
allVars == <<used, vars, messageVars, orderVars, queryVars, factoryVars, currencyVars>>

WalletsInit ==
    /\ used \in {"ids", "message", "orders", "queries", "factory", "amounts"}
    /\ Init /\ W!Init /\ O!Init /\ V!Init
    /\ F!Init /\ M!Init
    /\ used # "factory" => range = English
    /\ used # "amounts" => unit = 0 /\ number = [coef |-> 1, point |-> 0, exponent |-> 0, tiny |-> 0]

WalletsNext ==
    \/ /\ used = "ids" /\ Next
       /\ UNCHANGED <<used, messageVars, orderVars, queryVars, factoryVars, currencyVars>>
    \/ /\ used = "message" /\ W!Next
       /\ UNCHANGED <<used, vars, orderVars, queryVars, factoryVars, currencyVars>>
    \/ /\ used = "orders" /\ O!Next
       /\ UNCHANGED <<used, vars, messageVars, queryVars, factoryVars, currencyVars>>
    \/ /\ used = "queries" /\ V!Next
       /\ UNCHANGED <<used, vars, messageVars, orderVars, factoryVars, currencyVars>>
    \/ /\ used = "factory" /\ F!Next
       /\ UNCHANGED <<used, vars, messageVars, orderVars, queryVars, currencyVars>>
    \/ /\ used = "amounts" /\ M!Next
       /\ UNCHANGED <<used, vars, messageVars, orderVars, queryVars, factoryVars>>

WalletsSpec == WalletsInit /\ [][WalletsNext]_allVars

-----------------------------------------------------------------------------
\* The properties of the modules, as stated and explained there.
SentMessagesFit == W!SentMessagesFit
CleanOrdersAreTaken == O!CleanOrdersAreTaken
QueriesInv == V!QueriesInv
DrawnEvenly == F!DrawnEvenly
FoundAgain == F!FoundAgain
AmountExact == M!AmountExact
NoFullCell == W!NoFullCell
TransferFits == W!TransferFits
===============================================================================
