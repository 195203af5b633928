----------------------------- MODULE WalletFactory -----------------------------
(***************************************************************************)
(* How wallets are made and found again: words drawn at random             *)
(* (crypto/_mnemonic.py, _utils.py), the class and the options they are    *)
(* opened with (contract/wallet/__init__.py and the classes of the         *)
(* versions), the address that follows from them (contract/__init__.py),   *)
(* and what is read from a deployed wallet's account (provider/_wallet.py).*)
(*                                                                         *)
(* Hashes and keys are injective: a key is known by the phrase it is       *)
(* derived from, the hash of a state is the state.                         *)
(***************************************************************************)
EXTENDS Integers, Sequences, FiniteSets, Functions

CONSTANTS
    English,         \* words in the list: 2048
    Ranges,          \* other lengths that get_secure_random_number may be asked for
    WordsCount,      \* words in a phrase: 24
    BasicPhrases,    \* the phrases whose seed is basic
    OtherPhrases,    \* phrases someone may try to open a wallet with
    PasswordPhrase,  \* PasswordPhrase[password]: the phrases random.Random(password) chooses
    ByteBits,        \* bits of a byte: 8
    Versions, Workchains,
    WalletIds,       \* wallet ids that are given explicitly
    MaxWallets,      \* bound: wallets opened
    MaxSeqno         \* bound: messages sent to a wallet

VARIABLES
    range,     \* the length of the list that words are drawn from
    drawn,     \* mnemo_arr of mnemonic_new
    phrases,   \* history: the phrases that came out of create
    wallets,   \* the wallet objects
    accounts,  \* accounts on the chain, by address: [code, data]
    told       \* what was extracted from an account: [address, seqno, wallet_id], or None

walletsVars == <<range, drawn, phrases, wallets, accounts, told>>

None == [none |-> TRUE]

-----------------------------------------------------------------------------
(* Words.                                                                   *)

BitsNeeded == CHOOSE b \in 0 .. range : range <= 2 ^ b /\ (b = 0 \/ 2 ^ (b - 1) < range)
BytesNeeded == (BitsNeeded + ByteBits - 1) \div ByteBits

\* What os.urandom gives; more than the bytes needed are not looked at.
Bytes == [1 .. BytesNeeded -> 0 .. 2 ^ ByteBits - 1]

\* Mutant: a number beyond the range is reduced instead of drawn again.
Number_modulo(res) ==
    LET n == BytesNeeded
        value[i \in 0 .. n] == IF i = 0 THEN 0 ELSE 2 ^ ByteBits * value[i - 1] + res[i]
    IN  value[n] % range

\* get_secure_random_number before it compares the number with the range.
Number(res) ==
    LET n == BytesNeeded
        value[i \in 0 .. n] == IF i = 0 THEN 0 ELSE 2 ^ ByteBits * value[i - 1] + res[i]
    IN  value[n] % 2 ^ BitsNeeded

IsBasicSeed(phrase) == phrase \in BasicPhrases

mnemonic_is_valid(phrase) == Len(phrase) = WordsCount /\ IsBasicSeed(phrase)

\* mnemonic_from_password: the first phrase of those chosen that is basic.
FromPassword(password) ==
    LET choices == PasswordPhrase[password]
        first == CHOOSE k \in DOMAIN choices :
                     /\ IsBasicSeed(choices[k])
                     /\ \A j \in 1 .. k - 1 : ~IsBasicSeed(choices[j])
    IN  choices[first]

\* The public key goes with the private one.
mnemonic_to_wallet_key(phrase) == [derived_from |-> phrase]

-----------------------------------------------------------------------------
(* Wallet objects.                                                          *)

HasWalletId(version) == version \notin {"v2r1", "v2r2"}

\* Mutant: a wallet id that was given is replaced by the default.
WalletId_default(version, wc, wallet_id) ==
    IF HasWalletId(version) THEN [id |-> 698983191 + wc] ELSE None

\* The default id depends on the workchain; v2 has no id.
WalletId(version, wc, wallet_id) ==
    IF ~HasWalletId(version) THEN None
    ELSE IF wallet_id = None THEN [id |-> 698983191 + wc] ELSE wallet_id

\* create_data_cell of each version: fields of 32 bits, but for the key, the
\* highload wallet's 64 bit zero and the empty dictionaries.
DataCell(w) ==
    CASE w.version \in {"v2r1", "v2r2"} -> <<0, w.key>>
      [] w.version \in {"v3r1", "v3r2"} -> <<0, w.wallet_id.id, w.key>>
      [] w.version \in {"v4r1", "v4r2"} -> <<0, w.wallet_id.id, w.key, 0>>
      [] w.version = "hv2" -> <<w.wallet_id.id, 0, w.key, 0>>

\* The codes are bags of cells in the sources.  That of v2 and v3 is one cell; of the
\* others it is a tree, of which one_from_boc makes another one: each reference of a
\* cell is read as its first one, and a tag as data.
OneCell == {"v2r1", "v2r2", "v3r1", "v3r2"}
Code(version) == [bag |-> version, intact |-> version \in OneCell]

StateInit(w) == [code |-> Code(w.version), data |-> DataCell(w)]

\* The table wallets, by the hashes of the codes as they are.
TableCodes ==
    {[bag |-> v, intact |-> TRUE] : v \in {"v2r1", "v2r2", "v3r1", "v3r2", "v4r1", "v4r2"}}

\* create_state_init
StateAddress(w) == [wc |-> w.wc, hash_part |-> StateInit(w)]

\* The property address, which is kept from the first look on.
Address(w) == IF w.address = None THEN StateAddress(w) ELSE w.address

\* Bound: MaxWallets.  Wallets are opened with words of the list itself.
Open(w) ==
    /\ range = English /\ Len(wallets) < MaxWallets
    /\ wallets' = Append(wallets, w)

Wallet(version, key, wc, wallet_id, address) ==
    [version |-> version, key |-> key, wc |-> wc,
     wallet_id |-> WalletId(version, wc, wallet_id), address |-> address,
     chosen |-> wallet_id]

-----------------------------------------------------------------------------
Init ==
    /\ range \in {English} \cup Ranges
    /\ drawn = << >> /\ phrases = {} /\ wallets = << >>
    /\ accounts = [a \in {} |-> None] /\ told = None

\* A word of mnemonic_new; a number that is not below the range is drawn again.
DrawWord(res) ==
    /\ Len(drawn) < WordsCount /\ Len(wallets) < MaxWallets
    /\ Number(res) < range
    /\ drawn' = Append(drawn, Number(res))
    /\ UNCHANGED <<range, phrases, wallets, accounts, told>>

\* A phrase whose seed is not basic is thrown away, here with those of other lists.
DrawAgain ==
    /\ Len(drawn) = WordsCount
    /\ ~IsBasicSeed(drawn) \/ range # English
    /\ drawn' = << >>
    /\ UNCHANGED <<range, phrases, wallets, accounts, told>>

\* Wallets.create, without a password and with one.
Create(version, wc, wallet_id) ==
    /\ Len(drawn) = WordsCount /\ IsBasicSeed(drawn)
    /\ Open(Wallet(version, mnemonic_to_wallet_key(drawn), wc, wallet_id, None))
    /\ drawn' = << >> /\ phrases' = phrases \cup {drawn}
    /\ UNCHANGED <<range, accounts, told>>

CreateFromPassword(password, version, wc, wallet_id) ==
    /\ drawn = << >>
    /\ Open(Wallet(version, mnemonic_to_wallet_key(FromPassword(password)), wc, wallet_id, None))
    /\ phrases' = phrases \cup {FromPassword(password)}
    /\ UNCHANGED <<range, drawn, accounts, told>>

\* Wallets.from_mnemonics, which raises unless the words are valid, and
\* from_private_key, which asks nothing.
FromMnemonics(phrase, version, wc, wallet_id) ==
    /\ drawn = << >> /\ mnemonic_is_valid(phrase)
    /\ Open(Wallet(version, mnemonic_to_wallet_key(phrase), wc, wallet_id, None))
    /\ UNCHANGED <<range, drawn, phrases, accounts, told>>

FromPrivateKey(key, version, wc, wallet_id) ==
    /\ drawn = << >>
    /\ Open(Wallet(version, key, wc, wallet_id, None))
    /\ UNCHANGED <<range, drawn, phrases, accounts, told>>

\* A wallet class called with keys and an address: the workchain is the address's.
FromAddress(key, version, address) ==
    /\ drawn = << >>
    /\ Open(Wallet(version, key, address.wc, None, address))
    /\ UNCHANGED <<range, drawn, phrases, accounts, told>>

ReadAddress(k) ==
    /\ wallets' = [wallets EXCEPT ![k].address = Address(wallets[k])]
    /\ UNCHANGED <<range, drawn, phrases, accounts, told>>

\* The contracts: a first message with the state of the address it is sent to
\* makes the account, and each one after it adds one to the seqno, where the code is
\* the contract's; what a misread code does with a message is not modelled.
Deploy(k) ==
    LET w == wallets[k] IN
    /\ Address(w) \notin DOMAIN accounts /\ Address(w) = StateAddress(w)
    /\ accounts' = [a \in DOMAIN accounts \cup {Address(w)} |->
                      IF a = Address(w) THEN StateInit(w) ELSE accounts[a]]
    /\ wallets' = [wallets EXCEPT ![k].address = Address(w)]
    /\ UNCHANGED <<range, drawn, phrases, told>>

Transfer(a) ==
    /\ accounts[a].code.intact /\ accounts[a].data[1] < MaxSeqno
    /\ accounts' = [accounts EXCEPT ![a].data[1] = @ + 1]
    /\ UNCHANGED <<range, drawn, phrases, wallets, told>>

\* The extractor that the table has for an account's code: v2 has a seqno, v3 and v4
\* a wallet id too.  The highload wallet is not in the table, and what this library
\* deploys as v4 is not, its code being another one.
Extract(a) ==
    /\ accounts[a].code \in TableCodes
    /\ told' = [address |-> a, seqno |-> accounts[a].data[1],
                 wallet_id |-> IF HasWalletId(accounts[a].code.bag)
                               THEN [id |-> accounts[a].data[2]] ELSE None]
    /\ UNCHANGED <<range, drawn, phrases, wallets, accounts>>

Next ==
    \/ \E res \in Bytes : DrawWord(res)
    \/ DrawAgain
    \/ \E version \in Versions, wc \in Workchains, wallet_id \in WalletIds \cup {None} :
          \/ Create(version, wc, wallet_id)
          \/ \E password \in DOMAIN PasswordPhrase :
                CreateFromPassword(password, version, wc, wallet_id)
          \/ \E phrase \in phrases \cup OtherPhrases :
                \/ FromMnemonics(phrase, version, wc, wallet_id)
                \/ FromPrivateKey(mnemonic_to_wallet_key(phrase), version, wc, wallet_id)
    \/ \E k \in DOMAIN wallets : ReadAddress(k) \/ Deploy(k)
    \/ \E k \in DOMAIN wallets, phrase \in phrases, version \in Versions :
          FromAddress(mnemonic_to_wallet_key(phrase), version, Address(wallets[k]))
    \/ \E a \in DOMAIN accounts : Transfer(a) \/ Extract(a)

Spec == Init /\ [][Next]_walletsVars

-----------------------------------------------------------------------------
\* Every word of the list is drawn for equally many random bytes.
DrawnEvenly ==
    LET ways == [n \in 0 .. range - 1 |-> Cardinality({res \in Bytes : Number(res) = n})]
    IN  /\ drawn \in Seq(DOMAIN ways)
        /\ \A n \in DOMAIN ways : ways[n] = ways[0] /\ ways[n] > 0

\* The words that create gives open the wallet again, and so does the password.
PhrasesOpen == \A phrase \in phrases : mnemonic_is_valid(phrase)

\* Wallets opened in any of the ways without an address are at the same address
\* exactly if they have the key, version and workchain in common, and the wallet id
\* where there is one: given or default.
Identity(w) == <<w.version, w.key, w.wc, w.wallet_id>>
SameAddress ==
    \A v, w \in {w \in Range(wallets) : Address(w) = StateAddress(w)} :
        Address(v) = Address(w) <=> Identity(v) = Identity(w)

\* A wallet id that was given is what the wallet has, where its version has one.
GivenIdKept ==
    \A w \in Range(wallets) :
        HasWalletId(w.version) /\ w.chosen # None => w.wallet_id = w.chosen

\* A wallet opened at the address of one with the same key and version and the
\* default id is the same wallet: it could deploy it.
SameAtAddress ==
    \A v, w \in Range(wallets) :
        /\ Address(v) = Address(w) /\ v.version = w.version /\ v.key = w.key
        /\ v.chosen = None /\ Address(v) = StateAddress(v) /\ w.chosen = None
        => StateAddress(w) = Address(w)

\* What is extracted from an account opens its wallet: with the key and version of
\* the one deployed there, its workchain and the extracted id.  That is so of v2 and
\* v3, the only ones of which anything can be extracted.
ExtractedOpens ==
    told # None =>
        \A w \in Range(wallets) :
            Address(w) = told.address /\ Address(w) = StateAddress(w) =>
                StateAddress(Wallet(w.version, w.key, told.address.wc, told.wallet_id, None))
                    = told.address

\* Wallets are found again.
FoundAgain ==
    /\ PhrasesOpen
    /\ SameAddress
    /\ GivenIdKept
    /\ SameAtAddress
    /\ ExtractedOpens
=================================================================================
