# tonsdk_ng: models, checks and proofs

This directory is a TLA+ development about `tonsdk_ng`, a Python SDK for the
TON blockchain. It models the parts of the library that keep state across
calls, threads, tasks or messages, checks them with TLC, and proves the main
safety results with TLAPS. Paths such as `_wrapper.py:79` are relative to
`src/tonsdk_ng`. `PROJECT.json` holds the map from each definition to the
source lines it models, the runs, the mutants, the hazards and the theorems.

- [1. The system](#1-the-system)
- [2. The modules](#2-the-modules)
- [3. The runs](#3-the-runs)
- [4. Fairness](#4-fairness)
- [5. The proofs](#5-the-proofs)
- [6. Disagreements found](#6-disagreements-found)
- [7. What is not modelled](#7-what-is-not-modelled)
- [8. Plan](#8-plan)

## 1. The system

The SDK has two halves. One **builds cells**: wallets put transfers into
messages, messages into cells, cells into bags of cells. The other one **talks
to the network**: an asynchronous and a synchronous client around tonlib, a C
library behind `ctypes`, which in turn talks to lite servers.

```
   application tasks                       application
        |                                       |
  AsyncTonlibClient  --reconnect-->  new    wallets, orders, query ids
        |   ^ restart_hook          wrapper     |
  AsyncTonLibJsonWrapper                    Contract: messages
   reader, reaper tasks | pool threads          |
        |  (blocking calls)                 Cell, Builder, DictBuilder
      tonlib  --- lite servers                  |
                                            to_boc / one_from_boc
```

| Component | State it keeps | Operations | What makes it correct | What makes it hard |
|---|---|---|---|---|
| Async wrapper, `_async/_wrapper.py` | table of futures, `shutdown_state`, restart hook, two tasks, calls in pool threads | `execute`, `send`, `receive`, `restart`, `read_results`, `del_expired_futures_loop` | each request is answered, cancelled, or its loss leads to a restart, but for a query `json.dumps` refuses; one reconnect only; a wrapper that restarts serves what it has and ends | threads, tasks and callers interleave; calls that raise, time out and go on, answers nobody awaits |
| Async client, `_async/_client.py` | the current wrapper; the restart limit travels through the hooks | `init`, `reconnect`, one- and two-request calls | never two open wrappers; limit counts down; no answer about another contract; a restart recovers, unless setting up the next wrapper fails | a wrapper may be replaced between any two awaits; every step of a set-up may fail, and nobody tries again |
| Stdout capture, `_utils.py` | descriptors 1 and 2 of the process | `__enter__`, `__exit__` around an await in `init` | standard output is put back; init does not block | process-wide state under several clients; a pipe nobody reads |
| Paging and search, `_async/_client.py` | locals of one call over many requests | `get_transactions`, `get_block_transactions(_ext)`, `try_locate_tx_by_*` | no gap, no repetition, the end reached, nothing missed | the account grows meanwhile; servers lag, cut pages anywhere and fail |
| Sync client, `_sync/_client.py` | `queries_order` of one read loop | `init`, `__execute`, `read_result(s)`, `raw_run_method` | no answer still to be read is thrown away; calls return | a loop inside a call; a deadline racing late answers |
| Highload query ids, `_highload_query_id.py` | shift and bit number | `get_next`, `has_next`, two encodings | each id once, none skipped, the emergency id never issued | carry, bounds and two number systems of 1023 and 1024 |
| Highload wallet v2, `_highload_wallet_contract_v2.py` | none: ids come from the clock | `create_transfer_message`, `create_init_external_message` | the contract executes no query id twice and nothing after its timeout | an application that has no answer asks again, in the same second or later, with its own id or the one it was told |
| Wallet factory and keys, `wallet/__init__.py`, `crypto/`, `provider/_wallet.py` | options and the address, kept from the first look on | `Wallets.create`, `from_mnemonics`, `from_private_key`, drawing words, extracting data | a wallet is found again by its words, its address or its account; words are drawn evenly | defaults that depend on the workchain; masks and rejected draws |
| Plain wallets, `_wallet_contract*.py`, `contract/__init__.py` | the message under construction | `create_transfer_messages`, `create_init_external_message`, `to_boc` | what leaves the process fits into cells | limits checked at different places, late, or for bits only |
| Multi-signature wallet | builder, order, signatures, per owner | `add_message`, `build`, `sign`, `add_signature`, `union_signatures`, `to_cell` | the contract takes the order | several owners with objects of their own exchange parts in any order |
| Bags of cells, `_cell.py`, `utils/_utils.py` | order and index of the walk; offset of the parser | `tree_walk`, `move_to_end`, `to_boc`, `parse_cells` | topological order; what is written is read | two structures kept in step by hand inside two recursions |
| Bit strings, builders, slices, `types/` | bits and cursor; list of references; how far a slice has read | `store_...`, `end_cell`, `read_...`, `preload_...`, `end_parse` | what was stored is read back; a taken cell stays as it was | the builder's bits and references are the cell's; stores that raise half way; widths and signs at their ends |
| Dictionaries, `_dict_builder.py`, `_dict/` | items; the tree | `store_cell`, `store_ref`, `end_dict` | a contract finds what was stored; canonical labels | three label forms with lengths that tie |
| Addresses, `types/_address.py`, `provider/_address.py` | flags of an `Address` | texts, objects, cells and client forms converted into each other | account, bounceability and test flag survive every chain of conversions; what is printed is read and found | two implementations with different ideas of default, alphabet and spelling |
| Amounts, `utils/_currency.py` | none | `to_nano`, `from_nano` | exact, and the same after a round trip | precision taken from the text of the argument; floats |
| `retry_async`, `_tonlibjson/_utils.py` | result and exception of the attempts so far | the decorated call | a success makes up for the failures before it | it goes on after a success |

How they interact: `AsyncTonlibClient` calls `execute` of its current wrapper
and awaits the future; the wrapper runs `send` and `receive` in the event
loop's default executor; `restart` may be called from any of these places and
schedules the hook, a coroutine of the client, which creates the next wrapper.
The paging and search calls are loops over single requests and call each other.
The sync client is alone with its thread. Wallets call `Contract`, which calls
`Cell`; a multi-signature or highload wallet calls `DictBuilder` too. Wallets
convert addresses and amounts on the way into a message, the clients convert
addresses on the way to tonlib.

## 2. The modules

| Module | Models | Remarks |
|---|---|---|
| `TonlibWrapper` | one async wrapper with tonlib, pool and callers | a step is what the loop runs between two awaits, or one call of a thread into tonlib |
| `RequestChannel` | what a wrapper promises | abstract; `TonlibWrapper` implements it |
| `TonlibWrapperProofs` | theorems about it | |
| `AsyncTonlibClient` | client, tasks, up to `MaxWrappers` wrappers and their tonlib instances | wrappers are used through what `RequestChannel` says |
| `StdoutCapture` | `CtypesStdoutCapture` in `init` of several clients | |
| `AccountHistory` | `get_transactions` | each request is one await that ends in a result, an error object or an exception |
| `BlockListing` | `get_block_transactions`, `_ext` | the two differ in `NextAfter` only |
| `LocateTransaction` | `try_locate_tx_by_incoming_message`, `_outcoming_` | uses what the two paging calls promise |
| `SyncTonlibClient` | the sync client and wrapper | |
| `HighloadQueryId` | query ids and a sender that stores and reloads them | |
| `SeqnoCounter` | what an id promises: a counter | abstract; `HighloadQueryId` implements it |
| `WalletMessages` | messages of wallets v2, v3, v4 up to `to_boc` | a cell is its number of bits and of references |
| `MultiSigOrders` | owners who build, sign and exchange orders | the contract, external, is `ContractTakes` |
| `TreeWalk` | `tree_walk` and `move_to_end` | the two Python recursions are one explicit stack of calls |
| `BagOfCells` | `to_boc`, `parse_cells` over the walk | one byte of data per cell; the width of a written reference and the one that is read, with as few numbers to a byte as the run can do with |
| `CommonPrefix`, `HashmapDict` | `find_common_prefix`; `DictBuilder`, `serialize_dict` | bits are real; `ReadCell` is how a contract reads the tree, from the block format; keys have `KeySize` bits |
| `CellData` | two builders, the cells taken from them and a slice | bits are real; one builder's cell may be copied into or referred to by the other |
| `HighloadV2` | queries of a highload wallet v2 and an application that repeats them | the contract, with its memory of ids, is external |
| `WalletFactory` | random words, phrases, wallet objects, accounts and what is extracted from them | keys and hashes are injective; the codes that `one_from_boc` misreads are others than those in the table |
| `Addresses` | both implementations of address forms, in chains | a checksum is right or wrong |
| `Currency` | `to_nano`, `from_nano` | a number is digits, point, exponent, and which way a float is off |
| `RetryAsync` | `retry_async` | attempts may have had their effect when they fail |
| `AsyncTonlibClientProofs` | theorems about the async client and about the capture | of `MCAsyncTonlibClientLive` |
| `ClientCallsProofs` | theorems about paging, search, the sync client, addresses and `retry_async` | of `MCClientCalls` |
| `WalletsProofs` | theorems about query ids, messages, orders, queries, the factory and amounts | of `MCWallets` |
| `DataLemmas` | lemmas about numbers, powers of two and ten, digits and joined sequences | what takes the place of induction |
| `HashmapDictProofs` | theorems about dictionaries | and the lemmas about labels and words |
| `CellDataProofs` | theorems about cells that were taken, and about reading what was stored | |
| `CellsProofs` | theorems about the walk and the bag, and what the two before say of all behaviours of `MCCells` | |
| `MCTonlibWrapper`, `MCAsyncTonlibClient`, `MCHighloadQueryId`, `MCBagOfCells` | instances for TLC | constants, symmetry, enumeration of the graphs |
| `MCAsyncTonlibClientLive`, `MCClientCalls`, `MCCells`, `MCWallets` | several components in one run | see below |

### State and actions against the code

**TonlibWrapper.** `fut[r]` is the future `execute` returned, `futures` the
keys of `self.futures`, `shutdown` is `self.shutdown_state`. `restarts` counts
`restart()` coroutines that were scheduled and have not run: with `create_task` by
the loop, and with `asyncio.ensure_future(..., loop=...)` by the threads of the
pool (`_wrapper.py:77`, `93`), which is not a thread-safe call; the model lets the
loop see such a coroutine at any later step. `refused` are the requests whose
query `json.dumps` would not write: that exception, outside the `try` of `send`
(line 73), ends in a future nobody keeps, so that no restart is asked for. `unsent`, `rcv` and `abandoned` are the jobs
of the pool: sends that wait, the receive that `read_results` awaits, and
receives that `wait_for` gave up on while their thread goes on. `inside` and
`ready` are tonlib's, external. `ReaderResumes` is everything the reader does
from one await to the next: take the answer, look up the future, set it, remove
the entry, and test the loop again. `Faults` says which of the failures happen.

**AsyncTonlibClient.** `cur` is `self.tonlib_wrapper`; `initAt[w]` where the
`init` stands that made wrapper `w`, `initOn[w]` the wrapper its init request went
to (`self.tonlib_wrapper` is read again after the first await), `limit[w]` the
`max_restarts` it was given; `hook[w]` and `budget[w]` what `set_restart_hook` was
given; `usable[w]` says that tonlib has processed an init. `StartRaises` and
`ReconnectRaises` are what raises before the first await: the constructor, the
keystore directory, the config. An init that tonlib refuses is answered with an
error object, which is a result like any other: the hook is set, and the wrapper is
of no use. An application may call `init` again. A call is one of the four shapes the client has
(one request; load, then run; create, then estimate; create, then a coroutine
that is or is not awaited); `source[t]` and `at[t]` are the wrappers of its
first and second request.

**AccountHistory, BlockListing, LocateTransaction.** The variables are the
locals of the calls. Transactions are their position in the account or block,
which orders them as logical times do. A lite server may lag, cut a page
anywhere, and fail.

**SyncTonlibClient.** `order` is what is left in `queries_order` of the loop
that runs. `orderly` says that the application reads all it has open together,
as the README of the repository does. A read that ends with an exception loses the
answers it had; the ids that are left may be read again.

**HighloadQueryId.** `q` is the object, `stored` a number written down in one
of the two encodings, `raised` whether the last `get_next` raised.

**WalletMessages.** `CreateTransfer`, then one `AddMessage` per turn of the
loop, `CreateExternal`, `ToBoc`. Every cell below the message is kept in
`parts`, with the state and the body it was made of, so that hashing (`get_bits_descriptor` for each of them) can fail
where the code fails: in `sign_message`, or with `dummy_signature` not before
`to_boc`.

**MultiSigOrders.** Each owner has a builder and an order of their own. A
signature is who made it and over which payload. `spoilt` is history: the
order got a signature through `sign` with another id or through
`union_signatures` with a different order.

**TreeWalk, BagOfCells.** `order` is `topological_order_arr`, `index` is
`index_hashmap`, the stack holds the calls in progress. `boc.data` holds the
bytes of the cells. `parse_cells` is one action per cell with every check it
makes, in order; `HeaderRefused` has those that `from_boc_multi_root` makes
before.

**HashmapDict.** `items` is `self.items`. `build_tree` and `write_edge` go down
the same edges and are one walk; `edges` are the calls of `write_edge` still to
come, and each step writes one of them into `tree`. `lookup` is the search of a
contract, which reads one cell per step. The labels are written bit by bit
because the property is about these bits.

**CellData.** `bits[b]` is both the builder's bit string and its cell's, as
`end_cell` hands out the same object; so is `refs[b]`, which a slice shares too.
`Store` is one `store_...` call: `Written` says what it writes and whether it
raises, `NewRefs` which references it adds. An exception leaves what was
written (`torn`). An empty cell given to `store_maybe_ref` is remembered as none
(`AsHeld`), as which it is stored. `due` lists what the slice has not been asked for; `sealed`
is what a cell was when it was taken.

**HighloadV2.** `made` are the messages built so far with the second they were
built in; `recorded` and `executed` belong to the contract. Messages are never
taken out of `made`: they arrive late, again, or never.

**WalletFactory.** `drawn` is `mnemo_arr`; `wallets` the objects with their
`options` and `_address` (`address`, `None` until it is looked at); `told` what
an extractor has put into `result`. `Code` says whether the code is what the sources
have: v2 and v3 have codes of one cell; v4 and the highload wallet have trees, of
which `one_from_boc` makes others (`_cell.py:356`, `387`), and those are what is
hashed, deployed, and not found in the table of `provider/_wallet.py`.

**Addresses, Currency.** The one variable with content, `value` or `number`, is
what the last conversion gave; `meant`, `flag`, `test`, `exact` and
`writer`, who wrote the letters of a text, are history.

**RetryAsync.** `attempts` are the turns of the loop; `result` and `exception`
say whose result and whose exception the two locals hold.

### Several components in one run

Four MC modules hold a choice: a variable (`call`, `part`, `used`, `made`) says
at the start which component the behaviour is about, the others stay as they
are. The next-state relation is the disjunction of the components' own, and
each component keeps its fairness. Properties keep the statement they have in
their module; nothing is shared between the components of such a run, so it
shows what separate runs would.

## 3. The runs

Seven runs pass; five show a disagreement between the code and what it says of
itself (section 6).

| Run | Instance | What it shows |
|---|---|---|
| `tonlib_wrapper_faults` | 2 requests, 2 threads, `max_requests` 1, all faults | the table of futures is exact; a lost answer goes with a restart, unless `json.dumps` refused the query; one reconnect; a settled future stays; the reader leaves nobody; refinement of `RequestChannel` |
| `tonlib_wrapper_live` | 3 requests, 1 thread, no faults, requests expire | every request is answered; a wrapper told to restart ends |
| `async_client_safety` | 2 tasks, 2 addresses, 2 ids, 3 wrappers, limits none and 1, 2 calls of `init` by the application, set-ups that fail | after one `init`: one wrapper at a time, and the limit counts down; in any case ids are mixed up only by a reconnect between the two requests |
| `async_client_live` | 2 tasks, 1 address, 2 wrappers; 1 client with 2 inits, 3 log lines, pipe of 5 | requests are answered; a restart recovers unless the set-up of the next wrapper fails; the capture puts stdout back and ends |
| `client_calls` | 6 transactions, pages of 3, limits 0, 1, 2, 4, 9; blocks of 6 listed 0, 1, 2, 5 at a time; 2 shards, 2 blocks, 3 transactions; 3 queries, one of them `raw_run_method`; 5 conversions of an address in a row; up to 3 repeats | what the paging calls return has no gap and no repetition and is complete unless a request failed; the search finds what is there; the sync client drops late answers only; every call returns; addresses keep account and flags; a retried call returns its latest success |
| `cells` | all acyclic graphs of 5 cells with up to 2 references, two patterns of data, 5 numbers to a byte of a reference; all dictionaries of up to 3 items, keys of 4 bits; builders of 31 bits with 2 stores of 14 kinds of item | walk order, reading back, labels; stored data is read back; taken cells stay |
| `wallets` | 3 shifts with all 1023 bit numbers; 0 to 5 messages with six lengths of comment and two payload cells; 2 owners, one of them careless; 6 seconds, 3 queries, timeouts 1 and 2; 2 wallets of 4 versions in 2 workchains, lists of 1 to 17 words; numbers of up to 3 digits and 4 decimals | ids, cells of sent messages, orders, queries, finding wallets again, even draws, exact amounts |
| `stdout_capture_two`, `account_history_partial`, `bag_of_cells_tag`, `wallet_full_cell`, `wallet_first_transfer` | small | each a violation of one documented claim |

### Why these bounds

- *Two requests, two threads* are the least at which an abandoned receive and
  its successor compete for an answer while another request waits, and at which
  a send finds no thread. `max_requests` 1 makes `execute` itself ask for a
  restart. `MaxRestartTasks` 2 lets two `restart()` coroutines meet. The
  theorems of section 5 lift the first two bounds altogether.
- *Three wrappers* let a reconnect happen inside a call and another one inside
  the `init` that follows. *Two tasks, two ids, two addresses* are the least at
  which an id of one task can name another's contract.
  A call whose second request waits for the application (`raw_create_and_send_query`)
  is explored with two wrappers, and what follows a second `init` of the application
  with two wrappers and one kind of call (`ExploredPart`); the liveness run has one `init` and two
  calls, one of them with a second request at the task's leisure (`LiveOps`).
- *Six transactions, pages of three*: three pages, with `limit` and
  `to_transaction_lt` before, at and behind every border of a page.
- *Blocks of six* listed by 0, 1, 2 and 5 with a server maximum of 3: several
  pages, a last page that is full or not, and the count that never ends.
- *Five cells with two references* contain every way to meet a shared cell
  again: from the same parent, from a sibling, from a cell behind it, below a
  cell that is itself moved. The theorem lifts the bound for the walk.
- *Five numbers to a byte* of a reference (`ByteValues`) stand for 256: bags of up to
  four cells are below the limit, those of five beyond it, where the writer's and the
  reader's widths differ. The theorem is for every
  number from 2 to 256.
- *Keys of four bits, three items*: all three label forms, with and without a
  tie, at the root and below a branch, and a fork at every depth.
- *Three shifts* have a first, a middle and a last one; each has all its bit
  numbers, so the constants 1022 and 1024 of the code stand as they are. The
  constraint `SavedNearBoundary` only stops the walk where a number was written
  down in the middle of a shift. The theorem is for every number of shifts.
- *Comments of 0, 20, 72, 73, 124 and 125 bytes* are on both sides of each
  border: none, copied, exactly filling the cell, referred to, the longest that
  can be written, one that raises.
- *Two owners with cells of two references* (`OrderRefs`) instead of four: the
  numbers compare the same way, full or not, with the signatures' reference or
  without it.

- *Builders of 31 bits* instead of 1023, with a bit of slack as in the code, and
  hash parts of one byte: two stores reach the end from either side, and an
  address (19 bits) does or does not fit behind another item. The items are a
  number at, in and out of each range, one byte more than needed, both kinds of
  address, and every way to refer to a cell.
- *Six seconds, timeouts 1 and 2, a grace of 1*: a query expires, is forgotten,
  and is met again by a late copy and by a repetition; `Span` 4 leaves room for
  the ids 0 and 1 within a second, so ids told and ids chosen never meet by
  accident of the bound. Three messages are a deployment, a query and its twin.
- *Two wallets* are what `SameAddress` and `SameAtAddress` compare; the given
  wallet id is the other workchain's default, where a mix-up could hide.
  *Lists of 1 to 17 words* with bytes of two bits have lengths on both sides of
  each power of two and of a byte; the real list, of 2048, is a power of two,
  for which alone nothing is ever drawn again.
- *Five conversions*: typed text, object or form, text, object, text, with
  every option of `to_string` on the way.
- *Amounts up to 9999 with 3 decimals* instead of 2^256 - 1 with 9: below one,
  one and above, a carry (999, 1005), ties, a negative number, too large ones, and
  one that is too large only by a part of a nanoton (9999.5). The theorem is for
  all numbers, decimals and largest amounts.

Deadlock is checked except in the runs over `TonlibWrapper`,
`AsyncTonlibClient` and `StdoutCapture`: there the system rightly stops when
all requests are made and answered and the bounds are used up.

## 4. Fairness

- *`TonlibWrapper`*: weak fairness for tasks the event loop runs when they can
  go on, for a receive, which returns within its timeout, and for tonlib, which
  answers. `Send(r)` has strong fairness: the executor takes its jobs in the
  order they came, so a send that finds a free thread again and again is not
  passed over for ever. Nothing is assumed of faults, cancellation or expiry.
  The liveness run has no faults, because with them the code does not promise
  an answer: `del_expired_futures_loop` dies at its first expired future
  (`_wrapper.py:178`, `cancel()` of a `str`), so a lost request is never
  cancelled. What holds with faults is `LossCausesRestart`: every
  loss leads to a restart, except that of a query `json.dumps` refuses, whose
  caller waits for ever and whose wrapper never finishes.
- *`AsyncTonlibClient`*: weak fairness for `init`, `reconnect`, the finishing of
  a wrapper and the steps of calls, all run by the loop, and for tonlib. When a
  wrapper restarts and whether the application calls or awaits is up to them.
- *`StdoutCapture`*: tonlib writes its lines unless the pipe is full; `__exit__`
  runs when tonlib has answered.
- *Paging*: requests are answered, which is what the wrapper run shows.
- *`SyncTonlibClient`*: the thread goes on and tonlib answers; the deadline is
  fair only in behaviours that have deadlines.
- *`TreeWalk`, `BagOfCells`*: functions run on.
- `CellData`, `HighloadV2`, `WalletFactory`, `Addresses`, `Currency` and
  `RetryAsync` have safety properties only: each of their calls ends by itself,
  and when the next one comes is up to the application.

## 5. The proofs

TLAPS checks every proof below to the last leaf. None relies on anything but
the assumptions named.

**`TonlibWrapperProofs`** for every finite set of requests, pool size, request
limit and choice of faults. `IInv` strengthens the safety properties by four
facts: only `Workers` threads run a receive; `"finished"` is written exactly
when the reader stops; the receive the reader awaits holds at most one answer,
and only while it awaits one; a receive is abandoned only along with a restart.
The last one is what `LossCausesRestart` needs: an answer that an abandoned
receive takes away is lost at that moment, but the restart came before. A query that
`json.dumps` refused stays in the table, and with it the reader stays. The
preservation proof is split into callers, threads and tasks, as `Next` is.
`SettledFuturesStay` and `ReaderLeavesNobodyWaiting` are action properties
from the same invariant; `Refinement` maps each step to one of
`RequestChannel` or to a stutter.

**`CellsProofs`**, the walk, for every number of cells and every acyclic graph of any
width. Cells are numbered so that references go to larger numbers, which every
acyclic graph can be. `IInv` says that list and index agree, that the calls in
progress are about ever deeper cells, and that *only a reference some call has
still to look at may point back*. `WalkInvariant` is its invariance;
`WalkSorts` follows when the stack is empty: every cell stands before the
cells it refers to, the root first.

The bag of cells, in the same module, for every such graph
with at most four references each, as TON cells have (`FourRefsAssumption`), any
numbers of bits up to a byte, and any number of values a byte of a reference has
(`ByteValuesAssumption`; of cells there are fewer than two such bytes tell apart,
`TwoBytesAssumption`). `BagInv` adds to `IInv` that what was written is
`Laid`: the sequences of bytes of all cells, in order, one behind the other. Then
each has its place in the whole (`JoinedHolds`), and *the cursor of `parse_cells`
stands where the next cell was written* (`ReadsNext`), so that none of its checks
refuses the cell: below `ByteValues` cells a reference fits into the one byte the reader
expects (`FewCells`, as the order has no cell twice); it points to a later cell, as the walk
has sorted them, and the bits are those before the lowest one of the last byte
(`TagIsLowest`). From `ByteValues` cells on, and with an index, which has sizes where ends are
expected, this holds only for the first cells; for all such bags `ParsedFits` shows that the
reader stays within the data, whatever it makes of it. `BagIsReadBack` is the theorem.

**`AsyncTonlibClientProofs`** for any tasks, addresses and ids (other words than
the states of a future, `NamesAssumption`), any number of wrappers and any set of
restart limits. `WrapperIInv` says that, as long as
the application has called `init` once, *the client uses the newest wrapper or
none, and the hooks of all older ones have run*, to an end or to an exception; as a hook runs only after a
restart, the older ones are shutting down, which is `OneWrapper`, and as it hands
on one restart less, `RestartsLimited`. `TaskIInv` follows a call of two requests:
within one tonlib an id names one thing, and as long as both requests go to the
same wrapper the id is that of the address asked about. A reconnect between the
two breaks this, and nothing else does (`OwnAnswers`). `OneClientPutsBack` is about
a single client, `Clients = {c}`, for any sizes of pipe and log: at most one
capture is inside, descriptor 1 is its pipe, and what it will restore is the
terminal. For two clients the last part is false, as the run
`stdout_capture_two` shows.

**`ClientCallsProofs`** is about all behaviours of `MCClientCalls`. `IInv` is one
invariant per call, and a behaviour about one leaves the others alone.

- `HistoryIInv`, for every account, page size and set of limits: what has been
  collected runs downwards from the newest transaction without a gap, the next
  page is asked from where it ends (`PagesJoin`), and *the loop stops only with
  everything asked for collected or with an error*. The cut to the limit comes
  after the loop and needs the length, `AskedNumber`.
- `ListingIInv`, for every size of block and page: the next request goes on where
  the list ends. `Joined` and `SameElements`, about lists put together, carry both.
- `SearchIInv`, for any number of shards, blocks and transactions and any step:
  the blocks of all probes before the current one lack the transaction. What the
  search relies on is `LimitReaches`: all transactions between the one looked for
  and the latest of its block are of that block, so that as many as the listing
  counted reach back to it. That is an argument about the cardinalities of finite
  sets, with the library's theorems.
- `SessionIInv`, for any queries: tonlib has no request twice, none is made while
  another call waits, and *what tonlib still answers is expected by the loop that
  runs or belongs to a read that ended too early*.
- `AddressIInv`, for any workchains and account parts and chains of any length: it
  describes every form a conversion can give, kind by kind, with what the form
  says of account and flags and who wrote its letters; one lemma per conversion shows that it ends in such a
  form again. `TagsSay` is the arithmetic of tag bytes.
- `RetryIInv`, for any number of repeats: the result is the latest success, the
  exception that of the last attempt.

The assumptions are those `MCClientCalls` and `AccountHistory` name: numbers are
natural, pages of an account and the number of shards are not zero, special
hashes are hashes.

**`WalletsProofs`** is about all behaviours of `MCWallets`, again one invariant per
part.

- `IdsIInv`, for every `MAX_SHIFT` in `Nat` (`MaxShiftAssumption`), adds to
  `TypeOK` that the held id *and* the one written down lie before the emergency
  id; without the second part a reload could step onto it. `EncodingsOfOneId` is
  the arithmetic (division by 1023 and by 1024) and `GetNextCounts` the carry.
  From them: `IdsSafe`, and `IdsCount`, the refinement of `SeqnoCounter`, where
  the counter is the sequence number of the id.

- `MessageIInv`, for all texts, payload cells, lengths of a signing message and
  amounts: a signing message has room for the messages still to come; a message
  has too many references only in the two cases `SentMessagesFit` names, a part only if
  the state and the body it was made of have more than four; and what
  has been hashed is no longer than a cell, since a descriptor of more bits does
  not fit into a byte (`HashableFits`).
- `OrderIInv`, for any owners and limit of references: in an order that nothing
  got into carelessly every signature is over its payload, and a message made of an
  order is that order's.
- `QueryIInv`, for every positive number of ids in a second, clock, set of
  timeouts and grace period (`QueryAssumption`), adds to `ExecutedOnce` that an id
  is the sum of its deadline and what was given for it, and that *what was
  executed is remembered or has expired*: the contract may forget an id only
  because a later arrival finds it behind the clock. `IdsOfTheirOwn` and
  `BeforeDeadline` are the arithmetic that keeps the ids of different seconds
  apart.
- `FactoryIInv`, for any keys, workchains and wallet ids, any passwords that come to
  a phrase of the right kind (`PasswordAssumption`) and the versions the library
  has: a wallet has the id that its version, workchain and option give, and a
  kept address is in its workchain; the code and the wallet id an account holds
  are those its address is the hash of; what was extracted is what they say, and it is of an account whose code is intact,
  which is one of v2 or v3.
- `WordsDrawnEvenly`, for lists of any length and bytes of any size: the bytes
  drawn have at least the bits that are needed and those reach the length of the
  list (`BitsEnough`, `BytesEnough`), so that by `EvenRemainders` each number
  below it is left by `2 ^ (bits drawn - bits needed)` of the words of bytes.
  That is a bijection: a word is its quotient and its remainder, because words
  have different numbers (`ValueInjective`) and every number below the bound has
  a word (`ValueOnto`).
- `AmountInv`, for all numbers, decimals and largest amounts: what is returned is
  an amount or an error, what `exact` holds is the exact amount of the number that
  is converted, and `to_nano` returns it if the number has at most one digit in
  front of its point when it has an exponent (`IsNormal`). The work is in
  `PrecisionEnough`: a number below one has no more digits than its text has
  characters behind the point, which the code takes for the precision, so nothing
  is rounded; and in `FromNanoIs`: the zeros that `from_nano` takes off come back
  with the unit.

**`CellDataProofs`** for any length of a cell, any number of stores and any items
in which a builder does not refer to itself (`Constants`; the items of `MCCells`
are such). `CellsStay` needs that a list refers to the inner cell only if an item
of the same builder does: a copied cell brings references of the inner builder,
which are leaves, and a store that raises brings none. Then a cell that changed
although nothing was stored in its own builder refers to the one that did.
`TakenStay`, in `CellsProofs`, is the same for the run.

`WhatIsStoredIsRead` is about items of their kinds (`Storage`: numbers with a
width, bytes, addresses of `HashBytes` bytes or none, amounts, cells). `IInv` is
strengthened by `ReadInv`, which says that what is in a builder is laid one item
behind the other, each as its own bits and references (`IsLaid`), and that a slice
has in front of it what its remaining items are laid as (`SliceIsLaid`). A store
that raises on the way leaves the parts it wrote behind the last item, and nothing
is claimed of those. One lemma per kind of item shows that reading what was
written gives the value back, the length before a value included. A number that
does not fit is refused or, when negative and too low, stored as another one;
those, as the property says, are not among the values that are read. A cell that was
empty when `store_maybe_ref` got it is read as none.
`StoredRead`, in `CellsProofs`, is the same for the run.

**`HashmapDictProofs`** for every length of keys, all keys that have no more bits, every set of values (cells, with
bits that are bits, `DictAssumption`) and any number of items. `DictIInv` follows
the writing and the search.

- *Writing.* An edge still to come holds exactly the items whose keys begin with
  its path, each under the rest of its key, and at least one (`Describes`). A cell
  that has been written is a leaf, with one such item, or a fork: a label that
  all keys below it share, then a key on either side, and a reference to each of
  two paths that are written or still to come. That both sides have items is
  `CommonPrefixIs`: what the first and the last word of a sorted set share is
  shared by all of them, and they differ in the bit behind it. So the assertions
  of `fork_map` hold.
- *Searching.* A search stands at a path with which its key begins. As soon as
  it ends it has found the item, or the key is none that was stored: a label
  that differs from the key differs from all keys below it.
- *Labels.* `LabelIsRead` says, form by form, that the label and the bits behind it
  are read as they were written, and `LabelIsCanonical` compares the three lengths,
  ties included. `UintInjective` is what they rest on, and the padding of the keys
  too: two numbers below a power of two with the same binary digits are equal.

`DictIsRead` and `DictIsCanonical`, in `CellsProofs`, are the same for the run.

**`DataLemmas`** has no theorem of its own. The provers know nothing of powers and
cannot use an induction theorem that takes an operator. What is needed of `2 ^ n`
comes from counting: the library says that a set of `n` elements has `2 ^ n`
subsets, and `PowerDoubles` that one element more doubles them. `Least`, that a
set of natural numbers has a least member, stands in for induction: the least
number for which a statement fails is not zero, and for the one before it the
statement holds. A number is known by its digits as the recursive function
`IsValue`, which exists (`ValueThere`), stays below the power of the base
(`ValueBelow`) and tells words apart. A power of ten is the number of a one and
zeros (`TensThere`). Sequences one behind the other are the
recursive function `IsJoined`; each of them is found behind those before it
(`JoinedHolds`).

Only model-checked, and why:

- *Liveness* (`Answered`, `Drains`, `RequestsAnswered`, `RestartRecovers`,
  `CaptureEnds`, `CallsEnd`, `SessionCallsReturn`, `WalkEnds`): fairness and
  `ENABLED` are out of the prover's reach.

## 6. Disagreements found

| Run | The code | The claim |
|---|---|---|
| `stdout_capture_two` | two clients whose `init`s overlap leave standard output on a pipe nobody reads | `_utils.py:61` "put stdout back in place" |
| `account_history_partial` | a page answered with an error ends `get_transactions` with a part of the result | `_async/_client.py:397` "Return all transactions between ..." |
| `bag_of_cells_tag` | the tag bit of a last byte stays part of the bits that are read | `_cell.py:379` "find last bit of byte which indicates the end and cut it" |
| `wallet_full_cell` | bit 1024 of a cell is written without an exception; the message cannot be signed or sent | `_bit_string.py:59` "Throws an exception if the cursor + n is out of range." |
| `wallet_first_transfer` | a transfer with seqno 0 and 3 or 4 messages makes a cell of 5 or 6 references | `_wallet_contract.py:102` "expected 1-4 messages" |

The passing properties beside them pin down how far the damage goes:
`CaptureInv` (one client is safe), `HistoryReturnsNewestOrAll` (what is
returned has no gap), `BagReadBack` (in a bag of fewer than 256 cells all
but the tag and later references is right), `SentMessagesFit` (a full cell never
leaves the process; too many references leave it only in a message that deploys with
three or four others, or in a part whose own state and payload have more than four).

Some properties are stated around what the code does where no line of the
repository says otherwise: a number below the range of `write_int` is stored as
another one (`StoredIsRead` leaves it out), and an empty cell is no reference to
`store_maybe_ref`, even if it holds something later; `preload_int` consumes the bits it
looks at, although its lines mean to put them back; `store_slice` always raises; a text such as
`"123456.5e-6"`, with several digits before the point and an exponent, loses
digits in `to_nano` (`AmountExact`); a cell without an address is the zero
account to `Address.from_cell`, and a friendly address of the masterchain can
be read but not written, and `userfriendly_to_raw` prints capital letters that the
comparison at `_async/_client.py:803` does not find (`FormsKept`); a query id that was told by an earlier
call and is used again later names a deadline decades away, and a query given again in a later second is another
one, which the contract executes too (`QueriesInv` is about ids); a
bag of 256 cells or more is not read back, as references are written with the bytes
their own number needs (`_cell.py:111`) and read with those of the number of cells
(`357`); a bag with an index is read back only when it has at most two cells, and one with
cache bits only when it has one (`BagReadBack`); the codes of v4 and highload wallets
are misread by `one_from_boc`, so that the addresses of these wallets are those of
another contract and nothing can be extracted from what is deployed there
(`FoundAgain`); an exception of `json.dumps` in `send` leaves the caller waiting for
ever (`LossCausesRestart`); after a reconnect whose set-up failed nothing tries again
(`RestartRecovers`), and a second `init` of the application leaves the first wrapper
open (`WrapperInv` is about the first).

## 7. What is not modelled

- *Single-request payloads of the client*, the fields of messages by their
  values, send modes, hashes and checksums are abstracted: no property tells
  them apart. Hashes and keys are injective functions.
- *Highload wallet v3* is unfinished; its module raises `TypeError` on import, and as
  `contract/wallet/__init__.py:14` imports it, so does the whole wallet package. The
  other wallets are modelled as they are without that line. The query ids of v3 are
  `HighloadQueryId`.
- *Dictionary keys* that are negative or have more bits than `key_size`, which
  `serialize_dict.py:28` does not refuse.
- *What a misread code does* with a message (`WalletFactory`).
- *Fields of a query* `json.dumps` refuses are a fault, not a value.
- *Tokens*, *the Toncenter client* and `provider/_utils` import modules the
  repository does not have and cannot be loaded; what they would do is one
  request, or one body of fields, per call.
- *The keystore* encrypts and signs with a library and keeps nothing.
- *Bags that `to_boc` does not write* (other magic numbers, several roots) and
  the header's fields on whose widths both sides agree.
- *Small helpers*: `address_state`, `to_addr_pk`, path lookup, base64,
  `parallelize` and `coro_result`, which nothing calls; the examples.

## 8. Plan

Order of work: the async wrapper and client first, because everything that
runs concurrently is there; then the calls on top of them; then what goes into
cells; then the algorithms beside them. All modules of this order are written.
What is left:

1. *Proofs*: every safety property of the runs has its theorem. Next are action
   properties of the components that have none yet: what was collected is never
   changed (`AccountHistory`, `BlockListing`), an executed query stays executed
   (`HighloadV2`); and that the client uses of a wrapper what `RequestChannel`
   promises.
2. *Models*: send modes and the fields of messages in `WalletMessages`, read
   back through the reads of `CellData`.
