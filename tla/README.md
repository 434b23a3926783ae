# Verification of the stateful programs of the repository

The repository collects solutions of programming contests: a few long-lived programs (servers,
emulators, an in-memory database, a multi-threaded index builder) among many scripts that run
once. There is no central program. This project models, one after the other, the programs that
keep state and have something that can go wrong between two of their steps. Part 1 lists
all of them; part 2 is the plan; parts 3 to 7 describe what is modelled, checked and proved:

* the poker solver `src/ghost_in_the_shellcode/gitzino/distribute/cpp/solve.cpp`, all of its
  commands except the self test (line numbers without a file name are lines of that file);
* the signed ratchet messaging `src/ccc/crypto/miner` (`server.py`, `protocol.py`, `miner.py`);
* the battleships server `src/hacklu/2010/ch5/server` (`battleships.py`, `redbeard.py`);
* the software update installer `src/ccc/crypto/software_update/installer.py`.

## 1. Inventory

### 1.1 The Gitzino solver (C++, threads, files) - modelled

The game deals five cards and five more from a deck shuffled by a 32-bit seed. The solver builds
an index of all 2^32 deals by their first hand and answers, for a hand a player holds, which
cards to return.

| part (command) | state | operations | interacts with |
|---|---|---|---|
| index build (`init`) | queue of seed blocks or chunks, a private buffer per worker, the chunks of the slice in memory, the files, LOW_KEY/HIGH_KEY | `init_compute`, `initPass`, `Worker::stage1`, `stage2`, `Queue::get`, `pushData`, joins | calls chunk layout; writes the chunk files |
| chunk layout and files | `raw_data`, `data`, `pos`, `n`, the file | `Chunk::init`, `transform`, `dump`, `load` | the bytes are read by all later commands |
| cost table (`cost`, `load_cost`) | `tmpCost` shared by the workers, a buffer each, the file | `Manager::init_cost`, `Worker::init_cost`, `pushCosts`, `dumpCost`, `loadCost` | calls the category of a hand; read by the later commands |
| category of a hand | none | `getCostNoCache` | fills the cost table |
| expected gain (`expected`) | the loaded chunks, the cost of each order, `totelem` | `load_query`, `do_cost_eval`, `unload_query`, the worker of each | reads chunks and cost table |
| search for an order (`optim`) | per object: order, swap, best swap, their costs | `PermEval::init`, `gen_next`, `select_next`, `Optimizer::go` | runs the three phases of the expected gain |
| answers (`query`) | the hand, the chunk in memory | `main`, `getBestAction`, `getBestActionForHand`, hand encodings | reads chunks and cost table; a client talks to it line by line |
| self test (`test`) | none kept | random deals, an average | the parts above |

Hard here: the workers share a queue, the chunks and the table, mostly without locks, and rely on
joins and on the queue handing each item out once; buffers are flushed in the middle of the work
and once more at its end; sizes must divide each other in one place and need not in another; the
same variables are reused by passes, ranges and rounds; swaps are applied and undone three calls
apart; numbers are read as digits from the left and as bits from the right.

Correct means: every deal ends up in the file of its key, once, whatever the interleaving; a
lookup by key finds exactly the deals with the key; the table has every hand and its file is the
table; a total has each chunk once; an answer is a best answer.

### 1.2 The signed ratchet messaging (Python, two processes, a connection, a file) - modelled

| part | state | operations | interacts with |
|---|---|---|---|
| `server` (Alice) | a `RatchetProtocol` object, the state file, `init` | start with `--init` or from the file, receive, answer, leave the loop, dump | one connection; the file |
| `client` (Bob) | a `RatchetProtocol` object | connect, send a text, wait for the answer, 300 times | one connection |
| `RatchetProtocol` | its own private element, the last element of the peer, messages received, a counter | `prepare_send_message`, `on_recv_message` | calls the signature scheme |
| signature scheme | a key with a version, the product of all signatures so far | `sign_new`, `update`, `verify` | - |

Hard here: an element is used in one direction and replaced in the other; a message is stored
before it is decrypted and counted after; the state file is written at one of the ways out of
the loop; a server goes on from an old state while a client never does; either process can go
away at any step. Correct means: what is read is what was sent, in order; the file never holds
half an exchange; nobody waits for ever.

### 1.3 The battleships server (Python, a thread per connection) - modelled

| part | state | operations |
|---|---|---|
| boards and ships | fields with ship and hit, a cached `alive` per ship, the guest's shadow board | `_createBoardRandom`, `Ship.__init__`, `GameBoard.hit`, `lost`, `UnknownBoard.shot` |
| `Game` | whose turn it is | `play` |
| `CaptainRedbeard` | a counter and a ratio | `shoot`, `setHitRatio` |
| `GameSession` | the game of the session | `handle` |

Hard here: `alive` is updated in one place and decides three things; fields can be shot at again;
the search for a place adds offsets to a place already moved; the boards, the shadow board and the
counter must be reset together for each game. Correct means: boards and what is cached or shown of
them agree, a session goes by the rules, and ends.

### 1.4 The software update installer (Python, the file system) - modelled

State: the tree it installs into and, while it runs, one active call of `copytree` per level, each
with its list of errors. Operations: the check of an update, a first script, the copy, a second
script. Hard here: an entry that fails does not stop the copy, errors of all levels are merged
through two exception classes of which one is the other's parent, a run may be killed anywhere and
come again over what it left. Correct means: every failure is reported once and all that does not
lie below one is tried; the second script runs on complete updates only.

### 1.5 The other components

| component | state | operations | hard behaviour | correct means |
|---|---|---|---|---|
| Client and first oracle (`gitzino/solve.py`, `gitzino/solve.cpp`) | dialogue state, a table keyed by hand | `Server.play`, table build | a dialogue of three parties | the actions sent are those the oracle gave for this hand |
| pwndb (`ccc/pwn/pwndb`) | tables, a sorted index per column, open cursors | create, insert, update, select, cursor next/close | cursors hold iterators into vectors that inserts and updates grow and sort | an index has each row once, in order; a cursor returns the rows of its condition |
| MSP430 emulator (`uc/emulator`) | registers, memory, status, pending interrupt, snapshots | step, interrupts, reset, snapshot/restore | flags of subtraction at 0, byte/word variants; input arrives between steps | flags as the architecture defines them; reset and restore give a defined state |
| Mario launcher, relay, sorter (`hacklu/ctf_14/exploit/mario`) | a process per connection, unix sockets, a thread per client | accept, start, relay, read, sort | starting a service twice, short reads and writes, two sides waiting for each other | bytes arrive in order; one service per name |
| Services that are scripts (prison, blackjack, serv_500) | one list or one file each | menus | removals while iterating | case by case |
| One-off scripts, data | none | - | - | - |
| Vendored and generated code | - | - | - | - |

The services that wrap libraries missing from the repository, the one-off scripts and the vendored
code are not modelled: the first would be mostly guesses, the second keep no state between two
operations, the third is not this repository's logic. `PROJECT.json` lists every component with
its status, and every hazard found at the line where it bites.

## 2. Plan

Order: the most concurrent program first, then those where messages or callbacks interleave, then
the pure arithmetic.

| step | modules | abstract specification | what is checked | what is proved |
|---|---|---|---|---|
| done | `IndexSpec`, `IndexBuild` | `IndexSpec`: a file per chunk, written once, with the deals of its keys | refinement, ownership, nothing lost | the invariant, and the refinement of every step |
| done | `ChunkIndex` | rows by key | layout of all small chunks | loop invariant, rows, bounds |
| done | `CostTable`, `HandCost` | complete table; the rules of the game | batches, interleavings; all hands of 52 cards | invariant, `EntriesFinal`; the category by equal cards, of hands of up to five |
| done | `CostEval`, `PermSearch` | each chunk once; one swap from the start | phases, rounds | invariants |
| done | `Hands`, `Query` | worth of a set of positions | an answer is a best answer | digits lose nothing, the answer is a best one |
| done | `Ratchet` | `Conversation`: each reads what the other said, in order | kills, lost connections, restarts with and without the file; nobody waits for ever | the invariant, and the refinement |
| done | `Battleships` | `Duel`: the rules, over the ship fields nobody has hit | every placement and shot of a small session; it ends | the invariant, and the refinement |
| done | `Installer` | `TreeCopy`: all is tried but what lies below a failure, every failure is reported | failures of every entry, kills, runs over what is left | the invariant, and the refinement |
| next | `SSTable`, `Database` (composes `SSTable`) | `Relation`: a set of rows, a cursor enumerates a subset | cursors across inserts and updates, bounds of `find` | sortedness, no row twice |
| then | `Msp430Alu`, `Msp430Run` | flags by definition on integers | all operands at a small width (width is a constant), run states against the order of host calls | flag lemmas for every width; run-state invariant |
| then | `Sorter`, `Launcher` | bytes in order; one service per name | bounded sockets, EAGAIN, two sides both writing | conservation of bytes |
| last | client of the solver (`Player`, composed with `Query`) | every question has one answer | the dialogue | - |

## 3. Modules and the code

Every definition that models code has a row in `PROJECT.json` `map` with the lines it stands for.

* **IndexSpec** says what `init` promises: chunk files appear one at a time and each holds
  exactly the deals whose key it covers, once; in the end all are there.
* **IndexBuild** is `init`. `phase` is where the main thread stands in the loop of `init_compute`
  (`rebase` before `initPass`); `q`, `raw`, `index`, `disk` are `GlobalData::q`, the chunks'
  `raw_data`, their `data`/`pos`, and the files; `pc`, `item`, `buffer`, `cursize` belong to a
  worker thread. `StartStage1`, `StartStage2` and `EndPass` are the main thread, with its joins as
  guards; `Get1`, `Flush`, `Fill`, `Drain` are the steps of `stage1`; `Get2`, `Transform`, `Dump`
  those of `stage2`. The shuffle of a seed is the constant `Low`; a multiset of deals counts how
  often each seed is in it. Threads are created one after the other: a thread not yet created is
  one that has not taken a step.
* **ChunkIndex** is `struct Chunk`: `StartRow`, `CopyDeal`, `EndRow`, `FillTail` are the loops of
  `transform`, one iteration a step; `ChunkDump` writes the file and drops the arrays (the code
  frees them in the next `init` of the chunk); `ChunkLoad` reads it back. The input is what `std::sort` may
  return: any sorted sequence, ties in any order.
* **CostTable** is `cost` and `load_cost`. `Get`, `Flush`, `Skip`, `Rate`, `Drain` are the worker
  (a hand with a card twice is skipped by `continue`), `PushCosts` the locked part, which the
  first caller also allocates the table in; `OpenFile`, `WriteSome`, `CloseFile`, `StartLoad`,
  `ReadSome`, `EndLoad` are the batch loops of `dumpCost` and of `loadCost` in a new process.
* **HandCost** is `getCostNoCache`. Its loops that look for a straight run up to `ncards` where
  `nhand` is meant and read past the vector; what they find is a choice (`Memory`). With 48 more
  places (`ncards - nhand + 1`), and 48 mod 13 = 9, the second loop can close only for values
  in sequence, whatever the memory holds. `Repeat` is the vector of counts in the order `sort`
  leaves it in, `FirstThat` the first `return` whose condition holds.
* **CostEval** is `expected`: main's loop over ranges (`LoadQuery`, `DoCostEval`, `UnloadQuery`,
  `NextSep`) and the worker of each phase (`Take`, then `Load`, `Count`/`UpdateCost`/`Rated`, or
  `Unload`; `Finish`). Totals count how often each chunk is in them. `Take` includes the progress
  report, whose division ends the process when the range is shorter than `Percent` chunks. The
  progress reports of the other commands are left out: their divisors are not zero.
* **PermSearch** is `optim` (`swap_cost` is the field `cur_cost`): `GenNext` and `SelectNext` of all objects, and `Evaluate`, the three
  phases of CostEval on one range taken as one step: `CostExact` says what it adds. `optim` evaluates
  only the first of its two ranges; the gain of an order is a constant here, so that does not show.
* **Hands** are the encodings (digits in base 52, fields of six bits, masks): `ReadUpTo`, `Powers`,
  `Without` are the loops that build a number and take it apart, as functions of the rounds done.
  `Sums` in Query is the loop over a row. **Query** is
  `query`: `ReadLine`, `LoadChunk`, `RateAction` for each of the 32 ways to return cards, `Answer`.
  Its index and table are constants that stand for what IndexBuild, ChunkIndex and CostTable end
  with: `Row(h)` is `RowsExact`, `Payout` is `TableComplete`.
* **Ratchet** is the messaging. `party[p]` is the `RatchetProtocol` object of a party with its
  signature scheme: `element` stands for the private exponent and the public element, `remote` for
  `remote_public_element`, `version` for that of the secret key, `signed` for the running product
  of signatures (the sequence of what was signed under versions 1, 2, ..., which is what `_verify`
  can tell), `received` and `received_ctr` for the messages stored and counted. A key is the set of
  the two elements it is made from; decrypting with another gives other text or none. `server` and
  `client` say where the processes are: `ServerRecv`, `ServerReply`, `ServerSeesClose` are the loop,
  `Truncate` and `Write` the two halves of the dump, `ClientSend`, `ClientRecv`, `ClientSeesClose`
  the client's loop; `ServerKilled` and `ClientKilled` may come at any point. A closed connection
  may still deliver or lose what is under way, and a send on it may raise. A state file that is
  absent and one that is truncated are alike: `load` raises. Texts include "exit", which other
  clients of the same protocol may send. Left out: the logs of all messages the server writes in
  the init mode and `hack_client`, which replays from them; the answer to `REQ_FLAG` is one of the
  answers. `ccc/crypto/white_russian` has the same protocol.
* **Conversation** says what two talkers rely on: `Say`, `Hear` the next text, `Reconnect`.
* **Battleships** is one session (each connection has its own). `search` holds the locals of
  `_createBoardRandom`; `DrawStart`, `PlaceShip`, `TryNext` are its loop, `PlaceShip` raising in
  the last try like the code (battleships.py 345-350). `fleet`, `alive`, `hit` are the ships, their
  cached state and the marked fields; `view` is what the shadow board prints, in which a ship field
  shot at again turns into a miss. `Shoot` is the body of `Game.play` with both notifications;
  `GuestShoots` and `RedbeardShoots` choose the field. `counter` is kept modulo the second number
  of the ratio: `shoot` looks at nothing else of it. `NextGame`, `EndSession` are the branches of
  `GameSession.handle`, `Leave` a connection that is gone at the next send. The two boards are
  reset in one step; prompts that are asked again change nothing and are left out.
* **Duel** has the rules: of a board only the ship fields that nobody has hit.
* **Installer** is a run of the installer over what is in place: `target[n]` is what the place of
  entry n holds, `frames` the active calls of `copytree`, each with the entries left and its list
  of errors. `DirOutcomes`, `LinkOutcomes`, `FileOutcomes` are the ways one entry may go
  (`makedirs`, `symlink`, `copy2` and `copystat`; a file may be torn); `Taken` is what the
  two `except` clauses add up to, `Return` a call that returns or raises `Error`. A file of a
  directory's name goes into the directory, one of a link's name to where the link leads. Scripts
  are taken to leave the entries of the update alone. Size limits and signature are one choice.
* **TreeCopy** has the entries copied, failed and reported.
* **SharedLemmas** holds what the proofs share: facts about division, induction up to a number
  (`UpTo`), what a loop given by its rounds computes (`LoopExists`, `LoopValues`), and the work
  queue; `*_proofs` the proofs; `MC*` the instances. ChunkIndex,
  PermSearch and HandCost name their own variables, `...Init`, `...Next` and `...Spec`, so that
  one module can prove about them and about the component they go with.

`Queue` keeps `int`s; the 32-bit seeds survive the conversion to `int` and back, so blocks are
plain naturals. `malloc`, `fopen`, `fread`, `fwrite` are taken to succeed: the code does not look.

Definitions marked *Variant* are not part of any specification. Each is a plausible mistake in the
definition that follows (a dropped guard, a counter not reset, an end off by one), kept to show
that the property it breaks can be broken: with the variant in place of the definition, TLC finds
the property violated on the same instance.

## 4. Runs

| run | instance | what it shows |
|---|---|---|
| `index` | 3 threads, 8 deals in blocks of 2, buffers of 4, 2 passes x 2 chunks x 2 keys | `ExactlyOnce`: in stage 1 a deal is queued, being shuffled, buffered or stored, in one place, once. `BufferBounded`. `ChunkOwned`: one worker per chunk in stage 2. `JoinBetweenStages`: none is sorted while deals are still pushed. `ImplementsIndexSpec`: safety and termination of the abstract specification |
| `query` | all chunks of at most 4 deals over 3 keys, two second hands; hands of 2 out of 5 cards, 8 deals, keys 0..24 in chunks of 10 | the chunk: `RowsExact`: `pos[k]..pos[k+1]` are the deals of key k, after `transform` and after `load`. `InBounds`, `ChunkTerminates`. The oracle: `HandRecovered`: the two renamings and the encodings cancel. `AnswerIsBest`: no set of positions is worth more than the printed one, worth being told without any encoding |
| `cost` | 2 threads, 9 hands in 16 slots, buffers of 2, batches of 5 and 6; all hands of 5 out of 52 | the table: `SlotsFresh`: the assertion in `pushCosts`. `TableComplete`: table, file and loaded table. `EntriesFinal`: one allocation, no entry changed. `BufferBounded`, `TableTerminates`. The hands: `GroupsRated`: the category of a hand that is no straight, from cards that agree; of a pair of jacks or better only that it is rated no higher. `OnlyStraights`: only straights, ace low or high, are taken for one |
| `handcost_rules` | all hands of 5 out of 52 | a disagreement, see 7 |
| `orders` | `expected`: 2 threads, 5 chunks in ranges of 3 and 2, 2 orders, 2 reports. `optim`: 2 objects, 3 cards, 2 neighbours a round | `ReadsLoaded`: a worker reads loaded chunks only. `MemoryBounded`: only one range is in memory. `CostExact`: each chunk of the range counts once until main leaves the range. `ExpectedRatesAll`: no chunk is left out of all ranges. `AroundStart`: undoing the current swap gives the first order. `CostOfOrder`: what an evaluation leaves is the gain of the order it has rated, up to the next `gen_next` or `select_next` |
| `expected_short` | `expected` with 1 order and 3 reports | a disagreement, see 7 |
| `optim_kept`, `optim_cost` | 1 object, 4 cards | two disagreements, see 7 |
| `battleships` | boards of 4 fields, ships of 2 and 1, ratios 1/2, 2/3, 1/1 | `BoardsAgree`: ships are whole and apart, `alive` is exact. `ViewSound`: the guest's view shows its shots and no ship that is not there. `SetupSucceeds`: the search finds a place. `FullRatioKeepsTurn`: a Redbeard who aims every shot keeps the turn. `ImplementsDuel`: the rules. `SessionEnds`: whatever both shoot at |
| `ratchet` | 3 rounds, 2 texts ("exit" among them), 2 answers, 3 starts of the server | `ImplementsConversation`: what is read is what was sent, in order, over kills and restarts. `FileBalanced`: no half exchange in the file. `NothingResumed`: a state of an earlier conversation is of no use to a new client. `KeysLast`: who is to send can sign, also after restarts that go on with the version in the file. `EveryoneEnds`: nobody waits for ever |
| `install` | a root, a directory in a directory, a file at two depths, a link; 3 runs | `ImplementsTreeCopy`: all is tried, each failure is reported. `PostWhenComplete`: no second script over a tree that is not complete. `NextRunNotBlocked`: whatever became of a run, it takes no file and no directory from the runs after it |
| `install_again` | the same | a disagreement, see 7 |

`query`, `cost` and `orders` each hold two components that meet in one command; a variable of the
instance (`part`, `mode`) says which of the two a behaviour is about, and the other stands still.

### Why the bounds are enough

* `index`: a buffer is flushed in the middle of stage 1 and again at its end (4 blocks for
  buffers of 2 blocks); a worker may get no block; both passes see deals of the other slice; a key
  is shared, a chunk stays empty, the first and last key of each slice occur, and the deals of one
  block go to different slices. A third thread is idle while two conflict. Two passes show stale
  chunks. Blocks divide buffers and seeds, as line 21 demands ("multiple requried"): what happens
  with other sizes is not asked.
* `query`: 4 deals over 3 keys give empty rows at the start, between and at the end, full rows,
  ties, an empty chunk.
* `cost`: 6 valid hands for buffers of 2 flush several times; 9 hands leave slots nobody
  sets; 5 and 6 divide neither 16 nor each other.
* `orders`: more chunks than threads, a last range that is shorter. `Percent` is 2 so that
  no range is shorter than the number of reports, which the source (ranges of 117 chunks and 100
  reports) also satisfies in all but the last range; run `expected_short` is about that one.
  Three cards have three swaps, so two neighbours of a round may be alike or not.
* The hands of `cost` have the numbers of the source. The oracle of `query` has deals that share a
  first hand, hands with one deal and with none, and a renaming that is not its own inverse.
* `battleships`: a ship that can only be placed after several tries, both ways round, next to one
  that is sunk by one hit; `MCBattleships` also evaluates that the instance is `Roomy`, and so is
  what the source plays on (10 fields a side, ships of 4, 3, 3, 2, 1, 1); a ratio below, between and at one. With boards of four fields every
  field is shot at again many times.
* `ratchet`: three rounds are one more than it takes for an element to be made, used and replaced
  on both sides; three starts are an init, a start from its file and one more after that. A key
  signs three times, which is as often as it has to.
* `install`: a failure at the root, above, at and below a directory, before and after its
  siblings; a third run comes over what two left. Any tree may be there before the first.

The solver's runs and `battleships` cut off no counter: their state spaces are finite by
themselves. `MaxStarts` bounds the starts of the server, `MaxRuns` the runs of the installer;
after that the system stands still, so deadlock is not checked in these two. In `battleships` it
is: that Redbeard always finds a field to aim at (redbeard.py 58-63) shows there.

### Fairness

`WF` of the main thread and of each worker: the operating system runs every thread that is not
blocked. It is enough because no thread holds a lock across a step (each locked section is one
step, so a waiting thread gets the lock in the end) and because a thread's next step stays enabled
until the thread takes it. ChunkIndex is sequential: `WF` of its only process. In the runs of two components the fairness is that of the component a
behaviour is about. The refinement to
IndexSpec includes that specification's fairness. PermSearch and Query run until they are stopped
and are given no fairness; HandCost is one call.

Battleships: `WF` of everything but `Leave`: the thread runs and the guest answers each prompt
in the end. Ratchet: `WF` of each process's steps; nobody has to start a process, to connect or to
kill one. Installer is checked for safety only.

## 5. Proofs

TLAPS proves the following for every value of the constants that satisfies the modules'
assumptions, so for any number of threads, seeds, chunks, cards, orders. The assumptions are what the
source fixes: blocks tile the seeds and a buffer holds whole blocks (`IndexAssumption`), keys are
below `max_key`, the packing of hands is injective on valid hands (`CostAssumption`), at least one
thread, sizes are positive; a board has a field and each ship a length; Bob sends no more messages
than his key has versions (300 and 512); `perm` holds every card and `iperm` is its inverse, no deal
has a card twice, no payout is negative (`QueryAssumption`), and no row is longer than -INT_MIN, so
that a cost stays above it (`RowAssumption`: there are 2^32 deals for 311875200 first hands); every
entry of an update lies below its root (`InstallerAssumption`). TLC evaluates them in every run.
`GroupsAreRated` has two more hypotheses, five cards and four colours at most: with more, three
values may repeat, and the rules are told for two.

* **Battleships_proofs**: `SessionInvariant`, `TypeCorrect`, `BoardsAlwaysAgree`, `ViewIsSound`,
  `RedbeardKeepsTurn`, `GoesByTheRules`, for any size, fleet and ratios. `SInv` adds that ships
  share no field, that both fleets are alive while a game goes on, and that the counter is below
  the ratio. An aimed shot hits because a ship that is alive has a field not hit (`AliveExact`),
  which is also why a hit field leaves the set `left` of Duel and no other step changes it, why
  Redbeard always has a target (`TargetIsFound`; the code does not test it), and why an aimed shot
  always takes a field (`AimedShotsCount`), which is what brings a session to its end.
  `SetupNeverFails` is `SetupSucceeds`, under the hypothesis `Roomy`: twice the length of a ship is
  at most the side plus two, and the walk of the search visits more fields than the ships before
  it can block. Without it the claim is false: on a full board the code raises. The offsets add up,
  so the search does not go field by field; `Walk` is where its tries are told from the first
  one, and the tries of two starts differ by a shift of the board, under which different fields
  stay different (`ModCancel`). At a field where no orientation fits, an earlier ship lies within
  2n - 1 fields of the column (`InTheWay`), so each field of the earlier ships blocks that many
  fields at most (`FewInTheWay`), and they are as many as `FieldsOf` says (`FleetSizes`). If all
  tries but the last were refused (`TriesRefused`), the fields visited would all be blocked,
  against `Roomy` (`NotExhausted`).
* **Ratchet_proofs**: `ConversationInvariant`, `TypeCorrect`, `FileIsBalanced`,
  `NothingIsResumed`, `KeysAlwaysLast`, `EachReadsTheOther`, `NoMutualWait`,
  `ConversationAdvances`, for any number of rounds and starts. `RInv` says whose
  turn it is by where the processes are: at most one message is under way to each side, its key is
  the one its reader will use, and its signature covers the messages of this connection only. A
  server with messages of an earlier one has therefore more than the signature covers and accepts
  nothing; one without has still the element of the key files (`Original`).
  For `KeysAlwaysLast` the version of a key is one more than the signatures made with it, also in
  the file (`Versions`), and Bob stops after `Rounds` messages (`BobStops`); Alice answers only
  messages of this connection, and has signed nothing else when she does. While the two are
  connected it is one's turn (`NeverBothWait`), and each step takes one off four per round.
* **IndexBuild_proofs**: `IndexInvariant`, and from it `TypeCorrect`, `NoDealLost`, `NoOverrun`,
  `ChunkOwnership`, `BarrierBetweenStages`; `WritesExactFiles`: every step is a step of IndexSpec
  or leaves the files alone. The properties alone are not inductive. `IInv` adds the same facts of
  stage 2: each chunk of the slice waits unsorted with its exact deals, is held by one worker, or
  is written and empty; the queue has each number once; the files of the passes done are exact;
  the chunks are empty between passes. The key step is that a deal in the current slice is in
  exactly one of four places, and each of `Get1`, `Fill`, `Flush`/`Drain` moves it one place on;
  at the join all workers are idle, so the one place left is the chunk. `ThreadsAlwaysAdvance`:
  within a stage a worker's own steps lower `ThreadLeft`, and no other thread raises it.
  The end of the module is about ChunkIndex: `LayoutInvariant`, `ChunkTypeCorrect`, `RowsCorrect`,
  `WritesInBounds`, `AlwaysNearer`. In `ChunkInv`, the entries of `pos` up to the current row
  separate smaller from larger keys, and `data` copies the deals so far. `StepsLeft` falls with
  every step because a row is left only after its first deal was copied (`RowMoves`).
* **CostTable_proofs**: `TableInvariant`, `AssertionHolds`, `BufferIsBounded`, `TableIsComplete`,
  `EntriesAreFinal`, `WorkersAlwaysAdvance`, `FilesAlwaysAdvance`. The assertion is safe because a hand is queued, held or buffered at most once,
  and a slot is set only if its hand is in none of these; the file loops carry how far they are.
  The end is about HandCost: `RankInvariant`, `OnlyStraightsAreRatedSo`, `GroupsAreRated`. A circle
  that closes must go up with the sorted values, and `ncards` being a multiple of the number of
  values it closes only one below the first (`RankInv`), so out of sequence the memory does
  not matter. The values that repeat are then counted: sets of cards with different values are
  apart, so their sizes add up to five at most and no more than two values repeat; with none, one
  and two of them `Repeat` is known, and so is what `Alike` and `TwoGroups` say.
* **CostEval_proofs**: `EvalInvariant`, `ReadsOnlyLoaded`, `MemoryIsBounded`, `CostIsExact`,
  `EachRangeCounted`, `WorkersAlwaysAdvance`. In the
  middle of an evaluation the cost of order p has chunk c if c was taken from the queue and no
  worker holding it has still to rate p. `EachRangeCounted`: range k has the chunks c with
  `c \div active_range = k`, every chunk has its k below `nsep` though the division is rounded up,
  and main leaves a range only with exactly its chunks in every cost. A process that died keeps the invariant; that it does not
  die is not claimed (section 7).
  The end is about PermSearch: `SearchInvariant`, `AlwaysAnOrder`, `StaysAroundStart`,
  `CostIsOfOneOrder`. A swap is its own inverse; `cur_cost` must be known to be zero before an
  evaluation. That the cost `gen_next` judges belongs to the swap it keeps is no theorem: it is
  false after `select_next` (section 7).
* **Query_proofs**: `QueryInvariant`, `TypeCorrect`, `HandIsRecovered`, `AnswerIsAlwaysBest`, for any
  deck, deals and payouts. The loops over digits are recursive functions; that each is defined by
  its rounds, and what it computes, is shown by induction over the rounds (`UpTo`, a set that has
  0 and the successor of each member; it rests on a smallest counterexample). From that, digits are
  read back (`DigitsRoundTrip`), so the keys of two hands differ when the hands do
  (`RowIsSeen`: a row holds the deals in which the player sees this hand) and every set of
  positions is a mask (`EveryMask`). `BestSoFar` says that in the middle of the loop the best of the
  ways rated so far is kept with its own cost; it starts from INT_MIN, which is where the bound on
  rows is needed.
* **Installer_proofs**: `SpecInv`, `TypeCorrect`, `PostIsComplete`, `NextRunIsNotBlocked`,
  `InstallerImplementsTreeCopy`, for any tree and any number of runs. The properties say nothing of the
  active calls; `CallsInv` does: what is left to them is what nobody has tried below directories
  that are copied, each directory has one call, and their lists together are what failed. When
  the last call returns without an error nothing is left, so everything below a copied directory
  is copied, and as the tree hangs together (an assumption over sets of entries) that is everything.
  `NextRunIsNotBlocked`: a directory can be copied as long as nothing else has its name, and a step
  leaves at its place what was there or a directory (`PlaceOfDir`); a file always can.
  `InstallInv` bounds the installs by the runs, for their type only.

Each inductive invariant was an invariant of the component's run while its proof was made; as
theorems they hold for all constants and the runs leave them out.

## 6. Only model-checked, or not modelled

* Only checked, because the prover does not do liveness under fairness: `ChunkTerminates`,
  `TableTerminates`, `ExpectedRatesAll`, `SessionEnds`, `EveryoneEnds` and the fairness
  half of the refinement to IndexSpec. What each rests on besides fairness is proved: a natural
  number that every step lowers (`AlwaysNearer`, `ConversationAdvances`), one per worker that its
  own steps lower and no other raises (`ThreadsAlwaysAdvance`, `WorkersAlwaysAdvance`), loops
  that move on (`FilesAlwaysAdvance`), the ranges that cover all chunks (`EachRangeCounted`), a
  party that always has something to do (`NoMutualWait`), an aimed shot that always counts
  (`AimedShotsCount`). That the steps are taken, and that a finite number of workers is enough
  for a join, is left to TLC. All invariants and action properties of the passing runs, and the
  refinements of Duel, Conversation and TreeCopy, are theorems. The five runs of section 7 show violations and
  have nothing to prove.
* Abstracted: the shuffle (`mt19937`, `getPerm`), the gain of a chunk or an order, the category
  stored in the cost table (a constant; `HandCost` models it on its own), the progress lines.
* Not modelled: failing allocations and files, malformed lines given to `query` (an assertion ends
  the process), `solve test`, the installer's hash of a directory, and the components of 1.5. Of
  these pwndb, the emulator and the launcher keep state and are left for later; the others are
  scripts that run once, wrap libraries that are not in the repository, or are vendored. Most of the
  lines of the repository are scripts and data of that kind: the modules cover the programs above
  and little of the whole.

## 7. Where the code and what it says disagree

Each has a run that TLC must find violated, and an entry in `PROJECT.json` `findings`.

* `info_period` (527) is zero in the last range, which has 45 chunks for 100 reports: the process
  ends before the result is printed.
* `select_next` applies the best swap (304) and the next `gen_next` undoes it (315): the search
  does not leave the neighbourhood of its first order.
* `gen_next` judges `cur_cost` as the cost of `cur_swap` (316-317). After `select_next`, which has
  replaced `cur_swap` (303) and left `cur_cost`, that is the gain of the last neighbour of the round
  with the best swap of the round: the line at 313 prints it with an order it does not belong to,
  and if it is no worse than the best cost it is kept with the wrong swap. With two neighbours a round that is
  every second judgement. (Before the first evaluation there is no cost at all: the initial 0 is
  taken for one, which orders that all lose do not beat.)
* A pair of jacks or better is paid (756) and never found: the test (177) reads `repeats`, which
  stays empty, where `repeat` is meant. Ten to ace is never a straight nor the
  royal flush: the loops (141, 147) and the test (160) go up to `ncards`, 52, where the hand has 5
  cards. The older `gitzino/solve.cpp` (107-118) has the number of cards of a hand there. Whether a
  straight from the ace up is one, and of one colour even a royal flush, depends on how the memory
  behind the values goes on.
* The comment of `copytree` (installer.py 39-40) says that with `exist_ok` it does not fail on an
  existing directory. It does if the directory has the link of the update (67): an update with a link
  that is installed, or whose copy was cut off after the link, can never be installed again.

Other observations, without a run of their own:

* The end of `expected` is written for a total over all ranges: line 813 asserts `totelem ==
  max_seed` and line 814 prints `cur_cost / max_seed` as the expected gain. But `load_query` resets
  `totelem` for each range (686), to which it and `eval_cost` both add (539, 576), and main resets
  `cur_cost` for each range (803). So the assertion fails, and were it left out, the gain of the
  last range would be divided by the number of all deals. `CostExact` speaks of one range, until
  main leaves it, and the average of the range is what main prints there (809-811). No run goes that
  far with the numbers of the source: the first disagreement above ends the process before.
* A file of an update that meets a directory or a link of its name is not put in its place, and
  the update counts as installed (installer.py 85); `PostWhenComplete` says so.
* A server whose client has gone while it answers ends without its state being written
  (server.py 293 is outside the `try`); one whose client goes before that writes it.
