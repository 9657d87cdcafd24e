# A verification of the matching engine

TLA+ modules, TLC runs and TLAPS proofs about the program in `src/`: a price-time
priority matching engine (`engine-core`), its codecs (`engine-protocol`), a tokio TCP
server (`engine-server`) and a terminal client (`engine-trading-client`).

Contents: [the system](#the-system), [the hard behaviours](#what-is-hard),
[the modules](#the-modules), [the runs](#the-runs), [bounds](#bounds),
[fairness](#fairness), [what is proved](#what-is-proved),
[where documents and code disagree](#where-documents-and-code-disagree),
[what is not modelled](#what-is-not-modelled), [the plan](#the-plan).

## The system

| Component | State | Operations | Correct when |
|---|---|---|---|
| `OrderBook` (`engine-core/src/order_book.rs`) | `bids`, `asks`: `BTreeMap<price, VecDeque<Order>>`; the cached top `prev_best_*` | `add_order` (ack, matching loop, queue the rest, report the top), `cancel_order`, `flush` | price-time priority, no crossed book, quantities conserved, every change of the top reported |
| `MatchingEngine` (`engine-core/src/matching_engine.rs`) | `order_books` by symbol, `order_to_symbol` by `(user_id, user_order_id)` | `process_message`: new order, cancel, flush, query | cancels reach their order, symbols do not interfere, outputs tell the whole story |
| Main task (`engine-server/src/server.rs`) | listener, registry of outbound senders (shared, `RwLock`), the first `engine_tx` | accept, refuse above `max_clients`, register, spawn; Ctrl+C, clear the registry, exit after 200 ms | the limit holds; shutdown lets the engine finish |
| Client task (`engine-server/src/client.rs`) | protocol of the connection, partial input | read, parse, send to the engine; remove itself at the end | each message once, in order |
| Writer task (`client.rs:28`) | the outbound channel's receiver | write CSV lines | no gap, no repetition |
| Engine task (`engine-server/src/engine_task.rs`) | the `MatchingEngine`, the request channel's receiver | receive, process, broadcast under the read lock | one stream for all clients |
| Codecs (`engine-protocol`) | none | parse and format CSV, encode and decode frames | decoding inverts encoding |
| `App` (`engine-trading-client/src/app.rs`) | the user's orders with their status, displayed tops, input buffer and mode | key presses, engine messages | the display agrees with the engine; an order is the one that was entered |
| `EngineConnection` (`.../network.rs`) | stream, read and write buffers, reconnect counter | heartbeat, send, read, reconnect with back-off | frames survive reads that are cut short; commands are taken in order, each once; it connects again |
| Rendering (`ui.rs`, `components/`) | none | draw | not a matter of state |

How they interact: clients' bytes reach the client task of their connection, which sends
`EngineRequest`s over one unbounded channel to the engine task; the engine task calls
`MatchingEngine::process_message`, which calls into one `OrderBook` (all of them for a flush),
and sends a clone of every output to every registered client's own unbounded channel, from
which the writer task writes to the socket. The registry is the only shared memory. A connection leaves the registry
when its reader ends, which drops the last sender of its outbound channel and so ends the
writer. In the trading client two unbounded channels join the `App`'s UI loop and the
`EngineConnection` task.

## What is hard

`PROJECT.json` lists every hazard at its line with the properties that cover it. In groups:

* **Long sequences of legal calls.** The book is a mutable structure edited by two copies of
  a nested loop; cancels leave empty levels behind which later matches meet; keys may be reused.
* **Boundaries.** The sum at the best level is a `u32`; remaining quantities are subtracted on
  two orders at once; a quantity of 0 is refused by both codecs
  and not by the engine; symbol lengths end at 1 and 32; offsets in a frame are computed by hand.
* **Stale state.** The cached top of book, and the cancel-routing map, which is overwritten
  by reused keys and not cleaned when orders fill.
* **Interleavings.** Registration checks a limit under one lock and inserts under another,
  while readers leave and the engine broadcasts; channels are closed by whoever drops the
  last sender.
* **Bytes.** A read ends anywhere; the protocol is guessed from one byte; both ends have to agree on
  where a frame begins and on the order of the bytes of its length.
* **A display that lags.** The trading client shows what messages told it; commands, fills, cancels
  and flushes cross on the way.
* **Futures dropped at an await.** `select!` drops the branches that lose, so that a read may end
  with half a frame; a reconnect keeps what was read from the old stream.
* **Keys.** Text, cursor and side survive from one entry to the next; the cursor counts characters and the string bytes.
* **Partial failure.** A panic ends the engine task alone. A client may close half of its
  connection, or vanish with replies under way.
* **Shutdown.** Who waits for whom once Ctrl+C is pressed.

## The modules

| Module | Models | How state and actions correspond to the code |
|---|---|---|
| `Book` | the data structure | `levels["Buy"]`/`["Sell"]` are `bids`/`asks`: a function whose domain is the map's key set, so a level without orders is there. One operator per method or loop body: `BestPrice`, `AddToBook`, `RemoveOrder`, `MatchStep` (one iteration), `MatchOrder` (the loop), `TopEvents`, `FlushOutputs`. No state. |
| `LimitOrderBook` | the promise | A set of resting orders and at most one incoming order; trade with the order that is ahead. No levels, queues, caches or keys. |
| `OrderBook` | one `OrderBook` | `add_order` is split at the iterations of `match_order`: `AddOrder`, `MatchFill` or `MatchEmptyLevel` repeatedly, `FinishAdd`. `cancel_order` and `flush` are one step each. A sum that overflows panics or wraps (`OverflowOutcomes`). |
| `MatchingEngine` | `MatchingEngine` | One action per branch of `process_message`, each a whole handler (it takes `&mut self`); `LoopIsMatchOrder` of `OrderBook` justifies the single-step `MatchOrder`. A flush may visit the books in any order. |
| `EngineReplay` | a run and its replay | Extends `MatchingEngine` with a second instance that is fed the same messages. |
| `EngineServer` | the tokio tasks | `main`, `reader`, `writer`, `engine` are program counters; `registry` is the map's key set; `requests` and `outbound` are the channels; `wire` is what a client has sent and the server has not read. One action per await-to-await section; a failing `accept` and its pause included. The engine's reply to a message is one item named by the message. |
| `TradingApp` | `App` | One action per command (`SubmitInput`, `CancelSelectedOrder`, `CancelAllOrders`) and one per branch of `handle_engine_message`. It extends `MatchingEngine`: `EngineReceives` processes the App's next message, `OtherUserActs` one of somebody else, for this symbol or another. `to_network` and `to_app` are its two channels, `shown` is the entry of `order_books` for the App's symbol. |
| `EngineConnection` | `network.rs` | `task` is where the loop is: in `select!`, asleep in `handle_disconnect`, or aborted. `link` is the stream as the client sees it, `inbound` the socket, `rx` the channel from the App. One action per branch of `select!` that completes (`Send`, `HeartbeatFails`, `TakeBuffered`, `ReadFails`), and one per read inside `read_message`, since every await is a place where the future may be dropped (`Read`). The server speaks frames, as the client expects, or CSV lines, as `engine-server` writes them. |
| `OrderEntry` | the keyboard | One action per key by `input_mode`, with `run_app`'s table and the App's method in one (`SubmitEntry` is `submit_input`, as `SubmitInput` is in `TradingApp`). `input_buffer` is the characters, `Offset` their bytes. `typed`, `entry` and `abandoned` are what the user thinks is going on. |
| `BinaryCodec`, `CsvCodec` | the codecs, both ways | Operators on sequences of bytes. A result is a sequence of one message, or of none where the code returns `Err` or `None`. |
| `Wire` | one connection in bytes | `wire` is what is in flight, `buffer` and `frame_len` are the readers' partial input. `SendLine` (nc), `SendParsed` (`examples/tcp_client.rs`) and `SendMessage` (`EngineConnection::send`) write; `Detect` is the peek; `ReadCsv` is one read with the whole inner loop; `ReadLength` and `ReadFrame` are the two `read_exact`s. It details `ReadMessage` and `ReadEnd` of `EngineServer`, for one connection. |
| `MC*` | instances for TLC | symmetry sets, the keys of `TradingApp`'s user, the lines typed in `Wire`, the replies in `EngineConnection`. |
| `Filters` | `Only` | what an observer keeps of a sequence; no code. |
| `FoldProofs` | lemmas | folds over sequences and sets, and lists of sorted keys: what the proofs below know about `FoldLeft`, `MapThenFoldSet`, `FlattenSeq`, `SetToSeqs` and `Only`. |
| `BookProofs`, `OrderBookProofs` | theorems | lemmas about the operators of `Book`; types, consistency, `NotCrossed`, `TopCoherent`, priority and conservation of `OrderBook`, its steps as steps of `LimitOrderBook`, what a flush says of each order, and the loop as one step. |
| `MatchingEngineProofs` | theorems | routing, the feed, isolation and departures in `MatchingEngine`; the replay. |
| `EngineServerProofs` | theorems | the registry, the reply stream and the requests of the server. |
| `CodecProofs` | theorems | the binary codec, and what lines of digits, commas and letters can be told apart. |
| `ConnectionProofs` | theorems | `EngineConnection`: the send queue, and the frames that are read; `Wire`: how a stream is cut into lines and frames; and both codecs as `Wire` uses them. |
| `TradingAppProofs` | theorems | `TradingApp`: what every call of the engine says of each order, and the App's invariant that rests on it; `OrderEntry`: the text and the entry of an order. |

Abstractions that matter to a reader of the code:

* A key is the pair `(user_id, user_order_id)`. `timestamp_ns` is written and never read, so
  it is replaced by the number of the arrival, which only properties read.
* `OrderBook` has no symbol: it is constant per book, and `MatchingEngine` adds it to every message.
* A market order is a price of 0, as in `NewOrder::order_type`.
* The unread input of `EngineServer` is a sequence of complete messages, each valid or not; how bytes
  make a message is the business of `Wire`. An invalid CSV line is skipped and an invalid frame ends the
  reader, as in the two readers. The first byte decides the protocol, so either may be assumed.
* `TradingApp` joins the App's channels to the engine directly and in order. In the program the
  connection task, the socket and the server are in between, and they do not work together yet
  (see `framing` below): what `TradingApp` shows is about the App, once they do.
* `TradingApp` has no price entry: nothing fills `order_price_input`, so every limit order has the
  default price of 100, against the workflow of `src/README.md:295`. What is only drawn (selection, toggles,
  recent trades, counters) is left out, there and in `OrderEntry`, where the character of a hotkey is "other" while text is edited.
* In `EngineConnection` a break loses all unread bytes or none: to lose the last ones only is the same as having
  read the first ones before. A heartbeat that succeeds changes nothing. Writes do not block.
* A line a user types comes with its documented meaning, and the meaning is what the engine is expected to get. That the parser
  makes this of the line on its own is `LinesAssumption`, which TLC evaluates for the lines of the runs: it says nothing of how a stream is cut
  into lines, which is what `InOrder`, `Understood` and `Served` are about.
* The peek of `Detect` fails only once nothing is left to read: a reset that overtakes bytes which have arrived is a cut before them.
* Locks are not variables: each critical section contains no await and is one step.

## The runs

| Run | Question | Result |
|---|---|---|
| `orderbook` | Is a book sound through orders, partial fills, cancels, flushes and overflowing sums; does it implement `LimitOrderBook`; does the loop end? | All eleven properties hold. Empty levels do not affect who trades with whom: only what is announced. |
| `engine` | Do cancels reach their order, do symbols stay apart, does the feed suffice, and what does the input determine? | Yes, for keys used once since the last flush; reused keys are allowed and never damage another symbol. A second engine with the same input has the same books, tracked keys and outputs of each symbol. |
| `server` | Are messages and replies neither lost, repeated nor reordered? | Yes, in every interleaving of two connections. |
| `server_liveness` | Is the limit kept, is every message answered, does the engine stop when alone? | Yes. `max_clients` holds because only the main task inserts. |
| `trading_app` | Does the terminal's display agree with the engine? | Yes: fills, statuses, tops and cancels, through every race of two orders with another user. |
| `wire` | Does the engine get what was typed, whatever the chunks? | Yes, from `nc` if the first line is a command, and from the example client. |
| `connection` | What becomes of commands and replies when reads are cut short and connections break? | Commands are written or dropped, each once and in order; frames survive. From `engine-server` nothing is ever heard. |
| `order_entry` | Is the order that is sent the one that was entered? | Yes, but for a search after an Escape; the text is what was typed until a character of two bytes. |
| `empty_level` | Does a top of book that is not eliminated have something to trade? | **No.** |
| `framing` | Does the server understand the trading client (`TradingSpec`)? | **No**: the byte order of the length differs. |
| `comment_first` | Does the server understand a CSV file that begins with a comment? | **No**: it is taken for binary. |
| `shutdown` | Does the engine task end after Ctrl+C? | **No**, while a client is connected. |

The properties, by what they would catch:

* `PriceTimePriority`, `Fifo`, `NotCrossed`: a fill with the wrong order, a lost place in the
  queue, an order stored where it could have traded.
* `Conservation`, `Consistent`: a Trade message that does not say what happened, a filled order left in a queue,
  a remainder queued twice.
* `TopCoherent` (one book), `FeedCoherent` (engine): a subscriber who keeps only the last
  `TopOfBook` per side drifts from the book.
* `RemovalsAcked`, `DeparturesReported`: an order that disappears without a message.
* `LoopIsMatchOrder`: the loop and its one-step summary differ.
* `Implements`: any of these, as refinement of `LimitOrderBook`, and cancels that take more than one order.
* `AddReturns`: an iteration that makes no progress.
* `Routed`, `CancelTakesEffect`, `Isolated`: a stale or missing route for a cancel.
* `RegistryIsReaders`, `RegistryBounded`: a connection that outlives its task in the
  registry, or the reverse.
* `OneStream`, `ExactlyOnceInOrder`: gaps, repetitions, reordering on either path.
* `Answered`, `StopsWhenAlone`: a task that ends or waits when it should not.
* `FillsAccounted`: a fill counted twice, not at all, or for one of the user's two orders only.
* `RestingIsShown`, `StatusSettled`, `Acknowledged`: a status overwritten by a message that comes later than it should.
* `CancelSettles`: a cancel that is lost in a race. `DisplayCoherent`: tops on the screen that drift.
* `InOrder`, `Understood`, `Served`: a line or frame that is lost, taken early, or kept waiting though complete.
  `Understood` also says that a length read by the server is one.
* `RoundTrip`: encoder and decoder disagree on an offset or a limit, or two messages are formatted alike.
* `FramesSurvive`, `Heard`: bytes lost with a dropped future, a frame kept waiting though complete.
* `EachOnce`, `Taken`: a command written twice, overtaken, or left in the queue for want of a connection.
* `Reconnects`: a connection that is given up.
* `SameBySymbol`: an output that depends on the order in which a hash map is read.
* `TextAsTyped`, `OrderAsEntered`: a cursor, a text or a side left over from an earlier entry.

Each property has a mutant: an operator beside the definition it replaces, marked
"Mutant" in a comment, that makes a plausible mistake; TLC then finds the property violated.

## Bounds

* `orderbook`: two keys, two prices, quantities 1 and 2 (nothing else passes the codecs), four orders, any number of cancels and flushes in between. Two prices give a
  best level, one behind it, and crossing or not; four orders give a queue of two with a partial fill from the
  other side and an order that arrives after a cancel from the middle. Symmetry is not used, because it is unsound for liveness. `U32 = 4` makes two orders of
  quantity 2 overflow; the unit is the only place where width matters.
* `trading_app`: two orders of the user and one of another, for the same symbol or for a second one, one price, the user's quantity twice the
  other's: partial fills, full fills and trades with oneself. Two messages in each channel give every
  pair a chance to cross; the engine waits while `MaxToApp` messages are under way. `MaxOrders = 3` leaves room for
  the user's two orders, so that the bound never keeps one of them waiting (`Unseen`).
* `wire`: two lines, from seven commands (two of them invalid, one with a symbol too long for the binary
  protocol, `MaxSymbolLen = 2`), a blank line and a comment. A read returns one byte or all there are (`PartialReads = {1}`): what
  is in between leads to the same states, and the theorems hold for every set of sizes. Numbers are 0, 12 and 258, so that every byte order and every
  digit counts.
* `empty_level` uses `U32 = 16`, so that no sum wraps to 0 and the empty level is the only explanation.
* `engine`: two symbols, two keys, three orders. A route goes stale with two uses of a key; the
  third order tells which of the two is taken. `SameBySymbol` runs both engines side by side.
* `connection`: two commands, each encodable or not, two replies of 17 bytes on each connection. A read returns 3 bytes or
  all there are, so that reads end inside the length, inside the payload and after the first of two frames. One connection breaks by itself; there
  are more, since each failed message or frame ends one. `MaxExponent = 2` is enough to reach the longest pause and stay there.
* `order_entry`: texts of up to four characters, numbers up to 99 (`ParseLimit = 100`): a third digit overflows, a plus sign and
  zeros may lead, a wide character may stand anywhere with two keys after it. The number of entries is not bounded.
* `server`: two connections and two messages in total, enough for one client's message to
  be overtaken by another's, and for a bad message between or before good ones. `server_liveness` and `shutdown` have one slot
  and one message, so a connection is refused and a slot becomes free again.
* `MaxOrders`, `MaxMessages` and `MaxLines` are guards of `AddOrder`/`ProcessNewOrder`, `Send` and `MayType`;
  `MaxToNetwork` and `MaxToApp` of the App's commands and of the engine; `MaxReplies`, `MaxCommands` and `MaxBreaks` of `ServerSays`, `AppSends` and
  `Break`; `MaxChars` of `EnterChar`. Nothing else is bounded.
* Deadlock is not checked: every one of these programs may stop (a panicked book, an engine with no
  more orders to receive, a server that has exited).

## Fairness

* `OrderBook`: weak fairness of the loop's steps. A synchronous call runs on once it has begun. Callers owe
  nothing.
* `EngineServer`: weak fairness of each reader, each writer, the engine task and the main task: the tokio scheduler
  polls a task that has been woken. Clients need not send, the operator need not press Ctrl+C, the
  engine need not panic. `PatientExit` says whether the final 200 ms suffice for
  whatever is ready to run: the safety run takes the hostile answer (`FALSE`), the liveness runs
  the generous one, so that `shutdown` fails for no lack of time.

* `TradingApp`: the engine and the UI loop go on receiving. Strong fairness for the engine, only because
  `MaxToApp` may hold it back now and then. The user and the others need not act.
* `EngineConnection`: `select!` takes one of the ready branches at random, so that a branch which is ready again and again is
  taken: strong fairness of `Send` and `ReadMessage`, each of which other branches may disable for a while. The sleep in `handle_disconnect`
  ends. The server, the network, the App and the user owe nothing; `Reconnects` says what follows if the server comes back for good.
* `OrderEntry`: none, nothing there has to happen.
* `Wire`: the reader detects the protocol, and a read that can return does. Clients owe nothing.

## What is proved

For every value of the constants, by TLAPS:

| theorem | module | says |
|---|---|---|
| `TypeCorrect` | `OrderBookProofs` | `TypeOK`: no `u32` underflows, no level or position is read that is not there |
| `QueuesConsistent` | `OrderBookProofs` | `Consistent` |
| `NeverCrossed` | `OrderBookProofs` | `NotCrossed` |
| `TopStaysCoherent` | `OrderBookProofs` | `TopCoherent` |
| `QueuesFifo` | `OrderBookProofs` | `Fifo` |
| `QuantityConserved` | `OrderBookProofs` | `Conservation` |
| `FillsByPriority` | `OrderBookProofs` | `PriceTimePriority`, an action property |
| `StepsImplement` | `OrderBookProofs` | the initial states and the steps of `OrderBook` are those of `LimitOrderBook`, or stutter |
| `RemovalsAreAcked` | `OrderBookProofs` | `RemovalsAcked`, an action property |
| `LoopAddsUp` | `OrderBookProofs` | `LoopIsMatchOrder`, an action property |
| `CancelsFindTheirBook` | `MatchingEngineProofs` | `Routed` |
| `FeedStaysCoherent` | `MatchingEngineProofs` | `FeedCoherent` |
| `BooksAreIsolated` | `MatchingEngineProofs` | `Isolated`, an action property |
| `DeparturesAreReported` | `MatchingEngineProofs` | `DeparturesReported`, an action property |
| `CancelsTakeEffect` | `MatchingEngineProofs` | `CancelTakesEffect`, an action property |
| `ReplaysAgree` | `MatchingEngineProofs` | `SameBySymbol` |
| `PairIsAnEngine` | `MatchingEngineProofs` | the first engine of `EngineReplay` is a `MatchingEngine`: the five theorems above hold of it |
| `LimitKept` | `EngineServerProofs` | `RegistryBounded` |
| `RegistryExact` | `EngineServerProofs` | `RegistryIsReaders` |
| `StreamShared` | `EngineServerProofs` | `OneStream` |
| `DeliveredExactlyOnce` | `EngineServerProofs` | `ExactlyOnceInOrder` |
| `WrittenOnce` | `ConnectionProofs` | `EachOnce` |
| `FramesStayWhole` | `ConnectionProofs` | `FramesSurvive` |
| `DecodingInverts` | `CodecProofs` | `CodecInverts`: the binary codec inverts itself, and refuses what is cut short |
| `LinesTellApart` | `CodecProofs` | two replies are formatted alike, in either format, exactly if they say the same |
| `NothingLostInTheCodecs` | `ConnectionProofs` | `RoundTrip`, for every finite set of symbols |
| `StreamIsWhole` | `ConnectionProofs` | `WireInv`: what is on its way are whole lines or frames, and those of the messages the engine has not got |
| `MessagesInOrder` | `ConnectionProofs` | `InOrder`, if a connection of `nc` begins with what looks like CSV |
| `NothingStuck` | `ConnectionProofs` | `Understood`, under the same condition |
| `TextStaysAsTyped` | `TradingAppProofs` | `TextAsTyped` |
| `SentAsEntered` | `TradingAppProofs` | `OrderAsEntered`, an action property |
| `FillsAddUp` | `TradingAppProofs` | `FillsAccounted` |
| `RestingStaysShown` | `TradingAppProofs` | `RestingIsShown` |
| `StatusesSettle` | `TradingAppProofs` | `StatusSettled` |
| `CancelsSettle` | `TradingAppProofs` | `CancelSettles` |
| `DisplayStaysCoherent` | `TradingAppProofs` | `DisplayCoherent` |
| `AppsEngineIsAnEngine` | `TradingAppProofs` | the engine of `TradingApp` is a `MatchingEngine`: the theorems about it hold there |

**The book.** The first ten hold for every set of keys, prices and quantities, every integer width, every number of
orders and both outcomes of an overflow. They assume `BookAssumption` (prices are positive and fit, quantities fit) and
`OrderBookAssumption` (`NoOrder` is not an order), which TLC evaluates in the runs.

`BookProofs` says what the operators do, from the bottom up: `MinIsLeast` and
`MaxIsGreatest` (from well-foundedness of the naturals) give `BestPriceIsBest`; `SetLevelEffect`,
`DropLevelEffect`, `RemoveAtEffect` describe a single edit; `RemoveOrderEffect` turns the search of
`remove_from_side` into "one order with the key leaves one queue"; `TradeQuantityBound` is the
arithmetic of a fill. `OrderBookProofs` first rewrites each action in those terms
(`MatchFillEffect`, `MatchEmptyLevelEffect`, `ReportTopEffect`), proves `TypeOK` inductive by itself,
then proves `IInv == TypeOK /\ Consistent /\ NotCrossed /\ WithinQuantity` inductive.
`NotCrossed` is not inductive alone: that a remainder may be queued follows from the loop's exit
condition, `~Matching`, through `BestPriceIsBest`, which needs the types; `Consistent` needs
`WithinQuantity`, because what `FinishAdd` queues is the active order.

Its second half adds the fact on which everything about time rests: `PriorityInv` says that arrivals grow along every
queue, up to `LastQueued`, that no two queues hold the same arrival (`OnePlace`), and that the order in the loop came last. `Fifo` alone is not enough for
the rest: `Conservation` speaks of totals by arrival, and a fill changes the totals of two orders only
because no third one shares an arrival with them (`OtherArrivals`). `ConservationInv` adds the totals, and that an order
that has not come has none. `FillsByPriority` is a step from `PriorityInv`: `FrontIsAhead` compares the front of the best queue with
the rest of its queue by arrival and with all other queues by price.

Its last part, on the refinement, computes what each edit does to the *set* of resting orders (`RemoveOrderResting`, `SettleResting`,
`MatchFillResting`, with `QueuedOnce` from `PriorityInv`), and needs `NothingTradable`: when the loop stops, no order of the set could have
traded. The fairness of `Implements` is left to TLC.

**Sums, lists and loops.** `TopCoherent`, `RemovalsAcked`, `LoopIsMatchOrder` and everything about the engine speak of what a fold
computes. The library's theorems about folds and induction take an operator as a parameter and cannot be cited, so `FoldProofs` proves what is
needed without one: a set of naturals without a least element is empty, hence a function that obeys the recurrence of a fold
(`Folds`) is determined by it (`FoldUnique`), and the library's definition obeys it. From this come `FlattenFacts`
(where an element of a concatenation comes from), `OnlyFacts` and its companions (a filtered sequence: its parts, head and end),
`SumFacts` (sums), and `AscendingExists` (a finite set of naturals can be listed in order, so the `CHOOSE` of `Ascending` picks something).

`CoherentInv` is `TopCoherent` with the types; what has to be shown is that a subscriber makes of the messages of `TopEvents` what the cache becomes.
`RemovalsAcked` maps each order that a flush removes to
the position of its own acknowledgement in `FlushOutputs`: distinct orders have distinct positions, so there are at least as many, whatever keys they share.
`LoopAddsUp` compares the loop from two states that are one turn apart. `MatchOrder` allows for a number of turns that depends on the book (`Fuel`); each turn but
the last takes an order or a level away (`FuelDecreases`), so that after that many the loop stands still (`LoopEnds`), whichever of the two states it began in. That an order which is popped
is really gone from the set needs `PriorityInv`.

**The engine.** The theorems hold for every set of symbols, keys and prices. `EngineInv` is the conjunction
of the types (with the cached top of every book equal to its top), `Routed`, `FeedCoherent` and
`KeysCounted`: a key that rests was used since the last flush, and one that was used once is in no book twice. `Routed` alone is not inductive:
a cancel takes one order and forgets the key, so a second order with the key would be left without a route; `KeysCounted`
says that with one use there is no second one. A flush is a list of the books in *some* order (`SetToSeqs`); `FlushFlushed` shows that each symbol's part is
the flush of its own book, wherever it stands in the list. `ReplayInv` carries the equality of both engines' variables:
the operators of the second instance are those of the first (`Same...` lemmas), so the same message has the same effect, and the two flushes
differ in the order of the books only, which `Only` for one symbol does not see.

**The server.** The four theorems hold for every set of connections, every `max_clients` and number of messages, and both values of `PatientExit`,
under `EngineServerAssumption`. `RegistryInv` says that registered connections have a reader that has not left, that while the server serves they are exactly
these, and that between the count and the insertion (`main = "register"`, an `await` apart) the registry has room and the
connection is not in it: only the main task inserts, and what other tasks do meanwhile can only make room. `StreamInv` adds, for each connection, that what it has received and
what is queued for it is the log from its registration on, entry by entry (`IsStream`), that a registered connection is up to date, and that
its writer runs for as long as its client is there. `RegistryInv` is needed in it: a broadcast is sent to what is in the registry.
`RequestInv` states `ExactlyOnceInOrder` of one connection as an equation of sequences and keeps the types of the channels; each action moves an
element from the head of one of its parts to the end of the one before, or appends on both sides. When the channel closes the equation is weakened to a prefix, and stays one.

**The binary codec.** `DecodingInverts` holds for every `MAX_SYMBOL_LEN` up to 255, all symbols that are bytes and all numbers that fit 32 bits
(`BinaryCodecAssumption`, `NumbersAssumption`). `Has(buf, offset, piece)` says that a piece stands at an offset of a buffer; what has been written stays when more is
appended (`HasConcat`, `Layout`), a field that stands there is read back (`U32Inverse`, `SymbolFacts`), and a buffer that has been cut is shorter than
the length its decoder asks for. Encoder and decoder of a message are then compared field by field (`NewOrderInverts`, `TradeInverts` and the others).

**The CSV formats.** `LinesTellApart` needs nothing of the symbols, which may be empty or hold commas, and of the numbers only what
`NumbersAssumption` says. The letter at the front tells the type, and with it how many fields there are. Only the symbol may hold a comma, so the
others can be cut off at the last comma (`CutLast`, `SameColumns`) or, in an Ack, where the symbol comes last, at the first one (`CutFirst`, `AckLine`); what is
then left is the symbol. Fields are letters or numbers, and no two numbers have the same digits (`DecimalInjective`: there is no least
number that shares its digits with another, by the recurrence that `DecimalRec` states). `Said` is what a message
says: the code leaves out the price of a side that is eliminated. `FormatsTellApart`, as TLC evaluates it, counts: as many lines as things to
say. `CountedAlike` gets there by a bijection, which is why `NothingLostInTheCodecs`, unlike `LinesTellApart`, is about finite sets of symbols.

**The client's connection.** Both theorems hold for every dialect, all replies, chunks and bounds. For `WrittenOnce`, `QueueInv` is `EachOnce`
with the types of the queue: the numbers in `rx` go on where those taken ended, so that what is written or dropped next is larger than all before.

For `FramesStayWhole`, `ConnectionInv` says what `FramesSurvive` leaves out. `Arriving`: the buffer, the socket and *some* bytes lost behind them are the frames not
yet heard, one after another. Nothing is lost while the connection is open; once it breaks bytes are, but what stands in the buffer is still the front of a frame, so
that one that is complete can be taken from a connection that is closing. `TakeFrame` is the step that needs the codec: the first four bytes of the buffer are those of the next frame
(`SameFront`), hence the length is its length, what is cut out is its payload (`SplitFrame`), and that decodes to the reply (`DecodingInverts`). `LinesOnly`: from a server that writes
lines only text comes in (`LineText`), and no text is taken for a message, whose second byte is its version, 1. That the digits of a number are text needs `TextExists`: the
recursive `Decimal` is a function that obeys its recurrence.

**The server's end of a connection.** The theorems about `Wire` hold for all lines that keep `LinesAssumption`, every number of them, every set of
sizes a read may have, a cut at any byte, and an engine that stops at any time. What is on its way is a sequence of *units*, lines for `nc` and frames for the
binary client, each with its bytes and what it means. `Carries` says that what the reader holds, what it has not read and *some* lost rest are the bytes of
the units, and `OnTheLine` that the messages the engine has, and behind them those of the units, are the ones the user meant; only a cut loses anything. That is
`StreamWhole`. It is not inductive alone: `ReaderKnows` says that the reader was chosen for what the client sends, unless nothing was left to read, and that the CSV
reader holds no newline between two reads; `WireTypes` bounds the length for which the binary reader waits, `GivenFirst` is `InOrder` of a stream that
no longer counts (the engine is gone), and `AllGiven` is what is true when the reader is done. The conjunction is `WireInv`.

A read appends to what the CSV reader holds, and `LinesOf` cuts at every newline: by induction over the units, cutting the bytes of some lines and the front
of another gives back these lines and that front (`LinesAreRead`). The binary reader's first four bytes are the length of the next unit, and the bytes after
them its payload, as in `TakeFrame`; a unit is never longer than 22 bytes and a symbol, so a length that is announced is
reached. `Understood` follows because a reader that waits with nothing on the way holds less than a unit, and so, unless there was a cut, nothing (`NothingLeft`).

Both theorems assume `FirstLooksLikeCsv`: what a connection of `nc` begins with has one of the four letters that `run_client` looks for. It cannot be
left out: `comment_first` violates `Understood` without it. They are about `WireSpec`, so `nc` and the example client; of the trading client, which sends
in `TradingSpec` only, `Understood` is false (`framing`).

**The keyboard.** `EntryInv` adds to `TextAsTyped` that only the last character of a text being edited may be of two bytes (`Narrow`): then bytes and
characters are counted alike up to it (`OffsetOfNarrow`), and the key after a wide one is the last the program takes. The side is that of the
entry going on, or of the one that Escape has ended (`SideInv`). It holds for texts of any length.

**The terminal.** The six theorems hold for every number of the user's orders, every set of symbols, and everything others enter, cancel, flush or
query, under `TradingAppAssumption` and those of the engine: the user's keys are his own and each is used once. Between the App and the engine are two channels, so
that a statement about both is one about the messages under way. `Handled` is `handle_engine_message` for one order, and `Reaches(order, q, ...)` says that
the messages of `q`, handled one after the other, lead from what is shown of the order to what the book has of it (`Agrees`: `Working` if it
rests, `Over` if not), that no message is a trade of the order with itself, and that on the way the order is never shown as over if it rests at the end.

The first half of `TradingAppProofs` shows what each call says of an order: that what it returns leads from any state that agrees with the book before it to one that
agrees with the book after it (`AddedTells`, `CancelledTells`, `FlushTells`). For the matching loop this is an induction over its
turns, with the incoming order and each passive one in turn the order that is looked at (`ActiveTurn`, `PassiveTurn`, `UntouchedTurn`); a market
order's rest leaves without a word, which is why `Over` allows it to be shown as working. It needs that no order without a rest is queued (`Positive`) and that the key is in
the book once (`KeysCounted` of `EngineInv`).

`TradingInv` joins these: an order the engine has seen `Reaches`; one whose message is still in `to_network` is unknown to the engine and to the messages
under way, and pending (`Tracks`); a cancel stands behind the order it cancels, and a new order is in the channel once (`CommandsMatch`); a
cancel that was sent is in the channel or has had its effect (`CancelsKept`). `StatusSettled` is not inductive, nor is `RestingIsShown`: both say nothing of the messages to come.
A message that is handled takes the first step of the walk (`ReachesTail`), one that is sent prolongs it (`ReachesConcat`), and a walk
over no messages is an equality (`QuietAgrees`). `DisplayCoherent` follows from `FeedCoherent` in the same way (`ObserveConcat`): messages that are observed in two parts are observed
in one. The conjuncts of `TradingInv` that do not quantify over walks were checked with TLC on the instance of the run before they were proved.

Only model-checked is what the prover does not do: liveness (`AddReturns`, `Answered`, `StopsWhenAlone`, `Acknowledged`, `Served`, `Taken`, `Reconnects`,
`Heard`), and the fairness of `Implements`. Every invariant and every action property of the passing runs is a theorem.

## Where documents and code disagree

* `order_book.rs:136` returns before the clean-up of empty levels at 143. After a cancel of
  the last order at the best price the book announces that price with quantity 0 and `eliminated: false`, against
  `messages.rs:160` and `:163`; the live level behind it stays hidden. (`empty_level`)
* `server.rs:183` drops `engine_tx` "so engine loop can finish and print stats": the readers hold
  clones. (`shutdown`)
* `network.rs:63` writes the length little-endian, `client.rs:145` reads it "u32 BE": no message of the
  trading client reaches the engine. (`framing`)
* `client.rs:44` takes a stream for CSV by its first byte, and comments (`csv_codec.rs:45`) do not begin with one of the
  four letters. (`comment_first`)

Seen while modelling, without a run of their own:

* `order_book.rs:490` panics in a checked build when the sum does not fit, against "infallible" in
  `error.rs:3`; in the server that ends the engine task. (`pc = "panicked"` in `OrderBook`, `Panic` in `MatchingEngine`.)
* `matching_engine.rs:130` iterates a `HashMap`, so that two runs flush the symbols in different orders, against
  "deterministic" in `README.md:49`. `SameBySymbol` says what is left of it.
* `app.rs:199`: Cancel All passes over an order whose Ack is under way.
* `client.rs:193`: replies are CSV lines without the symbol, also to binary clients: `tcp_client` and the trading client take
  "A, 1" for a length, and the session in `README.md` cannot happen.
  `EngineConnection` shows the other half of it: whatever the server writes as lines, `heard` stays empty
  (`network.rs:129` waits for hundreds of megabytes).
* `network.rs:164` keeps `read_buffer` when it drops the stream, so that a connection that ended within a frame
  spoils the next one (`leftover`). `network.rs:59`: a message that does not encode, of a symbol that is too long say, also drops
  a healthy connection, for two seconds and more, with all replies on their way. `network.rs:41`: a server that accepts and then refuses resets the back-off each time.
* `app.rs:373`: Escape leaves `order_side` set, against "Press `Esc` to cancel entry" (`README.md:298`): `/`, a number and Enter then
  send an order. That is the exception which `OrderAsEntered` makes.
* `main.rs:191`: after `B` or `S` every letter is text, so `M` cannot toggle Market/Limit as in step 2 of `README.md:294`, and
  step 3 has no key. `/`, "Search Symbol" (`README.md:288`), never changes the symbol: Enter does nothing without a side.
* `app.rs:368`: the cursor counts characters, `String::insert` bytes: a key after a character of two bytes panics (`TextAsTyped`), and the
  terminal stays raw, since nothing restores it on the way.
* `main.rs:103` sets `connected` once, against "Real-time server connection monitoring" (`app.rs:499`).
  `main.rs:211` aborts the connection task with whatever commands are still queued.
* `server.rs:173`: Ctrl+C is awaited only beside `accept`: pressed in the pause after a failed accept it waits, or is missed.
* `app.rs:442`: a trade with oneself lets the list of recent trades grow by one.

## What is not modelled

Of the App, panels, selection and toggles. Configuration, port bumping, rendering, the tests and the placeholder error type are not: they keep no
state that anything else depends on. Timestamps, logging and message layout are left out everywhere, as are
numbers that do not fit 32 bits, white space that is not ASCII in `CsvCodec`, and `from_utf8` in `BinaryCodec` (what was encoded is a
`String`, and what is cut short is refused by its length before). That
`order_to_symbol` grows with every order that is filled and
never cancelled is a fact about the code and not a property a bounded model can state.

## The plan

Written so far, in this order: `Book` with `LimitOrderBook` and `OrderBook`, because everything rests on the matching;
their proofs; `MatchingEngine` and `EngineReplay`; `EngineServer`; `TradingApp`, which composes the App with `MatchingEngine`;
`BinaryCodec`, `CsvCodec` and `Wire`; `EngineConnection`; `OrderEntry`.

To model next:

1. A restart of the trading client, whose order ids begin at 1000 again while the server keeps its orders.
2. `EngineServer` over `MatchingEngine` in place of the reply named by its message, and `Wire` as a refinement of the
   server's `ReadMessage` and `ReadEnd`.

Every safety property of the runs is proved. What they check beyond that is liveness and stays with TLC (see [what is proved](#what-is-proved)); the two
extensions above would bring new ones.
