---------------------------- MODULE MatchingEngine ----------------------------
(***************************************************************************)
(* MatchingEngine of engine-core: one OrderBook per symbol and the map     *)
(* from (user_id, user_order_id) to the symbol by which cancels are        *)
(* routed.  process_message takes &mut self, so every message is one step. *)
(***************************************************************************)
EXTENDS Book, Filters

CONSTANTS
    Symbols,           \* the symbols clients use
    Unknown,           \* the symbol "<unknown>" of a CancelAck
    MaxOrders,         \* bound on the number of NewOrder messages
    OverflowOutcomes   \* as in OrderBook

ASSUME MatchingEngineAssumption ==
    /\ Unknown \notin Symbols
    /\ MaxOrders \in Nat
    /\ OverflowOutcomes \subseteq {"panic", "wrap"}
    /\ OverflowOutcomes # {}

VARIABLES
    order_books,       \* symbol -> book; the symbols that have one
    order_to_symbol,   \* key -> symbol; the keys that are tracked
    outputs,           \* what the last process_message returned
    alive,             \* FALSE once a handler has panicked
    arrivals,          \* NewOrder messages so far
    \* History, read by no action:
    uses,              \* per key, the NewOrder messages since the last flush
    feed               \* per symbol, the top as rebuilt from outputs alone

vars == <<order_books, order_to_symbol, outputs, alive, arrivals, uses, feed>>

-----------------------------------------------------------------------------

NewBook == [levels |-> EmptyLevels, prev |-> NoTop]

Without(f, x) == Restrict(f, DOMAIN f \ {x})

\* HashMap::insert; a message is a map from its fields.
Put(f, x, value) == [y \in DOMAIN f \cup {x} |-> IF y = x THEN value ELSE f[y]]

Tag(symbol, messages) ==
    [i \in DOMAIN messages |-> Put(messages[i], "symbol", symbol)]

OfSymbol(symbol, messages) ==
    Only(messages, {m \in ToSet(messages) : m.symbol = symbol})

\* OrderBook::add_order and cancel_order as the engine sees them: the book
\* after the call and what it returns.
Checked(book, levels, messages) ==
    [book    |-> [levels |-> levels, prev |-> Snapshot(levels)],
     outputs |-> messages \o TopEvents(book.prev, Snapshot(levels))]

Added(book, order) ==
    LET done == MatchOrder([levels |-> book.levels, order |-> order,
                            outputs |-> <<AckOutput(order.key)>>])
    IN  Checked(book, Settle(done.levels, done.order), done.outputs)

Cancelled(book, key) ==
    LET ack == <<CancelAckOutput(key)>>
    IN  IF InBook(book.levels, key)
        THEN Checked(book, RemoveOrder(book.levels, key), ack)
        ELSE [book |-> book, outputs |-> ack]

\* get_or_create_order_book.
BookOf(symbol) ==
    IF symbol \in DOMAIN order_books THEN order_books[symbol] ELSE NewBook

\* The handler returns `messages`; observers see them.
Return(messages) ==
    /\ outputs' = messages
    /\ feed' = [symbol \in Symbols |->
                  Observe(feed[symbol], OfSymbol(symbol, messages))]

\* Whether the handler that leaves this book may run to its end, or may panic.
Completes(book) == SumOverflows(book.levels) => "wrap" \in OverflowOutcomes
Panics(book) == SumOverflows(book.levels) /\ "panic" \in OverflowOutcomes

Init ==
    /\ order_books = <<>>
    /\ order_to_symbol = <<>>
    /\ outputs = <<>>
    /\ alive = TRUE
    /\ arrivals = 0
    /\ uses = [key \in Keys |-> 0]
    /\ feed = [symbol \in Symbols |-> NoTop]

ProcessNewOrder(symbol, msg) ==
    LET result == Added(BookOf(symbol), FromNewOrder(msg, arrivals + 1))
    IN  /\ alive
        /\ arrivals < MaxOrders
        /\ Completes(result.book)
        /\ order_books' = Put(order_books, symbol, result.book)
        /\ order_to_symbol' = Put(order_to_symbol, msg.key, symbol)
        /\ Return(Tag(symbol, result.outputs))
        /\ arrivals' = arrivals + 1
        /\ uses' = [uses EXCEPT ![msg.key] = @ + 1]
        /\ UNCHANGED alive

\* Mutants: every book drops the key's order; the books are searched in map
\* order instead of by the tracked symbol.
ProcessCancelEverywhere(key) ==
    LET symbol == order_to_symbol[key]
        result == Cancelled(BookOf(symbol), key)
    IN  /\ alive
        /\ key \in DOMAIN order_to_symbol
        /\ Completes(result.book)
        /\ order_books' = [s \in DOMAIN order_books |->
                              Cancelled(order_books[s], key).book]
        /\ order_to_symbol' = Without(order_to_symbol, key)
        /\ Return(Tag(symbol, result.outputs))
        /\ UNCHANGED <<alive, arrivals, uses>>

ProcessCancelScan(key) ==
    /\ alive
    /\ \E symbol \in DOMAIN order_books :
         LET result == Cancelled(order_books[symbol], key)
         IN  /\ InBook(order_books[symbol].levels, key)
             /\ Completes(result.book)
             /\ order_books' = [order_books EXCEPT ![symbol] = result.book]
             /\ Return(Tag(symbol, result.outputs))
    /\ order_to_symbol' = Without(order_to_symbol, key)
    /\ UNCHANGED <<alive, arrivals, uses>>

\* The key is tracked: the symbol's book is asked, and the key is forgotten
\* whether or not the book knew it.
ProcessCancel(key) ==
    LET symbol == order_to_symbol[key]
        result == Cancelled(BookOf(symbol), key)
    IN  /\ alive
        /\ key \in DOMAIN order_to_symbol
        /\ Completes(result.book)
        /\ order_books' = IF symbol \in DOMAIN order_books
                          THEN [order_books EXCEPT ![symbol] = result.book]
                          ELSE order_books
        /\ order_to_symbol' = Without(order_to_symbol, key)
        /\ Return(Tag(symbol, result.outputs))
        /\ UNCHANGED <<alive, arrivals, uses>>

ProcessCancelUnknown(key) ==
    /\ alive
    /\ key \notin DOMAIN order_to_symbol
    /\ Return(Tag(Unknown, <<CancelAckOutput(key)>>))
    /\ UNCHANGED <<order_books, order_to_symbol, alive, arrivals, uses>>

\* Mutant: the tracked keys survive the flush.
ProcessFlushKeepsKeys ==
    /\ alive
    /\ \E symbols \in SetToSeqs(DOMAIN order_books) :
         Return(FlattenSeq([i \in DOMAIN symbols |->
                  Tag(symbols[i], FlushOutputs(order_books[symbols[i]].levels))]))
    /\ order_books' = <<>>
    /\ uses' = [key \in Keys |-> 0]
    /\ UNCHANGED <<order_to_symbol, alive, arrivals>>

\* iter_mut of a HashMap visits the books in an order that differs from one
\* map to the next.
ProcessFlush ==
    /\ alive
    /\ \E symbols \in SetToSeqs(DOMAIN order_books) :
         Return(FlattenSeq([i \in DOMAIN symbols |->
                  Tag(symbols[i], FlushOutputs(order_books[symbols[i]].levels))]))
    /\ order_books' = <<>>
    /\ order_to_symbol' = <<>>
    /\ uses' = [key \in Keys |-> 0]
    /\ UNCHANGED <<alive, arrivals>>

ProcessQueryTopOfBook(symbol) ==
    LET top == Snapshot(BookOf(symbol).levels)
    IN  /\ alive
        /\ Return(Tag(symbol, <<TopEvent("Buy", top["Buy"]),
                                TopEvent("Sell", top["Sell"])>>))
        /\ UNCHANGED <<order_books, order_to_symbol, alive, arrivals, uses>>

\* A handler whose sum overflows unwinds: the engine and its books are gone.
Panic ==
    /\ alive
    /\ \/ /\ arrivals < MaxOrders
          /\ \E symbol \in Symbols, msg \in NewOrders :
               Panics(Added(BookOf(symbol), FromNewOrder(msg, arrivals + 1)).book)
       \/ \E key \in DOMAIN order_to_symbol :
               Panics(Cancelled(BookOf(order_to_symbol[key]), key).book)
    /\ alive' = FALSE
    /\ order_books' = <<>>
    /\ order_to_symbol' = <<>>
    /\ outputs' = <<>>
    /\ UNCHANGED <<arrivals, uses, feed>>

Next ==
    \/ \E symbol \in Symbols, msg \in NewOrders : ProcessNewOrder(symbol, msg)
    \/ \E key \in Keys : ProcessCancel(key)
    \/ \E key \in Keys : ProcessCancelUnknown(key)
    \/ ProcessFlush
    \/ \E symbol \in Symbols : ProcessQueryTopOfBook(symbol)
    \/ Panic

Spec == Init /\ [][Next]_vars

-----------------------------------------------------------------------------
(* Properties.                                                             *)

OrdersIn(symbol) == Resting(order_books[symbol].levels)

\* Cancel routing: a tracked key names a symbol that has a book, so the branch
\* for a missing book is dead; and an order whose key was not used again since
\* the last flush is tracked for as long as it rests, under its own symbol.
Routed ==
    /\ Range(order_to_symbol) \subseteq DOMAIN order_books
    /\ \A symbol \in DOMAIN order_books : \A order \in OrdersIn(symbol) :
         uses[order.key] = 1 =>
            /\ order.key \in DOMAIN order_to_symbol
            /\ order_to_symbol[order.key] = symbol

\* A market-data subscriber that keeps only the last TopOfBook message of each
\* symbol and side knows the top of every book: none of a trade, a cancel, a
\* flush that drops the books and the answer to a query misleads it.
FeedCoherent ==
    alive => \A symbol \in Symbols : feed[symbol] = Snapshot(BookOf(symbol).levels)

\* Books do not interfere: a message changes at most the books whose symbol
\* its outputs carry, and every message about a symbol comes with that symbol.
Isolated ==
    [][alive' =>
         \A symbol \in Symbols :
            BookOf(symbol)' # BookOf(symbol) =>
               \E i \in DOMAIN outputs' : outputs'[i].symbol = symbol
      ]_vars

\* An order stops resting only by a trade or a CancelAck that names its key
\* and its symbol.
DeparturesReported ==
    [][alive' =>
         \A symbol \in DOMAIN order_books : \A order \in OrdersIn(symbol) :
            LET stays == /\ symbol \in DOMAIN order_books'
                         /\ \E o \in OrdersIn(symbol)' : o.arrival = order.arrival
            IN  ~stays =>
                  \E i \in DOMAIN outputs' :
                     /\ outputs'[i].symbol = symbol
                     /\ \/ /\ outputs'[i].type = "CancelAck"
                           /\ outputs'[i].key = order.key
                        \/ /\ outputs'[i].type = "Trade"
                           /\ order.key \in {outputs'[i].buy, outputs'[i].sell}
      ]_vars

\* A cancel that finds its order: when the key was used once since the last
\* flush, no order of that key rests anywhere after the cancel.
CancelTakesEffect ==
    [][\A key \in Keys :
         ProcessCancel(key) /\ uses[key] = 1 =>
            \A symbol \in DOMAIN order_books' :
               ~InBook(order_books'[symbol].levels, key)
      ]_vars
=============================================================================
