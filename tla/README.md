# A TLA+ model of the stock exchange engine

The engine (`exchange_engine/docker-deploy/src`) takes XML requests over TCP,
keeps accounts, symbols, positions and orders in PostgreSQL, and matches orders.
This directory holds a model of it for TLC, and proofs of what matters most for
TLAPS. File names below are those of that source directory unless they have a
path.

## 1. The system

| component | state it keeps | operations | talks to | modelled by |
|---|---|---|---|---|
| Engine (`engine.cpp`, `launch.sh`) | the tables' existence, the worker threads | drop and create the tables, listen, run `io_context` on the threads given on the command line | database, listener | `Server` |
| Listener (`stock_server.cpp`) | the acceptor | `do_accept`, `on_accept`: one session per connection; after an error it never accepts again | session | `Server` |
| Session (`session.hpp`) | the socket, the bytes read, the bytes to write | one read, connect to the database, parse, handle, one write, close | parser, command handler | `Server` |
| Parser (`parser.cpp`) | none | text to a `parsed_create` or `parsed_transaction` | session | `Wire` |
| Create requests (`handle_command.cpp` 26-172) | rows of ACCOUNTS, SYMBOLS, POSITIONS | `create_account`, `create_symbol`, `insert_symbol` | database | `Exchange` |
| Orders and matching (220-690) | rows of TRANSACTIONS, EXECUTED_TRANS, balances, positions | `trans_order` | database | `Exchange`, abstractly `OrderBook` |
| Queries and cancellations (692-870) | rows of TRANSACTIONS, CANCELED_TRANS | `trans_query`, `trans_cancel` | database | `Exchange`, abstractly `OrderBook` |
| Tables (`db_interact.cpp`) | the six tables and their foreign keys | the SQL statements | PostgreSQL | `Tables`, `Server` |
| Response text (`create_result.hpp`, `trans_result.hpp`, `handle_command.cpp`) | none | results to XML | session | `Wire` |
| Number conversions (`handle_command.cpp`) | none | `to_string` and `operator<<` of doubles in statements | database | `Rounding` |

Workers share nothing in memory but the io_context. They interact through the
tables, and that is where the system is hard. Every statement goes through a
`pqxx::nontransaction`, which never issues BEGIN. Three things follow, which
the code's comments do not expect:

- each statement commits by itself, so a request is a sequence of transactions
  and the statements of other requests run between them;
- a `SELECT ... FOR UPDATE` holds its lock until its own end and protects
  nothing after it; `COMMIT;` is a warning without effect;
- when an exception ends a request, the statements already sent stay.

The hard behaviours, listed with their lines under `hazards` in PROJECT.json:
two workers acting on one resting order read by both; an order matched by
another worker while its own handler still matches it; a cancellation or a
charge decided on a row that has changed since; INSERTs that race for one
position, with the exception caught in one place and not in the other; names and
numbers put into statements as they come, and statements PostgreSQL refuses; a status
and the row that explains it written by two statements; boundaries of the
matching loop, where both orders end in the same round; its termination under
interference; a restart, which drops every table, in the middle of requests; a
database connection that cannot be had, and an uninitialized pointer used for
it; a request that arrives in pieces and is read once; a listener that gives up;
doubles printed in two ways into the same rows; answers whose elements only
their order tells apart.

What makes each part correct:

- *create requests*: no account is created twice; a grant is made at most once;
  no statement violates a foreign key; the engine goes down on nothing but what a
  request says;
- *orders and matching*: a match is within the limits of both orders, on one
  symbol, at the resting order's price; better and older orders first; the book
  is not crossed when nobody is matching; money and shares are conserved; the
  executions recorded are the matches decided; the loop ends;
- *queries and cancellations*: every share of an order is accounted for, in the
  tables and in the answer, and refunded once;
- *session, listener, engine*: what was answered is in the tables as long as
  this engine lives; a request that arrived in part does nothing; half a request
  does not outlive the engine that was doing it; every client that sends
  something is let go; an engine that accepts nobody does not stay for ever;
- *parser and response*: an element of the answer for everything the request
  named, in its order, and none of it printed from memory nothing was assigned to;
- *numbers*: rounding neither makes nor loses shares in trading, but for a match of
  exactly half a decimal, and breaks no check by more than half a decimal.

## 2. The modules

| module | content |
|---|---|
| `Tables` | the database as a record of six tables; writing statements as records, with `Apply` giving the tables after one; reading statements as sets of rows |
| `Exchange` | the workers: one action per statement (or per point where the code composes a run of statements), `Init`, `Next`, `Spec`, `FairSpec` |
| `ExchangeProperties` | its type invariant, safety, action and liveness properties |
| `OrderBook`, `OrderBookProperties` | the abstract exchange: no statements, no workers, a match is one step; what it makes of all shares and money |
| `ExchangeRefinement` | the mapping under which `Exchange` with one worker implements `OrderBook` |
| `Server`, `ServerProperties` | the life of the engine: start, listener, sessions, threads, connections to PostgreSQL, ends and restarts; what it promises |
| `Wire`, `WireProperties` | from a document to items, to results, to the elements of the answer; what the two texts have to do with each other |
| `Rounding`, `RoundingProperties` | the numbers: what two ways of printing doubles do to rows over a sequence of requests |
| `MCExchange`, `MCOrderBook`, `MCServer`, `MCWire`, `MCRounding` | instances for TLC |
| `ExchangeProofs` | type correctness of `Exchange`, and lemmas on statements and control; orders keep their sides, matches are fair, and no statement violates a foreign key |
| `SumProofs` | sums of integers over finite sets: what the proofs about ledgers need of the fold |
| `LedgerProofs` | balances, positions and executions are what their ledgers say, with any number of workers; a canceled order has its record; with one worker no exception escapes but over the input, nobody owes shares, and no grant is lost |
| `BookProofs` | with one worker every order is accounted for, matching goes by price and then time, the book is uncrossed, answers add up, and all shares and all money are accounted for |
| `OrderBookProofs`, `ServerProofs`, `WireProofs`, `RoundingProofs` | theorems of the four modules |

The modules meet in these places. `Exchange` runs inside one life of `Server`:
where a session of `Server` is "handling" and commits a number of statements,
`Exchange` says which statements and what they do; where `Exchange` ends with
`alive = FALSE`, `Server` takes its step `HandlerThrows`. The items of
`Exchange` are what `Wire` parses and its results what `Wire` prints; `Wire`
lets a handler return any result some `return` statement of it builds, so that
what is checked there does not rest on `Exchange`. `OrderBook` is what one
worker of `Exchange` implements, and `Rounding` is the same requests with the
numbers the statements really carry.

### 2.1 Exchange

`db` is the database. A row of TRANSACTIONS has one field no column has,
`amount`, the amount first ordered: it is history, no statement reads it.
`todo[t]` are the parsed items worker `t` has still to handle, the one being
handled at its head; `pc[t]` is the statement it sends next; `local[t]` are the
C++ variables that live across statements (`R1`'s balance, the new TRANS_ID,
`remaining_shares`, `self_shares` and `self_status`, the `result_list`);
`reply[t]` are the results so far. `alive` is false once an exception has left a
handler: `io_context::run()` does not catch it, and the process terminates.
`trades` and `paidIn` are history.

The handlers put what a request says into the text of statements. `BadName` are the
symbol names no INSERT can carry (a quote in them, more than the 256 characters of
the column, bytes that are not the database's encoding), and the field `bad` of an
item names those of its numbers that are inf or nan, which SQL takes for the name
of a column. PostgreSQL refuses such a statement with another `sql_error` than
`unique_violation`, and nothing catches it: `Raise` is that step, at every statement
such a name or number gets into, with what the request has done so far left in the
tables (a sell with a bad limit has given up its shares). A comparison of the code
with inf or nan goes one way or the other, and the item's field has a number for
which it goes that way. Of what a request may say, left out are names that make
another statement of the text, numbers so large that a product or a sum of theirs
overflows, and serial keys running out.

In the matching loop, the row returned by one SELECT settles the values of all
the UPDATEs and INSERTs of the round, which the code prints into text and sends
one after the other. The model composes them in the action of that SELECT, into
`pending[t]`, and `Exec(t)` sends them one by one in the code's order. Between
any two of them any other worker may act. Relative updates (`BALANCE = BALANCE
+ x`) read the row when they are sent; `SHARES = x` overwrites what is there.

An action stands for a whole statement with what the code does about its result
up to the next statement: the early returns, the answer, the trailing
`result_list` entry, and the next item or the reply.

Left out: the TIME columns, the serial keys nothing reads, the debug output. A
SELECT whose only purpose is a lock (`FOR UPDATE`) changes no state and is not a
step: its lock is over before the next statement. A SELECT without ORDER BY
returns its rows in any order; the one place where the code looks at the first
row of several (`OpenSell`) chooses any. PostgreSQL locks rows under `SELECT ...
FOR UPDATE ... LIMIT 1` after it has sorted them, and rechecks the condition on
the row if it waited: it may then return no row or a row that sorted first
before the update. Each statement is atomic in the model, so this is not shown.
Numbers are integers here; `Rounding` has the others.

### 2.2 OrderBook and the refinement

`OrderBook` has an account's `cash`, the shares `held`, the orders that want
shares in `book`, and at most one `incoming` order. `Place` charges or refuses,
`Match` exchanges shares and money between the incoming order and the best
resting one in a single step, `Rest` ends the matching, `Cancel` gives back.
There is no status, no table of executions, no local variable and no worker.
That a resting buy is charged again (see 3.2) is part of it: the run would fail
otherwise.

`ExchangeRefinement` maps the tables with every composed statement sent
(`Settled`), so that the SELECT that decides a match is the abstract step and
the seven statements that carry it out are stutters. `incoming` is the worker's
order while its loop has shares left; `done` is recomputed from EXECUTED_TRANS,
which ties the executions to the matches. It is stated for one worker and one
symbol. With two workers a match is decided on rows that are no longer so; with
two symbols a sell may be accepted on another symbol's shares (`other_symbol`),
which `OrderBook` does not do.
The instance's requests with bad names and numbers are creates and an order for a
symbol that cannot exist, which change nothing before they end the engine; an order
with a bad number may have given up its shares by then, which `OrderBook` does not
do, and is in `set_up` instead. An order, query or
cancellation that is refused changes nothing `OrderBook` has: the refinement says
that a refusal does no more, and not that it was given for the right reason.

### 2.3 Server

`phase` and `life` are how far `main()` has come and how often it was started;
`session[c]` is where a client's connection and session are; `sent[c]` counts
the pieces of its request that have arrived, `whole` says that its one read got
all of it; `serving[t]` is what a thread runs, from the completion of a read to
the start of the write; `conn[c]` is the connection its handler made; `stale`
are the threads whose stack still holds the pointer of an earlier handler;
`effects[c]` counts the statements of a request in the present tables; `told`
is history.

Faults are choices: PostgreSQL may be late, go away and come back; a port may be
taken; a handler may throw for the reasons of `Exchange`; a client may hang up
at any time, and may send its request in pieces, or more of it than
`max_length`. Two behaviours depend on more than this code says, and both
outcomes are possible in the model. libpqxx may or may not make a lost
connection again on the next use (versions differ), and an uninitialized
`connection * C` (`session.hpp:75`) points anywhere, which ends the process, or
to the disconnected connection of the handler that last ran on that stack, which
connects again by itself. `MaxConnections` is PostgreSQL's limit and `MaxFiles`
the process's; a socket or connection is counted while it is open.

A read gets whatever has arrived, up to `max_length`. Only a whole document
parses: a document cut off anywhere is not well-formed.

### 2.4 Wire

A document is a tree; an attribute is a number, a word, a name or missing, and
is read as pugixml reads it (0 for what is no number, clamped to its width).
`Attribute`, `Kid` and `Child` are the values the parser looks at,
`DocumentAssumption` that a document is made of them.
`Parse`, the handlers and the writers are three loops of one step per child,
item and result, with the guards, skips and nesting of the code. A result is the
record of the members its `return` statement has assigned, and every other
member is `Unset`. Response elements are sequences of the values they print:
tags, layout and number formats are not in the model.

### 2.5 Rounding

Money and shares are counted in grains, `Unit` of which make one sixth decimal.
`Decimals` is `to_string` (nearest multiple of `Unit`), `Significant` is
`operator<<` (nearest number of `Digits` significant digits), and the handler
computes in grains between statements. Of two numbers as near, both print the even
one: `printf` sees every bit of a double, and some doubles are exactly half way
between two prints (0.0078125). An order that is refused has inserted its
account's position all the same (`Refuse`). A request is a step and a round of the
loop another, on one symbol with one worker. Left out is that doubles have 53 bits,
so that a product or a sum may be rounded before it is printed.

### 2.6 Mutants

Operators whose comment starts with "Mutant:" stand before the definition they
replace and are used nowhere in the specification. Each is the definition with
a plausible mistake, and PROJECT.json pairs it with a property that TLC must
then find violated: that the property notices is evidence that it says
something about the code.

## 3. What is checked

| run | instance | shows |
|---|---|---|
| `one_worker` | 1 worker, 3 accounts, 1 symbol and 1 bad name, 4 of 21 requests (145,000 states) | money and shares balance, price-time priority, book uncrossed, answers add up, nobody owes shares, filled orders are executed but for one case, the engine goes down over bad input only; and every step is one of `OrderBook` |
| `two_workers` | 2 workers, 3 of 10 requests (719,000 states) | ledgers hold, executions are the matches, matches are fair, orders keep their sides and canceled ones have their records under every interleaving |
| `set_up` | 2 workers, empty tables, 4 of 9 requests, two with inf or nan, fairness (272,000 states) | accounts and positions created while orders arrive: grants and foreign keys hold, and every request is answered |
| `order_book` | 2 accounts, up to 4 orders of 14 offers | the abstract exchange conserves shares and money, never owes shares, and is uncrossed, on deeper books than `Exchange` can be checked on |
| `server` | 2 clients, 2 threads, 1 connection, 2 sockets, 2 starts, 1 outage, every fault (17,000 states) | what clients, operator and PostgreSQL may rely on when things fail |
| `wire` | every document of up to two children (three for some) of 15 to 18 kinds (114,000 states) | answers have the shape and order of their requests, and print nothing unassigned |
| `rounding` | 2 accounts, 6 requests, fractions of a decimal (1.6 million states) | what rounding keeps of the books |
| `charged_twice`, `other_symbol`, `unlocked`, `stale_balance`, `escapes` | instances as above | each violates one statement of a comment or document; see 3.2 |

### 3.1 Properties

`Exchange`, with any number of workers: `TypeOK`; `BalanceIsLedger` and
`PositionIsLedger` (no UPDATE is lost or made twice: a balance is what the
history of promises, orders, matches and refunds makes it); `GrantsBounded`;
`ExecutionsAreTrades`; `TradesAreFair`; `OrdersKeepSides`; `ForeignKeysHold`;
`CanceledRecorded` (a row that says `canceled` has its record, or a worker is about
to insert it: the window in which a query ends the engine is no longer than that);
`EveryRequestAnswered`. The ledgers say that what was decided is carried out once.
That it was decided on rows that were still so is what `LocksHeld` and
`ChargesCovered` say, and they fail (3.2).

With one worker: `OnlyInputEnds` (the engine goes down only over a name or number of
the item being handled), `SharesConserved`, `MoneyAudit`, `OrdersAccountedFor`,
`FilledMeansExecuted`, `BookUncrossed`, `PriceTimePriority`, `AnswersAddUp`,
`HoldingsCovered`, `ImplementsOrderBook`. Most of these fail with two workers,
because the statements of an order are not one transaction. They say what the
engine guarantees when it is started with a thread count of 1, and what an engine
with one transaction per request would keep.

With any number of workers the ledgers add to what the tables hold what is
`Underway`, composed and not yet sent, so that they can be compared at every
statement and not only between requests. The sums of one worker are taken
whenever it has sent all it composed (`AllSent`), between the rounds of the
matching loop as well as between requests. An exception that leaves a handler
loses what was underway, so the ledgers and the sums speak of an engine that is
`alive`; the other properties of one worker hold of what it leaves as well.
`MoneyAudit` is exact about one thing that is wrong: a resting buy is charged at
the execution as well as when it was placed, and the money charged the second
time is gone. The property says that nothing else creates or loses money.
`FilledMeansExecuted` is exact about another: a resting order that a match uses up
stays `open` if the same match uses up the incoming order.
`GrantsBounded` and `BalanceIsLedger` likewise say exactly what survives where
a stronger property does not hold.

`Server`: `AnswersAreKept` (what was told in this life is in the tables),
`OnlyWholeRequests`, `NoHalfRequests` (a half-done request while the engine is
up is one a thread is doing: the half left by a previous life is gone, because
tables are dropped before anybody is served), `ConnectionsBounded`, `StaysUp`
(an engine with a connection and a socket for every busy thread is ended by
nothing but a handler's own exception), `EverySenderServed` and
`DeafEngineEnds`. With more threads than connections (`launch.sh` starts 1000
threads, PostgreSQL accepts 100 connections unless told otherwise) the guard of
`StaysUp` does not hold, and the engine may end: the instance has one connection
for two threads, so both sides are reached.

`Wire`: `AnswersInOrder`, `OnlyAssignedPrinted`. `Rounding`:
`TradingKeepsShares`, `OwesAtMostHalf`, `PlacingKeepsCredit`.

### 3.2 Disagreements between the code and what is said of it

With a run each:

- `unlocked`: the comment at `handle_command.cpp:286` says a new order is locked
  against being matched, and `exchange_engine/danger_log.md:22` speaks of a `FOR
  UPDATE` lock as held until the transaction is finished. Every statement is its own
  transaction: another worker writes to a new order while its own handler matches
  it, and to any order between the SELECT of it and the UPDATE composed from it.
  Shares are matched twice and refunds made of shares that were matched in this way.
- `escapes`: `exchange_engine/danger_log.md:13` says insertions are in try blocks
  that answer the client; the INSERT of `handle_command.cpp:257` is in none. Two
  workers that insert the same position (two first orders of one account in one
  symbol, or such an order and a grant) terminate the engine.
- `stale_balance`: the comment at `handle_command.cpp:262` says that the balance
  covers the order; the balance was read at line 233, and when the charge is sent
  other orders may have spent it.
- `other_symbol`: the check that a sell is covered (467-473) reads positions of
  any symbol.
- `charged_twice`: a buy that rests and is then executed is charged twice, and
  its account goes below zero.

Seen while modelling, and part of the models as they are:

- A resting order filled exactly keeps the status `open` and can be canceled
  (`handle_command.cpp:332`); in the other branch, which also fills one, the status
  is set (390-395). `FilledMeansExecuted` says that this is the only way an order
  that is filled is not executed.
- The try blocks of insertions (58-71, 80-96) catch a `unique_violation` and nothing
  else, and a symbol's name is put into the INSERT as it comes (109): a create
  request with a name that has a quote in it terminates the engine, with one worker
  too, and so does a balance of inf. `OnlyInputEnds` says that with one worker
  nothing else does.
- The engine tries PostgreSQL once (`engine.cpp:29`) and `launch.sh:7` starts it
  once, while `docker-compose.yml:20` only orders the containers' starts: if
  PostgreSQL is late the server container stays up without an engine
  (`Server!Launch`).
- A request that arrives in two pieces is answered with an empty document
  (`session.hpp:54`), although the clients of the repository send its length
  first (`test/myxml.py:92`): `OnlyWholeRequests` says that at least nothing of
  it is carried out.
- A grant of less than a decimal is stored with its digits and sold as a whole
  decimal (`handle_command.cpp:145, 467`): `OwesAtMostHalf` bounds what is owed.
- A match that wants exactly half a decimal may make or lose one: a buy of 0.0078125
  against a sell of 0.015625 prints 0.007812 into the position (363) and -0.007812
  into the row of 0.015625 (332). `TradingKeepsShares` has this exception and no
  other, and the instance of `rounding` reaches it both ways.
- A grant that loses the race for its position's INSERT is answered `Success` and not
  made (`handle_command.cpp:93`): `GrantsBounded` allows it.

### 3.3 Bounds

`Exchange`: `MaxRequests` is the only counter that is cut, in the guard of
`Receive`; every request taken is carried to its end. The instances are small
because what can go wrong needs few actors: two orders on opposite sides and one
more worker that reads between two statements. Two accounts give trades between
accounts and of an account with itself; the third is opened, granted shares and
sells them. Amounts of 1 and 2 on both sides, and 0, give partial fills, exact
fills (both branches of `remaining_shares <= abs(target_shares)`) and an order
that wants nothing. Limits of 1 and 2 give equal prices, where age decides, and
a difference to pay back. Four requests let an order meet two resting orders and
be queried or canceled afterwards; with two workers, three requests in flight or
in turn give two orders matching one third, or a cancellation between the
statements of a match. Starting balances and positions are such that, with one
worker, some orders are refused. `two_workers` uses the symmetry of the workers:
no definition tells one from another, and no liveness property is checked there.

`OrderBook`: `MaxOrders` and `MaxHolding`. The refinement gives both more than
any instance can reach (`Ample`).

`Server`: `MaxStarts` and `MaxOutages`; one restart shows what a life inherits,
one outage every lost connection. A request is two statements, so that it can be
half done, and one or two pieces, so that a read can be early. Two clients and
two threads compete for one connection and two sockets. Both requests of the
instance fit in `max_length`, so that no run takes a longer one (a third client
that sends one is past TLC's time); `WholeRequests` is proved for requests of
any size.

`Wire`: no loop carries anything from one child to the next but its position, so
that two children show every neighbourhood; three are used for the kinds with an
early `return` or a nested list.

`Rounding`: one decimal and two significant digits where the engine has six of
each, 10 grains to the decimal; what is at stake is the difference between the
two prints and the double, which shows in numbers of three digits. Amounts with a
fraction of 5 grains are exact halves, and meet rows of even and of odd decimals,
so that a match of them loses a decimal in some orders and makes one in others.
Grants of 6 and 34 leave rests that round up and down. Six requests
are a set-up of two accounts and positions and two orders.

`wire` and `rounding` end after their last step and disable the deadlock check;
every other run has it on. In `Exchange` the only way to stop is `Stopped` (the
engine is down, or all requests have been answered), in `Server` it is `Quiet`
(no client has a connection).

### 3.4 Fairness

`Exchange!FairSpec` is weak fairness of each worker's `Step`. Each worker is an
operating system thread that does nothing but run handlers, and PostgreSQL
answers every statement: no statement waits for a lock that outlives a statement.
Nothing is assumed of clients: `Receive` is not fair.

`Server!FairSpec` is weak fairness of `RunOut` (a thread whose `run()` has
nothing to wait for returns), of accepting each waiting client and of handling
each client on some thread: Boost's io_context runs every completion that is
ready. `Accept` and `Read` need an idle thread, and each thread becomes idle
because handling is fair. Nothing is assumed of clients, of the operator or of
PostgreSQL: `EverySenderServed` asks only for clients that have sent something,
and a session whose client sends nothing and stays connected waits for ever, as
in the code.

## 4. What is proved

For every value of the constants, from the assumptions named in the modules and
no others: for `Exchange` any accounts, symbols, requests, number of requests
and, unless said otherwise, threads. The assumptions of `Wire` say what a
document is made of and that `Unset` is no value a result may have; those of
`Rounding` that the amounts are numbers, that deposits and grants are not
negative (a request with a negative one is refused), and that powers of `Ten` are
positive, which the provers cannot tell. `SeedAssumption` says that the clients
start with tables a set-up of create requests leaves: positions of accounts and
symbols that exist, and no order. `BadName` is any set of symbol names, and any
number of any item may be `bad`, so that every theorem about `Exchange` is about
clients that may send those as well.

- `TypeCorrect` (`ExchangeProofs`): `Spec => []TypeOK`. `TypeOK` is inductive as
  it stands because it includes `ControlOK` (a worker's label belongs to the
  kind of the item it handles, so that the item has the fields the handler
  reads, and a symbol's loop is within its accounts) and `SendingOK`
  (statements wait only at three labels, so that a composed list is never
  replaced before it is sent). The proof splits the invariant into the
  database, control, statements on their way and history; it has one lemma per
  way of moving (answer, go on, note a result, compose) and one per action.
- `SidesKept` and `TradesFair` (`ExchangeProofs`): `Spec => []OrdersKeepSides` and
  `Spec => []TradesAreFair`. `TradesAreFair` is not inductive. When a worker
  decides a match it knows the sign of the shares left in a row and not of the
  amount ordered; it compares the limit of its item and not that of its row; and
  the row it will shrink may have been rewritten by another worker from an
  older value. `OrdersKeepSides` is what closes the gap: the shares of a row
  are on the side of its amount, so is every UPDATE on its way, a worker in the
  loop has `remaining_shares` on the side of its item, and the row whose TRANS_ID
  it was given has its item's symbol, limit and amount (or the INSERT of that row
  is the last statement it has still to send). The inductive invariant is
  `TradeInv`: `TypeOK /\ OrdersKeepSides /\ TradesAreFair`, all of them also
  invariants of the run `two_workers`.
- `KeysHold` (`ExchangeProofs`): `Spec => []ForeignKeysHold`. What a SELECT found is
  known only from where the worker has got to, and INSERTs are composed before
  they are sent. `KeyInv` adds to `TradeInv` that what each label presupposes is
  in the tables (`SeenRows`) and that the rows waiting statements name are
  (`SentNamesRows`): the accounts and symbols of INSERTs, and the row every
  UPDATE of a balance or position is about, so that no UPDATE finds nothing to
  change. Both last, whatever other workers do, because no statement deletes a
  row (`RowsStay`).
- `BalancesNeverDrift`, `NoGrantTwice`, `ExecutionsRecorded` and
  `PositionsNeverDrift` (`LedgerProofs`), for any number of workers: `Spec =>
  []BalanceIsLedger`, `[]GrantsBounded`, `[]ExecutionsAreTrades`, and
  `[]PositionIsLedger` where the clients only trade (`TradingOnly`: no create
  request while orders arrive). An absolute UPDATE overwrites, a relative one
  adds to what it finds when it is sent: the balance is read by one statement and
  changed by another, many statements of other workers apart, and still nothing
  is lost. What makes it so is that every waiting statement is counted for what it
  will be worth: a match or a cancellation makes its entry in a ledger and
  composes statements worth the same, and a statement sent is worth to the tables
  what it was worth on its way (`KeyInv`: it finds its row). `LedgerInv` is
  `KeyInv` and, while the engine is alive, that the cash of an account and the
  executions of an order are exactly their ledgers, and the shares of a position at
  most. Shares can be fewer because the INSERT of a grant fails where another
  worker's INSERT of the same position came first, and is answered `Success` all
  the same; where no grant can be lost (`ExactInv`) they are equal. `FinitenessAssumption` (finitely many accounts, symbols and threads)
  makes the sums sums.
- `OneWorkerGrants` (`LedgerProofs`), with a thread count of 1: `Spec =>
  []PositionIsLedger`, creates included. The position that the SELECT of a grant
  did not find is still not there at its INSERT (`GrantNotThere`), so that no
  grant is lost and `ExactInv` holds.
- `CancellationsRecorded` (`LedgerProofs`), for any number of workers: `Spec =>
  []CanceledRecorded`. The record is composed with the UPDATE to `canceled` and is
  sent right after it, and no record is ever deleted. `RecordInv` says that an UPDATE
  to `canceled` on its way is followed by the INSERT of its record (`RecordFollows`).
- `OneWorkerOnlyInputEnds` (`LedgerProofs`), with a thread count of 1: `Spec =>
  []OnlyInputEnds`. Three kinds of exceptions can escape: a statement PostgreSQL
  refuses for what the request says, the INSERT of a position that is there already,
  and the conversion of a cancellation that is not there. `SoloInv` says that the
  position the SELECT did not find is still not there, and that a canceled order has
  its record in the table or, until the worker reads again, among the statements
  that follow; only the first kind is left. `escapes` shows the second with two
  workers; `one_worker` has requests that end the engine by the first.
- `OneWorkerCovered` (`LedgerProofs`), with a thread count of 1, one symbol
  and no debts at the start: `Spec => []HoldingsCovered`. `HeldInv` says that
  only the next statement of the worker may take shares, and that what it takes
  was there at the SELECT; no match or cancellation takes any, because of the
  sides of `OrdersKeepSides`. `other_symbol` shows that one symbol is needed.
- `OneWorkerAccounts` (`BookProofs`), with a thread count of 1: `Spec =>
  []OrdersAccountedFor`: as long as no exception has ended the engine (which takes a
  bad name or number), of every order the shares executed, canceled and still
  wanted add up to its amount. A round of the loop sets two rows to values
  computed at its SELECT, and the executions are INSERTed apart. `OrdersInv` says
  that a row has the shares its matches have left of the order, or that a
  statement on its way sets it to them; that no row is set twice by what is on
  its way, and none that is closed is set (else an executed or canceled order
  would come back to life); that the loop's `remaining_shares` is what its row is
  about to say; and that a canceled order's record has what was left.
- `OneWorkerPriority` and `OneWorkerUncrossed` (`BookProofs`), with a thread count
  of 1: `Spec => []PriceTimePriority` and `[]BookUncrossed`. The first speaks of
  what earlier matches have left of an order, the SELECT of the loop of what its
  row says: by `OrdersInv` they are the same whenever nothing is on its way, so
  that an order ahead of the first row found is canceled or wants nothing
  (`NothingAhead`). For the second, bids are below asks but for the order in the
  loop or about to be filled (`Apart`, `Newcomer`), and when the SELECT finds
  nothing acceptable that order is below or above all others as well. An order
  PostgreSQL refuses is refused before it is on the book, so that what an exception
  leaves is uncrossed too.
- `OneWorkerAnswers` (`BookProofs`), with a thread count of 1: `Spec =>
  []AnswersAddUp`. An answer is composed from several SELECTs: `StillRead` says
  that what the first ones read is still so at the last. Then the shares left and
  the executions found add up by `OrdersInv`, and an answer that has been composed
  stays true, because no row of EXECUTED_TRANS is ever changed (`AnswersKept`).
- `OneWorkerShares` and `OneWorkerMoney` (`BookProofs`), with a thread count of 1:
  `Spec => []SharesConserved` and `[]MoneyAudit`, over all accounts, symbols and
  orders. The ledgers of the single accounts and positions are summed, the sums
  are exchanged (accounts of matches for matches of accounts), and what is left
  is one equation for each order (what it was charged is what is set aside for
  it, was refunded, or was spent) and one for each match (what the buyer spent is
  what the seller gained, what came back, and what a resting buy was charged
  again). `SumProofs` has the sums: a fold in the community modules takes the
  elements of a set in an order it does not tell, and that the order does not
  matter is proved from the recursive function behind it by a minimal
  counterexample among the subsets (`SmallestSet`), because the library's
  induction theorems cannot be used with this prover.
- `BookTypes`, `SharesStayCovered`, `BookStaysUncrossed` (`OrderBookProofs`):
  types, nobody owes shares, and no bid at or above an ask when nothing is being
  matched. For the last the invariant speaks of all orders but the incoming one.
- `BookKeepsShares` and `BookKeepsMoney` (`OrderBookProofs`): `Spec =>
  SharesOnlyGranted` and `Spec => MoneyOnlyDeposited`, for any book and any limits.
  Each step moves as much between accounts as in what the orders have set aside
  (`PlaceKeeps`, `CancelKeeps`, `TradeKeeps`), because the accounts of the orders
  on the book exist (`OwnersExist`); the price of a match with a resting buy is
  lost to the last cent.
- `ServerTypes`, `AnswersKept`, `WholeRequests`, `NoHalves`,
  `BoundedConnections` (`ServerProofs`), for any number of clients, threads,
  pieces, statements, connections, starts and outages. The inductive invariant
  `IInv` adds to the five properties that only an engine that is up serves
  (`OnlyUpServes`), that a request is whole only if it had arrived and fitted
  (`WholeArrived`) and does something only if whole (`EffectsOfWhole`), that
  nobody was told anything in a life to come (`ToldInLife`), that the tables are
  empty between their creation and the listener (`EmptyAtFirst`), and that an
  open connection is a running handler's (`OpenIsServed`).
- `EngineStaysUp` (`ServerProofs`): `Spec => StaysUp`. A handler that needs a
  connection is busy and has none of the open ones, so that these are fewer than
  the busy threads (`OpenAreBusy`) and one is left for it; and none has been lost,
  because only an outage loses one (`ConnAtWork`).

- `LoopsStay`, `AnswersOrdered` and `PrintsAssigned` (`WireProofs`): `Spec =>
  []TypeOK`, `[]AnswersInOrder` and `[]OnlyAssignedPrinted` of `Wire`, for
  documents of any number of children and grants, numbers of any width, and any
  results the handlers may return. What a document asks about is its children's
  subjects joined, and the answer the elements of its results joined; the two
  loops advance by different lengths (a child may have no item, an item many
  elements). `Linked` relates each to the items: the items read so far ask what
  the children read so far do, and the elements written so far answer what the
  items written so far ask. A child is read as an item with its subjects
  (`CreateRead`, `TransactionRead`), and a result of an item is written as an
  element for each of its subjects (`ResultWritten`, from a lemma for every kind
  of item). That elements print nothing unassigned is in their type (`Printed`).
  `FlattenSeq` is a recursive function in the community modules: `JoinedParts` and
  `FlatMore` say what it does to a sequence that grows, by induction up to a
  number (`UpTo`, from the minimal counterexample again).
- `DecimalsStay`, `OwesLittle`, `CreditKept`, `DecimalsAgree` and `SharesExact`
  (`RoundingProofs`): `Spec => []TypeOK`, `[]OwesAtMostHalf`, `PlacingKeepsCredit`,
  `TradingKeepsShares` and, if no amount is exactly half way between two prints,
  `[](Surplus = 0)` of `Rounding`, for every base, number of decimals and of
  significant digits, every set of amounts and limits, and any number of requests.
  `TypeOK` says that balances and orders' rows have six decimals; a position may
  hold more, from its first grant. `DecimalsAgree` is the subtle one: a match prints
  `executed_shares`, `remaining_shares` and `target_shares + executed_shares`
  separately, and these agree because only the amount the order was placed with has
  a fraction of a decimal, so that what is left of it keeps that fraction and every
  print of it rounds the same way (`Shifted`); a fraction of exactly one half may
  round to even either way, and then the prints are one decimal apart at most.
  `TakerPrinted` says that the row of the order in the loop has the print of
  `remaining_shares`, and `OwnersHold` that accounts with orders have a balance
  and a position.

The table lemmas (`TableAdd`, `RowUpdate`, `ApplyRows`, `ApplyKeepsTables`) say
what a statement leaves alone: no statement ever changes the account, symbol,
limit or place of a row, and this is why a match once fair stays fair.

Only model-checked: the refinement (`ImplementsOrderBook`), whose mapping folds
over statements and executions; `FilledMeansExecuted`; and, because they need fairness and ENABLED,
which are out of the prover's reach, `EveryRequestAnswered`, `EverySenderServed`
and `DeafEngineEnds`.

## 5. What is not modelled, and what could follow

Not modelled: `test.cpp`, `show_results` and `executeQuery` (debugging, not on
the engine's path); the load test (`test/`, from which the inputs are taken);
PostgreSQL, libpqxx, pugixml and Boost themselves, of which only what the code
relies on is modelled; the text of requests and answers below the level of
attributes; memory, of which two hazards say why no property is about it.

What could follow, in this order:

1. Requests of `Rounding` interleaved as in `Exchange`: the two abstractions have
   been checked apart, and a stale row with a rounded number in it is in neither.
2. PostgreSQL's recheck of a row after a lock, as a choice of `BuySelectAsk` and
   `SellSelectBid`.
3. The refinement as a theorem, step by step, from `OrdersInv`: the SELECT that
   composes a match is `Match`, and every statement sent leaves `Settled` as it is.
