-------------------------- MODULE ExchangeRefinement --------------------------
(***************************************************************************)
(* With one worker, the statements of handle_command.cpp amount to the     *)
(* steps of OrderBook: every match of the loop is one exchange of shares   *)
(* and money, and nothing else moves either.                               *)
(*                                                                         *)
(* The tables are mapped with every composed statement sent, so that the   *)
(* SELECT that decides a match is the step and the statements that carry   *)
(* it out are not.                                                         *)
(***************************************************************************)
EXTENDS ExchangeProperties

\* More orders and shares than the requests of any instance add up to.
Ample == 1000000

Items == UNION {Range(doc) : doc \in Document}
Of(kind) == {item \in Items : item.kind = kind}

Offers   == {[account |-> o.account, symbol |-> o.symbol,
              amount |-> o.amount, limit |-> o.limit] : o \in Of("order")}
Deposits == {item.balance : item \in Of("account")} \cap Nat
Parcels  == {g.shares : g \in UNION {Range(item.grants) : item \in Of("symbol")}} \cap Nat

\* The tables with every composed statement sent.
Settled ==
  LET Send(d, st) == Apply(st, d)
  IN  IF AllSent THEN db
      ELSE FoldSet(LAMBDA t, d : FoldLeft(Send, d, pending[t]), db, Thread)

HeldIn(d) == [p \in Account \X Symbol |-> IF p \in DOMAIN d.positions THEN d.positions[p] ELSE 0]

\* The worker's order while the loop has shares of it left to match.
Incoming(d) ==
  IF \E t \in Thread : pc[t] = "match" /\ local[t].remaining # 0 THEN Len(d.transactions) ELSE 0

Wanting(d) == {i \in DOMAIN d.transactions : /\ d.transactions[i].status = "open"
                                             /\ d.transactions[i].shares # 0}

RestingIn(d) == [i \in Wanting(d) |->
                  [account |-> d.transactions[i].account, symbol |-> d.transactions[i].symbol,
                   limit   |-> d.transactions[i].limit, wants   |-> d.transactions[i].shares]]

DoneIn(d) == [i \in DOMAIN d.transactions |->
               SumOver(Executions(d, i), LAMBDA n : d.executed_trans[n].shares)]

Book == INSTANCE OrderBook WITH
  Offer      <- Offers,
  Deposit    <- Deposits,
  Parcel     <- Parcels,
  Opening    <- [cash |-> Seed.accounts, held |-> HeldIn(Seed), listed |-> Seed.symbols],
  MaxOrders  <- Ample,
  MaxHolding <- Ample,
  cash       <- Settled.accounts,
  held       <- HeldIn(Settled),
  listed     <- Settled.symbols,
  book       <- RestingIn(Settled),
  placed     <- Len(Settled.transactions),
  incoming   <- Incoming(Settled),
  done       <- DoneIn(Settled)

\* One worker serves requests as the order book does, but for orders with a number
\* PostgreSQL refuses: an order is opened and charged only where the book would,
\* matched against the best and oldest orders first, each match settled exactly, and
\* what is left kept or given back once (handle_command.cpp:26-172, 222-679, 779-863).
\* A refusal changes nothing the book has and is a stutter: that an order must be
\* refused is said, that one must be accepted is not.
ImplementsOrderBook == Book!Spec
=============================================================================
