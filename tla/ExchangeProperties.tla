------------------------- MODULE ExchangeProperties -------------------------
(***************************************************************************)
(* What the exchange must get right.  The first part holds however the     *)
(* statements of different workers interleave; the second part holds when  *)
(* one worker serves the requests one after the other (./engine with a     *)
(* thread count of 1), and most of it fails with two.                      *)
(*                                                                         *)
(* The statements a worker has composed and not yet sent are part of what  *)
(* the exchange has decided: with any number of workers the sums add what  *)
(* is underway to what the tables hold, so that they can be compared at    *)
(* every statement; with one worker they are taken when all is sent.  An   *)
(* exception that ends the engine loses what is underway, and the sums say *)
(* nothing afterwards.                                                     *)
(***************************************************************************)
EXTENDS Exchange, FiniteSets, FiniteSetsExt, SequencesExt

\* Where a worker may be in an item of each kind.
LabelsOf ==
  [account |-> {"account"},
   symbol  |-> {"symbol", "grant", "grantPosition", "grantInsert", "grantUpdate"},
   order   |-> {"order", "orderSymbol", "orderPosition", "orderInsert", "holding",
                "match", "commit"},
   query   |-> {"query", "queryCanceled", "queryExecuted"},
   cancel  |-> {"cancel", "cancelExecuted"}]

Granting == {"grant", "grantPosition", "grantInsert", "grantUpdate"}

\* A worker with nothing to do is idle and holds no locals; otherwise it is
\* inside the item at the head of its request, and in a symbol's loop on an
\* account the item names.
ControlOK ==
  \A t \in Thread :
    /\ todo[t] = << >> => pc[t] = "idle"
    /\ todo[t] # << >> => pc[t] \in LabelsOf[Head(todo[t]).kind]
    /\ pc[t] \in {"idle", "account", "symbol", "order", "query", "cancel"} => local[t] = NoLocal
    /\ pc[t] \in Granting => Len(local[t].notes) < Len(Head(todo[t]).grants)

\* Statements are composed where an order is opened or matched and where one is
\* canceled, and the worker goes on when they are sent.
SendingOK ==
  \A t \in Thread : pending[t] # << >> => pc[t] \in {"match", "commit", "cancelExecuted"}

\* Every variable has its type, and control is inside the item being handled.
TypeOK ==
  /\ IsDatabase(db)
  /\ alive \in BOOLEAN
  /\ received \in 0..MaxRequests
  /\ todo \in [Thread -> Seq(RequestItem)]
  /\ pc \in [Thread -> Label]
  /\ local \in [Thread -> Local]
  /\ pending \in [Thread -> Seq(Statement)]
  /\ reply \in [Thread -> Seq(Result)]
  /\ trades \in Seq(Trade)
  /\ paidIn \in [cash : [Account -> Int], shares : [Account \X Symbol -> Int]]
  /\ ControlOK
  /\ SendingOK

-----------------------------------------------------------------------------
(* Sums over the tables, and over what is on its way to them.              *)

SumOver(S, F(_)) == SumFunction([x \in S |-> F(x)])

\* Over the statements composed and not yet sent.
Underway(F(_)) ==
  SumOver(Thread, LAMBDA t : SumOver(DOMAIN pending[t], LAMBDA k : F(pending[t][k])))

AllSent == \A t \in Thread : pending[t] = << >>

OwnerOf(i) == db.transactions[i].account

\* Trade k moves shares from the order on its sell side to the one on its buy side.
SellSide(k) == IF db.transactions[k.maker].amount < 0 THEN k.maker ELSE k.taker
BuySide(k)  == IF db.transactions[k.maker].amount < 0 THEN k.taker ELSE k.maker

-----------------------------------------------------------------------------
(* The ledger of an account's money, entry by entry.                       *)

\* What order o, if it buys for account a, sets aside.
SetAside(o, a) == IF o.account = a /\ o.amount > 0 THEN o.amount * o.limit ELSE 0

\* What a cancellation gives back to a for a buy.
Refund(c, a) == IF OwnerOf(c.id) = a /\ c.shares > 0
                THEN c.shares * db.transactions[c.id].limit ELSE 0

\* The money trade k moves on its buy side: a buy that was taking gets back what
\* its limit set aside above the price; a resting buy pays the price once more.
BuyerGain(k) == IF k.taker = BuySide(k) THEN k.shares * (db.transactions[k.taker].limit - k.price)
                                        ELSE -(k.shares * k.price)

\* What trade k is worth to a, which may be on both sides of it.
Proceeds(k, a) == (IF OwnerOf(BuySide(k)) = a THEN BuyerGain(k) ELSE 0)
                + (IF OwnerOf(SellSide(k)) = a THEN k.shares * k.price ELSE 0)

\* What sending st adds to a's balance beyond the entries it makes.
CashDue(st, a) ==
  CASE st.op = "updateBalance"     -> IF st.account = a THEN st.add ELSE 0
    [] st.op = "insertTransaction" -> SetAside(st.row, a)
    [] st.op = "insertCanceled"    -> -Refund(st.row, a)
    [] OTHER                       -> 0

\* What was paid in, less what the account's buys set aside, with its side of
\* every match and every refund.
CashLedger(a) ==
    paidIn.cash[a]
  - SumOver(DOMAIN db.transactions, LAMBDA i : SetAside(db.transactions[i], a))
  + SumOver(DOMAIN trades, LAMBDA n : Proceeds(trades[n], a))
  + SumOver(DOMAIN db.canceled_trans, LAMBDA n : Refund(db.canceled_trans[n], a))

-----------------------------------------------------------------------------
(* The ledger of a position, <<account, symbol>>.                          *)

IsIn(o, p) == <<o.account, o.symbol>> = p

\* What order o, if it sells from p, takes out of it: a number that is negative.
Offered(o, p) == IF IsIn(o, p) /\ o.amount < 0 THEN o.amount ELSE 0

\* What a cancellation gives back to p for a sell.
SharesBack(c, p) == IF IsIn(db.transactions[c.id], p) /\ c.shares <= 0 THEN -c.shares ELSE 0

\* What trade k brings p.
Bought(k, p) == IF IsIn(db.transactions[BuySide(k)], p) THEN k.shares ELSE 0

\* What sending st adds to p beyond the entries it makes.
SharesDue(st, p) ==
  CASE st.op = "updatePosition"    -> IF IsIn(st, p) THEN st.add ELSE 0
    [] st.op = "insertTransaction" -> -Offered(st.row, p)
    [] st.op = "insertCanceled"    -> -SharesBack(st.row, p)
    [] OTHER                       -> 0

\* What was granted, less what the position's sells set aside, with what its buys
\* took and its canceled sells gave back.
SharesLedger(p) ==
    paidIn.shares[p]
  + SumOver(DOMAIN db.transactions, LAMBDA i : Offered(db.transactions[i], p))
  + SumOver(DOMAIN trades, LAMBDA n : Bought(trades[n], p))
  + SumOver(DOMAIN db.canceled_trans, LAMBDA n : SharesBack(db.canceled_trans[n], p))

-----------------------------------------------------------------------------
(* The executions of an order.                                             *)

\* The row or trade counts for order i, and the shares it moves, positive if i
\* buys and negative if it sells.
RowCount(x, i)  == IF x.id = i THEN 1 ELSE 0
RowShares(x, i) == IF x.id = i THEN x.shares ELSE 0
LegCount(k, i)  == IF i \in {k.maker, k.taker} THEN 1 ELSE 0
LegShares(k, i) == CASE i = BuySide(k)  -> k.shares
                     [] i = SellSide(k) -> -k.shares
                     [] OTHER           -> 0

CountDue(st, i) == IF st.op = "insertExecuted" THEN RowCount(st.row, i) ELSE 0
MovedDue(st, i) == IF st.op = "insertExecuted" THEN RowShares(st.row, i) ELSE 0

-----------------------------------------------------------------------------
(* With any number of workers.                                             *)

\* No balance ever drifts from the ledger: with what is on its way to it, it is
\* what was paid in, less what the account's buys set aside, with its side of
\* every match and every refund made exactly once, whatever the interleaving of
\* the UPDATEs (handle_command.cpp:270, 369, 382, 432, 446, 579, 592, 642, 655, 835).
\* That the decisions themselves were sound is for other properties: a charge on
\* a stale balance or a refund of shares matched since is an entry like any other.
BalanceIsLedger ==
  alive => \A a \in DOMAIN db.accounts :
             db.accounts[a] + Underway(LAMBDA st : CashDue(st, a)) = CashLedger(a)

\* The same for positions, once the grants have been made
\* (handle_command.cpp:363, 427, 480, 587, 649, 842).
PositionIsLedger ==
  alive => \A p \in DOMAIN db.positions :
             db.positions[p] + Underway(LAMBDA st : SharesDue(st, p)) = SharesLedger(p)

\* A grant answered Success may be lost to another worker's INSERT of the same
\* position (handle_command.cpp:86-96, 151), and none is ever made twice: a
\* position never exceeds its ledger.
GrantsBounded ==
  alive => \A p \in DOMAIN db.positions :
             db.positions[p] + Underway(LAMBDA st : SharesDue(st, p)) <= SharesLedger(p)

\* EXECUTED_TRANS is the record of the matches: for every order, as many rows as
\* matches it took part in, adding up to the shares they moved, positive for a
\* buy and negative for a sell (handle_command.cpp:336-359, 398-423, 547-571, 608-633).
ExecutionsAreTrades ==
  alive =>
    \A i \in DOMAIN db.transactions :
      /\ SumOver(DOMAIN db.executed_trans, LAMBDA n : RowCount(db.executed_trans[n], i))
           + Underway(LAMBDA st : CountDue(st, i))
         = SumOver(DOMAIN trades, LAMBDA n : LegCount(trades[n], i))
      /\ SumOver(DOMAIN db.executed_trans, LAMBDA n : RowShares(db.executed_trans[n], i))
           + Underway(LAMBDA st : MovedDue(st, i))
         = SumOver(DOMAIN trades, LAMBDA n : LegShares(trades[n], i))

\* Trade k is between two orders on opposite sides of one symbol's book, at the
\* price of the one that was resting and within the limit of the other, and never
\* takes shares back.
Fair(rows, k) ==
  /\ k.shares >= 0
  /\ {k.maker, k.taker} \subseteq DOMAIN rows
  /\ LET maker == rows[k.maker]
         taker == rows[k.taker]
     IN  /\ maker.symbol = taker.symbol
         /\ k.price = maker.limit
         /\ \/ maker.amount < 0 /\ taker.amount > 0 /\ maker.limit <= taker.limit
            \/ maker.amount > 0 /\ taker.amount <= 0 /\ maker.limit >= taker.limit

\* No match is ever outside what its two orders asked for, although the row the
\* matching loop acts on was read before other workers wrote to it
\* (handle_command.cpp:300-316, 511-527).
TradesAreFair == \A n \in DOMAIN trades : Fair(db.transactions, trades[n])

\* n shares are on the side of the book of an order for this amount.
OnSide(n, amount) == /\ amount > 0 => n >= 0
                     /\ amount < 0 => n <= 0
                     /\ amount = 0 => n = 0

RowsOnSide ==
  \A i \in DOMAIN db.transactions : OnSide(db.transactions[i].shares, db.transactions[i].amount)

\* What worker t has on its way to the rows.
UpdatesOnSide(t) ==
  \A k \in DOMAIN pending[t] :
    LET st == pending[t][k]
    IN  st.op \in {"updateShares", "updateExecuted"} =>
          st.id \in DOMAIN db.transactions /\ OnSide(st.shares, db.transactions[st.id].amount)
InsertsLast(t) ==
  \A k \in DOMAIN pending[t] :
    LET st == pending[t][k]
    IN  st.op = "insertTransaction" =>
          pc[t] = "match" /\ k = Len(pending[t]) /\ st.row = NewOrder(ItemOf(t))

\* The order worker t matches is on its way to the table, or the row whose
\* TRANS_ID it has been given.
Inserting(t) == \E k \in DOMAIN pending[t] : pending[t][k].op = "insertTransaction"
OwnRow(t) ==
  /\ local[t].id \in DOMAIN db.transactions
  /\ LET row == db.transactions[local[t].id]
     IN  /\ row.account = ItemOf(t).account
         /\ row.symbol = ItemOf(t).symbol
         /\ row.limit = ItemOf(t).limit
         /\ row.amount = ItemOf(t).amount
MatchingOwn(t) ==
  pc[t] = "match" => /\ OnSide(local[t].remaining, ItemOf(t).amount)
                     /\ alive => Inserting(t) \/ OwnRow(t)

\* No order ever changes sides: what is left of a buy is never negative, nor of a
\* sell positive, in the tables, in the UPDATEs composed from rows that others
\* have written since, or in the remaining_shares of the loop that matches it
\* (handle_command.cpp:318-334, 386-396, 529-545, 596-606).
OrdersKeepSides ==
  RowsOnSide /\ \A t \in Thread : UpdatesOnSide(t) /\ InsertsLast(t) /\ MatchingOwn(t)

\* The rows INSERT statements name exist, so that no foreign key of
\* db_interact.cpp:42-77 is ever violated by a statement (the exception would
\* escape): a position's account and symbol, an order's position, and the
\* orders of executions and cancellations.
ForeignKeysHold ==
  /\ \A p \in DOMAIN db.positions : p[1] \in DOMAIN db.accounts /\ p[2] \in db.symbols
  /\ \A i \in DOMAIN db.transactions :
       <<db.transactions[i].account, db.transactions[i].symbol>> \in DOMAIN db.positions
  /\ \A n \in DOMAIN db.executed_trans : db.executed_trans[n].id \in DOMAIN db.transactions
  /\ \A n \in DOMAIN db.canceled_trans : db.canceled_trans[n].id \in DOMAIN db.transactions

\* A row that says "canceled" has its row in CANCELED_TRANS, or the cancellation
\* is about to insert it: the window in which a query finds none and ends the
\* engine (handle_command.cpp:738-744) is the one between the two statements of
\* trans_cancel (809-822), and no longer.
CanceledRecorded ==
  alive =>
    \A i \in DOMAIN db.transactions :
      db.transactions[i].status = "canceled" =>
        \/ Cancellations(db, i) # {}
        \/ \E t \in Thread : \E k \in DOMAIN pending[t] :
             pending[t][k].op = "insertCanceled" /\ pending[t][k].row.id = i

\* Every request taken is answered, or the engine is down: the matching loop of
\* trans_order ends (handle_command.cpp:299-461, 510-670), whatever others do to
\* the rows it matches.
EveryRequestAnswered ==
  \A t \in Thread : pc[t] # "idle" ~> (pc[t] = "idle" \/ ~alive)

-----------------------------------------------------------------------------
(* With one worker.                                                        *)

\* Between two items of requests.
BetweenItems == \A t \in Thread : pc[t] \in {"idle", "account", "symbol", "order", "query", "cancel"}

Resting(o) == o.status = "open"

\* What resting order o keeps set aside: shares, if it sells (a number that is
\* negative), or money, if it buys.
OnOffer(o) == IF Resting(o) /\ o.shares < 0 THEN o.shares ELSE 0
Escrow(o) == IF Resting(o) /\ o.shares > 0 THEN o.shares * o.limit ELSE 0

\* What trade k charges a buy that had paid when it was placed.
ChargedAgain(k) == IF db.transactions[k.maker].amount > 0 THEN k.shares * k.price ELSE 0

\* A statement made from the item may be one PostgreSQL refuses.
Broken(item) ==
  CASE item.kind = "account" -> item.bad # {}
    [] item.kind = "symbol"  -> \/ item.symbol \in BadName
                                \/ \E n \in DOMAIN item.grants : item.grants[n].bad # {}
    [] item.kind = "order"   -> item.symbol \in BadName \/ item.bad # {}
    [] OTHER                 -> FALSE

\* An exception escapes only over what a request says: the engine goes down, if
\* it does, on an item with a name or a number that no statement can carry, and
\* never because what a handler read is no longer so (handle_command.cpp:257, 472,
\* 744).  With two workers it can (run escapes).
OnlyInputEnds ==
  ~alive => \E t \in Thread : todo[t] # << >> /\ Broken(ItemOf(t))

\* Shares are neither created nor lost: those held and those the open sells have
\* set aside are what the create requests granted (handle_command.cpp:144, 157,
\* 363, 427, 480, 587, 649, 842).
SharesConserved ==
  alive /\ AllSent =>
    SumFunction(db.positions)
      - SumOver(DOMAIN db.transactions, LAMBDA i : OnOffer(db.transactions[i]))
    = SumFunction(paidIn.shares)

\* Money is never created, and only one thing loses it: a resting buy that a sell
\* takes from is charged again for shares its order had already paid
\* (handle_command.cpp:270, 369, 382, 579, 592, 655, 835).
MoneyAudit ==
  alive /\ AllSent =>
    SumFunction(db.accounts)
      + SumOver(DOMAIN db.transactions, LAMBDA i : Escrow(db.transactions[i]))
      + SumOver(DOMAIN trades, LAMBDA n : ChargedAgain(trades[n]))
    = SumFunction(paidIn.cash)

\* Every share an order asked for is executed, canceled once, or still wanted;
\* an executed order has none left.
OrdersAccountedFor ==
  alive /\ AllSent =>
    \A i \in DOMAIN db.transactions :
      LET o == db.transactions[i]
      IN  /\ o.amount = o.shares + SumOver(DOMAIN db.executed_trans,
                                           LAMBDA n : RowShares(db.executed_trans[n], i))
          /\ o.status = "executed" => o.shares = 0
          /\ Cardinality(Cancellations(db, i)) = IF o.status = "canceled" THEN 1 ELSE 0
          /\ \A n \in Cancellations(db, i) : db.canceled_trans[n].shares = o.shares

\* When no order is being handled, nothing on the book can be matched: every bid
\* is below every ask (handle_command.cpp:299-461, 510-670).
BookUncrossed ==
  BetweenItems => \A s \in Symbol : \A i \in Bids(db, s), j \in Asks(db, s) :
                    db.transactions[i].limit < db.transactions[j].limit

\* Order j was there before order i with a better price, or at the same price.
Ahead(j, i) ==
  LET p == db.transactions[j]
      o == db.transactions[i]
  IN  /\ p.symbol = o.symbol
      /\ p.amount * o.amount > 0
      /\ IF o.amount > 0 THEN p.limit > o.limit \/ (p.limit = o.limit /\ j < i)
                         ELSE p.limit < o.limit \/ (p.limit = o.limit /\ j < i)

\* What of order i the matches so far have left, negative if it sells.
Wanted(i) == db.transactions[i].amount - SumOver(DOMAIN trades, LAMBDA n : LegShares(trades[n], i))

\* Price-time priority: when a resting order is matched, every order ahead of it
\* has been filled or canceled (handle_command.cpp:302-304, 513-515).
PriceTimePriority ==
  [][\A n \in DOMAIN trades' \ DOMAIN trades :
       \A j \in DOMAIN db.transactions :
         Ahead(j, trades'[n].maker) => \/ db.transactions[j].status = "canceled"
                                       \/ Wanted(j) = 0]_trades

\* The answer to a query or a cancellation accounts for every share of the order:
\* those it lists as executed and those it reports open or canceled
\* (handle_command.cpp:733-761, 807-858).
AnswersAddUp ==
  \A t \in Thread : \A n \in DOMAIN reply[t] :
    LET r == reply[t][n]
    IN  r.kind \in {"query", "cancel"} /\ r.msg = "Success" =>
          db.transactions[r.id].amount =
            r.shares + SumOver(r.rows, LAMBDA k : db.executed_trans[k].shares)

\* The last match order i took part in.
LastMatch(i) == trades[Max({n \in DOMAIN trades : i \in {trades[n].maker, trades[n].taker}})]

\* Between orders, one that has been filled is executed, with one exception: a resting
\* order that the incoming one took all of, and was itself used up by, keeps its status
\* and can still be canceled (handle_command.cpp:332, 543; the other branch sets both,
\* 390-395, 600-605).
FilledMeansExecuted ==
  BetweenItems =>
    \A i \in DOMAIN db.transactions :
      db.transactions[i].amount # 0 /\ Wanted(i) = 0 =>
        \/ db.transactions[i].status = "executed"
        \/ LastMatch(i).maker = i /\ Wanted(LastMatch(i).taker) = 0

\* An account never owes shares: a sell is accepted only for shares it holds
\* (handle_command.cpp:467-477).
HoldingsCovered == \A p \in DOMAIN db.positions : db.positions[p] >= 0

-----------------------------------------------------------------------------
(* What the comments and documents of the code say, and the code does not  *)
(* do: each of these has a run that violates it.                           *)

\* "the following block is supposed to catche all exceptions and sends a bad
\* response to the client" (danger_log.md:13): no exception of an insertion ends
\* the engine.
NeverDown == alive

\* The orders whose rows worker t has selected FOR UPDATE and is not done with: its own
\* while the loop matches it (handle_command.cpp:288, 500), and those it still has to
\* send an UPDATE to, composed from the row it selected (304, 515, 788).
Locked(t) ==
  {st.id : st \in {st \in Range(pending[t]) :
                     st.op \in {"updateShares", "updateExecuted", "updateCanceled"}}}
    \cup (IF pc[t] = "match" /\ ~Inserting(t) THEN {local[t].id} ELSE {})

\* "add lock for newly inserted transaction not to be matched with upcoming
\* transactions" (handle_command.cpp:286, 497), a lock that lasts until the transaction
\* finishes (danger_log.md:22): no worker writes to an order's row that another one has
\* selected FOR UPDATE and is still working on.
LocksHeld ==
  [][\A u \in Thread : Exec(u) =>
       \A t \in Thread \ {u} : \A i \in Locked(t) : db.transactions'[i] = db.transactions[i]]_vars

\* "balance should be greater than amount * limit" (handle_command.cpp:262): when a
\* buy is charged, the account can pay.
ChargesCovered ==
  [][\A t \in Thread :
       /\ pc[t] = "match" /\ Inserting(t)
       /\ Head(pending[t]).op = "updateBalance"
       /\ pending'[t] = Tail(pending[t])
       => db.accounts[ItemOf(t).account] >= -Head(pending[t]).add]_vars

\* "balance should be greater than amount * limit" (handle_command.cpp:262), and
\* create_account refuses a negative balance (46-48): when one worker serves the
\* requests, no account owes money.
NoOverdraft == \A a \in DOMAIN db.accounts : db.accounts[a] >= 0

=============================================================================
