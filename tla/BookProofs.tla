----------------------------- MODULE BookProofs -----------------------------
(***************************************************************************)
(* What the engine promises of its orders with a thread count of 1: every  *)
(* share is executed, canceled or wanted, orders are matched by price and  *)
(* then by time, the book is never left crossed, an answer adds up, and    *)
(* all shares and all money are accounted for.                             *)
(* With two workers a handler matches rows another one has changed since   *)
(* it read them (run unlocked), and none of these is promised.             *)
(*                                                                         *)
(* What makes them hold is OrdersInv: the shares of a row are what its     *)
(* matches have left of the order, or a statement on its way makes them    *)
(* so, and no statement on its way sets a row twice or revives one.        *)
(***************************************************************************)
EXTENDS LedgerProofs

-----------------------------------------------------------------------------
(* The orders of one worker: every share is executed, canceled or wanted.  *)

\* The shares the matches have moved for order i, positive if it buys, and what of
\* it they have left.
MovedOf(i) == [of |-> "moved", key |-> i]
Gone(i)    == Over(trades, TradeEntries(MovedOf(i)))
Left(i)    == db.transactions[i].amount - Gone(i)

\* Statement st sets the shares of order i.
Writes(st, i) == st.op \in {"updateShares", "updateExecuted"} /\ st.id = i

\* A row has the shares its matches have left, or is about to be set to them.
SharesLeft(w) ==
  \A i \in DOMAIN db.transactions :
    /\ \A k \in DOMAIN pending[w] : Writes(pending[w][k], i) => pending[w][k].shares = Left(i)
    /\ db.transactions[i].shares = Left(i) \/ \E k \in DOMAIN pending[w] : Writes(pending[w][k], i)

\* No row is set twice by what is on its way.
WritesOnce(w) ==
  \A k, n \in DOMAIN pending[w] :
    \A i : Writes(pending[w][k], i) /\ Writes(pending[w][n], i) => k = n

\* Only open orders are set, and none gets shares that has none; an order set to
\* executed has none left, and is not the one the loop still matches.
WritesOpen(w) ==
  \A k \in DOMAIN pending[w] :
    LET st == pending[w][k]
    IN  st.op \in {"updateShares", "updateExecuted"} =>
          /\ st.id \in DOMAIN db.transactions
          /\ db.transactions[st.id].status = "open"
          /\ st.shares # 0 => db.transactions[st.id].shares # 0
          /\ st.op = "updateExecuted" => st.shares = 0 /\ (pc[w] = "match" => st.id # local[w].id)

\* An executed order has no shares left.
FilledEmpty ==
  \A i \in DOMAIN db.transactions :
    db.transactions[i].status = "executed" => db.transactions[i].shares = 0

\* The order the loop matches is open, with remaining_shares left of it.
OwnLeft(w) ==
  pc[w] = "match" =>
    IF Inserting(w) THEN local[w].remaining = ItemOf(w).amount
                    ELSE /\ local[w].remaining = Left(local[w].id)
                         /\ db.transactions[local[w].id].status = "open"

\* A cancellation is sent from the row as it was read, and nothing else cancels.
Canceling(w) ==
  IF pc[w] = "cancelExecuted"
  THEN LET i   == ItemOf(w).id
           row == db.transactions[i]
           sts == CancelStatements(i, row)
       IN  /\ i \in DOMAIN db.transactions
           /\ local[w].remaining = row.shares
           /\ \/ pending[w] = sts /\ row.status = "open"
              \/ pending[w] \in {Tail(sts), Tail(Tail(sts)), << >>} /\ row.status = "canceled"
  ELSE \A k \in DOMAIN pending[w] : pending[w][k].op \notin {"updateCanceled", "insertCanceled"}

\* A canceled order has one record, of the shares it has left, once that is sent;
\* no other order has any.
OneRecord(i) ==
  \E n \in DOMAIN db.canceled_trans :
    Cancellations(db, i) = {n} /\ db.canceled_trans[n].shares = db.transactions[i].shares
Recording(w, i) == \E k \in DOMAIN pending[w] : Records(pending[w][k], i)
RecordedOnce(w) ==
  \A i \in DOMAIN db.transactions :
    IF db.transactions[i].status # "canceled" \/ Recording(w, i)
    THEN Cancellations(db, i) = {}
    ELSE OneRecord(i)

\* What a query has read of its order is still so.
StillRead(w) ==
  /\ pc[w] \in {"queryCanceled", "queryExecuted"} =>
       /\ ItemOf(w).id \in DOMAIN db.transactions
       /\ local[w].status = db.transactions[ItemOf(w).id].status
  /\ pc[w] = "queryCanceled" => db.transactions[ItemOf(w).id].status = "canceled"
  /\ pc[w] = "queryExecuted" => local[w].remaining = db.transactions[ItemOf(w).id].shares

OrdersKept(w) == /\ SharesLeft(w) /\ WritesOnce(w) /\ WritesOpen(w) /\ FilledEmpty
                 /\ OwnLeft(w) /\ Canceling(w) /\ RecordedOnce(w) /\ StillRead(w)
OrdersInv(w) == SoloInv(w) /\ KeyInv /\ OrdersKept(w)

\* What is left of an order is a number.
LEMMA LeftInt ==
  ASSUME KeyInv, NEW i \in DOMAIN db.transactions
  PROVE  MovedOf(i) \in Quantity /\ Gone(i) \in Int /\ Left(i) \in Int
<1>1. db.transactions \in Seq(Order)
  BY TypeParts DEF KeyInv, TradeInv, EngineTyped, IsDatabase
<1>2. i \in Nat /\ db.transactions[i].amount \in Int
  BY <1>1, LenProperties, RowTyped DEF Order
<1>3. MovedOf(i) \in Quantity
  BY <1>2 DEF Quantity, MovedOf
<1>4. Gone(i) \in Int
  BY <1>3, SumsAreTyped, SumsInt DEF IntegerSums, Gone
<1> QED BY <1>2, <1>3, <1>4 DEF Left

\* What is left of an order changes only by a match.
LEMMA LeftKept ==
  ASSUME KeyInv, RowsKept, UNCHANGED trades, NEW i \in DOMAIN db.transactions
  PROVE  i \in DOMAIN db'.transactions /\ Left(i)' = Left(i)
<1> DEFINE q == MovedOf(i)
<1>0. q \in Quantity
  BY LeftInt
<1>1. /\ TypeOK /\ db.transactions \in Seq(Order) /\ trades \in Seq(Trade)
  BY TypeParts DEF KeyInv, TradeInv, EngineTyped, IsDatabase, HistoryTyped
<1>2. i \in DOMAIN db'.transactions /\ db'.transactions[i].amount = db.transactions[i].amount
  BY <1>1, LenProperties DEF RowsKept, KeepsRows
<1>3. Over(trades, TradeEntries(q)') = Over(trades, TradeEntries(q))
  <2>1. \A k \in DOMAIN trades :
          /\ trades[k] \in Trade
          /\ {trades[k].maker, trades[k].taker} \subseteq DOMAIN db.transactions
    BY <1>1, ElementOfSeq DEF KeyInv, TradeInv, TradesAreFair, Fair
  <2>2. \A k \in DOMAIN trades : TradeEntry(trades[k], q)' = TradeEntry(trades[k], q)
    BY <1>0, <1>1, <2>1, KeptEntries
  <2>3. [k \in DOMAIN trades |-> TradeEntries(q)'[trades[k]]]
          = [k \in DOMAIN trades |-> TradeEntries(q)[trades[k]]]
    BY <2>1, <2>2 DEF TradeEntries
  <2> QED BY <2>3 DEF Over
<1>4. Gone(i)' = Gone(i)
  BY <1>3 DEF Gone, MovedOf
<1> QED BY <1>2, <1>4 DEF Left

\* A match moves shares from one of its orders to the other.
LEMMA LeftMatched ==
  ASSUME KeyInv, SameRows, NEW k \in Trade, {k.maker, k.taker} \subseteq DOMAIN db.transactions,
         trades' = Append(trades, k), NEW i \in DOMAIN db.transactions
  PROVE  Left(i)' = Left(i) - LegShares(k, i) /\ LegShares(k, i) \in Int
<1> DEFINE q == MovedOf(i)
<1>0. q \in Quantity /\ Gone(i) \in Int /\ Left(i) \in Int
  BY LeftInt
<1>1. TypeOK /\ db.transactions[i].amount \in Int
  BY TypeParts, RowTyped DEF KeyInv, TradeInv, EngineTyped, IsDatabase, Order
<1>2. trades \in Seq(Trade) /\ Valued(trades, TradeEntries(q))
  BY <1>0, SumsAreTyped DEF SumsTyped
<1>3. TradeEntries(q)[k] = LegShares(k, i) /\ LegShares(k, i) \in Int
  <2>1. TradeEntry(k, q) \in Int
    BY <1>0, <1>1, EntriesInt
  <2> QED BY <2>1 DEF TradeEntries, TradeEntry, MovedOf
<1>4. Over(Append(trades, k), TradeEntries(q)) = Over(trades, TradeEntries(q)) + LegShares(k, i)
  BY <1>2, <1>3, OverAppend
<1>5. Gone(i)' = Gone(i) + LegShares(k, i)
  BY <1>4, SameEntries DEF Gone, MovedOf
<1> QED BY <1>0, <1>1, <1>3, <1>5 DEF Left, SameRows

\* Nothing has been matched of an order that is not there yet.
LEMMA LeftNew ==
  ASSUME KeyInv, KeyInv', UNCHANGED trades, NEW o \in Order,
         db'.transactions = Append(db.transactions, o), NEW i, i = Len(db.transactions) + 1
  PROVE  /\ i \in DOMAIN db'.transactions /\ db'.transactions[i] = o /\ Left(i)' = o.amount
         /\ i \notin DOMAIN db.transactions
<1> DEFINE q == MovedOf(i)
<1>1. db.transactions \in Seq(Order) /\ trades \in Seq(Trade)
  BY TypeParts DEF KeyInv, TradeInv, EngineTyped, IsDatabase, HistoryTyped
<1>2. /\ i \in DOMAIN db'.transactions /\ db'.transactions[i] = o
      /\ i \notin DOMAIN db.transactions /\ i \in Nat
  BY <1>1, AppendProperties, LenProperties
<1>3. \A k \in DOMAIN trades : trades[k] \in Trade /\ i \notin {trades[k].maker, trades[k].taker}
  BY <1>1, <1>2, ElementOfSeq DEF KeyInv, TradeInv, TradesAreFair, Fair
<1>4. \A k \in DOMAIN trades : LegShares(trades[k], i)' = 0
  BY <1>3 DEF LegShares, BuySide, SellSide
<1>5. \A k \in DOMAIN trades : TradeEntries(q)'[trades[k]] = 0
  BY <1>3, <1>4 DEF TradeEntries, TradeEntry, MovedOf
<1>6. Over(trades, TradeEntries(q)') = 0
  BY <1>1, <1>5, OverZero
<1>7. Gone(i)' = 0
  BY <1>6 DEF Gone, MovedOf
<1> QED BY <1>2, <1>7 DEF Left, Order

\* Where a worker goes that has read or composed something of an order.
Minding == {"match", "cancelExecuted", "queryCanceled", "queryExecuted"}

\* What a step that changes no row and decides no match leaves of the orders.
LEMMA SameOrders ==
  ASSUME NEW w \in Thread, OrdersInv(w), pending[w] = << >>, SameRecords, UNCHANGED trades
  PROVE  /\ \A i : Left(i)' = Left(i)
         /\ \A i \in DOMAIN db.transactions :
              /\ db.transactions[i].shares = Left(i)
              /\ ~Recording(w, i)
         /\ FilledEmpty'
         /\ \A i : Cancellations(db, i)' = Cancellations(db, i) /\ OneRecord(i)' = OneRecord(i)
<1>1. \A i : Left(i)' = Left(i)
  BY SameEntries DEF SameRecords, SameRows, Left, Gone, MovedOf
<1>2. \A i : Cancellations(db, i)' = Cancellations(db, i) /\ OneRecord(i)' = OneRecord(i)
  BY DEF SameRecords, SameRows, Cancellations, OneRecord
<1>3. \A i \in DOMAIN db.transactions : db.transactions[i].shares = Left(i) /\ ~Recording(w, i)
  BY DEF OrdersInv, OrdersKept, SharesLeft, Recording
<1>4. FilledEmpty'
  BY DEF SameRecords, SameRows, OrdersInv, OrdersKept, FilledEmpty
<1> QED BY <1>1, <1>2, <1>3, <1>4

\* A worker that composes nothing, and goes where it need mind no order.
LEMMA AsideOrders ==
  ASSUME NEW w \in Thread, OrdersInv(w), pending[w] = << >>, pending'[w] = << >>, SameRecords,
         UNCHANGED trades, pc'[w] \notin Minding
  PROVE  OrdersKept(w)'
<1>1. SharesLeft(w)'
  BY SameOrders DEF SharesLeft, SameRecords, SameRows
<1>2. RecordedOnce(w)'
  BY SameOrders DEF SameRecords, SameRows, RecordedOnce, Recording, OrdersInv, OrdersKept
<1>3. WritesOnce(w)' /\ WritesOpen(w)' /\ OwnLeft(w)' /\ Canceling(w)' /\ StillRead(w)'
  BY DEF WritesOnce, WritesOpen, OwnLeft, Canceling, StillRead, Minding
<1> QED BY <1>1, <1>2, <1>3, SameOrders DEF OrdersKept

\* A worker that ends an item minds no order.
LEMMA FinishOrders ==
  ASSUME NEW w \in Thread, OrdersInv(w), pending[w] = << >>, UNCHANGED pending, SameRecords,
         UNCHANGED trades, pc[w] # "idle", NEW result, Finish(w, result)
  PROVE  OrdersKept(w)'
<1>1. pc'[w] \notin Minding
  BY FinishStarts DEF OrdersInv, SoloInv, RecordInv, TradeInv, Starts, Minding
<1> QED BY <1>1, AsideOrders

\* A worker that goes on where it need mind no order.
LEMMA ContinueOrders ==
  ASSUME NEW w \in Thread, OrdersInv(w), pending[w] = << >>, UNCHANGED pending, SameRecords,
         UNCHANGED trades, NEW label, label \notin Minding, NEW locals, Continue(w, label, locals)
  PROVE  OrdersKept(w)'
BY ContinueTo, AsideOrders DEF OrdersInv, SoloInv, RecordInv, TradeInv

\* A request taken, create_account and create_symbol mind no order.
LEMMA CreateOrders ==
  ASSUME NEW w \in Thread, OrdersInv(w),
         \/ Receive(w) \/ CreateAccount(w) \/ CreateSymbol(w) \/ GrantSelectAccount(w)
         \/ GrantSelectPosition(w) \/ GrantInsertPosition(w) \/ GrantUpdatePosition(w)
  PROVE  OrdersKept(w)'
<1>0. TypeOK /\ ControlTyped /\ IsDatabase(db)
  BY TypeParts DEF OrdersInv, SoloInv, RecordInv, TradeInv, EngineTyped
<1>1. pending[w] = << >> /\ UNCHANGED <<pending, trades>>
  BY DEF Receive, CreateAccount, CreateSymbol, GrantSelectAccount, GrantSelectPosition,
     GrantInsertPosition, GrantUpdatePosition, At, history
<1>2. SameRecords
  BY <1>0 DEF Receive, CreateAccount, CreateSymbol, GrantSelectAccount, GrantSelectPosition,
     GrantInsertPosition, GrantUpdatePosition, Apply, UpdatePosition, IsDatabase, SameRecords, SameRows
<1>3. ASSUME pc[w] # "idle", NEW msg, Note(w, msg) PROVE OrdersKept(w)'
  <2>1. CASE \E result : Finish(w, result)
    BY <1>1, <1>2, <1>3, <2>1, FinishOrders
  <2>2. CASE \E locals : Continue(w, "grant", locals)
    BY <1>1, <1>2, <2>2, ContinueOrders DEF Minding
  <2> QED BY <1>3, <2>1, <2>2 DEF Note
<1>4. CASE Receive(w)
  <2>1. PICK doc \in Document : pc' = [pc EXCEPT ![w] = StartOf(doc)]
    BY <1>4 DEF Receive
  <2>2. StartOf(doc) \in {"idle"} \cup Starts
    BY DocumentAssumption, StartTyped
  <2>3. pc'[w] \notin Minding
    BY <1>0, <2>1, <2>2 DEF ControlTyped, Starts, Minding
  <2> QED BY <1>1, <1>2, <2>3, AsideOrders
<1>5. CASE CreateAccount(w)
  <2>1. (\E result : Finish(w, result)) /\ pc[w] # "idle"
    BY <1>5 DEF CreateAccount, At
  <2> QED BY <1>1, <1>2, <2>1, FinishOrders
<1>6. CASE CreateSymbol(w)
  <2>1. pc[w] # "idle" /\ \/ \E result : Finish(w, result)
                          \/ Continue(w, "grant", local[w])
    BY <1>6 DEF CreateSymbol, At
  <2> QED BY <1>1, <1>2, <2>1, FinishOrders, ContinueOrders DEF Minding
<1>7. CASE GrantSelectAccount(w)
  <2>1. pc[w] # "idle" /\ \/ \E msg : Note(w, msg)
                          \/ Continue(w, "grantPosition", local[w])
    BY <1>7 DEF GrantSelectAccount, At
  <2> QED BY <1>1, <1>2, <1>3, <2>1, ContinueOrders DEF Minding
<1>8. CASE GrantSelectPosition(w)
  <2>1. \E label \in {"grantUpdate", "grantInsert"} : Continue(w, label, local[w])
    BY <1>8 DEF GrantSelectPosition
  <2> QED BY <1>1, <1>2, <2>1, ContinueOrders DEF Minding
<1>9. CASE GrantInsertPosition(w) \/ GrantUpdatePosition(w)
  BY <1>3, <1>9 DEF GrantInsertPosition, GrantUpdatePosition, At
<1> QED BY <1>4, <1>5, <1>6, <1>7, <1>8, <1>9

\* An order about to get its row has all it asked for left.
LEMMA PlaceOrders ==
  ASSUME NEW w \in Thread, OrdersInv(w), pending[w] = << >>, SameRecords, UNCHANGED trades,
         pc[w] \in LabelsOf["order"], NEW charge \in Charge,
         pending' = [pending EXCEPT ![w] = << charge, InsertTransaction(NewOrder(ItemOf(w))) >>],
         Continue(w, "match", [local[w] EXCEPT !.remaining = ItemOf(w).amount])
  PROVE  OrdersKept(w)'
<1> DEFINE sts == << charge, InsertTransaction(NewOrder(ItemOf(w))) >>
<1>1. TypeOK /\ PendingTyped /\ ControlTyped
  BY TypeParts DEF OrdersInv, SoloInv, RecordInv, TradeInv
<1>2. /\ pending'[w] = sts /\ pc'[w] = "match" /\ ItemOf(w)' = ItemOf(w)
      /\ local'[w].remaining = ItemOf(w).amount
  BY <1>1 DEF PendingTyped, ControlTyped, Continue, ItemOf, Local
<1>3. /\ DOMAIN sts = {1, 2} /\ sts[2].op = "insertTransaction"
      /\ sts[1].op \in {"updateBalance", "updatePosition"}
  BY DEF InsertTransaction, Charge
<1> HIDE DEF sts
<1>4. \A k \in DOMAIN sts : \A i : ~Writes(sts[k], i) /\ ~Records(sts[k], i)
  BY <1>3 DEF Writes, Records
<1>5. SharesLeft(w)' /\ WritesOnce(w)'
  BY <1>2, <1>4, SameOrders DEF SharesLeft, WritesOnce, SameRecords, SameRows
<1>6. WritesOpen(w)'
  BY <1>2, <1>3 DEF WritesOpen
<1>7. OwnLeft(w)'
  BY <1>2, <1>3 DEF OwnLeft, Inserting
<1>8. Canceling(w)' /\ StillRead(w)'
  BY <1>2, <1>3 DEF Canceling, StillRead
<1>9. RecordedOnce(w)'
  BY <1>2, <1>4, SameOrders DEF RecordedOnce, Recording, SameRecords, SameRows, OrdersInv, OrdersKept
<1> QED BY <1>5, <1>6, <1>7, <1>8, <1>9, SameOrders DEF OrdersKept

\* An order opened or refused, or a sell that goes on to read its holding.
LEMMA OpenOrderOrders ==
  ASSUME NEW w \in Thread, OrdersInv(w), pending[w] = << >>, SameRecords, UNCHANGED trades,
         pc[w] \in LabelsOf["order"], OpenOrder(w)
  PROVE  OrdersKept(w)'
<1> DEFINE item == ItemOf(w)
           charge == UpdateBalance(item.account, -(item.amount * item.limit))
<1>1. TypeOK /\ pc[w] # "idle"
  BY OrderTyped DEF OrdersInv, SoloInv, RecordInv, TradeInv
<1>2. CASE /\ pending' = [pending EXCEPT ![w] = << charge, InsertTransaction(NewOrder(item)) >>]
           /\ Continue(w, "match", [local[w] EXCEPT !.remaining = item.amount])
  <2>1. charge \in Charge
    <3>1. item.account \in Account /\ item.amount \in Int /\ item.limit \in Int
      BY <1>1, OrderTyped
    <3>2. -(item.amount * item.limit) \in Int
      BY <3>1
    <3> QED BY <3>1, <3>2 DEF Charge, Statement, UpdateBalance
  <2> HIDE DEF charge
  <2> QED BY <1>2, <2>1, PlaceOrders
<1>3. CASE (\E result : Finish(w, result)) /\ UNCHANGED pending
  BY <1>1, <1>3, FinishOrders
<1>4. CASE Continue(w, "holding", local[w]) /\ UNCHANGED pending
  BY <1>4, ContinueOrders DEF Minding
<1> QED BY <1>2, <1>3, <1>4 DEF OpenOrder, OpenBuy

\* The statements of trans_order up to its row.
LEMMA OrderOrders ==
  ASSUME NEW w \in Thread, OrdersInv(w),
         \/ OrderSelectAccount(w) \/ OrderSelectSymbol(w) \/ OrderSelectPosition(w)
         \/ OrderInsertPosition(w) \/ OpenSell(w)
  PROVE  OrdersKept(w)'
<1>0. TypeOK /\ IsDatabase(db)
  BY TypeParts DEF OrdersInv, SoloInv, RecordInv, TradeInv, EngineTyped
<1>1. pending[w] = << >> /\ pc[w] # "idle" /\ pc[w] \in LabelsOf["order"] /\ alive
  BY DEF OrderSelectAccount, OrderSelectSymbol, OrderSelectPosition, OrderInsertPosition,
     OpenSell, At, LabelsOf
<1>2. ~Terminate
  <2>1. NotThere(w)
    BY DEF OrdersInv, SoloInv
  <2> QED BY <1>1, <2>1 DEF Terminate, NotThere, OrderSelectAccount, OrderSelectSymbol,
          OrderSelectPosition, OrderInsertPosition, OpenSell, At
<1>3. SameRecords /\ UNCHANGED trades
  BY <1>0, <1>2 DEF OrderSelectAccount, OrderSelectSymbol, OrderSelectPosition,
     OrderInsertPosition, OpenSell, history, IsDatabase, SameRecords, SameRows
<1>4. CASE OrderSelectAccount(w) \/ OrderSelectSymbol(w)
  <2>1. /\ UNCHANGED pending
        /\ \/ \E result : Finish(w, result)
           \/ \E label \in {"orderSymbol", "orderPosition"} : \E locals : Continue(w, label, locals)
    BY <1>4 DEF OrderSelectAccount, OrderSelectSymbol
  <2> QED BY <1>1, <1>3, <2>1, FinishOrders, ContinueOrders DEF Minding
<1>5. CASE OrderSelectPosition(w) \/ OrderInsertPosition(w)
  <2>1. OpenOrder(w) \/ (Continue(w, "orderInsert", local[w]) /\ UNCHANGED pending)
    BY <1>2, <1>5 DEF OrderSelectPosition, OrderInsertPosition
  <2> QED BY <1>1, <1>3, <2>1, OpenOrderOrders, ContinueOrders DEF Minding
<1>6. CASE OpenSell(w)
  <2> DEFINE item == ItemOf(w)
             charge == UpdatePosition(item.account, item.symbol, item.amount)
  <2>1. CASE (\E result : Finish(w, result)) /\ UNCHANGED pending
    BY <1>1, <1>3, <2>1, FinishOrders
  <2>2. CASE /\ pending' = [pending EXCEPT ![w] = << charge, InsertTransaction(NewOrder(item)) >>]
             /\ Continue(w, "match", [local[w] EXCEPT !.remaining = item.amount])
    <3>1. charge \in Charge
      <4>1. item.account \in Account /\ item.symbol \in Symbol /\ item.amount \in Int
        BY <1>0, <1>1, OrderTyped
      <4> QED BY <4>1 DEF Charge, Statement, UpdatePosition
    <3> HIDE DEF charge
    <3> QED BY <1>1, <1>3, <2>2, <3>1, PlaceOrders
  <2> QED BY <1>6, <2>1, <2>2 DEF OpenSell
<1> QED BY <1>4, <1>5, <1>6

\* The shares match k moves are those its orders lose.
Moves(k, r, id, signed) ==
  /\ k \in Trade /\ {k.maker, k.taker} \subseteq DOMAIN db.transactions
  /\ LegShares(k, id) = signed /\ LegShares(k, r) = -signed
  /\ \A i : i \notin {r, id} => LegShares(k, i) = 0

\* Worker w matches its order with order r for this number of shares, negative if
\* it sells: all it wants or all there is.
MatchesWith(w, r, signed) ==
  LET row  == db.transactions[r]
      id   == local[w].id
      left == local[w].remaining
  IN  /\ {r, id} \subseteq DOMAIN db.transactions /\ r # id
      /\ row.status = "open" /\ row.shares # 0
      /\ signed \in Int /\ left \in Int /\ row.shares \in Int
      /\ signed = left \/ row.shares + signed = 0
      /\ left = 0 => signed = left
      /\ \E executed : \E settle \in {SettleBuy(ItemOf(w), row, executed),
                                      SettleSell(ItemOf(w), row, executed)} :
           pending'[w] = Fill(r, row, id, left, signed) \o settle
      /\ pc'[w] = (IF left - signed = 0 THEN "commit" ELSE "match")
      /\ local'[w].remaining = left - signed /\ local'[w].id = id /\ ItemOf(w)' = ItemOf(w)
      /\ \E k : Moves(k, r, id, signed) /\ trades' = Append(trades, k)

\* What the two sides of a match are.
LEMMA MatchMoves ==
  ASSUME NEW r \in DOMAIN db.transactions, NEW id \in DOMAIN db.transactions, r # id,
         db.transactions \in Seq(Order), NEW n \in Int, NEW price \in Int, NEW signed,
         NEW k, k = [maker |-> r, taker |-> id, shares |-> n, price |-> price],
         \/ db.transactions[r].amount < 0 /\ signed = n
         \/ db.transactions[r].amount > 0 /\ signed = -n
  PROVE  Moves(k, r, id, signed)
<1>1. r \in Nat /\ id \in Nat /\ db.transactions[r].amount \in Int
  BY RowTyped DEF Order
<1>2. k \in Trade
  BY <1>1 DEF Trade
<1>3. CASE db.transactions[r].amount < 0
  BY <1>1, <1>2, <1>3 DEF Moves, LegShares, BuySide, SellSide
<1>4. CASE db.transactions[r].amount > 0
  <2>1. ~(db.transactions[r].amount < 0) /\ signed = -n
    BY <1>1, <1>4
  <2>2. BuySide(k) = r /\ SellSide(k) = id
    BY <2>1 DEF BuySide, SellSide
  <2> QED BY <1>2, <2>1, <2>2 DEF Moves, LegShares
<1> QED BY <1>3, <1>4

\* The loop ends, or its order meets the best of the other side.
LEMMA MatchCases ==
  ASSUME NEW w \in Thread, OrdersInv(w), BuySelectAsk(w) \/ SellSelectBid(w)
  PROVE  NoMatch(w) \/ \E r, signed : MatchesWith(w, r, signed)
<1> DEFINE item == ItemOf(w)
           left == local[w].remaining
           id == local[w].id
           rows == db.transactions
<1>0. TypeOK /\ ControlTyped /\ PendingTyped /\ TradeInv /\ At(w, "match")
  BY TypeParts DEF OrdersInv, SoloInv, RecordInv, TradeInv, BuySelectAsk, SellSelectBid
<1>1. /\ left \in Int /\ item \in OrderItem /\ OnSide(left, item.amount) /\ item.amount \in Int
      /\ id \in DOMAIN rows /\ rows[id].amount = item.amount /\ rows \in Seq(Order)
      /\ \A i \in DOMAIN rows : /\ rows[i].shares \in Int /\ rows[i].amount \in Int
                                /\ rows[i].limit \in Int
                                /\ OnSide(rows[i].shares, rows[i].amount)
  BY <1>0, AtMatch DEF OwnRow, Order, OrderItem
<1> HIDE DEF left, id, item
<1>2. ASSUME NEW r \in DOMAIN rows, rows[r].status = "open", rows[r].shares # 0, r # id,
             NEW executed \in Int, NEW signed \in Int,
             \/ rows[r].amount < 0 /\ signed = executed
             \/ rows[r].amount > 0 /\ signed = -executed,
             signed = left \/ rows[r].shares + signed = 0, left = 0 => signed = left,
             NEW settle \in {SettleBuy(item, rows[r], executed), SettleSell(item, rows[r], executed)},
             pending' = [pending EXCEPT ![w] = Fill(r, rows[r], id, left, signed) \o settle],
             Matched(w, r, executed, left - signed)
      PROVE  MatchesWith(w, r, signed)
  <2> DEFINE k == TradeOf(w, r, executed)
  <2>1. trades' = Append(trades, k)
    BY <1>2 DEF Matched, TradeOf
  <2>2. Moves(k, r, id, signed)
    BY <1>1, <1>2, MatchMoves DEF TradeOf, id
  <2>3. pending'[w] = Fill(r, rows[r], id, left, signed) \o settle
    BY <1>0, <1>2 DEF PendingTyped
  <2>4. /\ pc'[w] = (IF left - signed = 0 THEN "commit" ELSE "match")
        /\ local'[w].remaining = left - signed /\ local'[w].id = id /\ ItemOf(w)' = ItemOf(w)
    BY <1>0, <1>2 DEF Matched, Continue, ControlTyped, Local, ItemOf, id
  <2>5. rows[r].shares \in Int
    BY <1>1
  <2> HIDE DEF k
  <2> QED BY <1>1, <1>2, <2>1, <2>2, <2>3, <2>4, <2>5 DEF MatchesWith, left, id, item
<1>3. CASE BuySelectAsk(w)
  <2> SUFFICES ASSUME NEW r \in Asks(db, item.symbol), NEW executed,
                      executed = LesserOf(left, -rows[r].shares), item.amount > 0,
                      pending' = [pending EXCEPT ![w] = Fill(r, rows[r], id, left, executed)
                                                          \o SettleBuy(item, rows[r], executed)],
                      Matched(w, r, executed, left - executed)
               PROVE  MatchesWith(w, r, executed)
    BY <1>3 DEF BuySelectAsk, item, left, id
  <2>1. r \in DOMAIN rows /\ rows[r].status = "open" /\ rows[r].shares < 0
    BY DEF Asks
  <2>2. rows[r].shares \in Int /\ rows[r].amount \in Int /\ OnSide(rows[r].shares, rows[r].amount)
    BY <1>1, <2>1
  <2>3. rows[r].amount < 0 /\ rows[r].shares # 0
    BY <2>1, <2>2 DEF OnSide
  <2>4. r # id
    BY <1>1, <2>3
  <2>5. /\ executed \in Int /\ (executed = left \/ executed = -rows[r].shares)
        /\ left = 0 => executed = left
    <3>1. -rows[r].shares \in Int /\ -rows[r].shares > 0
      BY <2>1, <2>2
    <3>2. /\ executed \in Int /\ executed <= left
          /\ executed = left \/ executed = -rows[r].shares
      BY <1>1, <3>1, LesserTyped
    <3>3. left = 0 => executed = left
      BY ONLY <3>1, <3>2
    <3> QED BY <3>2, <3>3
  <2>6. executed = left \/ rows[r].shares + executed = 0
    BY <2>2, <2>5
  <2> QED BY <1>2, <2>1, <2>3, <2>4, <2>5, <2>6
<1>4. CASE SellSelectBid(w)
  <2> SUFFICES ASSUME NEW r \in Bids(db, item.symbol), NEW executed,
                      executed = LesserOf(-left, rows[r].shares), item.amount <= 0,
                      pending' = [pending EXCEPT ![w] = Fill(r, rows[r], id, left, -executed)
                                                          \o SettleSell(item, rows[r], executed)],
                      Matched(w, r, executed, left + executed)
               PROVE  MatchesWith(w, r, -executed)
    BY <1>4 DEF SellSelectBid, item, left, id
  <2>1. r \in DOMAIN rows /\ rows[r].status = "open" /\ rows[r].shares > 0
    BY DEF Bids
  <2>2. rows[r].shares \in Int /\ rows[r].amount \in Int /\ OnSide(rows[r].shares, rows[r].amount)
    BY <1>1, <2>1
  <2>3. rows[r].amount > 0 /\ rows[r].shares # 0
    BY <2>1, <2>2 DEF OnSide
  <2>4. r # id
    BY <1>1, <2>3
  <2>5. /\ executed \in Int /\ (executed = -left \/ executed = rows[r].shares)
        /\ left = 0 => executed = 0
    <3>1. -left \in Int
      BY <1>1
    <3>2. /\ executed \in Int /\ executed <= -left
          /\ executed = -left \/ executed = rows[r].shares
      BY <2>2, <3>1, LesserTyped
    <3>3. left = 0 => executed = 0
      BY ONLY <2>1, <3>2
    <3> QED BY <3>2, <3>3
  <2>6. /\ -executed \in Int /\ (-executed = left \/ rows[r].shares + (-executed) = 0)
        /\ left = 0 => -executed = left
    BY <1>1, <2>2, <2>5
  <2>7. left - (-executed) = left + executed
    BY <1>1, <2>5
  <2> QED BY <1>2, <2>1, <2>3, <2>4, <2>5, <2>6, <2>7
<1> QED BY <1>3, <1>4

\* What the statements sts of a match set of its two orders.
Sets(sts, r, row, id, left, signed) ==
  /\ DOMAIN sts = 1..7
  /\ sts[1] = Shrink(r, row.shares + signed, signed = left)
  /\ sts[3] = IF signed = left THEN UpdateExecuted(id, 0) ELSE UpdateShares(id, left - signed)
  /\ \A k \in {2, 4, 5, 6, 7} : sts[k].op \in {"insertExecuted", "updateBalance", "updatePosition"}

\* They are the first and the third.
LEMMA MatchSends ==
  ASSUME NEW r, NEW row, NEW id, NEW left, NEW signed, NEW item, NEW executed,
         NEW settle \in {SettleBuy(item, row, executed), SettleSell(item, row, executed)},
         NEW sts, sts = Fill(r, row, id, left, signed) \o settle
  PROVE  Sets(sts, r, row, id, left, signed)
<1>1. PICK x, y, z : settle = << x, y, z >>
                     /\ \A st \in {x, y, z} : st.op \in {"updateBalance", "updatePosition"}
  BY DEF SettleBuy, SettleSell, UpdateBalance, UpdatePosition
<1>2. PICK b, d : /\ Fill(r, row, id, left, signed) =
                       << Shrink(r, row.shares + signed, signed = left), b,
                          IF signed = left THEN UpdateExecuted(id, 0) ELSE UpdateShares(id, left - signed),
                          d >>
                  /\ b.op = "insertExecuted" /\ d.op = "insertExecuted"
  BY DEF Fill, InsertExecuted
<1> DEFINE a == Shrink(r, row.shares + signed, signed = left)
           c == IF signed = left THEN UpdateExecuted(id, 0) ELSE UpdateShares(id, left - signed)
<1> HIDE DEF a, c
<1>3. sts = << a, b, c, d >> \o << x, y, z >>
  BY <1>1, <1>2 DEF a, c
<1>4. /\ DOMAIN sts = 1..7 /\ sts[1] = a /\ sts[2] = b /\ sts[3] = c /\ sts[4] = d
      /\ sts[5] = x /\ sts[6] = y /\ sts[7] = z
  BY ONLY <1>3
<1>5. \A k \in {2, 4, 5, 6, 7} : sts[k].op \in {"insertExecuted", "updateBalance", "updatePosition"}
  BY <1>1, <1>2, <1>4
<1>6. sts[1] = Shrink(r, row.shares + signed, signed = left)
  BY <1>4 DEF a
<1>7. sts[3] = IF signed = left THEN UpdateExecuted(id, 0) ELSE UpdateShares(id, left - signed)
  BY <1>4 DEF c
<1> QED BY ONLY <1>4, <1>5, <1>6, <1>7 DEF Sets

\* What a match leaves of the two orders' rows, and of the one the loop goes on with.
LEMMA MatchesOrders ==
  ASSUME NEW w \in Thread, OrdersInv(w), pending[w] = << >>, pc[w] = "match", UNCHANGED db,
         NEW r, NEW signed, MatchesWith(w, r, signed)
  PROVE  OrdersKept(w)'
<1> DEFINE rows == db.transactions
           left == local[w].remaining
           sts == pending'[w]
<1> PICK id \in DOMAIN rows : id = local[w].id
  BY DEF MatchesWith
<1>1. PICK k : Moves(k, r, id, signed) /\ trades' = Append(trades, k)
  BY DEF MatchesWith
<1>2. /\ \A i \in DOMAIN rows : rows[i].shares = Left(i) /\ Left(i) \in Int
      /\ \A i \in DOMAIN rows : Left(i)' = Left(i) - LegShares(k, i)
      /\ UNCHANGED rows /\ UNCHANGED db.canceled_trans
  <2>1. SameRows
    BY DEF SameRows
  <2> QED BY <1>1, <2>1, LeftInt, LeftMatched DEF Moves, OrdersInv, OrdersKept, SharesLeft
<1>3. /\ left = Left(id) /\ rows[id].status = "open"
  BY DEF OrdersInv, OrdersKept, OwnLeft, Inserting
<1>4. PICK executed : \E settle \in {SettleBuy(ItemOf(w), rows[r], executed),
                                     SettleSell(ItemOf(w), rows[r], executed)} :
                        sts = Fill(r, rows[r], id, left, signed) \o settle
  BY DEF MatchesWith
<1>5. /\ DOMAIN sts = 1..7
      /\ sts[1] = Shrink(r, rows[r].shares + signed, signed = left)
      /\ sts[3] = IF signed = left THEN UpdateExecuted(id, 0) ELSE UpdateShares(id, left - signed)
      /\ \A n \in {2, 4, 5, 6, 7} : sts[n].op \in {"insertExecuted", "updateBalance", "updatePosition"}
  <2>1. PICK settle \in {SettleBuy(ItemOf(w), rows[r], executed),
                         SettleSell(ItemOf(w), rows[r], executed)} :
               sts = Fill(r, rows[r], id, left, signed) \o settle
    BY <1>4
  <2> DEFINE row == rows[r]
             item == ItemOf(w)
  <2>2. /\ settle \in {SettleBuy(item, row, executed), SettleSell(item, row, executed)}
        /\ sts = Fill(r, row, id, left, signed) \o settle
    BY <2>1
  <2> HIDE DEF row, item, sts, left
  <2>3. Sets(sts, r, row, id, left, signed)
    BY <2>2, MatchSends
  <2> QED BY <2>3 DEF row, Sets
<1>6. /\ r \in DOMAIN rows /\ id \in DOMAIN rows /\ r # id
      /\ rows[r].status = "open" /\ rows[r].shares # 0
      /\ signed \in Int /\ left \in Int /\ rows[r].shares \in Int
      /\ signed = left \/ rows[r].shares + signed = 0
      /\ left = 0 => signed = left
      /\ pc'[w] = (IF left - signed = 0 THEN "commit" ELSE "match")
      /\ local'[w].remaining = left - signed /\ local'[w].id = id
  BY DEF MatchesWith
<1>7. /\ LegShares(k, id) = signed /\ LegShares(k, r) = -signed
      /\ \A i : i \notin {r, id} => LegShares(k, i) = 0
  BY <1>1 DEF Moves
<1> HIDE DEF rows, left, sts
<1>8. /\ sts[1].op \in {"updateShares", "updateExecuted"} /\ sts[1].id = r
      /\ sts[1].shares = rows[r].shares + signed
      /\ sts[1].op = "updateExecuted" => signed # left
      /\ sts[3].op \in {"updateShares", "updateExecuted"} /\ sts[3].id = id
      /\ sts[3].shares = left - signed
      /\ sts[3].op = "updateExecuted" => signed = left
  BY <1>5, <1>6 DEF Shrink, UpdateShares, UpdateExecuted
<1>9. \A n \in DOMAIN sts : /\ sts[n].op \in {"updateShares", "updateExecuted", "insertExecuted",
                                              "updateBalance", "updatePosition"}
                            /\ sts[n].op \in {"updateShares", "updateExecuted"} => n \in {1, 3}
  <2>1. 1..7 = {1, 3} \cup {2, 4, 5, 6, 7}
    OBVIOUS
  <2> QED BY <1>5, <1>8, <2>1
<1>10. /\ \A i : \A n \in DOMAIN sts : Writes(sts[n], i) => (n = 1 /\ i = r) \/ (n = 3 /\ i = id)
       /\ 1 \in DOMAIN sts /\ Writes(sts[1], r) /\ 3 \in DOMAIN sts /\ Writes(sts[3], id)
  BY <1>5, <1>8, <1>9 DEF Writes
<1>11. \A i : \A n \in DOMAIN sts : ~Records(sts[n], i)
  BY <1>9 DEF Records
<1>12. SharesLeft(w)'
  <2> SUFFICES ASSUME NEW i \in DOMAIN rows
               PROVE  /\ \A n \in DOMAIN sts : Writes(sts[n], i) => sts[n].shares = Left(i)'
                      /\ rows[i].shares = Left(i)' \/ \E n \in DOMAIN sts : Writes(sts[n], i)
    BY <1>2 DEF SharesLeft, rows, sts, Writes
  <2>1. CASE i = r
    <3>1. Left(i)' = rows[r].shares + signed
      BY <1>2, <1>6, <1>7, <2>1
    <3> QED BY <1>6, <1>8, <1>10, <2>1, <3>1
  <2>2. CASE i = id
    <3>1. Left(i)' = left - signed
      BY <1>2, <1>3, <1>7, <2>2
    <3> QED BY <1>6, <1>8, <1>10, <2>2, <3>1
  <2>3. CASE i \notin {r, id}
    <3>1. Left(i)' = rows[i].shares
      BY <1>2, <1>7, <2>3
    <3> QED BY <1>10, <2>3, <3>1
  <2> QED BY <2>1, <2>2, <2>3
<1>13. WritesOnce(w)'
  BY <1>6, <1>10 DEF WritesOnce, sts, Writes
<1>14. WritesOpen(w)'
  <2> SUFFICES ASSUME NEW n \in DOMAIN sts, sts[n].op \in {"updateShares", "updateExecuted"}
               PROVE  /\ sts[n].id \in DOMAIN rows /\ rows[sts[n].id].status = "open"
                      /\ sts[n].shares # 0 => rows[sts[n].id].shares # 0
                      /\ sts[n].op = "updateExecuted" =>
                           sts[n].shares = 0 /\ (pc'[w] = "match" => sts[n].id # local'[w].id)
    BY <1>2 DEF WritesOpen, sts, rows
  <2>1. CASE n = 1
    BY <1>6, <1>8, <2>1
  <2>2. CASE n = 3
    <3>1. rows[id].shares = left
      BY <1>2, <1>3, <1>6
    <3> QED BY <1>3, <1>6, <1>8, <2>2, <3>1
  <2> QED BY <1>9, <2>1, <2>2
<1>15. FilledEmpty'
  BY <1>2 DEF FilledEmpty, OrdersInv, OrdersKept, rows
<1>16. OwnLeft(w)'
  <2>1. ~Inserting(w)'
    BY <1>9 DEF Inserting, sts
  <2>2. Left(id)' = left - signed
    BY <1>2, <1>3, <1>6, <1>7
  <2>3. Left(local[w].id)' = left - signed
    BY <1>6, <2>2 DEF Left, Gone, MovedOf
  <2> QED BY <1>2, <1>3, <1>6, <2>1, <2>3 DEF OwnLeft, rows
<1>17. Canceling(w)' /\ StillRead(w)'
  BY <1>6, <1>9 DEF Canceling, StillRead, sts
<1>18. RecordedOnce(w)'
  <2>1. \A i : Cancellations(db, i)' = Cancellations(db, i) /\ OneRecord(i)' = OneRecord(i)
    BY DEF Cancellations, OneRecord
  <2>2. \A i : ~Recording(w, i) /\ ~Recording(w, i)'
    <3>1. \A i : ~Recording(w, i)
      BY DEF Recording
    <3>2. \A i : ~Recording(w, i)'
      BY <1>11 DEF Recording, sts
    <3> QED BY <3>1, <3>2
  <2>3. \A i \in DOMAIN rows : IF rows[i].status # "canceled" THEN Cancellations(db, i) = {}
                                                              ELSE OneRecord(i)
    BY <2>2 DEF OrdersInv, OrdersKept, RecordedOnce, rows
  <2> QED BY <1>2, <2>1, <2>2, <2>3 DEF RecordedOnce, rows
<1> QED BY <1>12, <1>13, <1>14, <1>15, <1>16, <1>17, <1>18 DEF OrdersKept

\* The matching loop.
LEMMA MatchOrders ==
  ASSUME NEW w \in Thread, OrdersInv(w), BuySelectAsk(w) \/ SellSelectBid(w)
  PROVE  OrdersKept(w)'
<1>1. pending[w] = << >> /\ pc[w] = "match" /\ UNCHANGED db
  BY DEF BuySelectAsk, SellSelectBid, At
<1>2. CASE NoMatch(w)
  <2>1. SameRecords
    BY <1>1 DEF SameRecords, SameRows
  <2> QED BY <1>1, <1>2, <2>1, ContinueOrders DEF NoMatch, Minding
<1> QED BY <1>1, <1>2, MatchCases, MatchesOrders

\* A worker that composes nothing and goes to read or answer.
LEMMA LookOrders ==
  ASSUME NEW w \in Thread, OrdersInv(w), pending[w] = << >>, pending'[w] = << >>, SameRecords,
         UNCHANGED trades, pc'[w] \notin {"match", "cancelExecuted"}, StillRead(w)'
  PROVE  OrdersKept(w)'
<1>1. SharesLeft(w)'
  BY SameOrders DEF SharesLeft, SameRecords, SameRows
<1>2. RecordedOnce(w)'
  BY SameOrders DEF SameRecords, SameRows, RecordedOnce, Recording, OrdersInv, OrdersKept
<1>3. WritesOnce(w)' /\ WritesOpen(w)' /\ OwnLeft(w)' /\ Canceling(w)'
  BY DEF WritesOnce, WritesOpen, OwnLeft, Canceling
<1> QED BY <1>1, <1>2, <1>3, SameOrders DEF OrdersKept

\* The steps of a query or a cancellation that read: what they read of the order is
\* still so when they answer.
LEMMA ReadOrders ==
  ASSUME NEW w \in Thread, OrdersInv(w),
         \/ Commit(w) \/ QuerySelectOrder(w) \/ QuerySelectCanceled(w) \/ QuerySelectExecuted(w)
         \/ CancelSelectExecuted(w)
  PROVE  OrdersKept(w)'
<1> DEFINE i == ItemOf(w).id
<1>0. TypeOK /\ ControlTyped
  BY TypeParts DEF OrdersInv, SoloInv, RecordInv, TradeInv
<1>1. ~Terminate
  <2>1. QueriedRecorded(w)
    BY DEF OrdersInv, SoloInv
  <2>2. CASE QuerySelectCanceled(w)
    <3>1. Cancellations(db, ItemOf(w).id) # {} /\ alive
      BY <2>1, <2>2 DEF QueriedRecorded, QuerySelectCanceled, At
    <3>2. UNCHANGED alive
      BY <2>2, <3>1 DEF QuerySelectCanceled
    <3> QED BY <3>1, <3>2 DEF Terminate
  <2>3. CASE Commit(w) \/ QuerySelectOrder(w) \/ QuerySelectExecuted(w) \/ CancelSelectExecuted(w)
    <3>1. UNCHANGED alive /\ alive
      BY <2>3 DEF Commit, QuerySelectOrder, QuerySelectExecuted, CancelSelectExecuted, At
    <3> QED BY <3>1 DEF Terminate
  <2> QED BY <2>2, <2>3
<1>2. pending[w] = << >> /\ UNCHANGED <<pending, db, trades>>
  BY <1>1 DEF Commit, QuerySelectOrder, QuerySelectCanceled, QuerySelectExecuted,
     CancelSelectExecuted, At, history
<1>3. SameRecords
  BY <1>2 DEF SameRecords, SameRows
<1>4. pc[w] # "idle"
  BY DEF Commit, QuerySelectOrder, QuerySelectCanceled, QuerySelectExecuted, CancelSelectExecuted, At
<1>5. CASE Commit(w) \/ QuerySelectExecuted(w) \/ CancelSelectExecuted(w)
  BY <1>2, <1>3, <1>4, <1>5, FinishOrders DEF Commit, QuerySelectExecuted, CancelSelectExecuted
<1>6. CASE QuerySelectOrder(w)
  <2>1. CASE \E result : Finish(w, result)
    BY <1>2, <1>3, <1>4, <2>1, FinishOrders
  <2>2. CASE /\ i \in DOMAIN db.transactions
             /\ Continue(w, IF db.transactions[i].status = "canceled" THEN "queryCanceled"
                                                                       ELSE "queryExecuted",
                         [local[w] EXCEPT !.status = db.transactions[i].status,
                                          !.remaining = db.transactions[i].shares])
    <3>1. /\ pc'[w] = IF db.transactions[i].status = "canceled" THEN "queryCanceled"
                                                                 ELSE "queryExecuted"
          /\ local'[w].remaining = db.transactions[i].shares
          /\ local'[w].status = db.transactions[i].status /\ ItemOf(w)' = ItemOf(w)
      BY <1>0, <2>2 DEF Continue, ControlTyped, Local, ItemOf
    <3>2. StillRead(w)'
      BY <1>2, <2>2, <3>1 DEF StillRead
    <3>3. pc'[w] \notin {"match", "cancelExecuted"}
      BY <3>1
    <3> QED BY <1>2, <1>3, <3>2, <3>3, LookOrders
  <2> QED BY <1>6, <2>1, <2>2 DEF QuerySelectOrder
<1>7. CASE QuerySelectCanceled(w)
  <2>1. PICK k \in Cancellations(db, i) :
          Continue(w, "queryExecuted", [local[w] EXCEPT !.remaining = db.canceled_trans[k].shares])
    BY <1>1, <1>7 DEF QuerySelectCanceled
  <2>2. /\ i \in DOMAIN db.transactions /\ db.transactions[i].status = "canceled"
        /\ local[w].status = db.transactions[i].status
    BY <1>7 DEF QuerySelectCanceled, At, OrdersInv, OrdersKept, StillRead
  <2>3. OneRecord(i)
    BY <1>2, <2>2 DEF OrdersInv, OrdersKept, RecordedOnce, Recording
  <2>4. db.canceled_trans[k].shares = db.transactions[i].shares
    BY <2>1, <2>3 DEF OneRecord
  <2>5. /\ pc'[w] = "queryExecuted" /\ ItemOf(w)' = ItemOf(w)
        /\ local'[w].remaining = db.canceled_trans[k].shares /\ local'[w].status = local[w].status
    BY <1>0, <2>1 DEF Continue, ControlTyped, Local, ItemOf
  <2>6. StillRead(w)'
    BY <1>2, <2>2, <2>4, <2>5 DEF StillRead
  <2>7. pc'[w] \notin {"match", "cancelExecuted"}
    BY <2>5
  <2> QED BY <1>2, <1>3, <2>6, <2>7, LookOrders
<1> QED BY <1>5, <1>6, <1>7

\* What a cancellation sends: the status, the record, the refund.
CancelSent(sts, i, row) ==
  \E last : /\ last.op \in {"updateBalance", "updatePosition"}
            /\ sts = << UpdateCanceled(i), InsertCanceled(i, row.shares), last >>
LEMMA CancelSends ==
  ASSUME NEW row, NEW i
  PROVE  CancelSent(CancelStatements(i, row), i, row)
<1> DEFINE last == IF row.shares > 0 THEN UpdateBalance(row.account, row.shares * row.limit)
                                     ELSE UpdatePosition(row.account, row.symbol, -row.shares)
<1>1. last.op \in {"updateBalance", "updatePosition"}
  BY DEF UpdateBalance, UpdatePosition
<1>2. CancelStatements(i, row) = << UpdateCanceled(i), InsertCanceled(i, row.shares), last >>
  BY DEF CancelStatements
<1> HIDE DEF last
<1> QED BY <1>1, <1>2 DEF CancelSent

\* A cancellation composes what it sends from the row it has just read.
LEMMA CancelOrders ==
  ASSUME NEW w \in Thread, OrdersInv(w), CancelSelectOrder(w)
  PROVE  OrdersKept(w)'
<1> DEFINE i == ItemOf(w).id
           row == db.transactions[i]
           sts == CancelStatements(i, row)
<1>0. TypeOK /\ ControlTyped /\ PendingTyped /\ db.transactions \in Seq(Order)
  BY TypeParts DEF OrdersInv, SoloInv, RecordInv, TradeInv, EngineTyped, IsDatabase
<1>1. pending[w] = << >> /\ UNCHANGED <<db, trades>> /\ pc[w] # "idle"
  BY DEF CancelSelectOrder, At, history
<1>2. SameRecords
  BY <1>1 DEF SameRecords, SameRows
<1>3. CASE (\E result : Finish(w, result)) /\ UNCHANGED pending
  BY <1>1, <1>2, <1>3, FinishOrders
<1>4. CASE /\ i \in DOMAIN db.transactions /\ row.status = "open"
           /\ pending' = [pending EXCEPT ![w] = sts]
           /\ Continue(w, "cancelExecuted", [local[w] EXCEPT !.remaining = row.shares])
  <2>1. /\ pending'[w] = sts /\ pc'[w] = "cancelExecuted" /\ ItemOf(w)' = ItemOf(w)
        /\ local'[w].remaining = row.shares
    BY <1>0, <1>4 DEF PendingTyped, ControlTyped, Continue, ItemOf, Local
  <2>2. CancelSent(sts, i, row)
    BY CancelSends
  <2>3. Canceling(w)'
    BY <1>1, <1>4, <2>1 DEF Canceling
  <2> HIDE DEF sts, row
  <2>4. /\ DOMAIN sts = {1, 2, 3}
        /\ \A k \in DOMAIN sts : \A j : ~Writes(sts[k], j)
        /\ \A k \in DOMAIN sts : sts[k].op \notin {"updateShares", "updateExecuted"}
        /\ \A k \in DOMAIN sts : \A j : Records(sts[k], j) => j = i
    <3>1. PICK last : /\ last.op \in {"updateBalance", "updatePosition"}
                      /\ sts = << UpdateCanceled(i), InsertCanceled(i, row.shares), last >>
      BY <2>2 DEF CancelSent
    <3>2. DOMAIN sts = {1, 2, 3}
      BY <3>1
    <3> QED BY <3>1, <3>2 DEF Writes, Records, UpdateCanceled, InsertCanceled
  <2>5. SharesLeft(w)' /\ WritesOnce(w)' /\ WritesOpen(w)'
    BY <1>1, <1>2, <2>1, <2>4, SameOrders DEF SharesLeft, WritesOnce, WritesOpen, Writes
  <2>6. RecordedOnce(w)'
    <3>1. \A j \in DOMAIN db.transactions : IF db.transactions[j].status # "canceled"
                                            THEN Cancellations(db, j) = {} ELSE OneRecord(j)
      BY <1>1 DEF OrdersInv, OrdersKept, RecordedOnce, Recording
    <3>2. \A j : Recording(w, j)' => j = i
      BY <2>1, <2>4 DEF Recording, Records
    <3> QED BY <1>1, <1>2, <1>4, <3>1, <3>2, SameOrders DEF RecordedOnce, row
  <2>7. OwnLeft(w)' /\ StillRead(w)'
    BY <2>1 DEF OwnLeft, StillRead
  <2> QED BY <1>1, <1>2, <2>3, <2>5, <2>6, <2>7, SameOrders DEF OrdersKept
<1> QED BY <1>3, <1>4 DEF CancelSelectOrder

-----------------------------------------------------------------------------

\* The shares and the status of row i, row o, once st is sent.
SharesSet(st, i, o) == IF Writes(st, i) THEN st.shares ELSE o.shares
StatusSet(st, i, o) == IF st.op = "updateExecuted" /\ st.id = i THEN "executed"
                       ELSE IF st.op = "updateCanceled" /\ st.id = i THEN "canceled"
                       ELSE o.status

\* What an UPDATE does to the rows.
LEMMA ApplyOrders ==
  ASSUME NEW d, IsDatabase(d), NEW st \in Statement, NEW e, e = Apply(st, d),
         st.op # "insertTransaction"
  PROVE  /\ DOMAIN e.transactions = DOMAIN d.transactions
         /\ \A i \in DOMAIN d.transactions :
              /\ e.transactions[i].shares = SharesSet(st, i, d.transactions[i])
              /\ e.transactions[i].status = StatusSet(st, i, d.transactions[i])
<1> DEFINE rows == d.transactions
           then == e.transactions
<1>0. rows \in Seq(Order) /\ "transactions" \in DOMAIN d
  BY DEF IsDatabase
<1>1. \A i \in DOMAIN rows : rows[i] \in Order
  BY <1>0, ElementOfSeq, LenProperties
<1>2. CASE st.op = "updateShares"
  <2>1. then = [rows EXCEPT ![st.id].shares = st.shares]
    BY <1>0, <1>2 DEF Apply
  <2> QED BY <1>1, <1>2, <2>1 DEF SharesSet, StatusSet, Writes, Order
<1>3. CASE st.op = "updateExecuted"
  <2>1. then = [rows EXCEPT ![st.id].shares = st.shares, ![st.id].status = "executed"]
    BY <1>0, <1>3 DEF Apply
  <2> QED BY <1>1, <1>3, <2>1 DEF SharesSet, StatusSet, Writes, Order
<1>4. CASE st.op = "updateCanceled"
  <2>1. then = [rows EXCEPT ![st.id].status = "canceled"]
    BY <1>0, <1>4 DEF Apply
  <2> QED BY <1>1, <1>4, <2>1 DEF SharesSet, StatusSet, Writes, Order
<1>5. CASE st.op \in {"updateBalance", "updatePosition", "insertExecuted", "insertCanceled"}
  <2>1. then = rows
    BY <1>0, <1>5 DEF Apply, IsDatabase
  <2> QED BY <1>5, <2>1 DEF SharesSet, StatusSet, Writes
<1> QED BY <1>2, <1>3, <1>4, <1>5 DEF Statement

\* Worker w has sent st, with rest still to send.
Sent(w, st, rest) ==
  /\ st \in Statement /\ IsDatabase(db) /\ db' = Apply(st, db)
  /\ 1 \in DOMAIN pending[w] /\ pending[w][1] = st
  /\ pending'[w] = rest /\ rest = Tail(pending[w])
  /\ \A k \in DOMAIN rest : /\ k + 1 \in DOMAIN pending[w] /\ k + 1 # 1
                            /\ rest[k] = pending[w][k + 1]
  /\ \A k \in DOMAIN pending[w] : k = 1 \/ \E n \in DOMAIN rest : k = n + 1
  /\ \A k, n \in DOMAIN rest : k + 1 = n + 1 => k = n
  /\ RowsKept /\ UNCHANGED <<trades, pc, todo>>
  /\ pc[w] \in {"match", "commit", "cancelExecuted"}
  /\ ForeignKeysHold /\ db.transactions \in Seq(Order) /\ db.canceled_trans \in Seq(Cancellation)
  /\ st.op # "insertTransaction" => local' = local

\* It has.
LEMMA ExecSent ==
  ASSUME NEW w \in Thread, OrdersInv(w), Exec(w)
  PROVE  Sent(w, Head(pending[w]), Tail(pending[w]))
<1> DEFINE st == Head(pending[w])
           rest == Tail(pending[w])
<1>1. /\ st \in Statement /\ db' = Apply(st, db) /\ IsDatabase(db) /\ RowsKept /\ trades' = trades
      /\ pending[w] \in Seq(Statement) /\ pending[w] # << >>
      /\ pending'[w] = rest /\ rest = Tail(pending[w])
  BY SentStatement DEF OrdersInv
<1>2. /\ st = pending[w][1] /\ 1 \in DOMAIN pending[w]
      /\ DOMAIN pending[w] = 1..Len(pending[w]) /\ Len(pending[w]) \in Nat
      /\ DOMAIN rest = 1..(Len(pending[w]) - 1)
      /\ \A k \in DOMAIN rest : k + 1 \in DOMAIN pending[w] /\ rest[k] = pending[w][k + 1]
  BY <1>1, HeadTailProperties, LenProperties
<1>3. UNCHANGED <<pc, todo>> /\ (st.op # "insertTransaction" => local' = local)
  BY DEF Exec
<1> HIDE DEF st, rest
<1>4. /\ \A k \in DOMAIN rest : k + 1 # 1
      /\ \A k, n \in DOMAIN rest : k + 1 = n + 1 => k = n
      /\ \A k \in DOMAIN pending[w] : k = 1 \/ (k - 1 \in DOMAIN rest /\ k = (k - 1) + 1)
  BY ONLY <1>2
<1>5. pc[w] \in {"match", "commit", "cancelExecuted"}
  BY <1>1, TypeParts DEF OrdersInv, SoloInv, RecordInv, TradeInv, PendingTyped, SendingOK
<1>6. /\ ForeignKeysHold /\ db.transactions \in Seq(Order)
      /\ db.canceled_trans \in Seq(Cancellation)
  BY <1>1 DEF OrdersInv, KeyInv, IsDatabase
<1>7. \A k \in DOMAIN pending[w] : k = 1 \/ \E n \in DOMAIN rest : k = n + 1
  BY <1>4
<1>8. Sent(w, st, rest)
  BY <1>1, <1>2, <1>3, <1>4, <1>5, <1>6, <1>7 DEF Sent
<1> QED BY <1>8 DEF st, rest

\* What an UPDATE or the record of an execution leaves of the rows and the records.
LEMMA SentRows ==
  ASSUME NEW w \in Thread, OrdersInv(w), NEW st, NEW rest, Sent(w, st, rest),
         st.op # "insertTransaction"
  PROVE  /\ DOMAIN db'.transactions = DOMAIN db.transactions
         /\ \A i \in DOMAIN db.transactions :
              /\ db'.transactions[i].shares = SharesSet(st, i, db.transactions[i])
              /\ db'.transactions[i].status = StatusSet(st, i, db.transactions[i])
              /\ Left(i)' = Left(i)
         /\ st.op # "insertCanceled" => UNCHANGED db.canceled_trans
<1>1. st.op # "insertCanceled" => UNCHANGED db.canceled_trans
  BY ApplyKeys DEF Sent
<1> QED BY <1>1, ApplyOrders, LeftKept DEF OrdersInv, Sent

\* Shares set are those left, and the statements that set the others still come.
LEMMA SentShares ==
  ASSUME NEW w \in Thread, OrdersInv(w), NEW st, NEW rest, Sent(w, st, rest),
         st.op # "insertTransaction"
  PROVE  SharesLeft(w)' /\ WritesOnce(w)'
<1>1. SharesLeft(w)'
  <2> SUFFICES ASSUME NEW i \in DOMAIN db.transactions
               PROVE  /\ \A k \in DOMAIN rest : Writes(rest[k], i) => rest[k].shares = Left(i)'
                      /\ \/ db'.transactions[i].shares = Left(i)'
                         \/ \E k \in DOMAIN rest : Writes(rest[k], i)
    <3>1. pending'[w] = rest /\ DOMAIN db'.transactions = DOMAIN db.transactions
      BY SentRows DEF Sent
    <3> QED BY <3>1 DEF SharesLeft, Writes
  <2>1. /\ \A k \in DOMAIN pending[w] : Writes(pending[w][k], i) => pending[w][k].shares = Left(i)
        /\ \/ db.transactions[i].shares = Left(i)
           \/ \E k \in DOMAIN pending[w] : Writes(pending[w][k], i)
    BY DEF OrdersInv, OrdersKept, SharesLeft
  <2>2. /\ db'.transactions[i].shares = SharesSet(st, i, db.transactions[i])
        /\ Left(i)' = Left(i)
    BY SentRows
  <2>3. \A k \in DOMAIN rest : Writes(rest[k], i) => rest[k].shares = Left(i)'
    BY <2>1, <2>2 DEF Sent
  <2>4. CASE Writes(st, i)
    BY <2>1, <2>2, <2>3, <2>4 DEF Sent, SharesSet
  <2>5. CASE ~Writes(st, i) /\ db.transactions[i].shares = Left(i)
    BY <2>2, <2>3, <2>5 DEF SharesSet
  <2>6. ASSUME ~Writes(st, i), NEW k \in DOMAIN pending[w], Writes(pending[w][k], i)
        PROVE  \E n \in DOMAIN rest : Writes(rest[n], i)
    BY <2>6 DEF Sent
  <2> QED BY <2>1, <2>3, <2>4, <2>5, <2>6
<1>2. WritesOnce(w)'
  <2> SUFFICES ASSUME NEW k \in DOMAIN rest, NEW n \in DOMAIN rest, NEW i,
                      Writes(rest[k], i), Writes(rest[n], i)
               PROVE  k = n
    BY DEF WritesOnce, Sent, Writes
  <2>1. k + 1 = n + 1
    <3>1. /\ k + 1 \in DOMAIN pending[w] /\ Writes(pending[w][k + 1], i)
          /\ n + 1 \in DOMAIN pending[w] /\ Writes(pending[w][n + 1], i)
      BY DEF Sent
    <3>2. WritesOnce(w)
      BY DEF OrdersInv, OrdersKept
    <3> HIDE DEF Writes
    <3> QED BY ONLY <3>1, <3>2 DEF WritesOnce
  <2> QED BY <2>1 DEF Sent
<1> QED BY <1>1, <1>2

\* The record of a cancellation is still to come if it was, and if the statement
\* sent is not the record.
LEMMA SentRecording ==
  ASSUME NEW w \in Thread, NEW st, NEW rest, Sent(w, st, rest), NEW i, ~Records(st, i)
  PROVE  Recording(w, i)' <=> Recording(w, i)
<1>1. Recording(w, i)' <=> \E k \in DOMAIN rest : Records(rest[k], i)
  BY DEF Recording, Sent, Records
<1>2. (\E k \in DOMAIN rest : Records(rest[k], i)) => Recording(w, i)
  BY DEF Recording, Sent
<1>3. Recording(w, i) => \E k \in DOMAIN rest : Records(rest[k], i)
  BY DEF Recording, Sent
<1> QED BY <1>1, <1>2, <1>3

\* Where worker w is in what it sends of a cancellation.
LEMMA SentCancel ==
  ASSUME NEW w \in Thread, OrdersInv(w), NEW st, NEW rest, Sent(w, st, rest),
         pc[w] = "cancelExecuted", NEW i, i = ItemOf(w).id, NEW row, row = db.transactions[i],
         NEW sts, sts = CancelStatements(i, row)
  PROVE  /\ i \in DOMAIN db.transactions /\ local[w].remaining = row.shares
         /\ \/ /\ st = UpdateCanceled(i) /\ row.status = "open"
               /\ rest = Tail(sts) /\ 1 \in DOMAIN rest /\ Records(rest[1], i)
            \/ /\ st = InsertCanceled(i, row.shares) /\ row.status = "canceled"
               /\ rest = Tail(Tail(sts)) /\ \A k \in DOMAIN rest : ~Records(rest[k], i)
            \/ /\ st.op \in {"updateBalance", "updatePosition"} /\ row.status = "canceled"
               /\ rest = << >>
<1>1. /\ i \in DOMAIN db.transactions /\ local[w].remaining = row.shares
      /\ \/ pending[w] = sts /\ row.status = "open"
         \/ pending[w] \in {Tail(sts), Tail(Tail(sts)), << >>} /\ row.status = "canceled"
  BY DEF Canceling, OrdersInv, OrdersKept
<1>2. PICK last : /\ last.op \in {"updateBalance", "updatePosition"}
                  /\ sts = << UpdateCanceled(i), InsertCanceled(i, row.shares), last >>
  BY CancelSends DEF CancelSent
<1>3. pending[w][1] = st /\ rest = Tail(pending[w]) /\ 1 \in DOMAIN pending[w]
  BY DEF Sent
<1>4. /\ Tail(sts) = << InsertCanceled(i, row.shares), last >>
      /\ Tail(Tail(sts)) = << last >> /\ Tail(Tail(Tail(sts))) = << >>
  BY <1>2
<1>5. CASE pending[w] = sts /\ row.status = "open"
  <2>1. st = UpdateCanceled(i) /\ rest = << InsertCanceled(i, row.shares), last >> /\ rest = Tail(sts)
    BY <1>2, <1>3, <1>4, <1>5
  <2>2. 1 \in DOMAIN rest /\ Records(rest[1], i)
    BY <2>1 DEF Records, InsertCanceled
  <2> QED BY <1>1, <1>5, <2>1, <2>2
<1>6. CASE pending[w] = Tail(sts) /\ row.status = "canceled"
  <2>1. st = InsertCanceled(i, row.shares) /\ rest = << last >> /\ rest = Tail(Tail(sts))
    <3>1. pending[w] = << InsertCanceled(i, row.shares), last >>
      BY <1>4, <1>6
    <3>2. pending[w][1] = InsertCanceled(i, row.shares) /\ Tail(pending[w]) = << last >>
      BY <3>1
    <3> QED BY <1>3, <1>4, <3>2
  <2>2. \A k \in DOMAIN rest : ~Records(rest[k], i)
    BY <1>2, <2>1 DEF Records
  <2> QED BY <1>1, <1>6, <2>1, <2>2
<1>7. CASE pending[w] = Tail(Tail(sts)) /\ row.status = "canceled"
  <2>1. st = last /\ rest = << >>
    <3>1. pending[w] = << last >>
      BY <1>4, <1>7
    <3>2. pending[w][1] = last /\ Tail(pending[w]) = << >>
      BY <3>1
    <3> QED BY <1>3, <3>2
  <2> QED BY <1>1, <1>2, <1>7, <2>1
<1>8. pending[w] # << >>
  BY <1>3
<1> QED BY <1>1, <1>5, <1>6, <1>7, <1>8

\* A statement that changes no row and records no cancellation.
LEMMA ExecOther ==
  ASSUME NEW w \in Thread, OrdersInv(w), NEW st, NEW rest, Sent(w, st, rest),
         st.op \in {"updateBalance", "updatePosition", "insertExecuted"}
  PROVE  OrdersKept(w)'
<1> DEFINE rows == db.transactions
<1>1. /\ DOMAIN db'.transactions = DOMAIN rows /\ UNCHANGED db.canceled_trans
      /\ \A i \in DOMAIN rows : /\ db'.transactions[i].shares = rows[i].shares
                                /\ db'.transactions[i].status = rows[i].status
                                /\ Left(i)' = Left(i)
  BY SentRows DEF SharesSet, StatusSet, Writes
<1>2. \A i : Recording(w, i)' <=> Recording(w, i)
  BY SentRecording DEF Records
<1>3. SharesLeft(w)' /\ WritesOnce(w)'
  BY SentShares
<1>4. \A k \in DOMAIN rest : \E n \in DOMAIN pending[w] : rest[k] = pending[w][n]
  BY DEF Sent
<1>5. pending'[w] = rest /\ UNCHANGED <<pc, todo, local>> /\ pc[w] \in {"match", "commit", "cancelExecuted"}
  BY DEF Sent
<1> HIDE DEF rows
<1>6. WritesOpen(w)'
  BY <1>1, <1>4, <1>5 DEF WritesOpen, OrdersInv, OrdersKept, rows
<1>7. FilledEmpty'
  BY <1>1 DEF FilledEmpty, OrdersInv, OrdersKept, rows
<1>8. OwnLeft(w)'
  <2>1. Inserting(w)' <=> Inserting(w)
    <3>1. Inserting(w) => \E k \in DOMAIN rest : rest[k].op = "insertTransaction"
      BY DEF Inserting, Sent
    <3>2. (\E k \in DOMAIN rest : rest[k].op = "insertTransaction") => Inserting(w)
      BY <1>4 DEF Inserting
    <3> QED BY <1>5, <3>1, <3>2 DEF Inserting
  <2>2. ItemOf(w)' = ItemOf(w)
    BY <1>5 DEF ItemOf
  <2>3. CASE pc[w] = "match" /\ ~Inserting(w)
    <3>1. local[w].remaining = Left(local[w].id) /\ rows[local[w].id].status = "open"
      BY <2>3 DEF OrdersInv, OrdersKept, OwnLeft, rows
    <3>2. local[w].id \in DOMAIN rows
      BY <2>3 DEF OrdersInv, SoloInv, RecordInv, TradeInv, OrdersKeepSides, MatchingOwn, OwnRow, rows
    <3> PICK id \in DOMAIN rows : id = local[w].id
      BY <3>2
    <3>3. Left(id)' = Left(id)
      BY <1>1
    <3>4. Left(local[w].id)' = Left(id)
      BY <1>5, <3>3 DEF Left, Gone, MovedOf
    <3> QED BY <1>1, <1>5, <2>1, <2>3, <3>1, <3>4 DEF OwnLeft, rows
  <2> QED BY <1>5, <2>1, <2>2, <2>3 DEF OwnLeft, OrdersInv, OrdersKept
<1>9. Canceling(w)'
  <2>1. CASE pc[w] = "cancelExecuted"
    <3> DEFINE i == ItemOf(w).id
               row == rows[i]
    <3>1. i \in DOMAIN rows /\ local[w].remaining = row.shares
          /\ row.status = "canceled" /\ rest = << >>
      BY <2>1, SentCancel DEF UpdateCanceled, InsertCanceled, rows
    <3>4. i \in DOMAIN db'.transactions /\ db'.transactions[i].shares = row.shares
          /\ db'.transactions[i].status = "canceled"
      BY <1>1, <3>1
    <3>5. ItemOf(w)' = ItemOf(w)
      BY <1>5 DEF ItemOf
    <3> QED BY <1>5, <2>1, <3>1, <3>4, <3>5 DEF Canceling
  <2>2. CASE pc[w] # "cancelExecuted"
    BY <1>4, <1>5, <2>2 DEF Canceling, OrdersInv, OrdersKept
  <2> QED BY <2>1, <2>2
<1>10. RecordedOnce(w)'
  <2>1. \A i : Cancellations(db, i)' = Cancellations(db, i)
    BY <1>1 DEF Cancellations
  <2>2. \A i \in DOMAIN rows : OneRecord(i)' <=> OneRecord(i)
    BY <1>1, <2>1 DEF OneRecord, rows
  <2> QED BY <1>1, <1>2, <2>1, <2>2 DEF RecordedOnce, OrdersInv, OrdersKept, rows
<1>11. StillRead(w)'
  BY <1>5 DEF StillRead
<1> QED BY <1>3, <1>6, <1>7, <1>8, <1>9, <1>10, <1>11 DEF OrdersKept

\* The shares of an order are set by what a match sends: it was open, and is not
\* canceled by that.
LEMMA ExecWrite ==
  ASSUME NEW w \in Thread, OrdersInv(w), NEW st, NEW rest, Sent(w, st, rest),
         st.op \in {"updateShares", "updateExecuted"}
  PROVE  OrdersKept(w)'
<1> DEFINE rows == db.transactions
           then == db'.transactions
           j == st.id
<1>1. /\ DOMAIN then = DOMAIN rows /\ UNCHANGED db.canceled_trans
      /\ \A i \in DOMAIN rows :
           /\ then[i].shares = IF i = j THEN st.shares ELSE rows[i].shares
           /\ then[i].status = IF st.op = "updateExecuted" /\ i = j THEN "executed" ELSE rows[i].status
           /\ Left(i)' = Left(i)
  BY SentRows DEF SharesSet, StatusSet, Writes
<1>2. \A i : Recording(w, i)' <=> Recording(w, i)
  BY SentRecording DEF Records
<1>3. SharesLeft(w)' /\ WritesOnce(w)'
  BY SentShares
<1>4. \A k \in DOMAIN rest : \E n \in DOMAIN pending[w] : n # 1 /\ rest[k] = pending[w][n]
  BY DEF Sent
<1>5. pending'[w] = rest /\ UNCHANGED <<pc, todo, local>> /\ pc[w] \in {"match", "commit", "cancelExecuted"}
      /\ 1 \in DOMAIN pending[w] /\ pending[w][1] = st
  BY DEF Sent
<1>6. pc[w] # "cancelExecuted"
  BY SentCancel DEF UpdateCanceled, InsertCanceled
<1>7. /\ j \in DOMAIN rows /\ rows[j].status = "open"
      /\ st.op = "updateExecuted" => st.shares = 0 /\ (pc[w] = "match" => j # local[w].id)
  BY <1>5 DEF OrdersInv, OrdersKept, WritesOpen
<1>8. \A k \in DOMAIN rest : rest[k].op \in {"updateShares", "updateExecuted"} => rest[k].id # j
  <2> SUFFICES ASSUME NEW k \in DOMAIN rest, Writes(rest[k], j) PROVE FALSE
    BY DEF Writes
  <2>1. PICK n \in DOMAIN pending[w] : n # 1 /\ Writes(pending[w][n], j)
    BY <1>4
  <2>2. Writes(pending[w][1], j)
    BY <1>5 DEF Writes
  <2>3. WritesOnce(w)
    BY DEF OrdersInv, OrdersKept
  <2> HIDE DEF Writes
  <2> QED BY ONLY <1>5, <2>1, <2>2, <2>3 DEF WritesOnce
<1> HIDE DEF rows, then, j
<1>9. WritesOpen(w)'
  BY <1>1, <1>4, <1>5, <1>8 DEF WritesOpen, OrdersInv, OrdersKept, rows, then
<1>10. FilledEmpty'
  BY <1>1, <1>7 DEF FilledEmpty, OrdersInv, OrdersKept, rows, then
<1>11. OwnLeft(w)'
  <2>1. Inserting(w)' <=> Inserting(w)
    <3>1. Inserting(w) => \E k \in DOMAIN rest : rest[k].op = "insertTransaction"
      BY DEF Inserting, Sent
    <3>2. (\E k \in DOMAIN rest : rest[k].op = "insertTransaction") => Inserting(w)
      BY <1>4 DEF Inserting
    <3> QED BY <1>5, <3>1, <3>2 DEF Inserting
  <2>2. ItemOf(w)' = ItemOf(w)
    BY <1>5 DEF ItemOf
  <2>3. CASE pc[w] = "match" /\ ~Inserting(w)
    <3>1. local[w].remaining = Left(local[w].id) /\ rows[local[w].id].status = "open"
      BY <2>3 DEF OrdersInv, OrdersKept, OwnLeft, rows
    <3>2. local[w].id \in DOMAIN rows
      BY <2>3 DEF OrdersInv, SoloInv, RecordInv, TradeInv, OrdersKeepSides, MatchingOwn, OwnRow, rows
    <3> PICK id \in DOMAIN rows : id = local[w].id
      BY <3>2
    <3>3. Left(id)' = Left(id) /\ then[id].status = "open"
      BY <1>1, <1>7, <2>3, <3>1
    <3>4. Left(local[w].id)' = Left(id)
      BY <1>5, <3>3 DEF Left, Gone, MovedOf
    <3> QED BY <1>1, <1>5, <2>1, <2>3, <3>1, <3>3, <3>4 DEF OwnLeft, rows, then
  <2> QED BY <1>5, <2>1, <2>2, <2>3 DEF OwnLeft, OrdersInv, OrdersKept
<1>12. Canceling(w)'
  BY <1>4, <1>5, <1>6 DEF Canceling, OrdersInv, OrdersKept
<1>13. RecordedOnce(w)'
  <2>1. \A i : Cancellations(db, i)' = Cancellations(db, i)
    BY <1>1 DEF Cancellations
  <2>2. \A i \in DOMAIN rows : i # j => (OneRecord(i)' <=> OneRecord(i))
    BY <1>1, <2>1 DEF OneRecord, rows, then
  <2>3. then[j].status # "canceled"
    BY <1>1, <1>7
  <2>4. \A i \in DOMAIN rows : then[i].status = "canceled" <=> rows[i].status = "canceled"
    BY <1>1, <1>7
  <2> QED BY <1>1, <1>2, <1>7, <2>1, <2>2, <2>3, <2>4
          DEF RecordedOnce, OrdersInv, OrdersKept, rows, then
<1>14. StillRead(w)'
  BY <1>5 DEF StillRead
<1> QED BY <1>3, <1>9, <1>10, <1>11, <1>12, <1>13, <1>14 DEF OrdersKept

\* What a cancellation sends depends on what of the row never changes and on its
\* shares.
LEMMA SameCancel ==
  ASSUME NEW i, NEW row, NEW o, o.account = row.account, o.symbol = row.symbol,
         o.limit = row.limit, o.shares = row.shares
  PROVE  CancelStatements(i, o) = CancelStatements(i, row)
BY DEF CancelStatements

\* A cancellation sets the status, then records the shares left.
LEMMA ExecCancel ==
  ASSUME NEW w \in Thread, OrdersInv(w), NEW st, NEW rest, Sent(w, st, rest),
         st.op \in {"updateCanceled", "insertCanceled"}
  PROVE  OrdersKept(w)'
<1> DEFINE rows == db.transactions
           then == db'.transactions
<1> PICK i : i = ItemOf(w).id
  OBVIOUS
<1> DEFINE row == rows[i]
           sts == CancelStatements(i, row)
<1>1. /\ DOMAIN then = DOMAIN rows
      /\ \A j \in DOMAIN rows :
           /\ then[j].shares = rows[j].shares
           /\ then[j].status = IF st.op = "updateCanceled" /\ st.id = j THEN "canceled"
                                                                       ELSE rows[j].status
           /\ Left(j)' = Left(j)
      /\ st.op # "insertCanceled" => UNCHANGED db.canceled_trans
  BY SentRows DEF SharesSet, StatusSet, Writes
<1>2. SharesLeft(w)' /\ WritesOnce(w)'
  BY SentShares
<1>3. \A k \in DOMAIN rest : \E n \in DOMAIN pending[w] : rest[k] = pending[w][n]
  BY DEF Sent
<1>4. pending'[w] = rest /\ UNCHANGED <<pc, todo, local>> /\ 1 \in DOMAIN pending[w] /\ pending[w][1] = st
  BY DEF Sent
<1>5. pc[w] = "cancelExecuted"
  BY <1>4 DEF OrdersInv, OrdersKept, Canceling
<1>6. /\ i \in DOMAIN rows /\ local[w].remaining = row.shares
      /\ \/ /\ st = UpdateCanceled(i) /\ row.status = "open"
            /\ rest = Tail(sts) /\ 1 \in DOMAIN rest /\ Records(rest[1], i)
         \/ /\ st = InsertCanceled(i, row.shares) /\ row.status = "canceled"
            /\ rest = Tail(Tail(sts)) /\ \A k \in DOMAIN rest : ~Records(rest[k], i)
  BY <1>5, SentCancel
<1> HIDE DEF rows, then, row, sts
<1>7. ItemOf(w)' = ItemOf(w)
  BY <1>4 DEF ItemOf
<1>8. WritesOpen(w)'
  <2>1. \A k \in DOMAIN pending[w] : pending[w][k].op \notin {"updateShares", "updateExecuted"}
    <3>1. PICK last : /\ last.op \in {"updateBalance", "updatePosition"}
                      /\ sts = << UpdateCanceled(i), InsertCanceled(i, row.shares), last >>
      BY CancelSends DEF CancelSent, sts
    <3>2. pending[w] \in {sts, Tail(sts), Tail(Tail(sts)), << >>}
      BY <1>5 DEF OrdersInv, OrdersKept, Canceling, sts, row, rows
    <3>3. /\ Tail(sts) = << InsertCanceled(i, row.shares), last >> /\ Tail(Tail(sts)) = << last >>
      BY <3>1
    <3> QED BY <3>1, <3>2, <3>3 DEF UpdateCanceled, InsertCanceled
  <2> QED BY <1>3, <1>4, <2>1 DEF WritesOpen
<1>9. FilledEmpty'
  BY <1>1 DEF FilledEmpty, OrdersInv, OrdersKept, rows, then
<1>10. OwnLeft(w)' /\ StillRead(w)'
  BY <1>4, <1>5 DEF OwnLeft, StillRead
<1>11. Canceling(w)'
  <2>1. then[i].status = "canceled" /\ then[i].shares = row.shares /\ i \in DOMAIN then
    BY <1>1, <1>6 DEF UpdateCanceled, row
  <2>2. /\ then[i].account = row.account /\ then[i].symbol = row.symbol /\ then[i].limit = row.limit
    <3>1. i \in 1..Len(rows)
      BY <1>6, LenProperties DEF Sent, rows
    <3> QED BY <3>1 DEF Sent, RowsKept, KeepsRows, rows, then, row
  <2>3. CancelStatements(i, then[i]) = sts
    BY <2>1, <2>2, SameCancel DEF sts
  <2>4. rest \in {Tail(sts), Tail(Tail(sts))}
    BY <1>6
  <2> QED BY <1>4, <1>5, <1>6, <1>7, <2>1, <2>3, <2>4 DEF Canceling, then
<1>12. RecordedOnce(w)'
  <2>1. \A j : j # i => (Recording(w, j)' <=> Recording(w, j))
    BY <1>6, SentRecording DEF Records, InsertCanceled, UpdateCanceled
  <2>2. \A j \in DOMAIN rows : IF rows[j].status # "canceled" \/ Recording(w, j)
                               THEN Cancellations(db, j) = {} ELSE OneRecord(j)
    BY DEF OrdersInv, OrdersKept, RecordedOnce, rows
  <2>3. CASE st = UpdateCanceled(i) /\ row.status = "open" /\ 1 \in DOMAIN rest /\ Records(rest[1], i)
    <3>1. \A j : Cancellations(db, j)' = Cancellations(db, j)
      BY <1>1, <2>3 DEF Cancellations, UpdateCanceled
    <3>2. \A j \in DOMAIN rows : OneRecord(j)' <=> OneRecord(j)
      BY <1>1, <3>1, <2>3 DEF OneRecord, UpdateCanceled, rows, then
    <3>3. Recording(w, i)'
      BY <1>4, <2>3 DEF Recording, Records
    <3>4. Cancellations(db, i) = {}
      BY <1>6, <2>2, <2>3 DEF row
    <3>5. \A j \in DOMAIN rows : j # i => then[j].status = rows[j].status
      BY <1>1, <2>3 DEF UpdateCanceled
    <3> QED BY <1>1, <2>1, <2>2, <3>1, <3>2, <3>3, <3>4, <3>5 DEF RecordedOnce, rows, then
  <2>4. CASE /\ st = InsertCanceled(i, row.shares) /\ row.status = "canceled"
             /\ \A k \in DOMAIN rest : ~Records(rest[k], i)
    <3> DEFINE n == Len(db.canceled_trans) + 1
               recs == db'.canceled_trans
    <3>1. st.op = "insertCanceled" /\ st.row.id = i /\ st.row.shares = row.shares /\ st \in Statement
      BY <2>4 DEF InsertCanceled, Sent
    <3>2. recs = Append(db.canceled_trans, st.row) /\ db.canceled_trans \in Seq(Cancellation)
          /\ st.row \in Cancellation
      <4>1. IsDatabase(db) /\ db' = Apply(st, db) /\ db.canceled_trans \in Seq(Cancellation)
        BY DEF Sent
      <4>2. st.row \in Cancellation
        BY <3>1 DEF Statement
      <4>3. recs = Append(db.canceled_trans, st.row)
        BY <3>1, <4>1, ApplyKeys
      <4> QED BY <4>1, <4>2, <4>3
    <3>3. /\ n \notin DOMAIN db.canceled_trans /\ DOMAIN recs = DOMAIN db.canceled_trans \cup {n}
          /\ recs[n] = st.row /\ \A m \in DOMAIN db.canceled_trans : recs[m] = db.canceled_trans[m]
      BY <3>2, AppendProperties, LenProperties
    <3> HIDE DEF n, recs
    <3>4. \A j : j # i => Cancellations(db, j)' = Cancellations(db, j)
      BY <3>1, <3>3 DEF Cancellations, recs
    <3>5. Recording(w, i) /\ ~Recording(w, i)'
      <4>1. Recording(w, i)
        BY <1>4, <3>1 DEF Recording, Records
      <4>2. ~Recording(w, i)'
        BY <1>4, <2>4 DEF Recording, Records
      <4> QED BY <4>1, <4>2
    <3>6. Cancellations(db, i) = {}
      BY <1>6, <2>2, <3>5
    <3>7. Cancellations(db, i)' = {n}
      BY <3>1, <3>3, <3>6 DEF Cancellations, recs
    <3>8. \A j \in DOMAIN rows : then[j].status = rows[j].status /\ then[j].shares = rows[j].shares
      BY <1>1, <3>1
    <3>9. \A j \in DOMAIN rows : j # i => (OneRecord(j)' <=> OneRecord(j))
      <4> SUFFICES ASSUME NEW j \in DOMAIN rows, j # i PROVE OneRecord(j)' <=> OneRecord(j)
        OBVIOUS
      <4>1. \A m : Cancellations(db, j) = {m} => m \in DOMAIN db.canceled_trans
        BY DEF Cancellations
      <4> QED BY <3>3, <3>4, <3>8, <4>1 DEF OneRecord, rows, then, recs
    <3>10. OneRecord(i)'
      BY <1>6, <3>1, <3>3, <3>7, <3>8 DEF OneRecord, rows, then, recs, row
    <3> QED BY <1>1, <2>1, <2>2, <2>4, <3>4, <3>5, <3>8, <3>9, <3>10 DEF RecordedOnce, rows, then, row
  <2> QED BY <1>6, <2>3, <2>4
<1> QED BY <1>2, <1>8, <1>9, <1>10, <1>11, <1>12 DEF OrdersKept

\* The row of a new order comes last, and has all it asks for left.
LEMMA ExecInsert ==
  ASSUME NEW w \in Thread, OrdersInv(w), KeyInv', Exec(w), NEW st, st = Head(pending[w]),
         NEW rest, rest = Tail(pending[w]), st.op = "insertTransaction"
  PROVE  OrdersKept(w)'
<1> DEFINE rows == db.transactions
           then == db'.transactions
           o == NewOrder(ItemOf(w))
<1>0. Sent(w, st, rest)
  BY ExecSent
<1>1. /\ st \in Statement /\ st.row = o /\ pc[w] = "match" /\ Len(pending[w]) = 1
  BY <1>0 DEF Sent, OrdersInv, SoloInv, RecordInv, TradeInv, OrdersKeepSides, InsertsLast
<1>2. /\ pending[w] \in Seq(Statement) /\ DOMAIN pending[w] = {1} /\ pending[w][1] = st
      /\ rest = << >> /\ pending'[w] = << >>
  <2>1. pending[w] \in Seq(Statement) /\ pending[w] # << >>
    BY SentStatement DEF OrdersInv
  <2>2. DOMAIN pending[w] = {1}
    <3>1. DOMAIN pending[w] = 1..1
      BY <1>1, <2>1, LenProperties
    <3> QED BY <3>1
  <2>3. Len(rest) = 0 /\ rest \in Seq(Statement)
    BY <1>1, <2>1, HeadTailProperties
  <2>4. rest = << >>
    BY <2>3, EmptySeq
  <2> QED BY <1>0, <2>1, <2>2, <2>4 DEF Sent
<1>3. o \in Order /\ o.shares = o.amount /\ o.amount = ItemOf(w).amount /\ o.status = "open"
  <2>1. st.row \in Order
    BY <1>1 DEF Statement
  <2> QED BY <1>1, <2>1 DEF NewOrder
<1> PICK new : new = Len(rows) + 1
  OBVIOUS
<1>4. /\ then = Append(rows, o) /\ UNCHANGED <<db.canceled_trans, trades, pc, todo>>
  BY <1>0, <1>1, ApplyRows, ApplyKeys DEF Sent
<1>5. /\ local'[w].id = new /\ local'[w].remaining = local[w].remaining
  <2>1. local \in [Thread -> Local]
    BY TypeParts DEF OrdersInv, SoloInv, RecordInv, TradeInv, ControlTyped
  <2> QED BY <2>1 DEF Exec, Local
<1>6. local[w].remaining = o.amount
  <2>1. Inserting(w)
    BY <1>2 DEF Inserting
  <2> QED BY <1>1, <1>3, <2>1 DEF OrdersInv, OrdersKept, OwnLeft
<1> HIDE DEF o
<1>7. /\ DOMAIN then = DOMAIN rows \cup {new} /\ new \notin DOMAIN rows /\ then[new] = o
      /\ \A i \in DOMAIN rows : then[i] = rows[i]
  <2>1. rows \in Seq(Order) /\ then = Append(rows, o) /\ new = Len(rows) + 1
    BY <1>0, <1>4 DEF Sent
  <2> HIDE DEF rows, then
  <2> QED BY ONLY <1>3, <2>1, AppendProperties, LenProperties
<1>8. \A i \in DOMAIN rows : /\ Left(i)' = Left(i) /\ rows[i].shares = Left(i) /\ ~Recording(w, i)
  <2>1. \A i : ~Writes(st, i) /\ ~Records(st, i)
    BY DEF Writes, Records
  <2>2. SharesLeft(w)
    BY DEF OrdersInv, OrdersKept
  <2>3. \A i \in DOMAIN rows : rows[i].shares = Left(i) /\ ~Recording(w, i)
    BY ONLY <1>2, <2>1, <2>2 DEF SharesLeft, Recording
  <2> QED BY <1>0, <2>3, LeftKept DEF OrdersInv, Sent
<1>9. Left(new)' = o.amount
  BY <1>3, <1>4, LeftNew DEF OrdersInv
<1> HIDE DEF rows, then
<1>10. SharesLeft(w)'
  BY <1>2, <1>3, <1>7, <1>8, <1>9 DEF SharesLeft, rows, then
<1>11. WritesOnce(w)' /\ WritesOpen(w)' /\ StillRead(w)' /\ Canceling(w)'
  BY <1>1, <1>2, <1>4 DEF WritesOnce, WritesOpen, StillRead, Canceling
<1>12. FilledEmpty'
  BY <1>3, <1>7 DEF FilledEmpty, OrdersInv, OrdersKept, rows, then
<1>13. OwnLeft(w)'
  <2>1. ~Inserting(w)'
    BY <1>2 DEF Inserting
  <2>2. Left(local[w].id)' = o.amount
    BY <1>5, <1>9 DEF Left, Gone, MovedOf
  <2>3. then[local'[w].id].status = "open"
    BY <1>3, <1>5, <1>7
  <2> QED BY <1>5, <1>6, <2>1, <2>2, <2>3 DEF OwnLeft, then
<1>14. RecordedOnce(w)'
  <2>1. \A i : Cancellations(db, i)' = Cancellations(db, i) /\ ~Recording(w, i)'
    BY <1>2, <1>4 DEF Cancellations, Recording
  <2>2. Cancellations(db, new) = {}
    BY <1>0, <1>7 DEF Sent, ForeignKeysHold, Cancellations, rows
  <2>3. \A i \in DOMAIN rows : OneRecord(i)' <=> OneRecord(i)
    BY <1>4, <1>7, <2>1 DEF OneRecord, rows, then
  <2>4. \A i \in DOMAIN rows : IF rows[i].status # "canceled" THEN Cancellations(db, i) = {}
                                                              ELSE OneRecord(i)
    BY <1>8 DEF OrdersInv, OrdersKept, RecordedOnce, rows
  <2> QED BY <1>3, <1>7, <2>1, <2>2, <2>3, <2>4 DEF RecordedOnce, then
<1> QED BY <1>10, <1>11, <1>12, <1>13, <1>14 DEF OrdersKept

\* Whatever statement is sent.
LEMMA ExecOrders ==
  ASSUME NEW w \in Thread, OrdersInv(w), KeyInv', Exec(w)
  PROVE  OrdersKept(w)'
<1>1. PICK st, rest : st = Head(pending[w]) /\ rest = Tail(pending[w])
  OBVIOUS
<1>2. Sent(w, st, rest)
  BY <1>1, ExecSent
<1>3. st.op \in {"updateBalance", "updatePosition", "updateShares", "updateExecuted",
                 "updateCanceled", "insertTransaction", "insertExecuted", "insertCanceled"}
  BY <1>2 DEF Sent, Statement
<1> QED BY <1>1, <1>2, <1>3, ExecOther, ExecWrite, ExecCancel, ExecInsert

\* The clients start with no order.
LEMMA InitOrders == ASSUME NEW w \in Thread, Init PROVE OrdersInv(w)
<1>1. SoloInv(w) /\ KeyInv
  BY InitSolo, InitKeys
<1>2. db.transactions = << >> /\ pending[w] = << >> /\ pc[w] = "idle"
  BY SeedAssumption DEF Init
<1>3. OrdersKept(w)
  BY <1>2 DEF OrdersKept, SharesLeft, WritesOnce, WritesOpen, FilledEmpty, OwnLeft, Canceling,
     RecordedOnce, StillRead
<1> QED BY <1>1, <1>3 DEF OrdersInv

\* With nobody else every step but the exception over the input keeps the inductive
\* invariant.
LEMMA NextOrders ==
  ASSUME NEW w, Thread = {w}
  PROVE  OrdersInv(w) /\ [Next]_vars => OrdersInv(w)' \/ Raise(w)
<1> SUFFICES ASSUME OrdersInv(w), [Next]_vars, ~Raise(w) PROVE OrdersKept(w)'
  BY NextSolo, NextKeys DEF OrdersInv
<1>0. w \in Thread /\ KeyInv'
  BY NextKeys DEF OrdersInv
<1>1. CASE Receive(w) \/ Step(w)
  BY <1>0, <1>1, CreateOrders, OrderOrders, MatchOrders, ReadOrders, CancelOrders, ExecOrders
     DEF Step
<1>2. CASE UNCHANGED vars
  <2>1. UNCHANGED <<db, pc, todo, local, pending, trades>>
    BY <1>2 DEF vars
  <2>2. \A i : Left(i)' = Left(i)
    BY <2>1, SameEntries DEF SameRows, Left, Gone, MovedOf
  <2>3. SharesLeft(w)' /\ WritesOnce(w)' /\ WritesOpen(w)'
    BY <2>1, <2>2 DEF OrdersInv, OrdersKept, SharesLeft, WritesOnce, WritesOpen, Writes
  <2>4. FilledEmpty'
    BY <2>1 DEF OrdersInv, OrdersKept, FilledEmpty
  <2>5. OwnLeft(w)'
    <3>1. Left(local[w].id)' = Left(local[w].id)
      BY <2>1, SameEntries DEF SameRows, Left, Gone, MovedOf
    <3> QED BY <2>1, <3>1 DEF OrdersInv, OrdersKept, OwnLeft, Inserting, ItemOf
  <2>6. Canceling(w)' /\ StillRead(w)'
    BY <2>1 DEF OrdersInv, OrdersKept, Canceling, StillRead, ItemOf
  <2>7. RecordedOnce(w)'
    BY <2>1 DEF OrdersInv, OrdersKept, RecordedOnce, Recording, OneRecord, Cancellations, Records
  <2> QED BY <2>3, <2>4, <2>5, <2>6, <2>7 DEF OrdersKept
<1> QED BY <1>1, <1>2 DEF Next, Stopped

\* What the property Wanted is about.
LEMMA WantedLeft ==
  ASSUME KeyInv, NEW i \in DOMAIN db.transactions
  PROVE  Wanted(i) = Left(i)
<1> DEFINE q == MovedOf(i)
           legs == [n \in DOMAIN trades |-> LegShares(trades[n], i)]
<1>1. q \in Quantity
  BY LeftInt
<1>2. trades \in Seq(Trade)
  BY <1>1, SumsAreTyped DEF SumsTyped
<1>3. SumFunction(legs) = Over(trades, TradeEntries(q))
  <2>1. \A k \in DOMAIN trades : legs[k] = TradeEntries(q)[trades[k]]
    BY <1>2, ElementOfSeq DEF TradeEntries, TradeEntry, MovedOf
  <2>2. legs = [k \in DOMAIN trades |-> legs[k]]
    OBVIOUS
  <2> HIDE DEF legs
  <2> QED BY <2>1, <2>2, OverValues
<1> QED BY <1>3 DEF Wanted, Left, Gone, SumOver

\* With nothing underway its sum is 0.
LEMMA SentNothing ==
  ASSUME AllSent, NEW e
  PROVE  Sending(pending, e) = 0
<1>1. \A t \in Thread : Over(pending[t], e) = 0
  BY OverNone DEF AllSent
<1>2. \A t \in Thread : [u \in Thread |-> Over(pending[u], e)][t] = 0
  BY <1>1
<1> QED BY <1>2, FinitenessAssumption, TotalZero DEF Sending

\* The shares executed of order i in EXECUTED_TRANS.
ExecutedOf(i) == SumOver(DOMAIN db.executed_trans, LAMBDA n : RowShares(db.executed_trans[n], i))

\* When all is sent they are those its matches moved.
LEMMA ExecutedGone ==
  ASSUME LedgerInv, alive, AllSent, NEW i \in DOMAIN db.transactions
  PROVE  ExecutedOf(i) = Gone(i)
<1> DEFINE q == MovedOf(i)
           rows == [n \in DOMAIN db.executed_trans |-> RowShares(db.executed_trans[n], i)]
<1>0. KeyInv
  BY DEF LedgerInv
<1>1. q \in Quantity /\ q.of = "moved" /\ Gone(i) \in Int
  BY <1>0, LeftInt DEF MovedOf
<1>2. SumsTyped(q) /\ IntegerSums(q)
  BY <1>0, <1>1, SumsAreTyped, SumsInt
<1>3. SumFunction(rows) = Over(db.executed_trans, ExecutedEntries(q))
  <2>1. \A k \in DOMAIN db.executed_trans : rows[k] = ExecutedEntries(q)[db.executed_trans[k]]
    BY <1>2, ElementOfSeq DEF SumsTyped, ExecutedEntries, ExecutedEntry, MovedOf
  <2>2. rows = [k \in DOMAIN db.executed_trans |-> rows[k]]
    OBVIOUS
  <2> HIDE DEF rows
  <2> QED BY <2>1, <2>2, OverValues
<1>4. Unmatched(q) = Paid(q)
  <2> HIDE DEF q
  <2> QED BY <1>1 DEF LedgerInv, Balanced
<1>5. Over(db.executed_trans, ExecutedEntries(q)) + Sending(pending, Dues(q))
        = Over(trades, TradeEntries(q))
  BY <1>0, <1>1, <1>4, ExecutedBooks
<1>6. Sending(pending, Dues(q)) = 0
  BY SentNothing
<1>7. Over(db.executed_trans, ExecutedEntries(q)) = Gone(i)
  BY <1>1, <1>2, <1>5, <1>6 DEF IntegerSums, Gone
<1> QED BY <1>3, <1>7 DEF ExecutedOf, SumOver

\* The inductive invariants of the orders, until an exception ends the engine, and of
\* the ledgers.
WhileUp(w) == alive => OrdersInv(w)

LEMMA OrdersAlways == ASSUME NEW w, Thread = {w} PROVE Spec => [](WhileUp(w) /\ LedgerInv)
<1>1. Init => WhileUp(w)
  BY InitOrders DEF WhileUp
<1>2. WhileUp(w) /\ [Next]_vars => WhileUp(w)'
  <2> SUFFICES ASSUME WhileUp(w), [Next]_vars, alive' PROVE OrdersInv(w)'
    BY DEF WhileUp
  <2>1. ~Raise(w)
    BY DEF Raise, Terminate
  <2>2. alive
    BY DownStays DEF vars
  <2> QED BY <2>1, <2>2, NextOrders DEF WhileUp
<1> QED BY <1>1, <1>2, BooksKept, PTL DEF Spec

\* With a thread count of 1 every share an order asked for is executed, canceled
\* once, or still wanted, and an executed order has none left: no match and no
\* cancellation of the order is made twice, lost, or of a size read too early
\* (handle_command.cpp:318-423, 529-633, 807-842).
THEOREM OneWorkerAccounts == ASSUME NEW w, Thread = {w} PROVE Spec => []OrdersAccountedFor
<1>1. WhileUp(w) /\ LedgerInv => OrdersAccountedFor
  <2> SUFFICES ASSUME OrdersInv(w), LedgerInv, AllSent, NEW i \in DOMAIN db.transactions
               PROVE  /\ db.transactions[i].amount = db.transactions[i].shares + ExecutedOf(i)
                      /\ db.transactions[i].status = "executed" => db.transactions[i].shares = 0
                      /\ Cardinality(Cancellations(db, i))
                           = IF db.transactions[i].status = "canceled" THEN 1 ELSE 0
                      /\ \A n \in Cancellations(db, i) :
                           db.canceled_trans[n].shares = db.transactions[i].shares
    BY DEF OrdersAccountedFor, ExecutedOf, WhileUp
  <2>1. pending[w] = << >> /\ alive
    BY DEF AllSent, OrdersInv, SoloInv
  <2>2. db.transactions[i].shares = Left(i) /\ ~Recording(w, i)
    BY <2>1 DEF OrdersInv, OrdersKept, SharesLeft, Recording
  <2>3. db.transactions[i].amount = db.transactions[i].shares + ExecutedOf(i)
    <3>1. Gone(i) \in Int /\ db.transactions[i].amount \in Int
      BY LeftInt, TypeParts, RowTyped
         DEF OrdersInv, KeyInv, TradeInv, EngineTyped, IsDatabase, Order
    <3>2. ExecutedOf(i) = Gone(i)
      BY <2>1, ExecutedGone
    <3> QED BY <2>2, <3>1, <3>2 DEF Left
  <2>4. IF db.transactions[i].status # "canceled" THEN Cancellations(db, i) = {} ELSE OneRecord(i)
    BY <2>2 DEF OrdersInv, OrdersKept, RecordedOnce
  <2>5. Cardinality(Cancellations(db, i)) = IF db.transactions[i].status = "canceled" THEN 1 ELSE 0
    <3>1. CASE db.transactions[i].status # "canceled"
      BY <2>4, <3>1, FS_EmptySet
    <3>2. CASE db.transactions[i].status = "canceled"
      BY <2>4, <3>2, FS_Singleton DEF OneRecord
    <3> QED BY <3>1, <3>2
  <2>6. \A n \in Cancellations(db, i) : db.canceled_trans[n].shares = db.transactions[i].shares
    BY <2>4 DEF OneRecord
  <2> QED BY <2>3, <2>5, <2>6 DEF OrdersInv, OrdersKept, FilledEmpty
<1> QED BY <1>1, OrdersAlways, PTL

-----------------------------------------------------------------------------
(* Price-time priority.                                                    *)

\* Order r is first on the side of its symbol's book.
Foremost(r) == \E s : \/ r \in Asks(db, s) /\ IsBestAsk(db, r, s)
                      \/ r \in Bids(db, s) /\ IsBestBid(db, r, s)

\* The loop ends, or takes from the order that is first.
LEMMA MatchesFirst ==
  ASSUME NEW w \in Thread, BuySelectAsk(w) \/ SellSelectBid(w)
  PROVE  NoMatch(w) \/ \E r, executed : Foremost(r) /\ trades' = Append(trades, TradeOf(w, r, executed))
BY DEF BuySelectAsk, SellSelectBid, Matched, TradeOf, Foremost

\* The signs of factors.
LEMMA SameSign ==
  ASSUME NEW m \in Int, NEW n \in Int, m * n > 0
  PROVE  (m > 0 /\ n > 0) \/ (m < 0 /\ n < 0)
<1>1. CASE m = 0
  BY <1>1
<1>2. CASE m > 0
  BY <1>2, SMT
<1>3. CASE m < 0
  BY <1>3, SMT
<1> QED BY <1>1, <1>2, <1>3

\* Nothing is wanted of an order ahead of the first one.
LEMMA NothingAhead ==
  ASSUME NEW w \in Thread, OrdersInv(w), pending[w] = << >>, NEW r, Foremost(r),
         NEW j \in DOMAIN db.transactions, Ahead(j, r)
  PROVE  db.transactions[j].status = "canceled" \/ Left(j) = 0
<1> DEFINE rows == db.transactions
           o == rows[r]
           p == rows[j]
<1>1. r \in DOMAIN rows
  BY DEF Foremost, Asks, Bids
<1>2. /\ o \in Order /\ p \in Order
      /\ OnSide(o.shares, o.amount) /\ OnSide(p.shares, p.amount)
  BY <1>1, TypeParts, RowTyped
     DEF OrdersInv, KeyInv, TradeInv, EngineTyped, IsDatabase, OrdersKeepSides, RowsOnSide
<1>3. /\ o.shares \in Int /\ o.amount \in Int /\ o.limit \in Int
      /\ p.shares \in Int /\ p.amount \in Int /\ p.limit \in Int
      /\ p.status \in {"open", "executed", "canceled"}
  BY <1>2 DEF Order, Status
<1>4. p.shares = Left(j)
  BY DEF OrdersInv, OrdersKept, SharesLeft
<1>5. p.status = "executed" => p.shares = 0
  BY DEF OrdersInv, OrdersKept, FilledEmpty
<1>6. r \in Int /\ j \in Int
  <2>1. rows \in Seq(Order)
    BY TypeParts DEF OrdersInv, KeyInv, TradeInv, EngineTyped, IsDatabase
  <2> QED BY <1>1, <2>1, LenProperties
<1>7. /\ p.symbol = o.symbol
      /\ (p.amount > 0 /\ o.amount > 0) \/ (p.amount < 0 /\ o.amount < 0)
      /\ o.amount > 0 => p.limit > o.limit \/ (p.limit = o.limit /\ j < r)
      /\ ~(o.amount > 0) => p.limit < o.limit \/ (p.limit = o.limit /\ j < r)
  BY <1>3, SameSign DEF Ahead
<1>8. SUFFICES ASSUME p.status = "open", p.shares # 0 PROVE FALSE
  BY <1>3, <1>4, <1>5
<1>9. CASE \E s : r \in Asks(db, s) /\ IsBestAsk(db, r, s)
  <2>1. o.shares < 0 /\ (j \in Asks(db, o.symbol) => o.limit < p.limit \/ (o.limit = p.limit /\ r <= j))
    BY <1>9 DEF Asks, IsBestAsk
  <2>2. o.amount < 0 /\ p.amount < 0 /\ p.shares < 0
    BY ONLY <1>2, <1>3, <1>7, <1>8, <2>1 DEF OnSide
  <2>3. j \in Asks(db, o.symbol)
    BY <1>7, <1>8, <2>2 DEF Asks
  <2> HIDE DEF o, p
  <2> QED BY ONLY <1>3, <1>6, <1>7, <2>1, <2>2, <2>3
<1>10. CASE \E s : r \in Bids(db, s) /\ IsBestBid(db, r, s)
  <2>1. o.shares > 0 /\ (j \in Bids(db, o.symbol) => o.limit > p.limit \/ (o.limit = p.limit /\ r <= j))
    BY <1>10 DEF Bids, IsBestBid
  <2>2. o.amount > 0 /\ p.amount > 0 /\ p.shares > 0
    BY ONLY <1>2, <1>3, <1>7, <1>8, <2>1 DEF OnSide
  <2>3. j \in Bids(db, o.symbol)
    BY <1>7, <1>8, <2>2 DEF Bids
  <2> HIDE DEF o, p
  <2> QED BY ONLY <1>3, <1>6, <1>7, <2>1, <2>2, <2>3
<1> QED BY <1>9, <1>10 DEF Foremost

\* Only the matching loop decides matches.
LEMMA OnlyLoopTrades ==
  ASSUME NEW w, Thread = {w}, [Next]_vars, trades' # trades
  PROVE  BuySelectAsk(w) \/ SellSelectBid(w)
<1>1. Receive(w) \/ Step(w)
  BY DEF Next, Stopped, vars
<1> QED BY <1>1 DEF Step, Receive, Exec, CreateAccount, CreateSymbol, GrantSelectAccount,
          GrantSelectPosition, GrantInsertPosition, GrantUpdatePosition, OrderSelectAccount,
          OrderSelectSymbol, OrderSelectPosition, OrderInsertPosition, OpenSell, Commit,
          QuerySelectOrder, QuerySelectCanceled, QuerySelectExecuted, CancelSelectOrder,
          CancelSelectExecuted, Raise, Terminate, history

\* With a thread count of 1 a resting order is matched only when every order ahead of
\* it, by price and then by time, has been filled or canceled: the row the SELECT
\* returned is still the best when its match is composed
\* (handle_command.cpp:302-304, 513-515).
THEOREM OneWorkerPriority == ASSUME NEW w, Thread = {w} PROVE Spec => PriceTimePriority
<1> DEFINE Allowed == \A n \in DOMAIN trades' \ DOMAIN trades :
                        \A j \in DOMAIN db.transactions :
                          Ahead(j, trades'[n].maker) => \/ db.transactions[j].status = "canceled"
                                                        \/ Wanted(j) = 0
<1>1. WhileUp(w) /\ [Next]_vars => [Allowed]_trades
  <2> SUFFICES ASSUME WhileUp(w), [Next]_vars, trades' # trades,
                      NEW n \in DOMAIN trades' \ DOMAIN trades, NEW j \in DOMAIN db.transactions,
                      Ahead(j, trades'[n].maker)
               PROVE  db.transactions[j].status = "canceled" \/ Wanted(j) = 0
    OBVIOUS
  <2>1. BuySelectAsk(w) \/ SellSelectBid(w)
    BY OnlyLoopTrades
  <2>2. pending[w] = << >> /\ w \in Thread /\ OrdersInv(w)
    BY <2>1 DEF BuySelectAsk, SellSelectBid, At, WhileUp
  <2>3. PICK r, executed : Foremost(r) /\ trades' = Append(trades, TradeOf(w, r, executed))
    BY <2>1, <2>2, MatchesFirst DEF NoMatch
  <2>4. trades'[n].maker = r
    <3>1. trades \in Seq(Trade)
      BY <2>2 DEF OrdersInv, KeyInv, TradeInv, TypeOK
    <3>2. DOMAIN trades = 1..Len(trades) /\ Len(trades) \in Nat
      BY <3>1, LenProperties
    <3>3. DOMAIN trades' = 1..(Len(trades) + 1) /\ trades'[Len(trades) + 1] = TradeOf(w, r, executed)
      BY <2>3, <3>1 DEF TradeOf
    <3>4. n = Len(trades) + 1
      BY <3>2, <3>3
    <3> QED BY <3>3, <3>4 DEF TradeOf
  <2>5. Left(j) = Wanted(j)
    BY <2>2, WantedLeft DEF OrdersInv
  <2> QED BY <2>2, <2>3, <2>4, <2>5, NothingAhead
<1>2. Spec => [](WhileUp(w) /\ LedgerInv)
  BY OrdersAlways
<1> QED BY <1>1, <1>2, PTL DEF Spec, PriceTimePriority

-----------------------------------------------------------------------------
(* The book stays uncrossed.                                               *)

\* Bid i and ask j are on one book.
Facing(i, j) == \E s \in Symbol : i \in Bids(db, s) /\ j \in Asks(db, s)

\* Statement st takes order i off the book as executed.
Fills(st, i) == st.op = "updateExecuted" /\ st.id = i

\* Order i is the one the loop still matches, or is about to be filled.
Newcomer(w, i) ==
  /\ i = local[w].id
  /\ \/ pc[w] = "match" /\ ~Inserting(w)
     \/ pc[w] = "commit" /\ \E k \in DOMAIN pending[w] : Fills(pending[w][k], i)

\* Every bid is below every ask, but for the order being matched.
Apart(w) ==
  \A i, j \in DOMAIN db.transactions :
    Facing(i, j) => \/ db.transactions[i].limit < db.transactions[j].limit
                    \/ Newcomer(w, i) \/ Newcomer(w, j)

\* Out of the loop, while no row changes.
LEMMA StillApart ==
  ASSUME NEW w \in Thread, Apart(w), pending[w] = << >>, pc[w] # "match", SameRows
  PROVE  Apart(w)'
<1>1. \A i : ~Newcomer(w, i)
  BY DEF Newcomer
<1>2. \A i, j : Facing(i, j)' <=> Facing(i, j)
  BY DEF Facing, Bids, Asks, SameRows
<1> QED BY <1>1, <1>2 DEF Apart, SameRows

\* Only statements sent write to the rows and to the records of executions.
LEMMA AsideRows ==
  ASSUME NEW w \in Thread, IsDatabase(db), Receive(w) \/ Step(w), ~Exec(w)
  PROVE  SameRows /\ UNCHANGED db.executed_trans
<1>1. CASE \/ Receive(w) \/ CreateAccount(w) \/ CreateSymbol(w) \/ GrantSelectAccount(w)
           \/ GrantSelectPosition(w) \/ GrantInsertPosition(w) \/ GrantUpdatePosition(w)
  BY <1>1 DEF Receive, CreateAccount, CreateSymbol, GrantSelectAccount, GrantSelectPosition,
     GrantInsertPosition, GrantUpdatePosition, Apply, UpdatePosition, IsDatabase, SameRows
<1>2. CASE \/ OrderSelectAccount(w) \/ OrderSelectSymbol(w) \/ OrderSelectPosition(w)
           \/ OrderInsertPosition(w) \/ OpenSell(w)
  BY <1>2 DEF OrderSelectAccount, OrderSelectSymbol, OrderSelectPosition,
     OrderInsertPosition, OpenSell, Terminate, IsDatabase, SameRows
<1>3. CASE \/ BuySelectAsk(w) \/ SellSelectBid(w) \/ Commit(w)
           \/ QuerySelectOrder(w) \/ QuerySelectCanceled(w) \/ QuerySelectExecuted(w)
           \/ CancelSelectOrder(w) \/ CancelSelectExecuted(w)
  BY <1>3 DEF BuySelectAsk, SellSelectBid, Commit, QuerySelectOrder, QuerySelectCanceled,
     QuerySelectExecuted, CancelSelectOrder, CancelSelectExecuted, Terminate, SameRows
<1>4. CASE Raise(w)
  BY <1>4 DEF Raise, Terminate, SameRows
<1> QED BY <1>1, <1>2, <1>3, <1>4 DEF Step

\* Every action but a statement sent or refused and the matching loop.
LEMMA AsideApart ==
  ASSUME NEW w \in Thread, OrdersInv(w), Apart(w), Receive(w) \/ Step(w),
         ~Exec(w), ~BuySelectAsk(w), ~SellSelectBid(w), ~Raise(w)
  PROVE  Apart(w)'
<1>1. IsDatabase(db)
  BY TypeParts DEF OrdersInv, SoloInv, RecordInv, TradeInv, EngineTyped
<1>2. pending[w] = << >> /\ pc[w] # "match"
  BY DEF Step, Receive, CreateAccount, CreateSymbol, GrantSelectAccount,
          GrantSelectPosition, GrantInsertPosition, GrantUpdatePosition, OrderSelectAccount,
          OrderSelectSymbol, OrderSelectPosition, OrderInsertPosition, OpenSell, Commit,
          QuerySelectOrder, QuerySelectCanceled, QuerySelectExecuted, CancelSelectOrder,
          CancelSelectExecuted, At
<1>3. SameRows
  BY <1>1, AsideRows
<1> QED BY <1>2, <1>3, StillApart

\* Nothing on the other side of the book can be matched with worker w's order.
NothingCrosses(w) ==
  LET item == ItemOf(w)
  IN  IF item.amount > 0
      THEN \A j \in Asks(db, item.symbol) : item.limit < db.transactions[j].limit
      ELSE \A i \in Bids(db, item.symbol) : db.transactions[i].limit < item.limit

\* The loop ends because the best of the other side does not cross.
LEMMA LoopEnds ==
  ASSUME NEW w \in Thread, OrdersInv(w), BuySelectAsk(w) \/ SellSelectBid(w), NoMatch(w)
  PROVE  NothingCrosses(w)
<1> DEFINE rows == db.transactions
           item == ItemOf(w)
<1>1. /\ TradeInv /\ At(w, "match") /\ trades \in Seq(Trade)
  BY DEF OrdersInv, KeyInv, TradeInv, TypeOK, BuySelectAsk, SellSelectBid
<1>2. item.limit \in Int /\ \A i \in DOMAIN rows : rows[i].limit \in Int
  BY <1>1, AtMatch DEF Order, OrderItem
<1>3. ASSUME NEW r, NEW executed, NEW remaining, Matched(w, r, executed, remaining) PROVE FALSE
  <2> DEFINE k == TradeOf(w, r, executed)
  <2>1. trades' = Append(trades, k) /\ trades' = trades
    BY <1>3 DEF Matched, TradeOf, NoMatch
  <2>2. Len(Append(trades, k)) = Len(trades) + 1 /\ Len(trades) \in Nat
    <3> HIDE DEF k
    <3> QED BY <1>1, LenProperties
  <2> HIDE DEF k
  <2> QED BY <2>1, <2>2
<1>4. CASE BuySelectAsk(w)
  <2>1. item.amount > 0
    BY <1>4 DEF BuySelectAsk
  <2>2. \/ Asks(db, item.symbol) = {}
        \/ \E r \in Asks(db, item.symbol) : IsBestAsk(db, r, item.symbol) /\ ~Crosses(item, rows[r])
    BY <1>3, <1>4 DEF BuySelectAsk
  <2>3. ASSUME NEW r \in Asks(db, item.symbol), IsBestAsk(db, r, item.symbol), ~Crosses(item, rows[r]),
               NEW j \in Asks(db, item.symbol)
        PROVE  item.limit < rows[j].limit
    <3>1. r \in DOMAIN rows /\ j \in DOMAIN rows
      BY DEF Asks
    <3>2. ~(rows[r].limit <= item.limit)
      BY <2>1, <2>3 DEF Crosses
    <3>3. rows[r].limit <= rows[j].limit
      BY <1>2, <2>3, <3>1 DEF IsBestAsk
    <3> HIDE DEF item, rows
    <3> QED BY <1>2, <3>1, <3>2, <3>3
  <2> QED BY <2>1, <2>2, <2>3 DEF NothingCrosses
<1>5. CASE SellSelectBid(w)
  <2>1. item.amount <= 0 /\ ~(item.amount > 0)
    <3>1. item.amount <= 0 /\ item.amount \in Int
      BY <1>1, <1>5, AtMatch DEF SellSelectBid, OrderItem
    <3> HIDE DEF item
    <3> QED BY <3>1
  <2>2. \/ Bids(db, item.symbol) = {}
        \/ \E r \in Bids(db, item.symbol) : IsBestBid(db, r, item.symbol) /\ ~Crosses(item, rows[r])
    BY <1>3, <1>5 DEF SellSelectBid
  <2>3. ASSUME NEW r \in Bids(db, item.symbol), IsBestBid(db, r, item.symbol), ~Crosses(item, rows[r]),
               NEW j \in Bids(db, item.symbol)
        PROVE  rows[j].limit < item.limit
    <3>1. r \in DOMAIN rows /\ j \in DOMAIN rows
      BY DEF Bids
    <3>2. ~(rows[r].limit >= item.limit)
      BY <2>1, <2>3 DEF Crosses
    <3>3. rows[r].limit >= rows[j].limit
      BY <1>2, <2>3, <3>1 DEF IsBestBid
    <3> HIDE DEF item, rows
    <3> QED BY <1>2, <3>1, <3>2, <3>3
  <2> QED BY <2>1, <2>2, <2>3 DEF NothingCrosses
<1> QED BY <1>4, <1>5

\* An order the loop leaves on the book is apart from the other side.
LEMMA LoopApart ==
  ASSUME NEW w \in Thread, OrdersInv(w), Apart(w), BuySelectAsk(w) \/ SellSelectBid(w)
  PROVE  Apart(w)'
<1> DEFINE rows == db.transactions
           item == ItemOf(w)
           id == local[w].id
<1>1. /\ TradeInv /\ At(w, "match") /\ pending[w] = << >> /\ pc[w] = "match" /\ UNCHANGED db
  BY DEF OrdersInv, KeyInv, BuySelectAsk, SellSelectBid, At
<1>2. \A i, j : Facing(i, j)' <=> Facing(i, j)
  BY <1>1 DEF Facing, Bids, Asks
<1>3. CASE NoMatch(w)
  <2>1. /\ OwnRow(w) /\ item.amount \in Int
        /\ \A i \in DOMAIN rows : /\ rows[i].shares \in Int /\ rows[i].amount \in Int
                                  /\ OnSide(rows[i].shares, rows[i].amount)
    BY <1>1, AtMatch DEF Order, OrderItem
  <2>2. /\ id \in DOMAIN rows /\ rows[id].symbol = item.symbol /\ rows[id].limit = item.limit
        /\ rows[id].amount = item.amount
    BY <2>1 DEF OwnRow
  <2>3. \A i, j \in DOMAIN rows : Facing(i, j) => rows[i].limit < rows[j].limit
    <3> SUFFICES ASSUME NEW i \in DOMAIN rows, NEW j \in DOMAIN rows, Facing(i, j)
                 PROVE  rows[i].limit < rows[j].limit
      OBVIOUS
    <3>1. /\ i \in Bids(db, rows[i].symbol) /\ j \in Asks(db, rows[i].symbol)
          /\ rows[j].symbol = rows[i].symbol /\ rows[i].shares > 0 /\ rows[j].shares < 0
      BY DEF Facing, Bids, Asks
    <3>2. CASE i = id
      <4>1. item.amount > 0
        BY <2>1, <2>2, <3>1, <3>2 DEF OnSide
      <4> QED BY <1>3, <2>2, <3>1, <3>2, <4>1, LoopEnds DEF NothingCrosses
    <3>3. CASE j = id
      <4>1. ~(item.amount > 0)
        BY <2>1, <2>2, <3>1, <3>3 DEF OnSide
      <4> QED BY <1>3, <2>2, <3>1, <3>3, <4>1, LoopEnds DEF NothingCrosses
    <3>4. CASE i # id /\ j # id
      BY <3>4 DEF Apart, Newcomer
    <3> QED BY <3>2, <3>3, <3>4
  <2> QED BY <1>1, <1>2, <2>3 DEF Apart
<1>4. ASSUME NEW r, NEW signed, MatchesWith(w, r, signed) PROVE Apart(w)'
  <2> DEFINE left == local[w].remaining
             sts == pending'[w]
  <2>1. PICK executed : \E settle \in {SettleBuy(item, rows[r], executed),
                                       SettleSell(item, rows[r], executed)} :
                          sts = Fill(r, rows[r], id, left, signed) \o settle
    BY <1>4 DEF MatchesWith
  <2>2. Sets(sts, r, rows[r], id, left, signed)
    BY <2>1, MatchSends
  <2>3. /\ DOMAIN sts = 1..7
        /\ sts[1] = Shrink(r, rows[r].shares + signed, signed = left)
        /\ sts[3] = IF signed = left THEN UpdateExecuted(id, 0) ELSE UpdateShares(id, left - signed)
        /\ \A k \in {2, 4, 5, 6, 7} : sts[k].op \in {"insertExecuted", "updateBalance", "updatePosition"}
    BY <2>2 DEF Sets
  <2>4. /\ signed \in Int /\ left \in Int /\ local'[w].id = id
        /\ pc'[w] = (IF left - signed = 0 THEN "commit" ELSE "match")
    BY <1>4 DEF MatchesWith
  <2> HIDE DEF sts, left
  <2>5. \A k \in DOMAIN sts : sts[k].op # "insertTransaction"
    <3>1. sts[1].op # "insertTransaction" /\ sts[3].op # "insertTransaction"
      BY <2>3 DEF Shrink, UpdateShares, UpdateExecuted
    <3>2. \A k \in 1..7 : k \in {1, 3} \cup {2, 4, 5, 6, 7}
      OBVIOUS
    <3> QED BY <2>3, <3>1, <3>2
  <2>6. CASE left - signed = 0
    <3>1. 3 \in DOMAIN sts /\ Fills(sts[3], id) /\ pc'[w] = "commit"
      BY <2>3, <2>4, <2>6 DEF Fills, UpdateExecuted
    <3>2. \A i : Newcomer(w, i) => Newcomer(w, i)'
      BY <2>4, <3>1 DEF Newcomer, Fills, sts
    <3> QED BY <1>1, <1>2, <3>2 DEF Apart
  <2>7. CASE left - signed # 0
    <3>1. pc'[w] = "match" /\ ~Inserting(w)'
      BY <2>4, <2>5, <2>7 DEF Inserting, sts
    <3>2. \A i : Newcomer(w, i) => Newcomer(w, i)'
      BY <2>4, <3>1 DEF Newcomer
    <3> QED BY <1>1, <1>2, <3>2 DEF Apart
  <2> QED BY <2>6, <2>7
<1> QED BY <1>3, <1>4, MatchCases

\* An UPDATE sent puts no order on the book.
LEMMA SentFacing ==
  ASSUME NEW w \in Thread, OrdersInv(w), NEW st, NEW rest, Sent(w, st, rest),
         st.op # "insertTransaction", NEW i, NEW j, Facing(i, j)'
  PROVE  /\ Facing(i, j) /\ ~Fills(st, i) /\ ~Fills(st, j)
         /\ UNCHANGED <<db.transactions[i].limit, db.transactions[j].limit>>
<1> DEFINE rows == db.transactions
           then == db'.transactions
<1>1. /\ DOMAIN then = DOMAIN rows
      /\ \A k \in DOMAIN rows : /\ then[k].shares = SharesSet(st, k, rows[k])
                                /\ then[k].status = StatusSet(st, k, rows[k])
  BY SentRows
<1>2. /\ then \in Seq(Order) /\ rows \in Seq(Order) /\ Len(then) >= Len(rows)
      /\ \A k \in 1..Len(rows) : then[k].symbol = rows[k].symbol /\ then[k].limit = rows[k].limit
  BY DEF Sent, RowsKept, KeepsRows
<1>3. DOMAIN rows = 1..Len(rows)
  BY <1>2, LenProperties
<1>4. \A k \in DOMAIN rows : /\ rows[k].shares \in Int /\ rows[k].amount \in Int
                             /\ OnSide(rows[k].shares, rows[k].amount)
  BY <1>2, RowTyped DEF Order, OrdersInv, KeyInv, TradeInv, OrdersKeepSides, RowsOnSide
<1>5. \A k : Writes(st, k) => /\ OnSide(st.shares, rows[k].amount) /\ st.shares \in Int
                              /\ rows[k].status = "open"
                              /\ st.shares # 0 => rows[k].shares # 0
  <2> SUFFICES ASSUME NEW k, Writes(st, k)
               PROVE  /\ OnSide(st.shares, rows[k].amount) /\ st.shares \in Int
                      /\ rows[k].status = "open"
                      /\ st.shares # 0 => rows[k].shares # 0
    OBVIOUS
  <2>1. st = pending[w][1] /\ 1 \in DOMAIN pending[w]
    BY DEF Sent
  <2>2. OnSide(st.shares, rows[k].amount)
    BY <2>1 DEF Writes, OrdersInv, KeyInv, TradeInv, OrdersKeepSides, UpdatesOnSide
  <2>3. rows[k].status = "open" /\ (st.shares # 0 => rows[k].shares # 0)
    BY <2>1 DEF Writes, OrdersInv, OrdersKept, WritesOpen
  <2>4. st.shares \in Int
    BY DEF Sent, Statement, Writes
  <2> QED BY <2>2, <2>3, <2>4
<1>6. PICK s \in Symbol : /\ i \in DOMAIN then /\ j \in DOMAIN then
                          /\ then[i].shares > 0 /\ then[j].shares < 0
                          /\ then[i].status = "open" /\ then[j].status = "open"
                          /\ then[i].symbol = s /\ then[j].symbol = s
  BY DEF Facing, Bids, Asks
<1>7. \A k \in DOMAIN rows : then[k].status = "open" => rows[k].status = "open" /\ ~Fills(st, k)
  BY <1>1, <1>5 DEF StatusSet, Fills
<1>8. rows[i].shares > 0
  <2>1. CASE Writes(st, i)
    <3>1. then[i].shares = st.shares
      BY <1>1, <1>6, <2>1 DEF SharesSet
    <3>2. rows[i].shares \in Int /\ rows[i].amount \in Int /\ OnSide(rows[i].shares, rows[i].amount)
      BY <1>1, <1>4, <1>6
    <3>3. OnSide(st.shares, rows[i].amount) /\ st.shares \in Int /\ (st.shares # 0 => rows[i].shares # 0)
      BY <1>5, <2>1
    <3>4. st.shares > 0
      BY <1>6, <3>1
    <3> HIDE DEF rows, then
    <3> QED BY ONLY <3>2, <3>3, <3>4 DEF OnSide
  <2> QED BY <1>1, <1>6, <2>1 DEF SharesSet
<1>9. rows[j].shares < 0
  <2>1. CASE Writes(st, j)
    <3>1. then[j].shares = st.shares
      BY <1>1, <1>6, <2>1 DEF SharesSet
    <3>2. rows[j].shares \in Int /\ rows[j].amount \in Int /\ OnSide(rows[j].shares, rows[j].amount)
      BY <1>1, <1>4, <1>6
    <3>3. OnSide(st.shares, rows[j].amount) /\ st.shares \in Int /\ (st.shares # 0 => rows[j].shares # 0)
      BY <1>5, <2>1
    <3>4. st.shares < 0
      BY <1>6, <3>1
    <3> HIDE DEF rows, then
    <3> QED BY ONLY <3>2, <3>3, <3>4 DEF OnSide
  <2> QED BY <1>1, <1>6, <2>1 DEF SharesSet
<1>10. /\ i \in DOMAIN rows /\ j \in DOMAIN rows
       /\ rows[i].symbol = s /\ rows[j].symbol = s
       /\ then[i].limit = rows[i].limit /\ then[j].limit = rows[j].limit
  BY <1>1, <1>2, <1>3, <1>6
<1>11. Facing(i, j)
  BY <1>6, <1>7, <1>8, <1>9, <1>10 DEF Facing, Bids, Asks
<1> QED BY <1>1, <1>6, <1>7, <1>10, <1>11

\* A statement sent.
LEMMA ExecApart ==
  ASSUME NEW w \in Thread, OrdersInv(w), Apart(w), Exec(w)
  PROVE  Apart(w)'
<1> PICK st, rest : st = Head(pending[w]) /\ rest = Tail(pending[w])
  OBVIOUS
<1>0. Sent(w, st, rest)
  BY ExecSent
<1>1. CASE st.op # "insertTransaction"
  <2>1. UNCHANGED <<pc, local>> /\ pending'[w] = rest /\ 1 \in DOMAIN pending[w] /\ pending[w][1] = st
    BY <1>0, <1>1 DEF Sent
  <2>2. \A k \in DOMAIN rest : \E n \in DOMAIN pending[w] : rest[k] = pending[w][n]
    BY <1>0 DEF Sent
  <2>3. \A k \in DOMAIN pending[w] : k = 1 \/ \E n \in DOMAIN rest : rest[n] = pending[w][k]
    BY <1>0 DEF Sent
  <2>4. Inserting(w)' => Inserting(w)
    BY <2>1, <2>2 DEF Inserting
  <2>5. \A i : Newcomer(w, i) /\ ~Fills(st, i) => Newcomer(w, i)'
    <3> SUFFICES ASSUME NEW i, Newcomer(w, i), ~Fills(st, i) PROVE Newcomer(w, i)'
      OBVIOUS
    <3>1. CASE pc[w] = "match" /\ ~Inserting(w)
      BY <2>1, <2>4, <3>1 DEF Newcomer
    <3>2. ASSUME pc[w] = "commit", NEW k \in DOMAIN pending[w], Fills(pending[w][k], i)
          PROVE  Newcomer(w, i)'
      <4>1. PICK n \in DOMAIN rest : rest[n] = pending[w][k]
        BY <2>1, <2>3, <3>2
      <4> QED BY <2>1, <3>2, <4>1 DEF Newcomer, Fills
    <3> QED BY <3>1, <3>2 DEF Newcomer
  <2> SUFFICES ASSUME NEW i, NEW j, Facing(i, j)'
               PROVE  \/ db'.transactions[i].limit < db'.transactions[j].limit
                      \/ Newcomer(w, i)' \/ Newcomer(w, j)'
    BY DEF Apart
  <2>6. /\ Facing(i, j) /\ ~Fills(st, i) /\ ~Fills(st, j)
        /\ UNCHANGED <<db.transactions[i].limit, db.transactions[j].limit>>
    BY <1>0, <1>1, SentFacing
  <2>7. i \in DOMAIN db.transactions /\ j \in DOMAIN db.transactions
    BY <2>6 DEF Facing, Bids, Asks
  <2> QED BY <2>5, <2>6, <2>7 DEF Apart
<1>2. CASE st.op = "insertTransaction"
  <2> DEFINE rows == db.transactions
             then == db'.transactions
  <2> PICK new : new = Len(rows) + 1
    OBVIOUS
  <2>1. /\ st \in Statement /\ pc[w] = "match" /\ Len(pending[w]) = 1
        /\ 1 \in DOMAIN pending[w] /\ pending[w][1] = st /\ pending'[w] = rest /\ UNCHANGED pc
    BY <1>0, <1>2 DEF Sent, OrdersInv, SoloInv, RecordInv, TradeInv, OrdersKeepSides, InsertsLast
  <2>2. DOMAIN rest = {}
    <3>1. pending[w] \in Seq(Statement) /\ pending[w] # << >>
      BY SentStatement DEF OrdersInv
    <3>2. Len(rest) = 0 /\ rest \in Seq(Statement)
      BY <2>1, <3>1, HeadTailProperties
    <3> QED BY <3>2, LenProperties
  <2>3. ~Inserting(w)' /\ Inserting(w)
    BY <1>2, <2>1, <2>2 DEF Inserting
  <2>4. local'[w].id = new
    <3>1. local \in [Thread -> Local]
      BY TypeParts DEF OrdersInv, SoloInv, RecordInv, TradeInv, ControlTyped
    <3> QED BY <1>2, <3>1 DEF Exec, Local
  <2>5. then = Append(rows, st.row) /\ rows \in Seq(Order)
    BY <1>0, <1>2, ApplyRows DEF Sent
  <2>6. /\ DOMAIN rows = 1..Len(rows) /\ Len(rows) \in Nat
        /\ DOMAIN then = 1..(Len(rows) + 1)
        /\ \A k \in DOMAIN rows : then[k] = rows[k]
    BY <2>5, LenProperties
  <2>7. \A k \in DOMAIN then : k = new \/ k \in DOMAIN rows
    BY <2>6
  <2>8. Newcomer(w, new)'
    BY <2>1, <2>3, <2>4 DEF Newcomer
  <2>9. \A i : ~Newcomer(w, i)
    BY <2>1, <2>3 DEF Newcomer
  <2> SUFFICES ASSUME NEW i \in DOMAIN then, NEW j \in DOMAIN then, Facing(i, j)', i # new, j # new
               PROVE  then[i].limit < then[j].limit
    BY <2>8 DEF Apart
  <2>10. i \in DOMAIN rows /\ j \in DOMAIN rows
    BY <2>7
  <2>11. Facing(i, j)
    BY <2>6, <2>10 DEF Facing, Bids, Asks
  <2> QED BY <2>6, <2>9, <2>10, <2>11 DEF Apart
<1> QED BY <1>1, <1>2

\* With nobody else every step but the exception over the input keeps them apart.
LEMMA NextApart ==
  ASSUME NEW w, Thread = {w}
  PROVE  OrdersInv(w) /\ Apart(w) /\ [Next]_vars => Apart(w)' \/ Raise(w)
<1> SUFFICES ASSUME OrdersInv(w), Apart(w), [Next]_vars, ~Raise(w) PROVE Apart(w)'
  OBVIOUS
<1>1. CASE Receive(w) \/ Step(w)
  BY <1>1, ExecApart, LoopApart, AsideApart
<1>2. CASE UNCHANGED vars
  <2>1. UNCHANGED <<db, pc, local, pending>>
    BY <1>2 DEF vars
  <2> QED BY <2>1 DEF Apart, Facing, Bids, Asks, Newcomer, Inserting
<1> QED BY <1>1, <1>2 DEF Next, Stopped

\* With a thread count of 1 the book is uncrossed between items: an order is left on
\* it only when the best of the other side is beyond its limit, and none is put back
\* by what a match or a cancellation sends late (handle_command.cpp:299-461, 510-670).
THEOREM OneWorkerUncrossed == ASSUME NEW w, Thread = {w} PROVE Spec => []BookUncrossed
<1> DEFINE Inv == IF alive THEN OrdersInv(w) /\ Apart(w) ELSE BookUncrossed
<1>1. Init => Inv
  <2> SUFFICES ASSUME Init PROVE alive /\ Apart(w)
    BY InitOrders
  <2>1. db.transactions = << >> /\ alive
    BY SeedAssumption DEF Init
  <2> QED BY <2>1 DEF Apart
<1>2. Apart(w) => BookUncrossed
  <2> SUFFICES ASSUME Apart(w), BetweenItems, NEW s \in Symbol, NEW i \in Bids(db, s),
                      NEW j \in Asks(db, s)
               PROVE  db.transactions[i].limit < db.transactions[j].limit
    BY DEF BookUncrossed
  <2>1. pc[w] # "match" /\ pc[w] # "commit"
    BY DEF BetweenItems
  <2>2. i \in DOMAIN db.transactions /\ j \in DOMAIN db.transactions /\ Facing(i, j)
    BY DEF Facing, Bids, Asks
  <2> QED BY <2>1, <2>2 DEF Apart, Newcomer
<1>3. Inv /\ [Next]_vars => Inv'
  <2> SUFFICES ASSUME Inv, [Next]_vars PROVE Inv'
    OBVIOUS
  <2>1. BookUncrossed /\ UNCHANGED <<db, pc>> => BookUncrossed'
    BY DEF BookUncrossed, BetweenItems, Bids, Asks
  <2>2. CASE ~alive
    <3>1. UNCHANGED <<db, pc, alive>>
      BY <2>2, DownStays DEF vars
    <3> QED BY <2>1, <2>2, <3>1
  <2>3. CASE alive /\ Raise(w)
    <3>1. UNCHANGED <<db, pc>> /\ ~alive'
      BY <2>3 DEF Raise, Terminate, control
    <3> QED BY <1>2, <2>1, <2>3, <3>1
  <2>4. CASE alive /\ ~Raise(w)
    <3>1. OrdersInv(w)' /\ Apart(w)'
      BY <2>4, NextOrders, NextApart
    <3>2. alive'
      BY <3>1 DEF OrdersInv, SoloInv
    <3> QED BY <3>1, <3>2
  <2> QED BY <2>2, <2>3, <2>4
<1>4. Inv => BookUncrossed
  BY <1>2
<1> HIDE DEF Inv
<1> QED BY <1>1, <1>3, <1>4, PTL DEF Spec

-----------------------------------------------------------------------------
(* The answers add up.                                                     *)

\* Result r is the answer to a query or a cancellation that found its order.
Listing(r) == r.kind \in {"query", "cancel"} /\ r.msg = "Success"

\* It accounts for every share of the order.
AddsUp(r) ==
  /\ r.id \in DOMAIN db.transactions
  /\ r.rows \subseteq DOMAIN db.executed_trans
  /\ db.transactions[r.id].amount =
       r.shares + SumFunction([k \in r.rows |-> db.executed_trans[k].shares])

AnswersKept(w) == \A n \in DOMAIN reply[w] : Listing(reply[w][n]) => AddsUp(reply[w][n])

\* The rows of an order that EXECUTED_TRANS holds add up to the shares executed of it.
LEMMA ListedExecuted ==
  ASSUME TypeOK, NEW i
  PROVE  SumFunction([k \in Executions(db, i) |-> db.executed_trans[k].shares]) = ExecutedOf(i)
<1> DEFINE rows == db.executed_trans
           f == [k \in DOMAIN rows |-> RowShares(rows[k], i)]
           g == [k \in Executions(db, i) |-> rows[k].shares]
<1>1. rows \in Seq(Execution)
  BY TypeParts DEF EngineTyped, IsDatabase
<1>2. \A k \in DOMAIN rows : rows[k].shares \in Int
  <2>1. \A k \in DOMAIN rows : rows[k] \in Execution
    BY <1>1, ElementOfSeq, LenProperties
  <2> QED BY <2>1 DEF Execution
<1>3. IsFiniteSet(DOMAIN rows)
  <2>1. DOMAIN rows = 1..Len(rows) /\ Len(rows) \in Nat
    BY <1>1, LenProperties
  <2> QED BY <2>1, FS_Interval
<1>4. /\ DOMAIN g \subseteq DOMAIN f
      /\ \A k \in DOMAIN g : g[k] = f[k]
      /\ \A k \in DOMAIN f \ DOMAIN g : f[k] = 0
  BY DEF Executions, RowShares
<1>5. Summable(f)
  BY <1>2, <1>3 DEF Summable, RowShares
<1>6. ExecutedOf(i) = SumFunction(f)
  BY DEF ExecutedOf, SumOver
<1> HIDE DEF f, g
<1>7. SumFunction(g) = SumFunction(f)
  BY <1>4, <1>5, TotalPart
<1> QED BY <1>6, <1>7 DEF g

\* What one worker answers of an order when all is sent accounts for its shares.
LEMMA ListedAddsUp ==
  ASSUME NEW w, Thread = {w}, OrdersInv(w), LedgerInv, pending[w] = << >>,
         NEW i \in DOMAIN db.transactions, NEW r, r.id = i,
         r.shares = db.transactions[i].shares, r.rows = Executions(db, i)
  PROVE  AddsUp(r)
<1>1. AllSent /\ alive /\ KeyInv /\ TypeOK
  BY DEF AllSent, OrdersInv, SoloInv, KeyInv, TradeInv
<1>2. db.transactions[i].shares = Left(i)
  BY DEF OrdersInv, OrdersKept, SharesLeft
<1>3. ExecutedOf(i) = Gone(i)
  BY <1>1, ExecutedGone
<1>4. Gone(i) \in Int /\ db.transactions[i].amount \in Int
  BY <1>1, LeftInt, TypeParts, RowTyped DEF EngineTyped, IsDatabase, Order
<1>5. SumFunction([k \in r.rows |-> db.executed_trans[k].shares]) = ExecutedOf(i)
  BY <1>1, ListedExecuted
<1>6. r.rows \subseteq DOMAIN db.executed_trans
  BY DEF Executions
<1> QED BY <1>2, <1>3, <1>4, <1>5, <1>6 DEF AddsUp, Left

\* Worker w answers its item with this result.
Answers(w, result) == "kind" \in DOMAIN result /\ Finish(w, result)

\* The worker composes or reads on, starts a request, or answers an item that is
\* neither a query nor a cancellation.
LEMMA OtherAnswers ==
  ASSUME NEW w \in Thread, TypeOK,
         \/ Receive(w) \/ Exec(w) \/ CreateAccount(w) \/ CreateSymbol(w) \/ GrantSelectAccount(w)
         \/ GrantSelectPosition(w) \/ GrantInsertPosition(w) \/ GrantUpdatePosition(w)
         \/ OrderSelectAccount(w) \/ OrderSelectSymbol(w) \/ OrderSelectPosition(w)
         \/ OrderInsertPosition(w) \/ OpenSell(w) \/ BuySelectAsk(w) \/ SellSelectBid(w) \/ Commit(w)
  PROVE  \/ reply'[w] = reply[w] \/ reply'[w] = << >>
         \/ ItemOf(w).kind \notin {"query", "cancel"} /\ \E result : Answers(w, result)
<1>0. ControlTyped
  BY TypeParts
<1>1. /\ \A msg : "kind" \in DOMAIN Answer(msg)
      /\ "kind" \in DOMAIN NoResult
      /\ \A notes : "kind" \in DOMAIN [NoResult EXCEPT !.notes = notes]
      /\ \A id : "kind" \in DOMAIN [NoResult EXCEPT !.id = id]
  BY DEF Answer, NoResult
<1>2. ASSUME NEW label, NEW locals, Continue(w, label, locals) PROVE reply' = reply
  BY <1>2 DEF Continue
<1>3. ASSUME NEW msg, Note(w, msg)
      PROVE  reply' = reply \/ \E result : Answers(w, result)
  BY <1>1, <1>3 DEF Note, Continue, Answers
<1>4. ASSUME OpenOrder(w) PROVE reply' = reply \/ \E result : Answers(w, result)
  BY <1>1, <1>4 DEF OpenOrder, OpenBuy, Continue, Answers
<1>5. ASSUME pc[w] \in LabelsOf["account"] \cup LabelsOf["symbol"] \cup LabelsOf["order"]
      PROVE  ItemOf(w).kind \notin {"query", "cancel"}
  BY <1>0, <1>5, KindAt DEF LabelsOf, AccountItem, SymbolItem, OrderItem
<1>6. CASE Receive(w) \/ Exec(w)
  BY <1>0, <1>6 DEF Receive, Exec, ControlTyped
<1>7. CASE CreateAccount(w) \/ CreateSymbol(w)
  <2>1. pc[w] \in LabelsOf["account"] \cup LabelsOf["symbol"]
    BY <1>7 DEF CreateAccount, CreateSymbol, At, LabelsOf
  <2>2. reply' = reply \/ \E result : Answers(w, result)
    BY <1>1, <1>7 DEF CreateAccount, CreateSymbol, Continue, Answers
  <2> QED BY <1>5, <2>1, <2>2
<1>8. CASE \/ GrantSelectAccount(w) \/ GrantSelectPosition(w)
           \/ GrantInsertPosition(w) \/ GrantUpdatePosition(w)
  <2>1. pc[w] \in LabelsOf["symbol"]
    BY <1>8 DEF GrantSelectAccount, GrantSelectPosition, GrantInsertPosition, GrantUpdatePosition,
       At, LabelsOf
  <2>2. (\E label, locals : Continue(w, label, locals)) \/ (\E msg : Note(w, msg))
    BY <1>8 DEF GrantSelectAccount, GrantSelectPosition, GrantInsertPosition, GrantUpdatePosition
  <2> QED BY <1>2, <1>3, <1>5, <2>1, <2>2
<1>9. CASE \/ OrderSelectAccount(w) \/ OrderSelectSymbol(w) \/ OrderSelectPosition(w)
           \/ OrderInsertPosition(w) \/ OpenSell(w)
  <2>1. pc[w] \in LabelsOf["order"]
    BY <1>9 DEF OrderSelectAccount, OrderSelectSymbol, OrderSelectPosition, OrderInsertPosition,
       OpenSell, At, LabelsOf
  <2>2. \/ \E label, locals : Continue(w, label, locals)
        \/ \E msg : Finish(w, Answer(msg))
        \/ OpenOrder(w) \/ reply' = reply
    BY <1>9 DEF OrderSelectAccount, OrderSelectSymbol, OrderSelectPosition, OrderInsertPosition,
       OpenSell, Terminate, control
  <2>3. reply' = reply \/ \E result : Answers(w, result)
    BY <1>1, <1>2, <1>4, <2>2 DEF Answers
  <2> QED BY <1>5, <2>1, <2>3
<1>10. CASE BuySelectAsk(w) \/ SellSelectBid(w)
  BY <1>10 DEF BuySelectAsk, SellSelectBid, Matched, NoMatch, Continue
<1>11. CASE Commit(w)
  <2>1. pc[w] \in LabelsOf["order"]
    BY <1>11 DEF Commit, At, LabelsOf
  <2> QED BY <1>1, <1>5, <1>11, <2>1 DEF Commit, Answers
<1> QED BY <1>6, <1>7, <1>8, <1>9, <1>10, <1>11

\* What worker w answers accounts for the shares of its order, if it found it.
Complete(w, result) ==
  \/ result.msg # "Success"
  \/ /\ pending[w] = << >> /\ result.id \in DOMAIN db.transactions
     /\ result.shares = db.transactions[result.id].shares
     /\ result.rows = Executions(db, result.id)

\* A query or a cancellation reads on, or answers with all there is of its order.
LEMMA ReadAnswers ==
  ASSUME NEW w \in Thread, OrdersInv(w),
         \/ QuerySelectOrder(w) \/ QuerySelectCanceled(w) \/ QuerySelectExecuted(w)
         \/ CancelSelectOrder(w) \/ CancelSelectExecuted(w)
  PROVE  \/ reply'[w] = reply[w]
         \/ \E result : /\ {"kind", "msg", "id", "shares", "rows"} \subseteq DOMAIN result
                        /\ Finish(w, result) /\ Complete(w, result)
<1>1. \A msg : {"kind", "msg", "id", "shares", "rows"} \subseteq DOMAIN Answer(msg) /\ Answer(msg).msg = msg
  BY DEF Answer, NoResult
<1>2. CASE QuerySelectOrder(w) \/ CancelSelectOrder(w)
  <2>1. reply' = reply \/ \E msg : msg # "Success" /\ Finish(w, Answer(msg))
    BY <1>2 DEF QuerySelectOrder, CancelSelectOrder, Continue
  <2> QED BY <1>1, <2>1 DEF Complete
<1>3. CASE QuerySelectCanceled(w)
  BY <1>3 DEF QuerySelectCanceled, Continue, Terminate, control
<1>4. CASE QuerySelectExecuted(w)
  <2> DEFINE i == ItemOf(w).id
             left == IF local[w].status = "executed" THEN 0 ELSE local[w].remaining
             result == [NoResult EXCEPT !.id = i, !.status = local[w].status,
                                        !.shares = left, !.rows = Executions(db, i)]
  <2>1. Finish(w, result) /\ pending[w] = << >> /\ pc[w] = "queryExecuted"
    BY <1>4 DEF QuerySelectExecuted, At
  <2>2. i \in DOMAIN db.transactions /\ left = db.transactions[i].shares
    BY <2>1 DEF OrdersInv, OrdersKept, StillRead, FilledEmpty
  <2>3. /\ {"kind", "msg", "id", "shares", "rows"} \subseteq DOMAIN result
        /\ result.id = i /\ result.shares = left /\ result.rows = Executions(db, i)
    BY DEF NoResult
  <2> HIDE DEF result
  <2> QED BY <2>1, <2>2, <2>3 DEF Complete
<1>5. CASE CancelSelectExecuted(w)
  <2> DEFINE i == ItemOf(w).id
             result == [NoResult EXCEPT !.id = i, !.status = "canceled",
                                        !.shares = local[w].remaining, !.rows = Executions(db, i)]
  <2>1. Finish(w, result) /\ pending[w] = << >> /\ pc[w] = "cancelExecuted"
    BY <1>5 DEF CancelSelectExecuted, At
  <2>2. i \in DOMAIN db.transactions /\ local[w].remaining = db.transactions[i].shares
    BY <2>1 DEF OrdersInv, OrdersKept, Canceling
  <2>3. /\ {"kind", "msg", "id", "shares", "rows"} \subseteq DOMAIN result
        /\ result.id = i /\ result.shares = local[w].remaining /\ result.rows = Executions(db, i)
    BY DEF NoResult
  <2> HIDE DEF result
  <2> QED BY <2>1, <2>2, <2>3 DEF Complete
<1> QED BY <1>2, <1>3, <1>4, <1>5

\* An answer that adds up still does after a step: what was ordered and what has been
\* executed are never changed.
LEMMA StillAddsUp ==
  ASSUME NEW w \in Thread, OrdersInv(w), Receive(w) \/ Step(w), NEW r, AddsUp(r)
  PROVE  AddsUp(r)'
<1> DEFINE rows == db.executed_trans
           then == db'.executed_trans
<1>1. /\ KeyInv /\ TypeOK /\ IsDatabase(db) /\ rows \in Seq(Execution)
      /\ db.transactions \in Seq(Order)
  BY TypeParts DEF OrdersInv, KeyInv, TradeInv, EngineTyped, IsDatabase
<1>2. RowsKept /\ DOMAIN rows \subseteq DOMAIN then /\ \A k \in DOMAIN rows : then[k] = rows[k]
  <2>1. CASE Exec(w)
    <3> PICK st : st = Head(pending[w])
      OBVIOUS
    <3>1. st \in Statement /\ db' = Apply(st, db) /\ RowsKept
      BY <1>1, <2>1, SentStatement
    <3>2. then = rows \/ then = Append(rows, st.row)
      BY <1>1, <3>1, ApplyKeys
    <3>3. CASE then = Append(rows, st.row)
      <4>1. /\ DOMAIN rows = 1..Len(rows) /\ Len(rows) \in Nat /\ DOMAIN then = 1..(Len(rows) + 1)
            /\ \A k \in 1..Len(rows) : then[k] = rows[k]
        BY <1>1, <3>3, LenProperties
      <4> QED BY <3>1, <4>1
    <3> QED BY <3>1, <3>2, <3>3
  <2>2. CASE ~Exec(w)
    BY <1>1, <2>2, AsideRows, SameRowsKept
  <2> QED BY <2>1, <2>2
<1>3. db'.transactions[r.id].amount = db.transactions[r.id].amount /\ r.id \in DOMAIN db'.transactions
  BY <1>1, <1>2, LenProperties DEF RowsKept, KeepsRows, AddsUp
<1>4. [k \in r.rows |-> then[k].shares] = [k \in r.rows |-> rows[k].shares]
  BY <1>2 DEF AddsUp
<1>5. r.rows \subseteq DOMAIN then
  BY <1>2 DEF AddsUp
<1> QED BY <1>3, <1>4, <1>5 DEF AddsUp

\* With nobody else every step keeps the answers.
LEMMA NextAnswers ==
  ASSUME NEW w, Thread = {w}, WhileUp(w), LedgerInv, AnswersKept(w), [Next]_vars
  PROVE  AnswersKept(w)'
<1>0. w \in Thread /\ TypeOK /\ ControlTyped
  BY TypeParts DEF LedgerInv, KeyInv, TradeInv
<1>1. CASE UNCHANGED vars
  <2>1. UNCHANGED <<db, reply>>
    BY <1>1 DEF vars
  <2> QED BY <2>1 DEF AnswersKept, AddsUp
<1>2. CASE alive /\ (Receive(w) \/ Step(w))
  <2>0. OrdersInv(w)
    BY <1>2 DEF WhileUp
  <2>1. \A r : AddsUp(r) => AddsUp(r)'
    BY <1>0, <1>2, <2>0, StillAddsUp
  <2>2. CASE reply'[w] = reply[w] \/ reply'[w] = << >>
    BY <2>1, <2>2 DEF AnswersKept
  <2>3. ASSUME NEW result, Finish(w, result),
               NEW r, r = [result EXCEPT !.kind = ItemOf(w).kind],
               Listing(r) => AddsUp(r)
        PROVE  AnswersKept(w)'
    <3>1. reply[w] \in Seq(Result) /\ reply'[w] = Append(reply[w], r)
      BY <1>0, <2>3 DEF Finish, ControlTyped
    <3>2. /\ DOMAIN reply[w] = 1..Len(reply[w]) /\ Len(reply[w]) \in Nat
          /\ DOMAIN reply'[w] = 1..(Len(reply[w]) + 1)
          /\ \A n \in 1..Len(reply[w]) : reply'[w][n] = reply[w][n]
          /\ reply'[w][Len(reply[w]) + 1] = r
      BY <3>1, LenProperties
    <3>3. \A n \in DOMAIN reply'[w] : n \in DOMAIN reply[w] \/ reply'[w][n] = r
      BY <3>2
    <3> QED BY <2>1, <2>3, <3>2, <3>3 DEF AnswersKept
  <2>4. ASSUME NEW result, Answers(w, result), ItemOf(w).kind \notin {"query", "cancel"}
        PROVE  AnswersKept(w)'
    <3> PICK r : r = [result EXCEPT !.kind = ItemOf(w).kind]
      OBVIOUS
    <3>1. ~Listing(r)
      BY <2>4 DEF Listing, Answers
    <3> QED BY <2>3, <2>4, <3>1 DEF Answers
  <2>5. ASSUME NEW result, {"kind", "msg", "id", "shares", "rows"} \subseteq DOMAIN result,
               Finish(w, result), Complete(w, result)
        PROVE  AnswersKept(w)'
    <3> PICK r : r = [result EXCEPT !.kind = ItemOf(w).kind]
      OBVIOUS
    <3>1. r.msg = result.msg /\ r.id = result.id /\ r.shares = result.shares /\ r.rows = result.rows
      BY <2>5
    <3>2. ASSUME Listing(r) PROVE AddsUp(r)
      <4>1. /\ pending[w] = << >> /\ r.id \in DOMAIN db.transactions
            /\ r.shares = db.transactions[r.id].shares /\ r.rows = Executions(db, r.id)
        BY <2>5, <3>1, <3>2 DEF Listing, Complete
      <4> QED BY <2>0, <4>1, ListedAddsUp
    <3> QED BY <2>3, <2>5, <3>2
  <2>6. CASE \/ QuerySelectOrder(w) \/ QuerySelectCanceled(w) \/ QuerySelectExecuted(w)
             \/ CancelSelectOrder(w) \/ CancelSelectExecuted(w)
    BY <1>0, <2>0, <2>2, <2>5, <2>6, ReadAnswers
  <2>7. CASE Raise(w)
    BY <2>2, <2>7 DEF Raise, Terminate, control
  <2> QED BY <1>0, <1>2, <2>2, <2>4, <2>6, <2>7, OtherAnswers DEF Step
<1>3. CASE ~alive
  BY <1>1, <1>3, DownStays
<1> QED BY <1>1, <1>2, <1>3 DEF Next, Stopped

\* With a thread count of 1 the answer to a query or a cancellation accounts for every
\* share of the order, those it lists as executed and those it reports open or
\* canceled, for as long as it is kept (handle_command.cpp:733-761, 807-858).
THEOREM OneWorkerAnswers == ASSUME NEW w, Thread = {w} PROVE Spec => []AnswersAddUp
<1>1. Init => AnswersKept(w)
  BY DEF Init, AnswersKept
<1>2. WhileUp(w) /\ LedgerInv /\ AnswersKept(w) /\ [Next]_vars => AnswersKept(w)'
  BY NextAnswers
<1>3. AnswersKept(w) => AnswersAddUp
  BY DEF AnswersKept, AnswersAddUp, Listing, AddsUp, SumOver
<1>4. Spec => [](WhileUp(w) /\ LedgerInv)
  BY OrdersAlways
<1> QED BY <1>1, <1>2, <1>3, <1>4, PTL DEF Spec

-----------------------------------------------------------------------------
(* Money and shares in all: the ledgers, summed over accounts and orders.  *)

\* With nobody else no quantity is ever off its ledger.
LEMMA ExactAlways == ASSUME NEW w, Thread = {w} PROVE Spec => []ExactInv
<1> DEFINE Inv == ExactInv /\ GrantNotThere(w)
<1>1. Init => Inv
  BY InitExact DEF Init, GrantNotThere
<1>2. Inv /\ [Next]_vars => Inv'
  <2> SUFFICES ASSUME ExactInv, GrantNotThere(w), [Next]_vars PROVE ExactInv' /\ GrantNotThere(w)'
    OBVIOUS
  <2>1. TypeOK
    BY DEF ExactInv, KeyInv, TradeInv
  <2> QED BY <2>1, NextExact, NextGrants
<1>3. Inv => ExactInv
  OBVIOUS
<1> HIDE DEF Inv
<1> QED BY <1>1, <1>2, <1>3, PTL DEF Spec

\* A balance or a position, when all is sent, by its orders, cancellations and matches.
Reckoned(q) ==
  /\ Base(q) \in Int /\ Paid(q) \in Int
  /\ Over(db.transactions, OrderEntries(q)) \in Int
  /\ Over(db.canceled_trans, CanceledEntries(q)) \in Int
  /\ Over(trades, TradeEntries(q)) \in Int
  /\ Base(q) + Over(db.transactions, OrderEntries(q)) + Over(db.canceled_trans, CanceledEntries(q))
       = Paid(q) + Over(trades, TradeEntries(q))

LEMMA BooksReckoned ==
  ASSUME ExactInv, alive, AllSent, NEW q \in Quantity, q.of \in {"cash", "shares"}
  PROVE  Reckoned(q)
<1>1. KeyInv /\ Unmatched(q) = Paid(q)
  BY DEF ExactInv
<1>2. SumsTyped(q) /\ IntegerSums(q)
  BY <1>1, SumsAreTyped, SumsInt
<1>3. Over(db.executed_trans, ExecutedEntries(q)) = 0
  <2>1. \A k \in DOMAIN db.executed_trans : ExecutedEntries(q)[db.executed_trans[k]] = 0
    BY <1>2, ElementOfSeq DEF SumsTyped, ExecutedEntries, ExecutedEntry
  <2> QED BY <1>2, <2>1, OverZero DEF SumsTyped
<1>4. Sending(pending, Dues(q)) = 0
  BY SentNothing
<1>5. Paid(q) \in Int
  BY <1>1, LedgerInt
<1>6. /\ Over(db.transactions, OrderEntries(q)) \in Int
      /\ Over(db.canceled_trans, CanceledEntries(q)) \in Int
      /\ Over(trades, TradeEntries(q)) \in Int /\ Base(q) \in Int
  BY <1>2 DEF IntegerSums
<1>7. Base(q) + Over(db.transactions, OrderEntries(q)) + Over(db.canceled_trans, CanceledEntries(q))
        = Paid(q) + Over(trades, TradeEntries(q))
  BY ONLY <1>1, <1>3, <1>4, <1>5, <1>6 DEF Unmatched, InTables
<1> QED BY <1>5, <1>6, <1>7 DEF Reckoned

\* The rows that cancellations and matches name are there, and the two orders of a
\* match are on its two sides.
Placed ==
  /\ IsFiniteSet(DOMAIN db.transactions)
  /\ IsFiniteSet(DOMAIN db.canceled_trans)
  /\ IsFiniteSet(DOMAIN trades)
  /\ \A i \in DOMAIN db.transactions : db.transactions[i] \in Order
  /\ \A n \in DOMAIN db.canceled_trans :
       db.canceled_trans[n] \in Cancellation /\ db.canceled_trans[n].id \in DOMAIN db.transactions
  /\ \A n \in DOMAIN trades :
       /\ trades[n] \in Trade
       /\ BuySide(trades[n]) \in DOMAIN db.transactions
       /\ SellSide(trades[n]) \in DOMAIN db.transactions
       /\ db.transactions[BuySide(trades[n])].amount > 0
       /\ db.transactions[SellSide(trades[n])].amount <= 0

LEMMA BooksPlaced == ASSUME KeyInv PROVE Placed
<1>1. /\ db.transactions \in Seq(Order) /\ db.canceled_trans \in Seq(Cancellation)
      /\ trades \in Seq(Trade)
  BY DEF KeyInv, TradeInv, TypeOK, IsDatabase
<1>2. /\ IsFiniteSet(DOMAIN db.transactions) /\ IsFiniteSet(DOMAIN db.canceled_trans)
      /\ IsFiniteSet(DOMAIN trades)
  <2>1. \A T : \A s \in Seq(T) : IsFiniteSet(DOMAIN s)
    <3> SUFFICES ASSUME NEW T, NEW s \in Seq(T) PROVE IsFiniteSet(DOMAIN s)
      OBVIOUS
    <3>1. DOMAIN s = 1..Len(s) /\ 1 \in Int /\ Len(s) \in Int
      BY LenProperties
    <3> QED BY <3>1, FS_Interval, Zenon
  <2> QED BY <1>1, <2>1
<1>3. \A i \in DOMAIN db.transactions : db.transactions[i] \in Order
  BY <1>1, ElementOfSeq
<1>4. \A n \in DOMAIN db.canceled_trans :
        db.canceled_trans[n] \in Cancellation /\ db.canceled_trans[n].id \in DOMAIN db.transactions
  BY <1>1, ElementOfSeq DEF KeyInv, ForeignKeysHold
<1>5. ASSUME NEW n \in DOMAIN trades
      PROVE  /\ trades[n] \in Trade
             /\ BuySide(trades[n]) \in DOMAIN db.transactions
             /\ SellSide(trades[n]) \in DOMAIN db.transactions
             /\ db.transactions[BuySide(trades[n])].amount > 0
             /\ db.transactions[SellSide(trades[n])].amount <= 0
  <2>1. trades[n] \in Trade
    BY <1>1, ElementOfSeq
  <2>2. Fair(db.transactions, trades[n])
    BY DEF KeyInv, TradeInv, TradesAreFair
  <2>3. /\ db.transactions[trades[n].maker] \in Order
        /\ db.transactions[trades[n].taker] \in Order
    BY <1>3, <2>2 DEF Fair
  <2> QED BY <2>1, <2>2, <2>3 DEF Fair, BuySide, SellSide, Order
<1> QED BY <1>2, <1>3, <1>4, <1>5 DEF Placed

-----------------------------------------------------------------------------

\* What each order is charged or sets aside, each cancellation gives back, and each
\* match moves, whoever it is for: money, and shares.
Charged   == [i \in DOMAIN db.transactions |->
                LET o == db.transactions[i] IN IF o.amount > 0 THEN o.amount * o.limit ELSE 0]
Refunded  == [n \in DOMAIN db.canceled_trans |->
                LET c == db.canceled_trans[n]
                IN  IF c.shares > 0 THEN c.shares * db.transactions[c.id].limit ELSE 0]
Gained    == [n \in DOMAIN trades |-> BuyerGain(trades[n])]
Sold      == [n \in DOMAIN trades |-> trades[n].shares * trades[n].price]
Offers    == [i \in DOMAIN db.transactions |->
                LET o == db.transactions[i] IN IF o.amount < 0 THEN o.amount ELSE 0]
Returned  == [n \in DOMAIN db.canceled_trans |->
                LET c == db.canceled_trans[n] IN IF c.shares <= 0 THEN -c.shares ELSE 0]
Exchanged == [n \in DOMAIN trades |-> trades[n].shares]

LEMMA TotalsInt ==
  ASSUME Placed
  PROVE  /\ Summable(Charged) /\ Summable(Refunded) /\ Summable(Gained) /\ Summable(Sold)
         /\ Summable(Offers) /\ Summable(Returned) /\ Summable(Exchanged)
<1>1. Summable(Charged) /\ Summable(Offers)
  BY DEF Placed, Summable, Charged, Offers, Order
<1>2. Summable(Refunded) /\ Summable(Returned)
  <2>1. \A n \in DOMAIN db.canceled_trans : /\ db.canceled_trans[n].shares \in Int
                                            /\ db.transactions[db.canceled_trans[n].id].limit \in Int
    BY DEF Placed, Order, Cancellation
  <2> QED BY <2>1 DEF Placed, Summable, Refunded, Returned
<1>3. Summable(Gained) /\ Summable(Sold) /\ Summable(Exchanged)
  <2>1. \A n \in DOMAIN trades : trades[n].shares \in Int /\ trades[n].price \in Int
    BY DEF Placed, Trade
  <2>2. \A n \in DOMAIN trades : BuyerGain(trades[n]) \in Int
    <3> SUFFICES ASSUME NEW n \in DOMAIN trades PROVE BuyerGain(trades[n]) \in Int
      OBVIOUS
    <3>1. CASE trades[n].taker = BuySide(trades[n])
      <4>1. db.transactions[trades[n].taker].limit \in Int
        BY <3>1 DEF Placed, Order
      <4> QED BY <2>1, <3>1, <4>1 DEF BuyerGain
    <3>2. CASE trades[n].taker # BuySide(trades[n])
      BY <2>1, <3>2 DEF BuyerGain
    <3> QED BY <3>1, <3>2
  <2> QED BY <2>1, <2>2 DEF Placed, Summable, Gained, Sold, Exchanged
<1> QED BY <1>1, <1>2, <1>3

\* A sum over a table, of which each element counts for one key, summed over all keys.
LEMMA OverKeys ==
  ASSUME NEW K, IsFiniteSet(K), NEW s, NEW v, Summable(v), DOMAIN v = DOMAIN s,
         NEW at, \A n \in DOMAIN s : at[n] \in K,
         NEW e, \A x \in K, n \in DOMAIN s : e[x][s[n]] = IF at[n] = x THEN v[n] ELSE 0,
         NEW g, DOMAIN g = K, \A x \in K : g[x] = Over(s, e[x])
  PROVE  Summable(g) /\ SumFunction(g) = SumFunction(v)
<1>1. \A x \in K : g[x] = SumFunction([n \in DOMAIN v |-> IF at[n] = x THEN v[n] ELSE 0])
  <2> SUFFICES ASSUME NEW x \in K
               PROVE  g[x] = SumFunction([n \in DOMAIN v |-> IF at[n] = x THEN v[n] ELSE 0])
    OBVIOUS
  <2>1. [n \in DOMAIN s |-> e[x][s[n]]] = [n \in DOMAIN v |-> IF at[n] = x THEN v[n] ELSE 0]
    OBVIOUS
  <2> QED BY <2>1 DEF Over
<1> QED BY <1>1, TotalPlaced

\* The balances of all accounts add up to what was paid in and what the orders, the
\* matches and the cancellations come to.
LEMMA CashTotal ==
  ASSUME ExactInv, alive, AllSent
  PROVE  SumFunction(db.accounts) + SumFunction(Charged)
           = SumFunction(paidIn.cash) + SumFunction(Gained) + SumFunction(Sold)
             + SumFunction(Refunded)
<1> DEFINE q(a) == [of |-> "cash", key |-> a]
           base == [a \in Account |-> Balance(a)]
           charged == [a \in Account |-> Over(db.transactions, OrderEntries(q(a)))]
           given == [a \in Account |-> Over(db.canceled_trans, CanceledEntries(q(a)))]
           gained == [a \in Account |->
                        SumFunction([n \in DOMAIN Gained |->
                                       IF OwnerOf(BuySide(trades[n])) = a THEN Gained[n] ELSE 0])]
           sold == [a \in Account |->
                      SumFunction([n \in DOMAIN Sold |->
                                     IF OwnerOf(SellSide(trades[n])) = a THEN Sold[n] ELSE 0])]
           all == [a \in Account |-> base[a] + charged[a] + given[a]]
           cash == paidIn.cash
<1>1. KeyInv /\ Placed /\ IsFiniteSet(Account)
  BY BooksPlaced, FinitenessAssumption DEF ExactInv
<1>2. /\ Summable(Charged) /\ Summable(Refunded) /\ Summable(Gained) /\ Summable(Sold)
  BY <1>1, TotalsInt
<1>3. \A a \in Account : Reckoned(q(a))
  <2> SUFFICES ASSUME NEW a \in Account PROVE Reckoned(q(a))
    OBVIOUS
  <2>1. q(a) \in Quantity /\ q(a).of \in {"cash", "shares"}
    BY DEF Quantity
  <2> HIDE DEF q
  <2> QED BY <2>1, BooksReckoned
<1>4. \A i \in DOMAIN db.transactions : OwnerOf(i) \in Account
  BY <1>1 DEF Placed, Order, OwnerOf
<1>5. Summable(charged) /\ SumFunction(charged) = SumFunction(Charged)
  <2> DEFINE at == [i \in DOMAIN db.transactions |-> OwnerOf(i)]
             e == [a \in Account |-> OrderEntries(q(a))]
  <2>1. \A i \in DOMAIN db.transactions : at[i] \in Account
    BY <1>4
  <2>2. \A a \in Account, i \in DOMAIN db.transactions :
          e[a][db.transactions[i]] = IF at[i] = a THEN Charged[i] ELSE 0
    BY <1>1 DEF Placed, OrderEntries, OrderEntry, SetAside, OwnerOf, Charged
  <2>3. \A a \in Account : charged[a] = Over(db.transactions, e[a])
    OBVIOUS
  <2>4. DOMAIN Charged = DOMAIN db.transactions /\ DOMAIN charged = Account
    BY DEF Charged
  <2>5. Summable(Charged) /\ IsFiniteSet(Account)
    BY <1>1, <1>2
  <2> HIDE DEF at, e, charged, q
  <2> QED BY ONLY <2>1, <2>2, <2>3, <2>4, <2>5, OverKeys
<1>6. Summable(given) /\ SumFunction(given) = -SumFunction(Refunded)
  <2> DEFINE at == [n \in DOMAIN db.canceled_trans |-> OwnerOf(db.canceled_trans[n].id)]
             e == [a \in Account |-> CanceledEntries(q(a))]
             v == [n \in DOMAIN db.canceled_trans |-> -Refunded[n]]
  <2>1. \A n \in DOMAIN db.canceled_trans : at[n] \in Account
    BY <1>1, <1>4 DEF Placed
  <2>2. \A a \in Account, n \in DOMAIN db.canceled_trans :
          e[a][db.canceled_trans[n]] = IF at[n] = a THEN v[n] ELSE 0
    BY <1>1 DEF Placed, CanceledEntries, CanceledEntry, Refund, Refunded
  <2>3. \A a \in Account : given[a] = Over(db.canceled_trans, e[a])
    OBVIOUS
  <2>4. DOMAIN v = DOMAIN Refunded /\ \A n \in DOMAIN Refunded : v[n] = -Refunded[n]
    BY DEF Refunded
  <2>5. DOMAIN v = DOMAIN db.canceled_trans /\ DOMAIN given = Account
    OBVIOUS
  <2> HIDE DEF at, e, v, given, q
  <2>6. Summable(v) /\ SumFunction(v) = -SumFunction(Refunded)
    BY <1>2, <2>4, TotalNegated
  <2>7. Summable(given) /\ SumFunction(given) = SumFunction(v)
    BY <1>1, <2>1, <2>2, <2>3, <2>5, <2>6, OverKeys
  <2> QED BY <2>6, <2>7
<1>7. Summable(gained) /\ SumFunction(gained) = SumFunction(Gained)
  <2> DEFINE at == [n \in DOMAIN Gained |-> OwnerOf(BuySide(trades[n]))]
  <2>1. \A n \in DOMAIN Gained : at[n] \in Account
    BY <1>1, <1>4 DEF Placed, Gained
  <2>2. DOMAIN gained = Account
    OBVIOUS
  <2>3. \A a \in Account :
          gained[a] = SumFunction([n \in DOMAIN Gained |-> IF at[n] = a THEN Gained[n] ELSE 0])
    OBVIOUS
  <2>4. Summable(Gained) /\ IsFiniteSet(Account)
    BY <1>1, <1>2
  <2> HIDE DEF at, gained
  <2> QED BY ONLY <2>1, <2>2, <2>3, <2>4, TotalPlaced
<1>8. Summable(sold) /\ SumFunction(sold) = SumFunction(Sold)
  <2> DEFINE at == [n \in DOMAIN Sold |-> OwnerOf(SellSide(trades[n]))]
  <2>1. \A n \in DOMAIN Sold : at[n] \in Account
    BY <1>1, <1>4 DEF Placed, Sold
  <2>2. DOMAIN sold = Account
    OBVIOUS
  <2>3. \A a \in Account :
          sold[a] = SumFunction([n \in DOMAIN Sold |-> IF at[n] = a THEN Sold[n] ELSE 0])
    OBVIOUS
  <2>4. Summable(Sold) /\ IsFiniteSet(Account)
    BY <1>1, <1>2
  <2> HIDE DEF at, sold
  <2> QED BY ONLY <2>1, <2>2, <2>3, <2>4, TotalPlaced
<1>9. \A a \in Account : Over(trades, TradeEntries(q(a))) = gained[a] + sold[a]
  <2> SUFFICES ASSUME NEW a \in Account
               PROVE  Over(trades, TradeEntries(q(a))) = gained[a] + sold[a]
    OBVIOUS
  <2> DEFINE f == [n \in DOMAIN trades |-> IF OwnerOf(BuySide(trades[n])) = a THEN Gained[n] ELSE 0]
             g == [n \in DOMAIN trades |-> IF OwnerOf(SellSide(trades[n])) = a THEN Sold[n] ELSE 0]
             h == [n \in DOMAIN trades |-> TradeEntries(q(a))[trades[n]]]
  <2>1. DOMAIN Gained = DOMAIN trades /\ DOMAIN Sold = DOMAIN trades
    BY DEF Gained, Sold
  <2>2. Summable(f) /\ Summable(g)
    BY <1>1, <1>2, <2>1 DEF Summable, Placed
  <2>3. \A n \in DOMAIN trades : h[n] = f[n] + g[n]
    BY <1>1, <2>1 DEF Placed, TradeEntries, TradeEntry, Proceeds, Gained, Sold
  <2>4. DOMAIN f = DOMAIN trades /\ DOMAIN g = DOMAIN trades /\ DOMAIN h = DOMAIN trades
    OBVIOUS
  <2>5. gained[a] = SumFunction(f) /\ sold[a] = SumFunction(g)
    BY <2>1
  <2>6. Over(trades, TradeEntries(q(a))) = SumFunction(h)
    BY DEF Over
  <2> HIDE DEF f, g, h, gained, sold, q
  <2>7. SumFunction(h) = SumFunction(f) + SumFunction(g)
    BY ONLY <2>2, <2>3, <2>4, TotalAdds
  <2> QED BY <2>5, <2>6, <2>7
<1>10. Summable(base) /\ SumFunction(base) = SumFunction(db.accounts)
  <2>1. DOMAIN db.accounts \subseteq Account /\ \A a \in DOMAIN db.accounts : db.accounts[a] \in Int
    BY <1>1 DEF KeyInv, TradeInv, TypeOK, IsDatabase, IsTable
  <2>2. DOMAIN base = Account /\ \A a \in Account : base[a] = Balance(a)
    OBVIOUS
  <2> HIDE DEF base
  <2>3. /\ \A a \in DOMAIN base : base[a] \in Int
        /\ \A a \in DOMAIN db.accounts : db.accounts[a] = base[a]
        /\ \A a \in DOMAIN base \ DOMAIN db.accounts : base[a] = 0
    BY <2>1, <2>2 DEF Balance
  <2>4. Summable(base)
    BY <1>1, <2>2, <2>3 DEF Summable
  <2> QED BY ONLY <2>1, <2>2, <2>3, <2>4, TotalPart
<1>11. Summable(cash) /\ DOMAIN cash = Account
  BY <1>1 DEF KeyInv, TradeInv, TypeOK, Summable
<1>12. \A a \in Account : all[a] = base[a] + charged[a] + given[a]
  OBVIOUS
<1>13. \A a \in Account : all[a] = cash[a] + gained[a] + sold[a]
  <2> SUFFICES ASSUME NEW a \in Account PROVE all[a] = cash[a] + gained[a] + sold[a]
    OBVIOUS
  <2>1. Reckoned(q(a)) /\ Over(trades, TradeEntries(q(a))) = gained[a] + sold[a]
    BY <1>3, <1>9
  <2>2. base[a] = Base(q(a)) /\ cash[a] = Paid(q(a))
    BY DEF Base, Paid
  <2>3. /\ charged[a] = Over(db.transactions, OrderEntries(q(a)))
        /\ given[a] = Over(db.canceled_trans, CanceledEntries(q(a)))
    OBVIOUS
  <2>4. gained[a] \in Int /\ sold[a] \in Int
    BY <1>7, <1>8 DEF Summable
  <2> HIDE DEF q, base, charged, given, gained, sold, cash
  <2>5. all[a] = base[a] + charged[a] + given[a]
    OBVIOUS
  <2> HIDE DEF all
  <2> QED BY ONLY <2>1, <2>2, <2>3, <2>4, <2>5 DEF Reckoned
<1>14. /\ DOMAIN base = Account /\ DOMAIN charged = Account /\ DOMAIN given = Account
       /\ DOMAIN gained = Account /\ DOMAIN sold = Account /\ DOMAIN all = Account
  OBVIOUS
<1> HIDE DEF base, charged, given, gained, sold, all, cash, q
<1>15. SumFunction(all) = SumFunction(base) + SumFunction(charged) + SumFunction(given)
  BY <1>5, <1>6, <1>10, <1>12, <1>14, TotalParts
<1>16. SumFunction(all) = SumFunction(cash) + SumFunction(gained) + SumFunction(sold)
  BY <1>7, <1>8, <1>11, <1>13, <1>14, TotalParts
<1>17. /\ SumFunction(base) \in Int /\ SumFunction(Charged) \in Int /\ SumFunction(Refunded) \in Int
       /\ SumFunction(cash) \in Int /\ SumFunction(Gained) \in Int /\ SumFunction(Sold) \in Int
  BY <1>2, <1>10, <1>11, TotalInt
<1>18. SumFunction(base) + SumFunction(Charged)
         = SumFunction(cash) + SumFunction(Gained) + SumFunction(Sold) + SumFunction(Refunded)
  BY ONLY <1>5, <1>6, <1>7, <1>8, <1>15, <1>16, <1>17
<1> QED BY <1>10, <1>18 DEF cash

\* The position of order i.
PositionOf(i) == <<db.transactions[i].account, db.transactions[i].symbol>>

\* The positions of all accounts, too, add up to what was granted and what the orders,
\* the matches and the cancellations come to.
LEMMA SharesTotal ==
  ASSUME ExactInv, alive, AllSent
  PROVE  SumFunction(db.positions)
           = SumFunction(paidIn.shares) + SumFunction(Offers) + SumFunction(Exchanged)
             + SumFunction(Returned)
<1> DEFINE Position == Account \X Symbol
           q(p) == [of |-> "shares", key |-> p]
           base == [p \in Position |-> Held(p)]
           offered == [p \in Position |-> Over(db.transactions, OrderEntries(q(p)))]
           given == [p \in Position |-> Over(db.canceled_trans, CanceledEntries(q(p)))]
           bought == [p \in Position |-> Over(trades, TradeEntries(q(p)))]
           all == [p \in Position |-> base[p] + offered[p] + given[p]]
           paid == paidIn.shares
<1>1. KeyInv /\ Placed /\ IsFiniteSet(Position)
  BY BooksPlaced, FinitenessAssumption, FS_Product DEF ExactInv
<1>2. Summable(Offers) /\ Summable(Returned) /\ Summable(Exchanged)
  BY <1>1, TotalsInt
<1>3. \A p \in Position : Reckoned(q(p))
  <2> SUFFICES ASSUME NEW p \in Position PROVE Reckoned(q(p))
    OBVIOUS
  <2>1. q(p) \in Quantity /\ q(p).of \in {"cash", "shares"}
    BY DEF Quantity
  <2> HIDE DEF q
  <2> QED BY <2>1, BooksReckoned
<1>4. \A i \in DOMAIN db.transactions : PositionOf(i) \in Position
  BY <1>1 DEF Placed, Order, PositionOf
<1>5. Summable(offered) /\ SumFunction(offered) = -SumFunction(Offers)
  <2> DEFINE at == [i \in DOMAIN db.transactions |-> PositionOf(i)]
             e == [p \in Position |-> OrderEntries(q(p))]
             v == [i \in DOMAIN db.transactions |-> -Offers[i]]
  <2>1. \A i \in DOMAIN db.transactions : at[i] \in Position
    BY <1>4
  <2>2. \A p \in Position, i \in DOMAIN db.transactions :
          e[p][db.transactions[i]] = IF at[i] = p THEN v[i] ELSE 0
    BY <1>1 DEF Placed, OrderEntries, OrderEntry, Offered, IsIn, PositionOf, Offers
  <2>3. \A p \in Position : offered[p] = Over(db.transactions, e[p])
    OBVIOUS
  <2>4. DOMAIN v = DOMAIN Offers /\ \A i \in DOMAIN Offers : v[i] = -Offers[i]
    BY DEF Offers
  <2>5. DOMAIN v = DOMAIN db.transactions /\ DOMAIN offered = Position
    OBVIOUS
  <2>6. IsFiniteSet(Position)
    BY <1>1
  <2> HIDE DEF at, e, v, offered, q, Position
  <2>7. Summable(v) /\ SumFunction(v) = -SumFunction(Offers)
    BY <1>2, <2>4, TotalNegated
  <2>8. Summable(v)
    BY <2>7
  <2>9. Summable(offered) /\ SumFunction(offered) = SumFunction(v)
    BY ONLY <2>1, <2>2, <2>3, <2>5, <2>6, <2>8, OverKeys
  <2> QED BY <2>7, <2>9
<1>6. Summable(given) /\ SumFunction(given) = -SumFunction(Returned)
  <2> DEFINE at == [n \in DOMAIN db.canceled_trans |-> PositionOf(db.canceled_trans[n].id)]
             e == [p \in Position |-> CanceledEntries(q(p))]
             v == [n \in DOMAIN db.canceled_trans |-> -Returned[n]]
  <2>1. \A n \in DOMAIN db.canceled_trans : at[n] \in Position
    BY <1>1, <1>4 DEF Placed
  <2>2. \A p \in Position, n \in DOMAIN db.canceled_trans :
          e[p][db.canceled_trans[n]] = IF at[n] = p THEN v[n] ELSE 0
    BY <1>1 DEF Placed, CanceledEntries, CanceledEntry, SharesBack, IsIn, PositionOf, Returned
  <2>3. \A p \in Position : given[p] = Over(db.canceled_trans, e[p])
    OBVIOUS
  <2>4. DOMAIN v = DOMAIN Returned /\ \A n \in DOMAIN Returned : v[n] = -Returned[n]
    BY DEF Returned
  <2>5. DOMAIN v = DOMAIN db.canceled_trans /\ DOMAIN given = Position
    OBVIOUS
  <2>6. IsFiniteSet(Position)
    BY <1>1
  <2> HIDE DEF at, e, v, given, q, Position
  <2>7. Summable(v) /\ SumFunction(v) = -SumFunction(Returned)
    BY <1>2, <2>4, TotalNegated
  <2>8. Summable(v)
    BY <2>7
  <2>9. Summable(given) /\ SumFunction(given) = SumFunction(v)
    BY ONLY <2>1, <2>2, <2>3, <2>5, <2>6, <2>8, OverKeys
  <2> QED BY <2>7, <2>9
<1>7. Summable(bought) /\ SumFunction(bought) = SumFunction(Exchanged)
  <2> DEFINE at == [n \in DOMAIN trades |-> PositionOf(BuySide(trades[n]))]
             e == [p \in Position |-> TradeEntries(q(p))]
  <2>1. \A n \in DOMAIN trades : at[n] \in Position
    BY <1>1, <1>4 DEF Placed
  <2>2. \A p \in Position, n \in DOMAIN trades :
          e[p][trades[n]] = IF at[n] = p THEN Exchanged[n] ELSE 0
    BY <1>1 DEF Placed, TradeEntries, TradeEntry, Bought, IsIn, PositionOf, Exchanged
  <2>3. \A p \in Position : bought[p] = Over(trades, e[p])
    OBVIOUS
  <2>4. DOMAIN Exchanged = DOMAIN trades /\ DOMAIN bought = Position
    BY DEF Exchanged
  <2>5. Summable(Exchanged) /\ IsFiniteSet(Position)
    BY <1>1, <1>2
  <2> HIDE DEF at, e, bought, q, Position
  <2> QED BY ONLY <2>1, <2>2, <2>3, <2>4, <2>5, OverKeys
<1>8. Summable(base) /\ SumFunction(base) = SumFunction(db.positions)
  <2>1. /\ DOMAIN db.positions \subseteq Position
        /\ \A p \in DOMAIN db.positions : db.positions[p] \in Int
    BY <1>1 DEF KeyInv, TradeInv, TypeOK, IsDatabase, IsTable
  <2>2. DOMAIN base = Position /\ \A p \in Position : base[p] = Held(p)
    OBVIOUS
  <2> HIDE DEF base, Position
  <2>3. /\ \A p \in DOMAIN base : base[p] \in Int
        /\ \A p \in DOMAIN db.positions : db.positions[p] = base[p]
        /\ \A p \in DOMAIN base \ DOMAIN db.positions : base[p] = 0
    BY <2>1, <2>2 DEF Held
  <2>4. Summable(base)
    BY <1>1, <2>2, <2>3 DEF Summable
  <2> QED BY ONLY <2>1, <2>2, <2>3, <2>4, TotalPart
<1>9. Summable(paid) /\ DOMAIN paid = Position
  BY <1>1 DEF KeyInv, TradeInv, TypeOK, Summable
<1>10. \A p \in Position : all[p] = base[p] + offered[p] + given[p]
  OBVIOUS
<1>11. \A p \in Position : all[p] = paid[p] + bought[p]
  <2> SUFFICES ASSUME NEW p \in Position PROVE all[p] = paid[p] + bought[p]
    OBVIOUS
  <2>1. Reckoned(q(p))
    BY <1>3
  <2>2. base[p] = Base(q(p)) /\ paid[p] = Paid(q(p))
    BY DEF Base, Paid
  <2>3. /\ offered[p] = Over(db.transactions, OrderEntries(q(p)))
        /\ given[p] = Over(db.canceled_trans, CanceledEntries(q(p)))
        /\ bought[p] = Over(trades, TradeEntries(q(p)))
    OBVIOUS
  <2> HIDE DEF q, base, offered, given, bought, paid
  <2>4. all[p] = base[p] + offered[p] + given[p]
    OBVIOUS
  <2> HIDE DEF all
  <2> QED BY ONLY <2>1, <2>2, <2>3, <2>4 DEF Reckoned
<1>12. /\ DOMAIN base = Position /\ DOMAIN offered = Position /\ DOMAIN given = Position
       /\ DOMAIN bought = Position /\ DOMAIN all = Position
  OBVIOUS
<1> HIDE DEF base, offered, given, bought, all, paid, q, Position
<1>13. SumFunction(all) = SumFunction(base) + SumFunction(offered) + SumFunction(given)
  BY <1>5, <1>6, <1>8, <1>10, <1>12, TotalParts
<1>14. SumFunction(all) = SumFunction(paid) + SumFunction(bought)
  BY <1>7, <1>9, <1>11, <1>12, TotalAdds
<1>15. /\ SumFunction(base) \in Int /\ SumFunction(Offers) \in Int /\ SumFunction(Returned) \in Int
       /\ SumFunction(paid) \in Int /\ SumFunction(Exchanged) \in Int
  BY <1>2, <1>8, <1>9, TotalInt
<1>16. SumFunction(base) = SumFunction(paid) + SumFunction(Offers) + SumFunction(Exchanged)
                             + SumFunction(Returned)
  BY ONLY <1>5, <1>6, <1>7, <1>13, <1>14, <1>15
<1> QED BY <1>8, <1>16 DEF paid

-----------------------------------------------------------------------------

\* The cancellations of order i, whatever they are worth, come to none or to the one
\* that records what it had left.
RecordsOf(i, v) ==
  SumFunction([n \in DOMAIN db.canceled_trans |-> IF db.canceled_trans[n].id = i THEN v[n] ELSE 0])

LEMMA RecordsAddUp ==
  ASSUME NEW w, Thread = {w}, OrdersInv(w), AllSent, NEW i \in DOMAIN db.transactions,
         NEW v, Summable(v), DOMAIN v = DOMAIN db.canceled_trans
  PROVE  \/ db.transactions[i].status # "canceled" /\ RecordsOf(i, v) = 0
         \/ /\ db.transactions[i].status = "canceled"
            /\ \E n \in DOMAIN db.canceled_trans :
                 /\ db.canceled_trans[n].id = i
                 /\ db.canceled_trans[n].shares = db.transactions[i].shares
                 /\ RecordsOf(i, v) = v[n]
<1> DEFINE f == [n \in DOMAIN db.canceled_trans |->
                   IF db.canceled_trans[n].id = i THEN v[n] ELSE 0]
<1>1. pending[w] = << >>
  BY DEF AllSent
<1>2. IF db.transactions[i].status # "canceled" THEN Cancellations(db, i) = {} ELSE OneRecord(i)
  BY <1>1 DEF OrdersInv, OrdersKept, RecordedOnce, Recording
<1>3. /\ DOMAIN f = DOMAIN db.canceled_trans
      /\ \A n \in DOMAIN f : f[n] = IF db.canceled_trans[n].id = i THEN v[n] ELSE 0
      /\ RecordsOf(i, v) = SumFunction(f)
  BY DEF RecordsOf
<1> HIDE DEF f
<1>4. Summable(f)
  BY <1>3 DEF Summable
<1>5. CASE db.transactions[i].status # "canceled"
  <2>1. \A n \in DOMAIN f : f[n] = 0
    BY <1>2, <1>3, <1>5 DEF Cancellations
  <2> QED BY <1>3, <1>4, <1>5, <2>1, TotalZero DEF Summable
<1>6. CASE db.transactions[i].status = "canceled"
  <2>1. PICK n \in DOMAIN db.canceled_trans :
          /\ Cancellations(db, i) = {n}
          /\ db.canceled_trans[n].shares = db.transactions[i].shares
    BY <1>2, <1>6 DEF OneRecord
  <2>2. db.canceled_trans[n].id = i /\ \A k \in DOMAIN f : k # n => db.canceled_trans[k].id # i
    BY <1>3, <2>1 DEF Cancellations
  <2>3. SumFunction(f) = v[n]
    BY <1>3, <1>4, <2>2, TotalOne
  <2> QED BY <1>3, <1>6, <2>1, <2>2, <2>3
<1> QED BY <1>5, <1>6

\* What the buy and the sell side of each match have paid or set aside for it.
Spent == [n \in DOMAIN trades |-> trades[n].shares * db.transactions[BuySide(trades[n])].limit]

\* The money the matches of order i have taken of it, and the shares they have sold of it.
SpentOf(i) == SumFunction([n \in DOMAIN trades |-> IF BuySide(trades[n]) = i THEN Spent[n] ELSE 0])
SoldOf(i)  == SumFunction([n \in DOMAIN trades |->
                             IF SellSide(trades[n]) = i THEN Exchanged[n] ELSE 0])

\* A buy spends its limit on what is gone of it and a sell sells what is gone of it;
\* neither does the other.
LEMMA SpentGone ==
  ASSUME KeyInv, NEW i \in DOMAIN db.transactions
  PROVE  LET o == db.transactions[i]
         IN  /\ o.amount > 0 => SpentOf(i) = o.limit * Gone(i) /\ SoldOf(i) = 0
             /\ o.amount <= 0 => SpentOf(i) = 0 /\ SoldOf(i) = -Gone(i)
<1> DEFINE o == db.transactions[i]
           spent == [n \in DOMAIN trades |-> IF BuySide(trades[n]) = i THEN Spent[n] ELSE 0]
           sold == [n \in DOMAIN trades |-> IF SellSide(trades[n]) = i THEN Exchanged[n] ELSE 0]
           legs == [n \in DOMAIN trades |-> LegShares(trades[n], i)]
<1>1. Placed /\ IsFiniteSet(DOMAIN trades) /\ o.amount \in Int /\ o.limit \in Int
  BY BooksPlaced DEF Placed, Order
<1>2. \A n \in DOMAIN trades : trades[n].shares \in Int
  BY <1>1 DEF Placed, Trade
<1>3. Summable(legs)
  BY <1>1, <1>2 DEF Summable, LegShares
<1>4. SumFunction(legs) = Gone(i)
  <2>1. \A n \in DOMAIN trades : legs[n] = TradeEntries(MovedOf(i))[trades[n]]
    BY <1>1 DEF Placed, TradeEntries, TradeEntry, MovedOf
  <2>2. legs = [n \in DOMAIN trades |-> legs[n]]
    OBVIOUS
  <2> HIDE DEF legs
  <2>3. SumFunction(legs) = Over(trades, TradeEntries(MovedOf(i)))
    BY <2>1, <2>2, OverValues
  <2> QED BY <2>3 DEF Gone
<1>5. /\ SpentOf(i) = SumFunction(spent) /\ SoldOf(i) = SumFunction(sold)
      /\ DOMAIN spent = DOMAIN trades /\ DOMAIN sold = DOMAIN trades /\ DOMAIN legs = DOMAIN trades
  BY DEF SpentOf, SoldOf
<1>6. ASSUME o.amount > 0 PROVE SpentOf(i) = o.limit * Gone(i) /\ SoldOf(i) = 0
  <2>1. \A n \in DOMAIN trades : SellSide(trades[n]) # i
    BY <1>1, <1>6 DEF Placed
  <2>2. \A n \in DOMAIN trades : spent[n] = o.limit * legs[n]
    BY <1>1, <1>2, <2>1 DEF Spent, LegShares
  <2>3. \A n \in DOMAIN trades : sold[n] = 0
    BY <2>1
  <2> HIDE DEF spent, sold, legs
  <2>4. SumFunction(spent) = o.limit * SumFunction(legs)
    BY <1>1, <1>3, <1>5, <2>2, TotalScaled
  <2>5. SumFunction(sold) = 0
    BY <1>1, <1>5, <2>3, TotalZero
  <2> QED BY <1>4, <1>5, <2>4, <2>5
<1>7. ASSUME o.amount <= 0 PROVE SpentOf(i) = 0 /\ SoldOf(i) = -Gone(i)
  <2>1. \A n \in DOMAIN trades : BuySide(trades[n]) # i
    BY <1>1, <1>7 DEF Placed
  <2>2. \A n \in DOMAIN trades : spent[n] = 0
    BY <2>1
  <2>3. \A n \in DOMAIN trades : sold[n] = -legs[n]
    BY <1>2, <2>1 DEF Exchanged, LegShares
  <2> HIDE DEF spent, sold, legs
  <2>4. SumFunction(spent) = 0
    BY <1>1, <1>5, <2>2, TotalZero
  <2>5. SumFunction(sold) = -SumFunction(legs)
    BY <1>3, <1>5, <2>3, TotalNegated
  <2> QED BY <1>4, <1>5, <2>4, <2>5
<1> QED BY <1>6, <1>7

\* What an order was charged it still sets aside, was given back or has spent; what it
\* still offers is what it offered, less what was returned or sold.
OrderAudited(i) ==
  /\ Charged[i] = Escrow(db.transactions[i]) + RecordsOf(i, Refunded) + SpentOf(i)
  /\ OnOffer(db.transactions[i]) = Offers[i] + RecordsOf(i, Returned) + SoldOf(i)

LEMMA OrdersAudited ==
  ASSUME NEW w, Thread = {w}, OrdersInv(w), AllSent, NEW i \in DOMAIN db.transactions
  PROVE  OrderAudited(i)
<1> DEFINE o == db.transactions[i]
           m == o.amount
           n == o.shares
           p == o.limit
           g == Gone(i)
<1>1. KeyInv /\ Placed /\ pending[w] = << >>
  BY BooksPlaced DEF OrdersInv, AllSent
<1>2. o \in Order /\ m \in Int /\ n \in Int /\ p \in Int /\ g \in Int
  BY <1>1, LeftInt DEF Placed, Order
<1>3. n = m - g
  BY <1>1 DEF OrdersInv, OrdersKept, SharesLeft, Left
<1>4. (m > 0 => n >= 0) /\ (m < 0 => n <= 0) /\ (m = 0 => n = 0)
  BY <1>1 DEF KeyInv, TradeInv, OrdersKeepSides, RowsOnSide, OnSide
<1>5. o.status = "executed" => n = 0
  BY DEF OrdersInv, OrdersKept, FilledEmpty
<1>6. /\ m > 0 => SpentOf(i) = p * g /\ SoldOf(i) = 0
      /\ m <= 0 => SpentOf(i) = 0 /\ SoldOf(i) = -g
  BY <1>1, SpentGone
<1>7. /\ Summable(Refunded) /\ DOMAIN Refunded = DOMAIN db.canceled_trans
      /\ Summable(Returned) /\ DOMAIN Returned = DOMAIN db.canceled_trans
  BY <1>1, TotalsInt DEF Refunded, Returned
<1>8. RecordsOf(i, Refunded) = IF o.status = "canceled" /\ n > 0 THEN n * p ELSE 0
  <2>1. CASE o.status # "canceled"
    BY <1>7, <2>1, RecordsAddUp
  <2>2. CASE o.status = "canceled"
    <3>1. PICK k \in DOMAIN db.canceled_trans :
            /\ db.canceled_trans[k].id = i /\ db.canceled_trans[k].shares = n
            /\ RecordsOf(i, Refunded) = Refunded[k]
      BY <1>7, <2>2, RecordsAddUp
    <3>2. Refunded[k] = IF n > 0 THEN n * p ELSE 0
      BY <3>1 DEF Refunded
    <3> QED BY <2>2, <3>1, <3>2
  <2> QED BY <2>1, <2>2
<1>9. RecordsOf(i, Returned) = IF o.status = "canceled" /\ n <= 0 THEN -n ELSE 0
  <2>1. CASE o.status # "canceled"
    BY <1>7, <2>1, RecordsAddUp
  <2>2. CASE o.status = "canceled"
    <3>1. PICK k \in DOMAIN db.canceled_trans :
            /\ db.canceled_trans[k].id = i /\ db.canceled_trans[k].shares = n
            /\ RecordsOf(i, Returned) = Returned[k]
      BY <1>7, <2>2, RecordsAddUp
    <3>2. Returned[k] = IF n <= 0 THEN -n ELSE 0
      BY <3>1 DEF Returned
    <3> QED BY <2>2, <3>1, <3>2
  <2> QED BY <2>1, <2>2
<1>10. /\ Charged[i] = (IF m > 0 THEN m * p ELSE 0) /\ Offers[i] = (IF m < 0 THEN m ELSE 0)
       /\ Escrow(o) = (IF o.status = "open" /\ n > 0 THEN n * p ELSE 0)
       /\ OnOffer(o) = (IF o.status = "open" /\ n < 0 THEN n ELSE 0)
  BY DEF Charged, Offers, Escrow, OnOffer, Resting
<1>11. o.status \in {"open", "executed", "canceled"}
  BY <1>2 DEF Order, Status
<1> DEFINE st == o.status
<1>12. st = o.status
  OBVIOUS
<1> HIDE DEF m, n, p, g, st
<1>13. Charged[i] = Escrow(o) + RecordsOf(i, Refunded) + SpentOf(i)
  <2>1. m * p = n * p + p * g
    BY ONLY <1>2, <1>3
  <2>2. n = 0 => n * p = 0
    BY <1>2
  <2>3. n * p \in Int /\ p * g \in Int /\ m * p \in Int
    BY <1>2
  <2> DEFINE np == n * p
             pg == p * g
             mp == m * p
  <2> HIDE DEF np, pg, mp
  <2>4. CASE m > 0
    <3>1. Charged[i] = mp /\ SpentOf(i) = pg /\ n >= 0 /\ (n = 0 => np = 0) /\ mp = np + pg
      BY <1>4, <1>6, <1>10, <2>1, <2>2, <2>4 DEF np, pg, mp
    <3>2. Escrow(o) + RecordsOf(i, Refunded) = np
      <4>1. np \in Int
        BY <2>3 DEF np
      <4>2. CASE n = 0
        BY <1>8, <1>10, <3>1, <4>2
      <4>3. CASE n > 0 /\ o.status = "open"
        BY <1>8, <1>10, <4>1, <4>3 DEF np
      <4>4. CASE n > 0 /\ o.status = "canceled"
        BY <1>8, <1>10, <4>1, <4>4 DEF np
      <4> QED BY <1>2, <1>5, <1>11, <3>1, <4>2, <4>3, <4>4 DEF n
    <3> QED BY <2>3, <3>1, <3>2 DEF np, pg, mp
  <2>5. CASE m <= 0
    <3>1. ~(n > 0)
      BY <1>2, <1>4, <2>5
    <3> QED BY <1>6, <1>8, <1>10, <1>2, <2>5, <3>1
  <2> QED BY <1>2, <2>4, <2>5
<1>14. OnOffer(o) = Offers[i] + RecordsOf(i, Returned) + SoldOf(i)
  <2>1. CASE o.status = "open"
    BY <1>2, <1>3, <1>4, <1>6, <1>9, <1>10, <2>1
  <2>2. CASE o.status = "canceled"
    BY <1>2, <1>3, <1>4, <1>6, <1>9, <1>10, <2>2
  <2>3. CASE o.status = "executed"
    BY <1>2, <1>3, <1>4, <1>5, <1>6, <1>9, <1>10, <2>3
  <2> QED BY <1>11, <2>1, <2>2, <2>3
<1> QED BY <1>13, <1>14 DEF OrderAudited

\* What each order keeps set aside, and what each match charges again.
Escrows  == [i \in DOMAIN db.transactions |-> Escrow(db.transactions[i])]
OnOffers == [i \in DOMAIN db.transactions |-> OnOffer(db.transactions[i])]
Again    == [n \in DOMAIN trades |-> ChargedAgain(trades[n])]

\* A sum of cancellations, or of matches, order by order.
LEMMA RecordsTotal ==
  ASSUME Placed, NEW v, Summable(v), DOMAIN v = DOMAIN db.canceled_trans,
         NEW g, DOMAIN g = DOMAIN db.transactions,
         \A i \in DOMAIN db.transactions : g[i] = RecordsOf(i, v)
  PROVE  Summable(g) /\ SumFunction(g) = SumFunction(v)
<1> DEFINE at == [n \in DOMAIN v |-> db.canceled_trans[n].id]
<1>1. \A n \in DOMAIN v : at[n] \in DOMAIN db.transactions
  BY DEF Placed
<1>2. \A i \in DOMAIN db.transactions :
        g[i] = SumFunction([n \in DOMAIN v |-> IF at[n] = i THEN v[n] ELSE 0])
  <2> SUFFICES ASSUME NEW i \in DOMAIN db.transactions
               PROVE  g[i] = SumFunction([n \in DOMAIN v |-> IF at[n] = i THEN v[n] ELSE 0])
    OBVIOUS
  <2>1. [n \in DOMAIN v |-> IF at[n] = i THEN v[n] ELSE 0]
          = [n \in DOMAIN db.canceled_trans |-> IF db.canceled_trans[n].id = i THEN v[n] ELSE 0]
    OBVIOUS
  <2> QED BY <2>1 DEF RecordsOf
<1>3. IsFiniteSet(DOMAIN db.transactions)
  BY DEF Placed
<1> HIDE DEF at
<1> QED BY ONLY <1>1, <1>2, <1>3, Summable(v), DOMAIN g = DOMAIN db.transactions, TotalPlaced

LEMMA MatchesTotal ==
  ASSUME Placed
  PROVE  /\ Summable(Spent) /\ Summable([i \in DOMAIN db.transactions |-> SpentOf(i)])
         /\ SumFunction([i \in DOMAIN db.transactions |-> SpentOf(i)]) = SumFunction(Spent)
         /\ Summable([i \in DOMAIN db.transactions |-> SoldOf(i)])
         /\ SumFunction([i \in DOMAIN db.transactions |-> SoldOf(i)]) = SumFunction(Exchanged)
<1>1. IsFiniteSet(DOMAIN db.transactions) /\ Summable(Exchanged) /\ IsFiniteSet(DOMAIN trades)
  BY TotalsInt DEF Placed
<1>2. Summable(Spent)
  <2>1. \A n \in DOMAIN trades : /\ trades[n].shares \in Int
                                 /\ db.transactions[BuySide(trades[n])].limit \in Int
    BY DEF Placed, Trade, Order
  <2> QED BY <1>1, <2>1 DEF Spent, Summable
<1>3. DOMAIN Spent = DOMAIN trades /\ DOMAIN Exchanged = DOMAIN trades
  BY DEF Spent, Exchanged
<1> DEFINE spent == [i \in DOMAIN db.transactions |-> SpentOf(i)]
           sold == [i \in DOMAIN db.transactions |-> SoldOf(i)]
<1>4. Summable(spent) /\ SumFunction(spent) = SumFunction(Spent)
  <2> DEFINE at == [n \in DOMAIN trades |-> BuySide(trades[n])]
  <2>1. \A n \in DOMAIN Spent : at[n] \in DOMAIN db.transactions
    BY <1>3 DEF Placed
  <2>2. \A i \in DOMAIN db.transactions :
          spent[i] = SumFunction([n \in DOMAIN Spent |-> IF at[n] = i THEN Spent[n] ELSE 0])
    <3> SUFFICES ASSUME NEW i \in DOMAIN db.transactions
                 PROVE  SpentOf(i)
                          = SumFunction([n \in DOMAIN Spent |-> IF at[n] = i THEN Spent[n] ELSE 0])
      OBVIOUS
    <3>1. [n \in DOMAIN Spent |-> IF at[n] = i THEN Spent[n] ELSE 0]
            = [n \in DOMAIN trades |-> IF BuySide(trades[n]) = i THEN Spent[n] ELSE 0]
      BY <1>3
    <3> QED BY <3>1 DEF SpentOf
  <2>3. DOMAIN spent = DOMAIN db.transactions
    OBVIOUS
  <2>4. Summable(Spent) /\ IsFiniteSet(DOMAIN db.transactions)
    BY <1>1, <1>2
  <2> HIDE DEF at, spent
  <2> QED BY ONLY <2>1, <2>2, <2>3, <2>4, TotalPlaced
<1>5. Summable(sold) /\ SumFunction(sold) = SumFunction(Exchanged)
  <2> DEFINE at == [n \in DOMAIN trades |-> SellSide(trades[n])]
  <2>1. \A n \in DOMAIN Exchanged : at[n] \in DOMAIN db.transactions
    BY <1>3 DEF Placed
  <2>2. \A i \in DOMAIN db.transactions :
          sold[i] = SumFunction([n \in DOMAIN Exchanged |->
                                   IF at[n] = i THEN Exchanged[n] ELSE 0])
    <3> SUFFICES ASSUME NEW i \in DOMAIN db.transactions
                 PROVE  SoldOf(i) = SumFunction([n \in DOMAIN Exchanged |->
                                                   IF at[n] = i THEN Exchanged[n] ELSE 0])
      OBVIOUS
    <3>1. [n \in DOMAIN Exchanged |-> IF at[n] = i THEN Exchanged[n] ELSE 0]
            = [n \in DOMAIN trades |-> IF SellSide(trades[n]) = i THEN Exchanged[n] ELSE 0]
      BY <1>3
    <3> QED BY <3>1 DEF SoldOf
  <2>3. DOMAIN sold = DOMAIN db.transactions
    OBVIOUS
  <2>4. Summable(Exchanged) /\ IsFiniteSet(DOMAIN db.transactions)
    BY <1>1
  <2> HIDE DEF at, sold
  <2> QED BY ONLY <2>1, <2>2, <2>3, <2>4, TotalPlaced
<1> QED BY <1>2, <1>4, <1>5

\* All that was charged is set aside, given back or spent; all that is on offer is what
\* was offered, less what was returned or sold.
LEMMA OrdersTotal ==
  ASSUME NEW w, Thread = {w}, OrdersInv(w), AllSent
  PROVE  /\ Summable(Escrows) /\ Summable(OnOffers)
         /\ SumFunction(Charged)
              = SumFunction(Escrows) + SumFunction(Refunded) + SumFunction(Spent)
         /\ SumFunction(OnOffers)
              = SumFunction(Offers) + SumFunction(Returned) + SumFunction(Exchanged)
<1> DEFINE D == DOMAIN db.transactions
           refunds == [i \in D |-> RecordsOf(i, Refunded)]
           returns == [i \in D |-> RecordsOf(i, Returned)]
           spent == [i \in D |-> SpentOf(i)]
           sold == [i \in D |-> SoldOf(i)]
<1>1. KeyInv /\ Placed
  BY BooksPlaced DEF OrdersInv
<1>2. /\ Summable(Refunded) /\ DOMAIN Refunded = DOMAIN db.canceled_trans
      /\ Summable(Returned) /\ DOMAIN Returned = DOMAIN db.canceled_trans
      /\ Summable(Charged) /\ DOMAIN Charged = D /\ Summable(Offers) /\ DOMAIN Offers = D
  BY <1>1, TotalsInt DEF Refunded, Returned, Charged, Offers
<1>3. Summable(refunds) /\ SumFunction(refunds) = SumFunction(Refunded) /\ DOMAIN refunds = D
  <2>1. DOMAIN refunds = D /\ \A i \in D : refunds[i] = RecordsOf(i, Refunded)
    OBVIOUS
  <2> HIDE DEF refunds
  <2> QED BY <1>1, <1>2, <2>1, RecordsTotal
<1>4. Summable(returns) /\ SumFunction(returns) = SumFunction(Returned) /\ DOMAIN returns = D
  <2>1. DOMAIN returns = D /\ \A i \in D : returns[i] = RecordsOf(i, Returned)
    OBVIOUS
  <2> HIDE DEF returns
  <2> QED BY <1>1, <1>2, <2>1, RecordsTotal
<1>5. /\ Summable(spent) /\ SumFunction(spent) = SumFunction(Spent) /\ DOMAIN spent = D
      /\ Summable(sold) /\ SumFunction(sold) = SumFunction(Exchanged) /\ DOMAIN sold = D
  BY <1>1, MatchesTotal
<1>6. \A i \in D : /\ Charged[i] = Escrows[i] + refunds[i] + spent[i]
                   /\ OnOffers[i] = Offers[i] + returns[i] + sold[i]
  BY OrdersAudited DEF OrderAudited, Escrows, OnOffers
<1>7. /\ Summable(Escrows) /\ DOMAIN Escrows = D /\ Summable(OnOffers) /\ DOMAIN OnOffers = D
  BY <1>1 DEF Placed, Summable, Escrows, OnOffers, Escrow, OnOffer, Order
<1> HIDE DEF refunds, returns, spent, sold, D
<1>8. SumFunction(Charged) = SumFunction(Escrows) + SumFunction(refunds) + SumFunction(spent)
  BY <1>2, <1>3, <1>5, <1>6, <1>7, TotalParts
<1>9. SumFunction(OnOffers) = SumFunction(Offers) + SumFunction(returns) + SumFunction(sold)
  BY <1>2, <1>4, <1>5, <1>6, <1>7, TotalParts
<1> QED BY <1>3, <1>4, <1>5, <1>7, <1>8, <1>9

\* What a buy spends on a match is what its limit had set aside; the seller's price, and
\* what the buyer gets back, are less by what it is charged again.
LEMMA MatchAudited ==
  ASSUME KeyInv, NEW n \in DOMAIN trades
  PROVE  ChargedAgain(trades[n]) \in Int /\ Spent[n] = Gained[n] + Sold[n] + Again[n]
<1> DEFINE k == trades[n]
           maker == db.transactions[k.maker]
           taker == db.transactions[k.taker]
<1>1. k \in Trade /\ Fair(db.transactions, k)
  BY BooksPlaced DEF Placed, KeyInv, TradeInv, TradesAreFair
<1>2. maker \in Order /\ taker \in Order
  BY <1>1, BooksPlaced DEF Placed, Fair
<1>3. /\ k.shares \in Int /\ k.price \in Int /\ k.price = maker.limit /\ maker.limit \in Int
      /\ taker.limit \in Int /\ maker.amount \in Int /\ taker.amount \in Int
  BY <1>1, <1>2 DEF Trade, Order, Fair
<1>4. /\ Spent[n] = k.shares * db.transactions[BuySide(k)].limit /\ Gained[n] = BuyerGain(k)
      /\ Sold[n] = k.shares * k.price /\ Again[n] = ChargedAgain(k)
  BY DEF Spent, Gained, Sold, Again
<1>5. CASE maker.amount < 0
  <2>1. BuySide(k) = k.taker /\ ChargedAgain(k) = 0
    BY <1>3, <1>5 DEF BuySide, ChargedAgain
  <2>2. BuyerGain(k) = k.shares * (taker.limit - k.price)
    BY <2>1 DEF BuyerGain
  <2>3. k.shares * taker.limit = k.shares * (taker.limit - k.price) + k.shares * k.price + 0
    BY ONLY <1>3
  <2> QED BY <1>4, <2>1, <2>2, <2>3
<1>6. CASE maker.amount > 0
  <2>1. BuySide(k) = k.maker /\ k.taker # k.maker /\ ChargedAgain(k) = k.shares * k.price
    BY <1>1, <1>3, <1>6 DEF BuySide, ChargedAgain, Fair
  <2>2. BuyerGain(k) = -(k.shares * k.price)
    BY <2>1 DEF BuyerGain
  <2>3. /\ k.shares * maker.limit = -(k.shares * k.price) + k.shares * k.price + k.shares * k.price
        /\ k.shares * k.price \in Int
    BY ONLY <1>3
  <2> QED BY <1>4, <2>1, <2>2, <2>3
<1> QED BY <1>1, <1>3, <1>5, <1>6 DEF Fair

\* With a thread count of 1 shares are neither created nor lost, for every set of
\* accounts, symbols and requests: what is held and what the open sells have set aside is
\* what was granted, although a match, a cancellation and the order's own row each move
\* a part of it in statements of their own
\* (handle_command.cpp:144, 157, 363, 427, 480, 587, 649, 842).
THEOREM OneWorkerShares == ASSUME NEW w, Thread = {w} PROVE Spec => []SharesConserved
<1>1. WhileUp(w) /\ ExactInv => SharesConserved
  <2> SUFFICES ASSUME OrdersInv(w), ExactInv, AllSent
               PROVE  SumFunction(db.positions) - SumFunction(OnOffers) = SumFunction(paidIn.shares)
    BY DEF SharesConserved, SumOver, OnOffers, WhileUp
  <2>1. alive /\ Placed
    BY BooksPlaced DEF OrdersInv, SoloInv, ExactInv
  <2>2. SumFunction(db.positions)
          = SumFunction(paidIn.shares) + SumFunction(Offers) + SumFunction(Exchanged)
            + SumFunction(Returned)
    BY <2>1, SharesTotal
  <2>3. SumFunction(OnOffers)
          = SumFunction(Offers) + SumFunction(Returned) + SumFunction(Exchanged)
    BY OrdersTotal
  <2>4. /\ SumFunction(Offers) \in Int /\ SumFunction(Returned) \in Int
        /\ SumFunction(Exchanged) \in Int
    BY <2>1, TotalsInt, TotalInt
  <2>5. SumFunction(paidIn.shares) \in Int
    <3>1. Summable(paidIn.shares)
      BY FinitenessAssumption, FS_Product
         DEF ExactInv, KeyInv, TradeInv, TypeOK, Summable
    <3> QED BY <3>1, TotalInt
  <2> QED BY ONLY <2>2, <2>3, <2>4, <2>5
<1> QED BY <1>1, OrdersAlways, ExactAlways, PTL

\* With a thread count of 1 money is never created, for every set of accounts, symbols
\* and requests, and all that is missing of what was paid in is what resting buys were
\* charged a second time for (handle_command.cpp:270, 369, 382, 579, 592, 655, 835).
THEOREM OneWorkerMoney == ASSUME NEW w, Thread = {w} PROVE Spec => []MoneyAudit
<1>1. WhileUp(w) /\ ExactInv => MoneyAudit
  <2> SUFFICES ASSUME OrdersInv(w), ExactInv, AllSent
               PROVE  SumFunction(db.accounts) + SumFunction(Escrows) + SumFunction(Again)
                        = SumFunction(paidIn.cash)
    BY DEF MoneyAudit, SumOver, Escrows, Again, WhileUp
  <2>1. alive /\ Placed /\ KeyInv
    BY BooksPlaced DEF OrdersInv, SoloInv, ExactInv
  <2>2. SumFunction(db.accounts) + SumFunction(Charged)
          = SumFunction(paidIn.cash) + SumFunction(Gained) + SumFunction(Sold)
            + SumFunction(Refunded)
    BY <2>1, CashTotal
  <2>3. /\ Summable(Escrows)
        /\ SumFunction(Charged) = SumFunction(Escrows) + SumFunction(Refunded) + SumFunction(Spent)
    BY OrdersTotal
  <2>4. /\ Summable(Again)
        /\ SumFunction(Spent) = SumFunction(Gained) + SumFunction(Sold) + SumFunction(Again)
    <3>1. /\ Summable(Gained) /\ DOMAIN Gained = DOMAIN trades
          /\ Summable(Sold) /\ DOMAIN Sold = DOMAIN trades
          /\ DOMAIN Again = DOMAIN trades /\ DOMAIN Spent = DOMAIN trades
      BY <2>1, TotalsInt DEF Gained, Sold, Again, Spent
    <3>2. \A n \in DOMAIN trades : Again[n] \in Int /\ Spent[n] = Gained[n] + Sold[n] + Again[n]
      BY <2>1, MatchAudited DEF Again
    <3>3. Summable(Again)
      BY <3>1, <3>2 DEF Summable
    <3> QED BY ONLY <3>1, <3>2, <3>3, TotalParts
  <2>5. /\ SumFunction(Gained) \in Int /\ SumFunction(Sold) \in Int /\ SumFunction(Again) \in Int
        /\ SumFunction(Refunded) \in Int /\ SumFunction(Escrows) \in Int
        /\ SumFunction(Charged) \in Int
    BY <2>1, <2>3, <2>4, TotalsInt, TotalInt
  <2>6. SumFunction(paidIn.cash) \in Int /\ SumFunction(db.accounts) \in Int
    <3>1. Summable(paidIn.cash)
      BY FinitenessAssumption DEF ExactInv, KeyInv, TradeInv, TypeOK, Summable
    <3>2. Summable(db.accounts)
      BY FinitenessAssumption, FS_Subset
         DEF ExactInv, KeyInv, TradeInv, TypeOK, IsDatabase, IsTable, Summable
    <3> QED BY <3>1, <3>2, TotalInt
  <2>7. SumFunction(Charged)
          = SumFunction(Escrows) + SumFunction(Refunded)
            + (SumFunction(Gained) + SumFunction(Sold) + SumFunction(Again))
    BY <2>3, <2>4
  <2> DEFINE m == SumFunction(db.accounts)
             c == SumFunction(Charged)
             p == SumFunction(paidIn.cash)
             g == SumFunction(Gained)
             s == SumFunction(Sold)
             r == SumFunction(Refunded)
             e == SumFunction(Escrows)
             n == SumFunction(Again)
  <2>8. m + c = p + g + s + r /\ c = e + r + (g + s + n)
    BY <2>2, <2>7
  <2>9. /\ m \in Int /\ c \in Int /\ p \in Int /\ g \in Int
        /\ s \in Int /\ r \in Int /\ e \in Int /\ n \in Int
    BY <2>5, <2>6
  <2> HIDE DEF m, c, p, g, s, r, e, n
  <2>10. m + e + n = p
    BY ONLY <2>8, <2>9
  <2> QED BY <2>10 DEF m, e, n, p
<1> QED BY <1>1, OrdersAlways, ExactAlways, PTL
=============================================================================
