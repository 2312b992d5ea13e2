----------------------------- MODULE LedgerProofs -----------------------------
(***************************************************************************)
(* The sums of the exchange add up for every set of threads and requests:  *)
(* balances, positions and executions are what the orders, the matches and *)
(* the cancellations make of what was paid in, whatever order the UPDATEs  *)
(* of different workers are sent in.                                       *)
(*                                                                         *)
(* Every match and every cancellation composes statements that together    *)
(* are worth the entry it makes in the ledger, every statement sent is     *)
(* worth to the tables what it was worth on its way to them, and an UPDATE *)
(* always finds its row (KeyInv).  What is on its way is therefore part of *)
(* each sum, and each step moves as much on one side as on the other.      *)
(***************************************************************************)
EXTENDS ExchangeProofs, SumProofs

-----------------------------------------------------------------------------
(* Sums over sequences and over the workers' queues.                       *)

\* The sum over the elements of s of their values by e.
Over(s, e) == SumFunction([k \in DOMAIN s |-> e[s[k]]])

\* The elements of s have integer values.
Valued(s, e) == \A k \in DOMAIN s : e[s[k]] \in Int

\* The sum over everything queued in P.
Sending(P, e) == SumFunction([t \in Thread |-> Over(P[t], e)])

LEMMA OverInt ==
  ASSUME NEW T, NEW s \in Seq(T), NEW e, Valued(s, e)
  PROVE  Summable([k \in DOMAIN s |-> e[s[k]]]) /\ Over(s, e) \in Int
<1>1. DOMAIN s = 1..Len(s) /\ 1 \in Int /\ Len(s) \in Int
  BY LenProperties
<1>2. IsFiniteSet(DOMAIN s)
  BY <1>1, FS_Interval, Zenon
<1>3. Summable([k \in DOMAIN s |-> e[s[k]]])
  BY <1>2 DEF Summable, Valued
<1> QED BY <1>3, TotalInt DEF Over

LEMMA OverNone == ASSUME NEW e PROVE Over(<< >>, e) = 0
<1>1. DOMAIN [k \in DOMAIN << >> |-> e[<< >>[k]]] = {}
  OBVIOUS
<1> QED BY <1>1, TotalNone DEF Over

LEMMA OverAppend ==
  ASSUME NEW T, NEW s \in Seq(T), NEW x \in T, NEW e, Valued(s, e), e[x] \in Int
  PROVE  /\ Valued(Append(s, x), e)
         /\ Over(Append(s, x), e) = Over(s, e) + e[x]
<1> DEFINE r == Append(s, x)
           n == Len(s) + 1
           f == [k \in DOMAIN s |-> e[s[k]]]
           g == [k \in DOMAIN r |-> e[r[k]]]
<1>1. /\ DOMAIN s = 1..Len(s) /\ Len(s) \in Nat
      /\ r \in Seq(T) /\ DOMAIN r = 1..n /\ r[n] = x /\ \A k \in 1..Len(s) : r[k] = s[k]
  BY LenProperties, AppendProperties
<1> HIDE DEF r
<1>2. n \notin DOMAIN s /\ DOMAIN r = DOMAIN s \cup {n} /\ \A k \in DOMAIN s : r[k] = s[k]
  BY <1>1
<1> HIDE DEF n
<1>3. /\ n \notin DOMAIN f /\ DOMAIN g = DOMAIN f \cup {n}
      /\ g[n] = e[x] /\ \A k \in DOMAIN f : g[k] = f[k]
  BY <1>1, <1>2
<1>4. Summable(f)
  BY OverInt
<1> HIDE DEF f, g
<1>5. SumFunction(g) = SumFunction(f) + g[n]
  BY <1>3, <1>4, TotalMore
<1>6. Valued(r, e)
  BY <1>1, <1>2 DEF Valued
<1> QED BY <1>3, <1>5, <1>6 DEF Over, f, g, r

LEMMA OverTail ==
  ASSUME NEW T, NEW s \in Seq(T), s # << >>, NEW e, Valued(s, e)
  PROVE  Valued(Tail(s), e) /\ Over(s, e) = e[Head(s)] + Over(Tail(s), e)
<1> DEFINE r == Tail(s)
           n == Len(s) - 1
           f == [k \in DOMAIN s |-> e[s[k]]]
           h == [k \in DOMAIN r |-> e[r[k]]]
<1>1. /\ n \in Nat /\ DOMAIN s = 1..(n + 1) /\ DOMAIN r = 1..n
      /\ Head(s) = s[1] /\ \A k \in 1..n : r[k] = s[k + 1]
  BY LenProperties, HeadTailProperties
<1> HIDE DEF n, r
<1>2. \A k \in 1..n : k + 1 \in DOMAIN s
  BY <1>1
<1>3. Valued(r, e)
  BY <1>1, <1>2 DEF Valued
<1>4. /\ DOMAIN f = 1..(n + 1) /\ \A k \in 1..(n + 1) : f[k] \in Int
      /\ DOMAIN h = 1..n /\ \A k \in 1..n : h[k] = f[k + 1]
  BY <1>1, <1>2 DEF Valued
<1>5. f[1] = e[Head(s)]
  BY <1>1
<1> HIDE DEF f, h
<1>6. SumFunction(f) = f[1] + SumFunction(h)
  <2>1. n \in Nat
    BY <1>1
  <2> QED BY <2>1, <1>4, TotalTail, Zenon
<1> QED BY <1>3, <1>5, <1>6 DEF Over, f, h, r

\* Only the values count.
LEMMA OverSame ==
  ASSUME NEW s, NEW r, DOMAIN r = DOMAIN s, NEW e, NEW g, \A k \in DOMAIN s : g[r[k]] = e[s[k]]
  PROVE  Over(r, g) = Over(s, e)
<1>1. [k \in DOMAIN r |-> g[r[k]]] = [k \in DOMAIN s |-> e[s[k]]]
  OBVIOUS
<1> QED BY <1>1 DEF Over

LEMMA OverTwo ==
  ASSUME NEW a, NEW b, NEW e, e[a] \in Int, e[b] \in Int
  PROVE  Over(<< a, b >>, e) = e[a] + e[b]
<1> DEFINE f == [k \in DOMAIN << a, b >> |-> e[<< a, b >>[k]]]
<1>1. DOMAIN f = 1..2 /\ f[1] = e[a] /\ f[2] = e[b]
  OBVIOUS
<1> HIDE DEF f
<1>2. SumFunction(f) = f[1] + f[2]
  BY <1>1, TotalTwo
<1> QED BY <1>1, <1>2 DEF Over, f

LEMMA OverThree ==
  ASSUME NEW a, NEW b, NEW c, NEW e, e[a] \in Int, e[b] \in Int, e[c] \in Int
  PROVE  Over(<< a, b, c >>, e) = e[a] + e[b] + e[c]
<1> DEFINE f == [k \in DOMAIN << a, b, c >> |-> e[<< a, b, c >>[k]]]
<1>1. DOMAIN f = 1..3 /\ f[1] = e[a] /\ f[2] = e[b] /\ f[3] = e[c]
  OBVIOUS
<1> HIDE DEF f
<1>2. SumFunction(f) = f[1] + f[2] + f[3]
  BY <1>1, TotalThree
<1> QED BY <1>1, <1>2 DEF Over, f

LEMMA OverSeven ==
  ASSUME NEW a, NEW b, NEW c, NEW d, NEW x, NEW y, NEW z, NEW e,
         \A st \in {a, b, c, d, x, y, z} : e[st] \in Int
  PROVE  Over(<< a, b, c, d >> \o << x, y, z >>, e)
           = e[a] + e[b] + e[c] + e[d] + e[x] + e[y] + e[z]
<1> DEFINE s == << a, b, c, d >> \o << x, y, z >>
           f == [k \in DOMAIN s |-> e[s[k]]]
<1>1. /\ DOMAIN s = 1..7
      /\ s[1] = a /\ s[2] = b /\ s[3] = c /\ s[4] = d /\ s[5] = x /\ s[6] = y /\ s[7] = z
  OBVIOUS
<1> HIDE DEF s
<1>2. /\ DOMAIN f = 1..7 /\ f[1] = e[a] /\ f[2] = e[b] /\ f[3] = e[c] /\ f[4] = e[d]
      /\ f[5] = e[x] /\ f[6] = e[y] /\ f[7] = e[z]
  BY <1>1
<1> HIDE DEF f
<1>3. \A k \in 1..7 : f[k] \in Int
  BY <1>2
<1>4. SumFunction(f) = f[1] + f[2] + f[3] + f[4] + f[5] + f[6] + f[7]
  BY <1>2, <1>3, TotalSeven
<1> QED BY <1>2, <1>4 DEF Over, f, s

\* When one worker's queue changes, so does the sum, by as much.
LEMMA SendingOne ==
  ASSUME NEW P, NEW Q, NEW e, NEW g, NEW t \in Thread,
         \A u \in Thread : Over(P[u], e) \in Int,
         \A u \in Thread \ {t} : Over(Q[u], g) = Over(P[u], e),
         Over(Q[t], g) \in Int
  PROVE  /\ Sending(P, e) \in Int
         /\ Sending(Q, g) \in Int
         /\ Sending(Q, g) = Sending(P, e) - Over(P[t], e) + Over(Q[t], g)
<1> DEFINE v == [u \in Thread |-> Over(P[u], e)]
           w == [u \in Thread |-> Over(Q[u], g)]
<1>1. Summable(v) /\ DOMAIN v = Thread /\ DOMAIN w = Thread
  BY FinitenessAssumption DEF Summable
<1>2. w[t] \in Int /\ v[t] = Over(P[t], e) /\ w[t] = Over(Q[t], g)
      /\ \A u \in Thread : u # t => w[u] = v[u]
  OBVIOUS
<1> HIDE DEF v, w
<1>3. Summable(w) /\ SumFunction(w) = SumFunction(v) - v[t] + w[t]
  BY <1>1, <1>2, TotalChange
<1>4. SumFunction(v) \in Int /\ SumFunction(w) \in Int
  BY <1>1, <1>3, TotalInt
<1> QED BY <1>2, <1>3, <1>4 DEF Sending, v, w

LEMMA SendingInt ==
  ASSUME NEW P, NEW e, \A t \in Thread : Over(P[t], e) \in Int
  PROVE  Sending(P, e) \in Int
<1> DEFINE f == [t \in Thread |-> Over(P[t], e)]
<1>1. Summable(f)
  BY FinitenessAssumption DEF Summable
<1> QED BY <1>1, TotalInt DEF Sending

-----------------------------------------------------------------------------
(* The quantities the ledgers are about, and their entries.                *)

\* The balance of an account, a position, and the number and the shares of the
\* executions of an order.
Quantity ==       [of : {"cash"}, key : Account]
             \cup [of : {"shares"}, key : Account \X Symbol]
             \cup [of : {"count", "moved"}, key : Nat]

Balance(a) == IF a \in DOMAIN db.accounts THEN db.accounts[a] ELSE 0
Held(p)    == IF p \in DOMAIN db.positions THEN db.positions[p] ELSE 0

\* What the row of an account or a position, and one of the other tables, count
\* for q.
Base(q)             == CASE q.of = "cash"   -> Balance(q.key)
                         [] q.of = "shares" -> Held(q.key)
                         [] OTHER           -> 0
OrderEntry(o, q)    == CASE q.of = "cash"   -> SetAside(o, q.key)
                         [] q.of = "shares" -> -Offered(o, q.key)
                         [] OTHER           -> 0
CanceledEntry(c, q) == CASE q.of = "cash"   -> -Refund(c, q.key)
                         [] q.of = "shares" -> -SharesBack(c, q.key)
                         [] OTHER           -> 0
ExecutedEntry(x, q) == CASE q.of = "count"  -> RowCount(x, q.key)
                         [] q.of = "moved"  -> RowShares(x, q.key)
                         [] OTHER           -> 0

\* What a match is worth to q, and what a statement underway will be.
TradeEntry(k, q) == CASE q.of = "cash"   -> Proceeds(k, q.key)
                      [] q.of = "shares" -> Bought(k, q.key)
                      [] q.of = "count"  -> LegCount(k, q.key)
                      [] q.of = "moved"  -> LegShares(k, q.key)
Due(st, q)       == CASE q.of = "cash"   -> CashDue(st, q.key)
                      [] q.of = "shares" -> SharesDue(st, q.key)
                      [] q.of = "count"  -> CountDue(st, q.key)
                      [] q.of = "moved"  -> MovedDue(st, q.key)

\* What create requests were promised of q.
Paid(q) == CASE q.of = "cash"   -> paidIn.cash[q.key]
             [] q.of = "shares" -> paidIn.shares[q.key]
             [] OTHER           -> 0

OrderEntries(q)    == [o \in Order |-> OrderEntry(o, q)]
CanceledEntries(q) == [c \in Cancellation |-> CanceledEntry(c, q)]
ExecutedEntries(q) == [x \in Execution |-> ExecutedEntry(x, q)]
TradeEntries(q)    == [k \in Trade |-> TradeEntry(k, q)]
Dues(q)            == [st \in Statement |-> Due(st, q)]

\* q in the tables, with what is on its way to them, and without the matches.
InTables(q) == Base(q) + Over(db.transactions, OrderEntries(q))
                       + Over(db.canceled_trans, CanceledEntries(q))
                       + Over(db.executed_trans, ExecutedEntries(q))
Unmatched(q) == InTables(q) + Sending(pending, Dues(q)) - Over(trades, TradeEntries(q))

\* What a statement is worth to q, by what it does.
Worth(st, q) == CASE st.op = "updateBalance"     -> IF q.of = "cash" /\ q.key = st.account
                                                    THEN st.add ELSE 0
                  [] st.op = "updatePosition"    -> IF /\ q.of = "shares"
                                                       /\ q.key = <<st.account, st.symbol>>
                                                    THEN st.add ELSE 0
                  [] st.op = "insertTransaction" -> OrderEntry(st.row, q)
                  [] st.op = "insertCanceled"    -> CanceledEntry(st.row, q)
                  [] st.op = "insertExecuted"    -> ExecutedEntry(st.row, q)
                  [] OTHER                       -> 0

LEMMA DueByStatement == \A q \in Quantity : \A st : Due(st, q) = Worth(st, q)
<1> SUFFICES ASSUME NEW q \in Quantity, NEW st PROVE Due(st, q) = Worth(st, q)
  OBVIOUS
<1>1. CASE q.of = "cash"
  BY <1>1 DEF Worth, Due, CashDue, OrderEntry, CanceledEntry, ExecutedEntry
<1>2. CASE q.of = "shares"
  BY <1>2 DEF Worth, Due, SharesDue, OrderEntry, CanceledEntry, ExecutedEntry, IsIn
<1>3. CASE q.of = "count"
  BY <1>3 DEF Worth, Due, CountDue, OrderEntry, CanceledEntry, ExecutedEntry
<1>4. CASE q.of = "moved"
  BY <1>4 DEF Worth, Due, MovedDue, OrderEntry, CanceledEntry, ExecutedEntry
<1> QED BY <1>1, <1>2, <1>3, <1>4 DEF Quantity

\* After a step, too.
LEMMA DueByStatementNext == (\A q \in Quantity : \A st : Due(st, q) = Worth(st, q))'
BY DueByStatement, PTL

\* Entries are integers, where the orders they name are there.
LEMMA EntriesInt ==
  ASSUME TypeOK, NEW q \in Quantity
  PROVE  /\ \A o \in Order : OrderEntry(o, q) \in Int
         /\ \A x \in Execution : ExecutedEntry(x, q) \in Int
         /\ \A c \in Cancellation : c.id \in DOMAIN db.transactions => CanceledEntry(c, q) \in Int
         /\ \A k \in Trade : {k.maker, k.taker} \subseteq DOMAIN db.transactions
                               => TradeEntry(k, q) \in Int
<1>1. \A i \in DOMAIN db.transactions : db.transactions[i] \in Order
  BY TypeParts, ElementOfSeq DEF EngineTyped, IsDatabase
<1>2. \A o \in Order : OrderEntry(o, q) \in Int
  BY DEF OrderEntry, SetAside, Offered, Order, Quantity
<1>3. \A x \in Execution : ExecutedEntry(x, q) \in Int
  BY DEF ExecutedEntry, RowCount, RowShares, Execution, Quantity
<1>4. ASSUME NEW c \in Cancellation, c.id \in DOMAIN db.transactions
      PROVE  CanceledEntry(c, q) \in Int
  <2>1. db.transactions[c.id].limit \in Int /\ c.shares \in Int
    BY <1>1, <1>4 DEF Order, Cancellation
  <2>2. Refund(c, q.key) \in Int /\ SharesBack(c, q.key) \in Int
    BY <2>1 DEF Refund, SharesBack
  <2> QED BY <2>2 DEF CanceledEntry
<1>5. ASSUME NEW k \in Trade, {k.maker, k.taker} \subseteq DOMAIN db.transactions
      PROVE  TradeEntry(k, q) \in Int
  <2>1. k.shares \in Int /\ k.price \in Int /\ db.transactions[k.taker].limit \in Int
    BY <1>1, <1>5 DEF Order, Trade
  <2>2. Proceeds(k, q.key) \in Int
    BY <2>1 DEF Proceeds, BuyerGain
  <2>3. Bought(k, q.key) \in Int /\ LegCount(k, q.key) \in Int /\ LegShares(k, q.key) \in Int
    BY <2>1 DEF Bought, LegCount, LegShares
  <2> QED BY <2>2, <2>3 DEF TradeEntry, Quantity
<1> QED BY <1>2, <1>3, <1>4, <1>5

\* All the sums are of integers.
SumsTyped(q) ==
  /\ db.transactions \in Seq(Order) /\ Valued(db.transactions, OrderEntries(q))
  /\ db.canceled_trans \in Seq(Cancellation) /\ Valued(db.canceled_trans, CanceledEntries(q))
  /\ db.executed_trans \in Seq(Execution) /\ Valued(db.executed_trans, ExecutedEntries(q))
  /\ trades \in Seq(Trade) /\ Valued(trades, TradeEntries(q))
  /\ pending \in [Thread -> Seq(Statement)] /\ \A t \in Thread : Valued(pending[t], Dues(q))
  /\ Base(q) \in Int

LEMMA SumsAreTyped == KeyInv => \A q \in Quantity : SumsTyped(q)
<1> SUFFICES ASSUME KeyInv, NEW q \in Quantity PROVE SumsTyped(q)
  OBVIOUS
<1>1. TypeOK /\ IsDatabase(db) /\ PendingTyped /\ trades \in Seq(Trade)
  BY TypeParts DEF KeyInv, TradeInv, EngineTyped, HistoryTyped
<1>2. db.transactions \in Seq(Order) /\ Valued(db.transactions, OrderEntries(q))
  BY <1>1, EntriesInt, ElementOfSeq DEF IsDatabase, Valued, OrderEntries
<1>3. db.canceled_trans \in Seq(Cancellation) /\ Valued(db.canceled_trans, CanceledEntries(q))
  BY <1>1, EntriesInt, ElementOfSeq
     DEF IsDatabase, Valued, CanceledEntries, KeyInv, ForeignKeysHold
<1>4. db.executed_trans \in Seq(Execution) /\ Valued(db.executed_trans, ExecutedEntries(q))
  BY <1>1, EntriesInt, ElementOfSeq DEF IsDatabase, Valued, ExecutedEntries
<1>5. Valued(trades, TradeEntries(q))
  BY <1>1, EntriesInt, ElementOfSeq DEF Valued, TradeEntries, KeyInv, TradeInv, TradesAreFair, Fair
<1>6. ASSUME NEW t \in Thread PROVE Valued(pending[t], Dues(q))
  <2> SUFFICES ASSUME NEW k \in DOMAIN pending[t] PROVE Dues(q)[pending[t][k]] \in Int
    BY DEF Valued
  <2> DEFINE st == pending[t][k]
  <2>1. pending[t] \in Seq(Statement)
    BY <1>1 DEF PendingTyped
  <2>2. st \in Statement
    BY <2>1, ElementOfSeq
  <2>3. NamesRows(st, db)
    BY DEF KeyInv, KnowsRows, SentNamesRows
  <2> HIDE DEF st
  <2>4. Due(st, q) \in Int
    BY <1>1, <2>2, <2>3, EntriesInt, DueByStatement DEF Statement, NamesRows, Worth
  <2> QED BY <2>2, <2>4 DEF Dues, st
<1>7. Base(q) \in Int
  BY <1>1 DEF Base, Balance, Held, IsDatabase, IsTable, Quantity
<1> QED BY <1>1, <1>2, <1>3, <1>4, <1>5, <1>6, <1>7 DEF SumsTyped, PendingTyped

\* After a step, too.
LEMMA SumsAreTypedNext == (KeyInv => \A q \in Quantity : SumsTyped(q))'
BY SumsAreTyped, PTL

\* So are the sums.
IntegerSums(q) ==
  /\ Over(db.transactions, OrderEntries(q)) \in Int
  /\ Over(db.canceled_trans, CanceledEntries(q)) \in Int
  /\ Over(db.executed_trans, ExecutedEntries(q)) \in Int
  /\ Over(trades, TradeEntries(q)) \in Int
  /\ \A t \in Thread : Over(pending[t], Dues(q)) \in Int
  /\ Base(q) \in Int
  /\ InTables(q) \in Int

LEMMA SumsInt == \A q : SumsTyped(q) => IntegerSums(q)
<1> SUFFICES ASSUME NEW q, SumsTyped(q) PROVE IntegerSums(q)
  OBVIOUS
<1>1. /\ Over(db.transactions, OrderEntries(q)) \in Int
      /\ Over(db.canceled_trans, CanceledEntries(q)) \in Int
      /\ Over(db.executed_trans, ExecutedEntries(q)) \in Int
      /\ Over(trades, TradeEntries(q)) \in Int
  BY OverInt DEF SumsTyped
<1>2. \A t \in Thread : Over(pending[t], Dues(q)) \in Int
  BY OverInt DEF SumsTyped
<1>3. Base(q) \in Int
  BY DEF SumsTyped
<1>4. InTables(q) \in Int
  BY ONLY <1>1, <1>3 DEF InTables
<1> QED BY <1>1, <1>2, <1>3, <1>4 DEF IntegerSums

\* After a step, too.
LEMMA SumsIntNext == (\A q : SumsTyped(q) => IntegerSums(q))'
BY SumsInt, PTL

\* While the rows stay, what entries are worth stays.
LEMMA SameEntries ==
  ASSUME NEW q, SameRows
  PROVE  /\ OrderEntries(q)' = OrderEntries(q)
         /\ CanceledEntries(q)' = CanceledEntries(q)
         /\ ExecutedEntries(q)' = ExecutedEntries(q)
         /\ TradeEntries(q)' = TradeEntries(q)
         /\ Dues(q)' = Dues(q)
<1>1. OrderEntries(q)' = OrderEntries(q) /\ ExecutedEntries(q)' = ExecutedEntries(q)
  BY DEF OrderEntries, OrderEntry, ExecutedEntries, ExecutedEntry, SetAside, Offered, RowCount, RowShares
<1>2. \A c : CanceledEntry(c, q)' = CanceledEntry(c, q)
  BY DEF SameRows, CanceledEntry, Refund, SharesBack, OwnerOf
<1>3. \A k : TradeEntry(k, q)' = TradeEntry(k, q)
  <2>1. \A k : SellSide(k)' = SellSide(k) /\ BuySide(k)' = BuySide(k)
    BY DEF SameRows, SellSide, BuySide
  <2>2. \A k : BuyerGain(k)' = BuyerGain(k)
    BY <2>1 DEF SameRows, BuyerGain
  <2> QED BY <2>1, <2>2 DEF SameRows, TradeEntry, Proceeds, Bought, LegCount, LegShares, OwnerOf
<1>4. \A st : Due(st, q)' = Due(st, q)
  BY <1>2 DEF SameRows, Due, CashDue, SharesDue, CountDue, MovedDue, Refund, SharesBack, OwnerOf
<1> QED BY <1>1, <1>2, <1>3, <1>4 DEF CanceledEntries, TradeEntries, Dues

\* No table the sums are over changes.
SameBooks(q) == /\ SameRows
                /\ UNCHANGED <<db.canceled_trans, db.executed_trans>>
                /\ Base(q)' = Base(q)

\* A step that writes, composes and matches nothing.
LEMMA QuietLedger ==
  ASSUME NEW q, SameBooks(q), UNCHANGED <<pending, trades>>
  PROVE  Unmatched(q)' = Unmatched(q)
BY SameEntries DEF SameBooks, SameRows, Unmatched, InTables

\* A step that composes statements worth the matches it decides, if any.
LEMMA ComposeLedger ==
  ASSUME KeyInv, KeyInv', NEW q \in Quantity, NEW t \in Thread, SameBooks(q), OnlyWorker(t),
         pending[t] = << >>,
         Over(trades', TradeEntries(q)) = Over(trades, TradeEntries(q)) + Over(pending'[t], Dues(q))
  PROVE  Unmatched(q)' = Unmatched(q)
<1>1. SumsTyped(q) /\ SumsTyped(q)'
  BY SumsAreTyped, SumsAreTypedNext
<1>2. Dues(q)' = Dues(q) /\ TradeEntries(q)' = TradeEntries(q) /\ InTables(q)' = InTables(q)
  BY SameEntries DEF SameBooks, SameRows, InTables
<1>3. \A u \in Thread : Over(pending[u], Dues(q)) \in Int
  BY <1>1, SumsInt DEF IntegerSums
<1>4. Over(pending'[t], Dues(q)) \in Int
  BY <1>1, <1>2, OverInt DEF SumsTyped
<1>5. \A u \in Thread \ {t} : Over(pending'[u], Dues(q)) = Over(pending[u], Dues(q))
  BY DEF OnlyWorker, SameWorker
<1>6. Over(pending[t], Dues(q)) = 0
  BY OverNone
<1>7. /\ Sending(pending, Dues(q)) \in Int /\ Sending(pending', Dues(q)) \in Int
      /\ Sending(pending', Dues(q)) = Sending(pending, Dues(q)) + Over(pending'[t], Dues(q))
  BY <1>3, <1>4, <1>5, <1>6, SendingOne
<1>8. Over(trades, TradeEntries(q)) \in Int
  BY <1>1, SumsInt DEF IntegerSums
<1>9. InTables(q) \in Int
  BY <1>1, SumsInt DEF IntegerSums
<1>10. Unmatched(q)' = InTables(q) + Sending(pending', Dues(q)) - Over(trades', TradeEntries(q))
  BY <1>2 DEF Unmatched
<1> HIDE DEF InTables, Dues, TradeEntries
<1> QED BY ONLY <1>4, <1>7, <1>8, <1>9, <1>10,
                Over(trades', TradeEntries(q)) = Over(trades, TradeEntries(q)) + Over(pending'[t], Dues(q))
          DEF Unmatched

-----------------------------------------------------------------------------
(* Sending a statement.                                                    *)

\* While the rows keep what was ordered, what the entries that name them are
\* worth stays.
LEMMA KeptEntries ==
  ASSUME TypeOK, RowsKept, NEW q \in Quantity
  PROVE  /\ \A o : OrderEntry(o, q)' = OrderEntry(o, q)
         /\ \A x : ExecutedEntry(x, q)' = ExecutedEntry(x, q)
         /\ \A c : c.id \in DOMAIN db.transactions => CanceledEntry(c, q)' = CanceledEntry(c, q)
         /\ \A k : {k.maker, k.taker} \subseteq DOMAIN db.transactions
                     => TradeEntry(k, q)' = TradeEntry(k, q)
         /\ \A st : NamesRows(st, db) => Due(st, q)' = Due(st, q)
<1>1. \A i \in DOMAIN db.transactions :
        /\ db'.transactions[i].account = db.transactions[i].account
        /\ db'.transactions[i].symbol = db.transactions[i].symbol
        /\ db'.transactions[i].limit = db.transactions[i].limit
        /\ db'.transactions[i].amount = db.transactions[i].amount
  BY TypeParts, LenProperties DEF EngineTyped, IsDatabase, RowsKept, KeepsRows
<1>2. \A o : OrderEntry(o, q)' = OrderEntry(o, q)
  BY DEF OrderEntry, SetAside, Offered
<1>3. \A x : ExecutedEntry(x, q)' = ExecutedEntry(x, q)
  BY DEF ExecutedEntry, RowCount, RowShares
<1>4. ASSUME NEW c, c.id \in DOMAIN db.transactions
      PROVE  CanceledEntry(c, q)' = CanceledEntry(c, q)
  BY <1>1, <1>4 DEF CanceledEntry, Refund, SharesBack, OwnerOf, IsIn
<1>5. ASSUME NEW k, {k.maker, k.taker} \subseteq DOMAIN db.transactions
      PROVE  TradeEntry(k, q)' = TradeEntry(k, q)
  <2>1. SellSide(k)' = SellSide(k) /\ BuySide(k)' = BuySide(k)
    BY <1>1, <1>5 DEF SellSide, BuySide
  <2>2. {SellSide(k), BuySide(k)} \subseteq DOMAIN db.transactions
    BY <1>5 DEF SellSide, BuySide
  <2>3. BuyerGain(k)' = BuyerGain(k)
    BY <1>1, <1>5, <2>1 DEF BuyerGain
  <2> QED BY <1>1, <2>1, <2>2, <2>3 DEF TradeEntry, Proceeds, Bought, LegCount, LegShares, OwnerOf, IsIn
<1>6. ASSUME NEW st, NamesRows(st, db)
      PROVE  Due(st, q)' = Due(st, q)
  <2>1. Due(st, q) = Worth(st, q) /\ Due(st, q)' = Worth(st, q)'
    BY DueByStatement, DueByStatementNext
  <2>2. st.op = "insertCanceled" => st.row.id \in DOMAIN db.transactions
    BY <1>6 DEF NamesRows
  <2> QED BY <1>2, <1>3, <1>4, <2>1, <2>2 DEF Worth
<1> QED BY <1>2, <1>3, <1>4, <1>5, <1>6

\* The statement sent, and what is left to send.
LEMMA SentStatement ==
  ASSUME KeyInv, NEW t \in Thread, Exec(t), NEW st, st = Head(pending[t])
  PROVE  /\ st \in Statement /\ NamesRows(st, db) /\ db' = Apply(st, db) /\ IsDatabase(db)
         /\ pending[t] \in Seq(Statement) /\ pending[t] # << >>
         /\ pending'[t] = Tail(pending[t]) /\ \A u \in Thread \ {t} : pending'[u] = pending[u]
         /\ RowsKept /\ UNCHANGED <<trades, alive, paidIn>>
<1>1. /\ pending[t] \in Seq(Statement) /\ pending[t] # << >> /\ IsDatabase(db)
      /\ pending'[t] = Tail(pending[t]) /\ \A u \in Thread \ {t} : pending'[u] = pending[u]
  BY TypeParts DEF KeyInv, TradeInv, EngineTyped, PendingTyped, Exec
<1>2. st \in Statement /\ st = pending[t][1] /\ 1 \in DOMAIN pending[t]
  BY <1>1, HeadTailProperties, LenProperties
<1>3. NamesRows(st, db)
  BY <1>2 DEF KeyInv, KnowsRows, SentNamesRows
<1> QED BY <1>1, <1>2, <1>3, ExecRows DEF KeyInv, Exec, history

\* An UPDATE of a balance or a position finds its row.
LEMMA ExecBase ==
  ASSUME NEW q \in Quantity, IsDatabase(db), NEW st \in Statement, NamesRows(st, db),
         db' = Apply(st, db)
  PROVE  Base(q)' = Base(q) + (IF st.op \in {"updateBalance", "updatePosition"}
                               THEN Worth(st, q) ELSE 0)
<1>0. /\ IsTable(db.accounts, Account, Int) /\ IsTable(db.positions, Account \X Symbol, Int)
      /\ "accounts" \in DOMAIN db /\ "positions" \in DOMAIN db
  BY DEF IsDatabase
<1>1. Base(q) \in Int
  BY <1>0 DEF Base, Balance, Held, IsTable, Quantity
<1>2. CASE st.op = "updateBalance"
  <2>1. /\ db'.accounts = [db.accounts EXCEPT ![st.account] = @ + st.add]
        /\ db'.positions = db.positions /\ st.account \in DOMAIN db.accounts
    BY <1>0, <1>2 DEF Apply, NamesRows
  <2> QED BY <1>1, <1>2, <2>1 DEF Base, Balance, Held, Worth, Quantity
<1>3. CASE st.op = "updatePosition"
  <2> DEFINE p == <<st.account, st.symbol>>
  <2>1. /\ db'.positions = [db.positions EXCEPT ![p] = @ + st.add]
        /\ db'.accounts = db.accounts /\ p \in DOMAIN db.positions
    BY <1>0, <1>3 DEF Apply, NamesRows
  <2>2. Worth(st, q) = IF q.of = "shares" /\ q.key = p THEN st.add ELSE 0
    BY <1>3 DEF Worth
  <2> HIDE DEF p
  <2> QED BY <1>1, <1>3, <2>1, <2>2 DEF Base, Balance, Held, Quantity
<1>4. CASE st.op \notin {"updateBalance", "updatePosition"}
  <2>1. db'.accounts = db.accounts /\ db'.positions = db.positions
    BY <1>0, <1>4 DEF Apply, Statement
  <2> QED BY <1>1, <1>4, <2>1 DEF Base, Balance, Held
<1> QED BY <1>2, <1>3, <1>4

\* A statement sent is worth to the tables what it was worth on its way to them.
LEMMA ExecTables ==
  ASSUME KeyInv, KeyInv', NEW q \in Quantity, NEW t \in Thread, Exec(t),
         NEW st, st = Head(pending[t])
  PROVE  InTables(q)' = InTables(q) + Due(st, q)
<1>1. SumsTyped(q) /\ SumsTyped(q)'
  BY SumsAreTyped, SumsAreTypedNext
<1>2. st \in Statement /\ NamesRows(st, db) /\ db' = Apply(st, db) /\ IsDatabase(db) /\ RowsKept
  BY SentStatement
<1>3. TypeOK
  BY DEF KeyInv, TradeInv
<1>4. /\ db'.transactions \in Seq(Order) /\ db.transactions \in Seq(Order)
      /\ db.canceled_trans \in Seq(Cancellation) /\ db.executed_trans \in Seq(Execution)
  BY <1>1 DEF SumsTyped
<1>5. Over(db'.transactions, OrderEntries(q)') = Over(db.transactions, OrderEntries(q))
        + (IF st.op = "insertTransaction" THEN Worth(st, q) ELSE 0)
  <2>1. OrderEntries(q)' = OrderEntries(q)
    BY <1>2, <1>3, KeptEntries DEF OrderEntries
  <2>2. CASE st.op = "insertTransaction"
    <3>1. db'.transactions = Append(db.transactions, st.row) /\ st.row \in Order
      BY <1>2, <2>2, ApplyRows DEF Statement
    <3>2. OrderEntries(q)[st.row] = Worth(st, q) /\ Worth(st, q) \in Int
      BY <1>3, <2>2, <3>1, EntriesInt DEF OrderEntries, Worth
    <3>3. Valued(db.transactions, OrderEntries(q))
      BY <1>1 DEF SumsTyped
    <3> QED BY <1>4, <2>1, <2>2, <3>1, <3>2, <3>3, OverAppend
  <2>3. CASE st.op # "insertTransaction"
    <3>1. KeepsRows(db'.transactions, db.transactions) /\ Len(db'.transactions) = Len(db.transactions)
      BY <1>2, <2>3, ApplyRows DEF SetsShares, KeepsShares
    <3>2. DOMAIN db'.transactions = DOMAIN db.transactions
      BY <1>4, <3>1, LenProperties
    <3>3. \A k \in DOMAIN db.transactions :
            OrderEntries(q)[db'.transactions[k]] = OrderEntries(q)[db.transactions[k]]
      <4> SUFFICES ASSUME NEW k \in DOMAIN db.transactions
                   PROVE  OrderEntries(q)[db'.transactions[k]] = OrderEntries(q)[db.transactions[k]]
        OBVIOUS
      <4> DEFINE o == db.transactions[k]
                 n == db'.transactions[k]
      <4>1. /\ n.account = o.account /\ n.symbol = o.symbol
            /\ n.limit = o.limit /\ n.amount = o.amount
        BY <1>4, <3>1, LenProperties DEF KeepsRows
      <4>2. o \in Order /\ n \in Order
        BY <1>4, <3>2, ElementOfSeq
      <4> HIDE DEF o, n
      <4>3. OrderEntry(n, q) = OrderEntry(o, q)
        BY <4>1 DEF OrderEntry, SetAside, Offered, IsIn
      <4> QED BY <4>2, <4>3 DEF OrderEntries, o, n
    <3>4. Over(db'.transactions, OrderEntries(q)) = Over(db.transactions, OrderEntries(q))
      BY <3>2, <3>3, OverSame
    <3> QED BY <1>1, <2>1, <2>3, <3>4, SumsInt DEF IntegerSums
  <2> QED BY <2>2, <2>3
<1>6. Over(db'.canceled_trans, CanceledEntries(q)') = Over(db.canceled_trans, CanceledEntries(q))
        + (IF st.op = "insertCanceled" THEN Worth(st, q) ELSE 0)
  <2> DEFINE n == IF st.op = "insertCanceled" THEN Worth(st, q) ELSE 0
  <2>1. db'.canceled_trans = IF st.op = "insertCanceled" THEN Append(db.canceled_trans, st.row)
                                                         ELSE db.canceled_trans
    BY <1>2, ApplyKeys
  <2>2. \A c \in Cancellation : c.id \in DOMAIN db.transactions
                                  => CanceledEntries(q)'[c] = CanceledEntries(q)[c]
    BY <1>2, <1>3, KeptEntries DEF CanceledEntries
  <2>3. \A k \in DOMAIN db.canceled_trans :
          CanceledEntries(q)'[db.canceled_trans[k]] = CanceledEntries(q)[db.canceled_trans[k]]
    <3>1. \A k \in DOMAIN db.canceled_trans :
            /\ db.canceled_trans[k] \in Cancellation
            /\ db.canceled_trans[k].id \in DOMAIN db.transactions
      BY <1>4, ElementOfSeq DEF KeyInv, ForeignKeysHold
    <3> QED BY <2>2, <3>1
  <2>4. /\ Over(db.canceled_trans, CanceledEntries(q)') = Over(db.canceled_trans, CanceledEntries(q))
        /\ Valued(db.canceled_trans, CanceledEntries(q)')
    <3>1. [k \in DOMAIN db.canceled_trans |-> CanceledEntries(q)'[db.canceled_trans[k]]]
            = [k \in DOMAIN db.canceled_trans |-> CanceledEntries(q)[db.canceled_trans[k]]]
      BY <2>3
    <3> QED BY <1>1, <2>3, <3>1 DEF Over, Valued, SumsTyped
  <2>5. CASE st.op = "insertCanceled"
    <3>1. st.row \in Cancellation /\ st.row.id \in DOMAIN db.transactions
      BY <1>2, <2>5 DEF Statement, NamesRows
    <3>2. CanceledEntries(q)[st.row] = Worth(st, q) /\ Worth(st, q) \in Int
      BY <1>3, <2>5, <3>1, EntriesInt DEF CanceledEntries, Worth
    <3>3. CanceledEntries(q)'[st.row] = Worth(st, q)
      BY <2>2, <3>1, <3>2
    <3> QED BY <1>4, <2>1, <2>4, <2>5, <3>1, <3>2, <3>3, OverAppend
  <2>6. CASE st.op # "insertCanceled"
    <3>1. Over(db.canceled_trans, CanceledEntries(q)) \in Int
      BY <1>1, SumsInt DEF IntegerSums
    <3> QED BY <2>1, <2>4, <2>6, <3>1
  <2> QED BY <2>5, <2>6
<1>7. Over(db'.executed_trans, ExecutedEntries(q)') = Over(db.executed_trans, ExecutedEntries(q))
        + (IF st.op = "insertExecuted" THEN Worth(st, q) ELSE 0)
  <2>1. db'.executed_trans = IF st.op = "insertExecuted" THEN Append(db.executed_trans, st.row)
                                                         ELSE db.executed_trans
    BY <1>2, ApplyKeys
  <2>2. ExecutedEntries(q)' = ExecutedEntries(q) /\ Valued(db.executed_trans, ExecutedEntries(q))
    BY <1>1, <1>2, <1>3, KeptEntries DEF ExecutedEntries, SumsTyped
  <2>3. CASE st.op = "insertExecuted"
    <3>1. /\ st.row \in Execution
          /\ ExecutedEntries(q)[st.row] = Worth(st, q) /\ ExecutedEntries(q)[st.row] \in Int
      BY <1>2, <1>3, <2>3, EntriesInt DEF ExecutedEntries, Worth, Statement
    <3> QED BY <1>4, <2>1, <2>2, <2>3, <3>1, OverAppend
  <2>4. CASE st.op # "insertExecuted"
    <3>1. Over(db.executed_trans, ExecutedEntries(q)) \in Int
      BY <1>1, SumsInt DEF IntegerSums
    <3> QED BY <2>1, <2>2, <2>4, <3>1
  <2> QED BY <2>3, <2>4
<1>8. Base(q)' = Base(q) + (IF st.op \in {"updateBalance", "updatePosition"}
                            THEN Worth(st, q) ELSE 0)
  BY <1>2, ExecBase
<1>9. Due(st, q) = Worth(st, q)
  BY DueByStatement
<1>10. /\ Base(q) \in Int
       /\ Over(db.transactions, OrderEntries(q)) \in Int
       /\ Over(db.canceled_trans, CanceledEntries(q)) \in Int
       /\ Over(db.executed_trans, ExecutedEntries(q)) \in Int
  BY <1>1, SumsInt DEF IntegerSums
<1>11. Worth(st, q) \in Int
  BY <1>2, <1>3, EntriesInt DEF Worth, Statement, NamesRows
<1>12. \/ st.op \in {"updateBalance", "updatePosition"} /\ st.op \notin {"insertTransaction", "insertCanceled", "insertExecuted"}
       \/ st.op = "insertTransaction" \/ st.op = "insertCanceled" \/ st.op = "insertExecuted"
       \/ /\ st.op \notin {"updateBalance", "updatePosition", "insertTransaction",
                           "insertCanceled", "insertExecuted"}
          /\ Worth(st, q) = 0
  BY DEF Worth
<1> QED BY ONLY <1>5, <1>6, <1>7, <1>8, <1>9, <1>10, <1>11, <1>12 DEF InTables

\* What is sent leaves the queue for the tables, and no sum changes.
LEMMA ExecLedger ==
  ASSUME KeyInv, KeyInv', NEW q \in Quantity, NEW t \in Thread, Exec(t)
  PROVE  Unmatched(q)' = Unmatched(q)
<1> DEFINE st == Head(pending[t])
<1>1. SumsTyped(q) /\ SumsTyped(q)'
  BY SumsAreTyped, SumsAreTypedNext
<1>2. /\ st \in Statement /\ pending[t] \in Seq(Statement) /\ pending[t] # << >>
      /\ pending'[t] = Tail(pending[t]) /\ \A u \in Thread \ {t} : pending'[u] = pending[u]
      /\ RowsKept /\ UNCHANGED trades
  BY SentStatement
<1>3. InTables(q)' = InTables(q) + Due(st, q)
  BY ExecTables
<1>4. TypeOK
  BY DEF KeyInv, TradeInv
<1> HIDE DEF st
<1>5. ASSUME NEW s \in Seq(Statement), \A k \in DOMAIN s : NamesRows(s[k], db)
      PROVE  Over(s, Dues(q)') = Over(s, Dues(q))
  <2>1. \A x \in Statement : NamesRows(x, db) => Dues(q)'[x] = Dues(q)[x]
    BY <1>2, <1>4, KeptEntries DEF Dues
  <2>2. \A k \in DOMAIN s : s[k] \in Statement
    BY <1>5, ElementOfSeq
  <2>3. [k \in DOMAIN s |-> Dues(q)'[s[k]]] = [k \in DOMAIN s |-> Dues(q)[s[k]]]
    BY <1>5, <2>1, <2>2
  <2> QED BY <2>3 DEF Over
<1>6. Over(trades, TradeEntries(q)') = Over(trades, TradeEntries(q))
  <2>1. \A k \in DOMAIN trades :
          /\ trades[k] \in Trade
          /\ {trades[k].maker, trades[k].taker} \subseteq DOMAIN db.transactions
    BY <1>1, ElementOfSeq DEF SumsTyped, KeyInv, TradeInv, TradesAreFair, Fair
  <2>2. \A k \in DOMAIN trades : TradeEntry(trades[k], q)' = TradeEntry(trades[k], q)
    BY <1>2, <1>4, <2>1, KeptEntries
  <2>3. [k \in DOMAIN trades |-> TradeEntries(q)'[trades[k]]]
          = [k \in DOMAIN trades |-> TradeEntries(q)[trades[k]]]
    BY <1>2, <2>1, <2>2 DEF TradeEntries
  <2> QED BY <2>3 DEF Over
<1>7. Over(pending[t], Dues(q)) = Due(st, q) + Over(Tail(pending[t]), Dues(q))
  <2>1. Valued(pending[t], Dues(q)) /\ Dues(q)[st] = Due(st, q)
    BY <1>1, <1>2 DEF SumsTyped, Dues
  <2> QED BY <1>2, <2>1, OverTail DEF st
<1>8. Over(pending'[t], Dues(q)') = Over(Tail(pending[t]), Dues(q))
  <2>1. \A k \in DOMAIN Tail(pending[t]) :
          k + 1 \in DOMAIN pending[t] /\ Tail(pending[t])[k] = pending[t][k + 1]
    BY <1>2, HeadTailProperties, LenProperties
  <2>2. \A k \in DOMAIN Tail(pending[t]) : NamesRows(Tail(pending[t])[k], db)
    BY <2>1 DEF KeyInv, KnowsRows, SentNamesRows
  <2>3. Tail(pending[t]) \in Seq(Statement)
    BY <1>2, HeadTailProperties
  <2> QED BY <1>2, <1>5, <2>2, <2>3
<1>9. \A u \in Thread \ {t} : Over(pending'[u], Dues(q)') = Over(pending[u], Dues(q))
  <2> SUFFICES ASSUME NEW u \in Thread \ {t}
               PROVE  Over(pending'[u], Dues(q)') = Over(pending[u], Dues(q))
    OBVIOUS
  <2>1. pending[u] \in Seq(Statement) /\ \A k \in DOMAIN pending[u] : NamesRows(pending[u][k], db)
    BY <1>1 DEF SumsTyped, KeyInv, KnowsRows, SentNamesRows
  <2> QED BY <1>2, <1>5, <2>1
<1>10. /\ \A u \in Thread : Over(pending[u], Dues(q)) \in Int
       /\ Over(pending'[t], Dues(q)') \in Int
       /\ InTables(q) \in Int /\ InTables(q)' \in Int /\ Over(trades, TradeEntries(q)) \in Int
  BY <1>1, SumsInt, SumsIntNext DEF IntegerSums
<1>11. /\ Sending(pending, Dues(q)) \in Int
       /\ Sending(pending', Dues(q)')
            = Sending(pending, Dues(q)) - Over(pending[t], Dues(q)) + Over(pending'[t], Dues(q)')
  <2> DEFINE e == Dues(q)
             g == Dues(q)'
             Q == pending'
  <2>1. /\ \A u \in Thread : Over(pending[u], e) \in Int
        /\ \A u \in Thread \ {t} : Over(Q[u], g) = Over(pending[u], e)
        /\ Over(Q[t], g) \in Int
    BY <1>9, <1>10
  <2> HIDE DEF e, g, Q
  <2>2. Sending(pending, e) \in Int /\ Sending(Q, g) = Sending(pending, e) - Over(pending[t], e) + Over(Q[t], g)
    BY <2>1, SendingOne
  <2> QED BY <2>2 DEF e, g, Q
<1>12. Due(st, q) \in Int
  <2>1. pending[t][1] = st /\ 1 \in DOMAIN pending[t] /\ Dues(q)[st] = Due(st, q)
    BY <1>2, HeadTailProperties, LenProperties DEF st, Dues
  <2> QED BY <1>1, <2>1 DEF SumsTyped, Valued
<1>13. /\ Unmatched(q) = InTables(q) + Sending(pending, Dues(q)) - Over(trades, TradeEntries(q))
       /\ Unmatched(q)' = InTables(q)' + Sending(pending', Dues(q)') - Over(trades, TradeEntries(q))
  BY <1>2, <1>6 DEF Unmatched
<1> QED BY ONLY <1>3, <1>7, <1>8, <1>10, <1>11, <1>12, <1>13, t \in Thread

-----------------------------------------------------------------------------
(* Composing statements.                                                   *)

\* What each statement composed will be worth.
LEMMA StatementsWorth ==
  ASSUME NEW q \in Quantity
  PROVE  /\ \A a \in Account, n \in Int :
              /\ UpdateBalance(a, n) \in Statement
              /\ Dues(q)[UpdateBalance(a, n)] = IF q.of = "cash" /\ q.key = a THEN n ELSE 0
         /\ \A a \in Account, s \in Symbol, n \in Int :
              /\ UpdatePosition(a, s, n) \in Statement
              /\ Dues(q)[UpdatePosition(a, s, n)] =
                   IF q.of = "shares" /\ q.key = <<a, s>> THEN n ELSE 0
         /\ \A i \in Nat, n \in Int :
              /\ Dues(q)[UpdateShares(i, n)] = 0
              /\ Dues(q)[UpdateExecuted(i, n)] = 0
              /\ Dues(q)[UpdateCanceled(i)] = 0
         /\ \A o \in Order : Dues(q)[InsertTransaction(o)] = OrderEntry(o, q)
         /\ \A i \in Nat, price \in Int, n \in Int :
              Dues(q)[InsertExecuted(i, price, n)] =
                IF q.of = "count" THEN (IF q.key = i THEN 1 ELSE 0)
                ELSE IF q.of = "moved" THEN (IF q.key = i THEN n ELSE 0)
                ELSE 0
         /\ \A i \in Nat, n \in Int :
              Dues(q)[InsertCanceled(i, n)] = CanceledEntry([id |-> i, shares |-> n], q)
<1>0. \A st \in Statement : Dues(q)[st] = Worth(st, q)
  BY DueByStatement DEF Dues
<1>1. ASSUME NEW a \in Account, NEW n \in Int
      PROVE  /\ UpdateBalance(a, n) \in Statement
             /\ Dues(q)[UpdateBalance(a, n)] = IF q.of = "cash" /\ q.key = a THEN n ELSE 0
  <2>1. UpdateBalance(a, n) \in Statement
    BY DEF Statement, UpdateBalance
  <2>2. Worth(UpdateBalance(a, n), q) = IF q.of = "cash" /\ q.key = a THEN n ELSE 0
    BY DEF Worth, UpdateBalance
  <2> QED BY <1>0, <2>1, <2>2
<1>2. ASSUME NEW a \in Account, NEW s \in Symbol, NEW n \in Int
      PROVE  /\ UpdatePosition(a, s, n) \in Statement
             /\ Dues(q)[UpdatePosition(a, s, n)] =
                  IF q.of = "shares" /\ q.key = <<a, s>> THEN n ELSE 0
  <2>1. UpdatePosition(a, s, n) \in Statement
    BY DEF Statement, UpdatePosition
  <2>2. Worth(UpdatePosition(a, s, n), q) = IF q.of = "shares" /\ q.key = <<a, s>> THEN n ELSE 0
    BY DEF Worth, UpdatePosition
  <2> QED BY <1>0, <2>1, <2>2
<1>3. ASSUME NEW i \in Nat, NEW n \in Int
      PROVE  /\ Dues(q)[UpdateShares(i, n)] = 0
             /\ Dues(q)[UpdateExecuted(i, n)] = 0
             /\ Dues(q)[UpdateCanceled(i)] = 0
  <2>1. {UpdateShares(i, n), UpdateExecuted(i, n), UpdateCanceled(i)} \subseteq Statement
    BY DEF Statement, UpdateShares, UpdateExecuted, UpdateCanceled
  <2>2. \A st \in {UpdateShares(i, n), UpdateExecuted(i, n), UpdateCanceled(i)} : Worth(st, q) = 0
    BY DEF Worth, UpdateShares, UpdateExecuted, UpdateCanceled
  <2> QED BY <1>0, <2>1, <2>2
<1>4. ASSUME NEW o \in Order PROVE Dues(q)[InsertTransaction(o)] = OrderEntry(o, q)
  <2>1. InsertTransaction(o) \in Statement
    BY DEF Statement, InsertTransaction
  <2>2. Worth(InsertTransaction(o), q) = OrderEntry(o, q)
    BY DEF Worth, InsertTransaction
  <2> QED BY <1>0, <2>1, <2>2
<1>5. ASSUME NEW i \in Nat, NEW price \in Int, NEW n \in Int
      PROVE  Dues(q)[InsertExecuted(i, price, n)] =
               IF q.of = "count" THEN (IF q.key = i THEN 1 ELSE 0)
               ELSE IF q.of = "moved" THEN (IF q.key = i THEN n ELSE 0)
               ELSE 0
  <2>1. InsertExecuted(i, price, n) \in Statement
    BY DEF Statement, InsertExecuted, Execution
  <2>2. Worth(InsertExecuted(i, price, n), q) =
          IF q.of = "count" THEN (IF q.key = i THEN 1 ELSE 0)
          ELSE IF q.of = "moved" THEN (IF q.key = i THEN n ELSE 0)
          ELSE 0
    BY DEF Worth, InsertExecuted, ExecutedEntry, RowCount, RowShares, Quantity
  <2> QED BY <1>0, <2>1, <2>2
<1>6. ASSUME NEW i \in Nat, NEW n \in Int
      PROVE  Dues(q)[InsertCanceled(i, n)] = CanceledEntry([id |-> i, shares |-> n], q)
  <2>1. InsertCanceled(i, n) \in Statement
    BY DEF Statement, InsertCanceled, Cancellation
  <2>2. Worth(InsertCanceled(i, n), q) = CanceledEntry([id |-> i, shares |-> n], q)
    BY DEF Worth, InsertCanceled
  <2> QED BY <1>0, <2>1, <2>2
<1> QED BY <1>1, <1>2, <1>3, <1>4, <1>5, <1>6

\* What an order sets aside is what it is charged.
LEMMA PlaceLedger ==
  ASSUME KeyInv, KeyInv', NEW q \in Quantity, NEW t \in Thread, SameBooks(q), OnlyWorker(t),
         pc[t] \in LabelsOf["order"], pending[t] = << >>, UNCHANGED trades,
         NEW item, item = ItemOf(t), NEW charge,
         \/ item.amount > 0 /\ charge = UpdateBalance(item.account, -(item.amount * item.limit))
         \/ item.amount <= 0 /\ charge = UpdatePosition(item.account, item.symbol, item.amount),
         pending' = [pending EXCEPT ![t] = << charge, InsertTransaction(NewOrder(item)) >>]
  PROVE  Unmatched(q)' = Unmatched(q)
<1> DEFINE e == Dues(q)
           row == NewOrder(item)
<1>0. /\ item \in OrderItem /\ item.account \in Account /\ item.symbol \in Symbol
      /\ item.amount \in Int /\ item.limit \in Int /\ item.amount * item.limit \in Int
  BY OrderTyped DEF KeyInv, TradeInv
<1>1. row \in Order
  BY <1>0, NewOrderTyped
<1>2. e[InsertTransaction(row)] = OrderEntry(row, q) /\ OrderEntry(row, q) \in Int
  BY <1>1, StatementsWorth, EntriesInt DEF KeyInv, TradeInv
<1>3. e[charge] \in Int /\ e[charge] = -OrderEntry(row, q)
  <2>1. CASE item.amount > 0 /\ charge = UpdateBalance(item.account, -(item.amount * item.limit))
    <3>1. OrderEntry(row, q) = IF q.of = "cash" /\ q.key = item.account
                               THEN item.amount * item.limit ELSE 0
      BY <1>0, <2>1 DEF OrderEntry, SetAside, Offered, NewOrder
    <3>2. e[charge] = IF q.of = "cash" /\ q.key = item.account
                      THEN -(item.amount * item.limit) ELSE 0
      <4>1. -(item.amount * item.limit) \in Int
        BY <1>0
      <4> QED BY <1>0, <2>1, <4>1, StatementsWorth
    <3> QED BY <1>0, <3>1, <3>2
  <2>2. CASE item.amount <= 0 /\ charge = UpdatePosition(item.account, item.symbol, item.amount)
    <3>1. OrderEntry(row, q) = IF q.of = "shares" /\ q.key = <<item.account, item.symbol>>
                               THEN -item.amount ELSE 0
      BY <1>0, <2>2 DEF OrderEntry, SetAside, Offered, NewOrder, IsIn
    <3>2. e[charge] = IF q.of = "shares" /\ q.key = <<item.account, item.symbol>>
                      THEN item.amount ELSE 0
      BY <1>0, <2>2, StatementsWorth
    <3> QED BY <1>0, <3>1, <3>2
  <2> QED BY <2>1, <2>2
<1>4. pending'[t] = << charge, InsertTransaction(row) >>
  BY TypeParts DEF KeyInv, TradeInv, PendingTyped
<1> HIDE DEF e, row
<1>5. Over(<< charge, InsertTransaction(row) >>, e) = 0
  BY <1>2, <1>3, OverTwo
<1>6. Over(trades', TradeEntries(q)) = Over(trades, TradeEntries(q)) + Over(pending'[t], e)
  <2>1. Over(trades, TradeEntries(q)) \in Int
    BY SumsAreTyped, SumsInt DEF IntegerSums
  <2> QED BY <1>4, <1>5, <2>1
<1> QED BY <1>6, ComposeLedger DEF e

\* What a cancellation gives back is what its row says.
LEMMA CancelLedger ==
  ASSUME KeyInv, KeyInv', NEW q \in Quantity, NEW t \in Thread, SameBooks(q), OnlyWorker(t),
         pending[t] = << >>, UNCHANGED trades,
         NEW i \in DOMAIN db.transactions, NEW row, row = db.transactions[i],
         pending' = [pending EXCEPT ![t] = CancelStatements(i, row)]
  PROVE  Unmatched(q)' = Unmatched(q)
<1> DEFINE e == Dues(q)
           c == [id |-> i, shares |-> row.shares]
           refund == IF row.shares > 0 THEN UpdateBalance(row.account, row.shares * row.limit)
                                       ELSE UpdatePosition(row.account, row.symbol, -row.shares)
<1>0. row \in Order /\ i \in Nat
  BY TypeParts, RowTyped DEF KeyInv, TradeInv, EngineTyped, IsDatabase
<1>1. /\ row.account \in Account /\ row.symbol \in Symbol /\ row.shares \in Int /\ row.limit \in Int
      /\ row.shares * row.limit \in Int
  BY <1>0 DEF Order
<1>2. e[UpdateCanceled(i)] = 0 /\ e[InsertCanceled(i, row.shares)] = CanceledEntry(c, q)
  BY <1>0, <1>1, StatementsWorth
<1>3. /\ e[refund] \in Int /\ CanceledEntry(c, q) \in Int
      /\ e[refund] = -CanceledEntry(c, q)
  <2>1. CASE row.shares > 0
    <3>1. CanceledEntry(c, q) = IF q.of = "cash" /\ q.key = row.account
                                THEN -(row.shares * row.limit) ELSE 0
      BY <1>1, <2>1 DEF CanceledEntry, Refund, SharesBack, OwnerOf
    <3>2. e[refund] = IF q.of = "cash" /\ q.key = row.account THEN row.shares * row.limit ELSE 0
      BY <1>1, <2>1, StatementsWorth
    <3> QED BY <1>1, <3>1, <3>2
  <2>2. CASE row.shares <= 0
    <3>1. CanceledEntry(c, q) = IF q.of = "shares" /\ q.key = <<row.account, row.symbol>>
                                THEN row.shares ELSE 0
      BY <1>1, <2>2 DEF CanceledEntry, Refund, SharesBack, OwnerOf, IsIn
    <3>2. e[refund] = IF q.of = "shares" /\ q.key = <<row.account, row.symbol>>
                      THEN -row.shares ELSE 0
      <4>1. -row.shares \in Int /\ ~(row.shares > 0)
        BY <1>1, <2>2
      <4> QED BY <1>1, <4>1, StatementsWorth
    <3> QED BY <1>1, <3>1, <3>2
  <2> QED BY <1>1, <2>1, <2>2
<1>4. pending'[t] = << UpdateCanceled(i), InsertCanceled(i, row.shares), refund >>
  BY TypeParts DEF KeyInv, TradeInv, PendingTyped, CancelStatements
<1> HIDE DEF e, c, refund
<1>5. Over(pending'[t], e) = 0
  <2>1. Over(pending'[t], e) = e[UpdateCanceled(i)] + e[InsertCanceled(i, row.shares)] + e[refund]
    <3>1. e[UpdateCanceled(i)] \in Int /\ e[InsertCanceled(i, row.shares)] \in Int /\ e[refund] \in Int
      BY <1>2, <1>3
    <3> QED BY ONLY <1>4, <3>1, OverThree
  <2> QED BY ONLY <1>2, <1>3, <2>1
<1>6. Over(trades', TradeEntries(q)) = Over(trades, TradeEntries(q)) + Over(pending'[t], e)
  <2>1. Over(trades, TradeEntries(q)) \in Int
    BY SumsAreTyped, SumsInt DEF IntegerSums
  <2> QED BY <1>5, <2>1
<1> QED BY <1>6, ComposeLedger DEF e

\* How a match of item with the resting order row is settled.
Settles(item, row, executed, signed, settle) ==
  \/ /\ item.amount > 0 /\ row.amount < 0 /\ signed = executed
     /\ settle = SettleBuy(item, row, executed)
  \/ /\ item.amount <= 0 /\ row.amount > 0 /\ signed = -executed
     /\ settle = SettleSell(item, row, executed)

\* A match of the order of worker t with order r is composed for what it is worth.
WorthTheMatch(q, t, r, row, left, signed, executed, settle) ==
  Over(Fill(r, row, local[t].id, left, signed) \o settle, Dues(q))
    = TradeEntry(TradeOf(t, r, executed), q)

\* What a match composes is worth the match, to every account, position and order.
LEMMA MatchWorth ==
  ASSUME KeyInv, NEW q \in Quantity, NEW t \in Thread, At(t, "match"),
         NEW r \in DOMAIN db.transactions, NEW row, row = db.transactions[r],
         row.symbol = ItemOf(t).symbol, NEW left \in Int, NEW signed \in Int, NEW executed \in Int,
         NEW settle, Settles(ItemOf(t), row, executed, signed, settle)
  PROVE  WorthTheMatch(q, t, r, row, left, signed, executed, settle)
<1> SUFFICES ASSUME NEW item, item = ItemOf(t), NEW id, id = local[t].id
             PROVE  Over(Fill(r, row, id, left, signed) \o settle, Dues(q))
                      = TradeEntry(TradeOf(t, r, executed), q)
  BY DEF WorthTheMatch
<1> DEFINE e == Dues(q)
           k == TradeOf(t, r, executed)
           a == Shrink(r, row.shares + signed, signed = left)
           b == InsertExecuted(r, row.limit, -signed)
           c == IF signed = left THEN UpdateExecuted(id, 0) ELSE UpdateShares(id, left - signed)
           d == InsertExecuted(id, row.limit, signed)
           own == db.transactions[id]
           cost == executed * row.limit
           gain == executed * (item.limit - row.limit)
<1>1. /\ id \in DOMAIN db.transactions /\ id \in Nat /\ r \in Nat /\ row \in Order /\ own \in Order
      /\ own.account = item.account /\ own.symbol = item.symbol
      /\ own.limit = item.limit /\ own.amount = item.amount
  BY AtMatch, RowTyped DEF KeyInv, TradeInv, OwnRow
<1>2. /\ item.account \in Account /\ item.symbol \in Symbol /\ row.account \in Account
      /\ item.limit \in Int /\ row.limit \in Int /\ row.shares \in Int /\ row.amount \in Int
      /\ item.amount \in Int /\ row.shares + signed \in Int /\ left - signed \in Int
      /\ -signed \in Int /\ cost \in Int /\ gain \in Int /\ -cost \in Int
  BY <1>1 DEF Order
<1>3. r # id
  BY <1>1, <1>2 DEF Settles
<1>4. k.maker = r /\ k.taker = id /\ k.shares = executed /\ k.price = row.limit
  BY DEF TradeOf
<1>5. e[a] = 0 /\ e[c] = 0
  BY <1>1, <1>2, StatementsWorth DEF Shrink
<1>6. /\ e[b] = IF q.of = "count" THEN (IF q.key = r THEN 1 ELSE 0)
                ELSE IF q.of = "moved" THEN (IF q.key = r THEN -signed ELSE 0)
                ELSE 0
      /\ e[d] = IF q.of = "count" THEN (IF q.key = id THEN 1 ELSE 0)
                ELSE IF q.of = "moved" THEN (IF q.key = id THEN signed ELSE 0)
                ELSE 0
  <2>1. \A i \in Nat, price \in Int, n \in Int :
          e[InsertExecuted(i, price, n)] =
            IF q.of = "count" THEN (IF q.key = i THEN 1 ELSE 0)
            ELSE IF q.of = "moved" THEN (IF q.key = i THEN n ELSE 0)
            ELSE 0
    BY StatementsWorth
  <2> HIDE DEF e
  <2> QED BY ONLY <1>1, <1>2, <2>1, signed \in Int DEF b, d
<1>7. Fill(r, row, id, left, signed) = << a, b, c, d >>
  BY DEF Fill
<1> HIDE DEF e, a, b, c, d, cost, gain
<1>8. ASSUME NEW x, NEW y, NEW z, settle = << x, y, z >>, e[x] \in Int, e[y] \in Int, e[z] \in Int,
             e[b] + e[d] + (e[x] + e[y] + e[z]) = TradeEntry(k, q)
      PROVE  Over(Fill(r, row, id, left, signed) \o settle, e) = TradeEntry(k, q)
  <2>1. \A st \in {a, b, c, d, x, y, z} : e[st] \in Int
    BY <1>2, <1>5, <1>6, <1>8
  <2>2. Over(<< a, b, c, d >> \o << x, y, z >>, e)
          = e[a] + e[b] + e[c] + e[d] + e[x] + e[y] + e[z]
    BY <2>1, OverSeven
  <2> HIDE DEF k
  <2>3. Over(<< a, b, c, d >> \o << x, y, z >>, e) = TradeEntry(k, q)
    BY ONLY <1>5, <1>8, <2>1, <2>2
  <2> QED BY <1>7, <1>8, <2>3
<1>9. CASE /\ item.amount > 0 /\ row.amount < 0 /\ signed = executed
           /\ settle = SettleBuy(item, row, executed)
  <2> DEFINE x == UpdatePosition(item.account, item.symbol, executed)
             y == UpdateBalance(item.account, gain)
             z == UpdateBalance(row.account, cost)
  <2>1. settle = << x, y, z >>
    BY <1>9 DEF SettleBuy, gain, cost
  <2>2. /\ e[x] = IF q.of = "shares" /\ q.key = <<item.account, item.symbol>> THEN executed ELSE 0
        /\ e[y] = IF q.of = "cash" /\ q.key = item.account THEN gain ELSE 0
        /\ e[z] = IF q.of = "cash" /\ q.key = row.account THEN cost ELSE 0
    BY <1>2, StatementsWorth DEF e
  <2>3. SellSide(k) = r /\ BuySide(k) = id
    BY <1>4, <1>9 DEF SellSide, BuySide
  <2>4. /\ Proceeds(k, q.key) = (IF item.account = q.key THEN gain ELSE 0)
                              + (IF row.account = q.key THEN cost ELSE 0)
        /\ Bought(k, q.key) = IF <<item.account, item.symbol>> = q.key THEN executed ELSE 0
        /\ LegCount(k, q.key) = IF q.key \in {r, id} THEN 1 ELSE 0
        /\ LegShares(k, q.key) = IF q.key = id THEN executed ELSE IF q.key = r THEN -executed ELSE 0
    BY <1>1, <1>3, <1>4, <2>3
       DEF Proceeds, BuyerGain, Bought, LegCount, LegShares, OwnerOf, IsIn, gain, cost
  <2>5. e[b] + e[d] + (e[x] + e[y] + e[z]) = TradeEntry(k, q)
    <3> HIDE DEF k, x, y, z
    <3>1. CASE q.of = "cash"
      BY <1>2, <1>6, <2>2, <2>4, <3>1 DEF TradeEntry
    <3>2. CASE q.of = "shares"
      BY <1>2, <1>6, <2>2, <2>4, <3>2 DEF TradeEntry
    <3>3. CASE q.of = "count"
      BY <1>2, <1>3, <1>6, <2>2, <2>4, <3>3 DEF TradeEntry
    <3>4. CASE q.of = "moved"
      BY <1>2, <1>3, <1>6, <1>9, <2>2, <2>4, <3>4 DEF TradeEntry
    <3> QED BY <3>1, <3>2, <3>3, <3>4 DEF Quantity
  <2>6. e[x] \in Int /\ e[y] \in Int /\ e[z] \in Int
    BY <1>2, <2>2
  <2> HIDE DEF x, y, z
  <2> QED BY <1>8, <2>1, <2>5, <2>6 DEF e
<1>10. CASE /\ item.amount <= 0 /\ row.amount > 0 /\ signed = -executed
            /\ settle = SettleSell(item, row, executed)
  <2> DEFINE x == UpdateBalance(item.account, cost)
             y == UpdatePosition(row.account, item.symbol, executed)
             z == UpdateBalance(row.account, -cost)
  <2>1. settle = << x, y, z >>
    BY <1>10 DEF SettleSell, cost
  <2>2. /\ e[x] = IF q.of = "cash" /\ q.key = item.account THEN cost ELSE 0
        /\ e[y] = IF q.of = "shares" /\ q.key = <<row.account, item.symbol>> THEN executed ELSE 0
        /\ e[z] = IF q.of = "cash" /\ q.key = row.account THEN -cost ELSE 0
    BY <1>2, StatementsWorth DEF e
  <2>3. SellSide(k) = id /\ BuySide(k) = r
    BY <1>2, <1>4, <1>10 DEF SellSide, BuySide
  <2>4. /\ Proceeds(k, q.key) = (IF row.account = q.key THEN -cost ELSE 0)
                              + (IF item.account = q.key THEN cost ELSE 0)
        /\ Bought(k, q.key) = IF <<row.account, item.symbol>> = q.key THEN executed ELSE 0
        /\ LegCount(k, q.key) = IF q.key \in {r, id} THEN 1 ELSE 0
        /\ LegShares(k, q.key) = IF q.key = r THEN executed ELSE IF q.key = id THEN -executed ELSE 0
    BY <1>1, <1>3, <1>4, <2>3
       DEF Proceeds, BuyerGain, Bought, LegCount, LegShares, OwnerOf, IsIn, cost
  <2>5. e[b] + e[d] + (e[x] + e[y] + e[z]) = TradeEntry(k, q)
    <3> HIDE DEF k, x, y, z
    <3>1. CASE q.of = "cash"
      BY <1>2, <1>6, <2>2, <2>4, <3>1 DEF TradeEntry
    <3>2. CASE q.of = "shares"
      BY <1>2, <1>6, <2>2, <2>4, <3>2 DEF TradeEntry
    <3>3. CASE q.of = "count"
      BY <1>2, <1>3, <1>6, <2>2, <2>4, <3>3 DEF TradeEntry
    <3>4. CASE q.of = "moved"
      <4>1. executed = -signed /\ -executed = signed
        BY <1>10
      <4>2. TradeEntry(k, q) = LegShares(k, q.key) /\ e[x] = 0 /\ e[y] = 0 /\ e[z] = 0
        BY <2>2, <3>4 DEF TradeEntry
      <4>3. CASE q.key = r
        BY ONLY <1>3, <1>6, <2>4, <3>4, <4>1, <4>2, <4>3, signed \in Int
      <4>4. CASE q.key # r
        BY ONLY <1>3, <1>6, <2>4, <3>4, <4>1, <4>2, <4>4, signed \in Int
      <4> QED BY <4>3, <4>4
    <3> QED BY <3>1, <3>2, <3>3, <3>4 DEF Quantity
  <2>6. e[x] \in Int /\ e[y] \in Int /\ e[z] \in Int
    BY <1>2, <2>2
  <2> HIDE DEF x, y, z
  <2> QED BY <1>8, <2>1, <2>5, <2>6 DEF e
<1> QED BY <1>9, <1>10 DEF Settles

\* What a buy, or a sell, composes for a match is worth the match.
LEMMA BuyWorth ==
  ASSUME KeyInv, NEW q \in Quantity, NEW t \in Thread, At(t, "match"),
         NEW r \in DOMAIN db.transactions, db.transactions[r].symbol = ItemOf(t).symbol,
         ItemOf(t).amount > 0, db.transactions[r].amount < 0,
         NEW left \in Int, NEW executed \in Int
  PROVE  Over(Fill(r, db.transactions[r], local[t].id, left, executed)
                \o SettleBuy(ItemOf(t), db.transactions[r], executed), Dues(q))
           = TradeEntry(TradeOf(t, r, executed), q)
<1> SUFFICES ASSUME NEW row, row = db.transactions[r],
                    NEW settle, settle = SettleBuy(ItemOf(t), row, executed)
             PROVE  WorthTheMatch(q, t, r, row, left, executed, executed, settle)
  BY DEF WorthTheMatch
<1>1. Settles(ItemOf(t), row, executed, executed, settle)
  BY DEF Settles
<1>2. row.symbol = ItemOf(t).symbol
  OBVIOUS
<1> QED BY <1>1, <1>2, MatchWorth

LEMMA SellWorth ==
  ASSUME KeyInv, NEW q \in Quantity, NEW t \in Thread, At(t, "match"),
         NEW r \in DOMAIN db.transactions, db.transactions[r].symbol = ItemOf(t).symbol,
         ItemOf(t).amount <= 0, db.transactions[r].amount > 0,
         NEW left \in Int, NEW executed \in Int
  PROVE  Over(Fill(r, db.transactions[r], local[t].id, left, -executed)
                \o SettleSell(ItemOf(t), db.transactions[r], executed), Dues(q))
           = TradeEntry(TradeOf(t, r, executed), q)
<1> SUFFICES ASSUME NEW row, row = db.transactions[r], NEW signed, signed = -executed,
                    NEW settle, settle = SettleSell(ItemOf(t), row, executed)
             PROVE  WorthTheMatch(q, t, r, row, left, signed, executed, settle)
  BY DEF WorthTheMatch
<1>1. Settles(ItemOf(t), row, executed, signed, settle)
  BY DEF Settles
<1>2. row.symbol = ItemOf(t).symbol /\ signed \in Int
  OBVIOUS
<1> QED BY <1>1, <1>2, MatchWorth

\* The statements of a match and the match they settle come together.
LEMMA MatchLedger ==
  ASSUME KeyInv, KeyInv', NEW q \in Quantity, NEW t \in Thread, BuySelectAsk(t) \/ SellSelectBid(t)
  PROVE  Unmatched(q)' = Unmatched(q)
<1> DEFINE item == ItemOf(t)
           left == local[t].remaining
           rows == db.transactions
<1>1. At(t, "match") /\ pending[t] = << >> /\ UNCHANGED db
  BY DEF BuySelectAsk, SellSelectBid, At
<1>2. OnlyWorker(t)
  BY MatchKeys DEF KeepsKeys
<1>3. SameBooks(q)
  BY <1>1 DEF SameBooks, SameRows, Base, Balance, Held
<1>4. /\ left \in Int /\ ItemOf(t) \in OrderItem
      /\ \A i \in DOMAIN rows : rows[i] \in Order /\ OnSide(rows[i].shares, rows[i].amount)
  BY <1>1, AtMatch DEF KeyInv, TradeInv
<1>5. CASE NoMatch(t)
  BY <1>3, <1>5, QuietLedger DEF NoMatch
<1>6. ASSUME NEW r, NEW executed, NEW remaining, Matched(t, r, executed, remaining),
             NEW sts, pending' = [pending EXCEPT ![t] = sts],
             Over(sts, Dues(q)) = TradeEntry(TradeOf(t, r, executed), q)
      PROVE  Unmatched(q)' = Unmatched(q)
  <2> DEFINE k == TradeOf(t, r, executed)
  <2>1. Over(sts, Dues(q)) = TradeEntry(k, q)
    BY <1>6
  <2>2. pending'[t] = sts
    BY <1>6, TypeParts DEF KeyInv, TradeInv, PendingTyped
  <2>3. trades' = Append(trades, k)
    BY <1>6 DEF Matched, TradeOf
  <2>4. /\ trades \in Seq(Trade) /\ trades' \in Seq(Trade)
        /\ Valued(trades, TradeEntries(q)) /\ Valued(trades', TradeEntries(q))
    <3>1. SumsTyped(q) /\ SumsTyped(q)'
      BY SumsAreTyped, SumsAreTypedNext
    <3>2. TradeEntries(q)' = TradeEntries(q)
      BY <1>3, SameEntries DEF SameBooks
    <3> QED BY <3>1, <3>2 DEF SumsTyped
  <2> HIDE DEF k
  <2>5. k \in Trade /\ TradeEntries(q)[k] \in Int
    <3>1. Len(trades) + 1 \in DOMAIN trades' /\ trades'[Len(trades) + 1] = k
      BY <2>3, <2>4, LenProperties
    <3>2. k \in Trade
      BY <2>4, <3>1, ElementOfSeq
    <3> QED BY <2>4, <3>1, <3>2 DEF Valued
  <2>6. Over(trades', TradeEntries(q)) = Over(trades, TradeEntries(q)) + TradeEntries(q)[k]
    BY <2>3, <2>4, <2>5, OverAppend
  <2>7. TradeEntries(q)[k] = TradeEntry(k, q)
    BY <2>5 DEF TradeEntries
  <2>8. Over(trades', TradeEntries(q)) = Over(trades, TradeEntries(q)) + Over(pending'[t], Dues(q))
    BY <2>1, <2>2, <2>6, <2>7
  <2> QED BY <1>1, <1>2, <1>3, <2>8, ComposeLedger
<1>7. CASE BuySelectAsk(t)
  <2>1. SUFFICES ASSUME NEW r \in Asks(db, item.symbol), NEW row, row = rows[r],
                        NEW executed, executed = LesserOf(left, -row.shares),
                        pending' = [pending EXCEPT ![t] =
                                      Fill(r, row, local[t].id, left, executed)
                                        \o SettleBuy(item, row, executed)],
                        Matched(t, r, executed, left - executed)
                 PROVE  Unmatched(q)' = Unmatched(q)
    BY <1>5, <1>7 DEF BuySelectAsk
  <2>2. r \in DOMAIN rows /\ row.symbol = item.symbol /\ row.shares < 0 /\ row \in Order
    BY <1>4, <2>1 DEF Asks
  <2>3. row.shares \in Int /\ row.amount \in Int /\ executed \in Int
    <3>1. row.shares \in Int /\ row.amount \in Int /\ left \in Int
      BY <1>4, <2>2 DEF Order
    <3>2. executed \in Int
      <4> DEFINE m == left
                 n == -row.shares
      <4>1. m \in Int /\ n \in Int /\ executed = LesserOf(m, n)
        BY <2>1, <3>1
      <4> HIDE DEF m, n
      <4> QED BY ONLY <4>1, LesserTyped
    <3> QED BY ONLY <3>1, <3>2
  <2>4. item.amount > 0 /\ row.amount < 0
    <3>1. OnSide(row.shares, row.amount)
      BY <1>4, <2>1, <2>2
    <3> QED BY ONLY <1>7, <2>2, <2>3, <3>1 DEF BuySelectAsk, OnSide
  <2> DEFINE settle == SettleBuy(item, row, executed)
             sts == Fill(r, row, local[t].id, left, executed) \o settle
  <2>5. Over(sts, Dues(q)) = TradeEntry(TradeOf(t, r, executed), q)
    BY <1>1, <1>4, <2>1, <2>2, <2>3, <2>4, BuyWorth
  <2> HIDE DEF sts
  <2> QED BY <1>6, <2>1, <2>5 DEF sts
<1>8. CASE SellSelectBid(t)
  <2>1. SUFFICES ASSUME NEW r \in Bids(db, item.symbol), NEW row, row = rows[r],
                        NEW executed, executed = LesserOf(-left, row.shares),
                        pending' = [pending EXCEPT ![t] =
                                      Fill(r, row, local[t].id, left, -executed)
                                        \o SettleSell(item, row, executed)],
                        Matched(t, r, executed, left + executed)
                 PROVE  Unmatched(q)' = Unmatched(q)
    BY <1>5, <1>8 DEF SellSelectBid
  <2>2. r \in DOMAIN rows /\ row.symbol = item.symbol /\ row.shares > 0 /\ row \in Order
    BY <1>4, <2>1 DEF Bids
  <2>3. row.shares \in Int /\ row.amount \in Int /\ executed \in Int /\ -executed \in Int
    <3>1. row.shares \in Int /\ row.amount \in Int /\ -left \in Int
      BY <1>4, <2>2 DEF Order
    <3>2. executed \in Int
      <4> DEFINE m == -left
                 n == row.shares
      <4>1. m \in Int /\ n \in Int /\ executed = LesserOf(m, n)
        BY <2>1, <3>1
      <4> HIDE DEF m, n
      <4> QED BY ONLY <4>1, LesserTyped
    <3> QED BY ONLY <3>1, <3>2
  <2>4. item.amount <= 0 /\ row.amount > 0
    <3>1. OnSide(row.shares, row.amount)
      BY <1>4, <2>1, <2>2
    <3> QED BY ONLY <1>8, <2>2, <2>3, <3>1 DEF SellSelectBid, OnSide
  <2> DEFINE settle == SettleSell(item, row, executed)
             sts == Fill(r, row, local[t].id, left, -executed) \o settle
  <2>5. Over(sts, Dues(q)) = TradeEntry(TradeOf(t, r, executed), q)
    BY <1>1, <1>4, <2>1, <2>2, <2>3, <2>4, SellWorth
  <2> HIDE DEF sts
  <2> QED BY <1>6, <2>1, <2>5 DEF sts
<1> QED BY <1>7, <1>8

\* What opens an order is worth nothing, or the order's row.
LEMMA OpenLedger ==
  ASSUME KeyInv, KeyInv', NEW q \in Quantity, NEW t \in Thread,
         OrderSelectPosition(t) \/ OrderInsertPosition(t) \/ OpenSell(t), ~Terminate
  PROVE  Unmatched(q)' = Unmatched(q)
<1>1. pc[t] \in LabelsOf["order"] /\ pending[t] = << >>
  BY DEF OrderSelectPosition, OrderInsertPosition, OpenSell, At, LabelsOf
<1>2. OnlyWorker(t)
  BY OrderSelectPositionKeys, OrderInsertPositionKeys, OpenSellKeys DEF KeepsKeys
<1>3. UNCHANGED trades
  BY DEF OrderSelectPosition, OrderInsertPosition, OpenSell, history
<1>4. SameBooks(q)
  <2>1. CASE UNCHANGED db
    BY <2>1 DEF SameBooks, SameRows, Base, Balance, Held
  <2>2. ASSUME OrderPosition(t) \notin DOMAIN db.positions,
               db' = [db EXCEPT !.positions = Insert(@, OrderPosition(t), 0)]
        PROVE  SameBooks(q)
    <3> DEFINE p == OrderPosition(t)
    <3>1. /\ UNCHANGED <<db.accounts, db.transactions, db.canceled_trans, db.executed_trans>>
          /\ db'.positions = Insert(db.positions, p, 0)
      BY <2>2, TypeParts DEF KeyInv, TradeInv, EngineTyped, IsDatabase
    <3> HIDE DEF p
    <3>2. p \notin DOMAIN db.positions
      BY <2>2 DEF p
    <3>3. /\ DOMAIN db'.positions = DOMAIN db.positions \cup {p}
          /\ db'.positions[p] = 0 /\ \A k \in DOMAIN db.positions : db'.positions[k] = db.positions[k]
      BY <3>1, <3>2 DEF Insert
    <3>4. \A k : Held(k)' = Held(k)
      BY <3>2, <3>3 DEF Held
    <3>5. Base(q)' = Base(q)
      BY <3>1, <3>4 DEF Base, Balance
    <3> QED BY <3>1, <3>5 DEF SameBooks, SameRows
  <2> QED BY <2>1, <2>2 DEF OrderSelectPosition, OrderInsertPosition, OpenSell
<1>5. CASE UNCHANGED pending
  BY <1>3, <1>4, <1>5, QuietLedger
<1>6. CASE /\ ItemOf(t).amount > 0
           /\ pending' = [pending EXCEPT ![t] =
                << UpdateBalance(ItemOf(t).account, -(ItemOf(t).amount * ItemOf(t).limit)),
                   InsertTransaction(NewOrder(ItemOf(t))) >>]
  BY <1>1, <1>2, <1>3, <1>4, <1>6, PlaceLedger
<1>7. CASE /\ ItemOf(t).amount <= 0
           /\ pending' = [pending EXCEPT ![t] =
                << UpdatePosition(ItemOf(t).account, ItemOf(t).symbol, ItemOf(t).amount),
                   InsertTransaction(NewOrder(ItemOf(t))) >>]
  BY <1>1, <1>2, <1>3, <1>4, <1>7, PlaceLedger
<1>8. ASSUME OpenOrder(t) PROVE Unmatched(q)' = Unmatched(q)
  BY <1>5, <1>6, <1>8 DEF OpenOrder, OpenBuy
<1>9. CASE OpenSell(t)
  <2>1. ItemOf(t).amount <= 0
    BY <1>9 DEF OpenSell, At, KeyInv, KnowsRows, SeenRows
  <2> QED BY <1>5, <1>7, <1>9, <2>1 DEF OpenSell
<1>10. CASE OrderSelectPosition(t) \/ OrderInsertPosition(t)
  BY <1>5, <1>6, <1>8, <1>10 DEF OrderSelectPosition, OrderInsertPosition
<1> QED BY <1>9, <1>10

-----------------------------------------------------------------------------
(* Paying in.                                                              *)

\* A step that changes no more than a balance or a position.
LEMMA PayLedger ==
  ASSUME KeyInv, NEW q \in Quantity, SameRows,
         UNCHANGED <<db.canceled_trans, db.executed_trans, pending, trades>>,
         NEW n \in Int, Base(q)' = Base(q) + n
  PROVE  Unmatched(q)' = Unmatched(q) + n
<1>1. SumsTyped(q)
  BY SumsAreTyped
<1>2. IntegerSums(q)
  BY <1>1, SumsInt
<1> DEFINE a == Over(db.transactions, OrderEntries(q))
           b == Over(db.canceled_trans, CanceledEntries(q))
           c == Over(db.executed_trans, ExecutedEntries(q))
           d == Over(trades, TradeEntries(q))
           u == Sending(pending, Dues(q))
<1>3. a \in Int /\ b \in Int /\ c \in Int /\ d \in Int /\ Base(q) \in Int
  BY <1>2 DEF IntegerSums
<1>4. u \in Int
  <2>1. \A t \in Thread : Over(pending[t], Dues(q)) \in Int
    BY <1>2 DEF IntegerSums
  <2> QED BY <2>1, SendingInt
<1>5. UNCHANGED <<a, b, c, d, u>>
  BY SameEntries DEF SameRows
<1>6. Unmatched(q) = Base(q) + a + b + c + u - d
  BY DEF Unmatched, InTables
<1>7. Unmatched(q)' = Base(q)' + a' + b' + c' + u' - d'
  BY DEF Unmatched, InTables
<1> HIDE DEF a, b, c, d, u
<1> QED BY ONLY <1>3, <1>4, <1>5, <1>6, <1>7, n \in Int, Base(q)' = Base(q) + n

\* q, and what was promised of it, before and after a step.
Even(q) == /\ Unmatched(q)' - Paid(q)' = Unmatched(q) - Paid(q)
GrantLost(t) == GrantInsertPosition(t) /\ Granted(t) \in DOMAIN db.positions
Loses(q) == /\ q.of = "shares" /\ Unmatched(q)' = Unmatched(q)
            /\ Paid(q)' >= Paid(q)

\* What was promised is an integer, and so is all of q.
LEMMA LedgerInt ==
  ASSUME KeyInv, NEW q \in Quantity
  PROVE  Unmatched(q) \in Int /\ Paid(q) \in Int
<1>1. SumsTyped(q)
  BY SumsAreTyped
<1>2. IntegerSums(q)
  BY <1>1, SumsInt
<1>3. InTables(q) \in Int /\ Over(trades, TradeEntries(q)) \in Int
  BY <1>2 DEF IntegerSums
<1>4. Sending(pending, Dues(q)) \in Int
  <2>1. \A t \in Thread : Over(pending[t], Dues(q)) \in Int
    BY <1>2 DEF IntegerSums
  <2> QED BY <2>1, SendingInt
<1>5. Unmatched(q) \in Int
  BY ONLY <1>3, <1>4 DEF Unmatched
<1>6. Paid(q) \in Int
  BY TypeParts DEF KeyInv, TradeInv, HistoryTyped, Paid, Quantity
<1> QED BY <1>5, <1>6

LEMMA LedgerIntNext == (KeyInv => \A q \in Quantity : Unmatched(q) \in Int /\ Paid(q) \in Int)'
<1>1. KeyInv => \A q \in Quantity : Unmatched(q) \in Int /\ Paid(q) \in Int
  BY LedgerInt
<1> QED BY <1>1, PTL

\* An account created has the balance it was promised, and no other.
LEMMA CreateAccountLedger ==
  ASSUME KeyInv, NEW q \in Quantity, NEW t \in Thread, CreateAccount(t)
  PROVE  Even(q)
<1> DEFINE item == ItemOf(t)
<1>1. IsDatabase(db) /\ item \in AccountItem
  BY TypeParts, KindAt DEF KeyInv, TradeInv, EngineTyped, CreateAccount, At, LabelsOf
<1>2. UNCHANGED <<pending, trades>>
  BY DEF CreateAccount
<1>3. CASE UNCHANGED <<db, paidIn>>
  <2>1. SameBooks(q) /\ Paid(q)' = Paid(q)
    BY <1>3 DEF SameBooks, SameRows, Base, Balance, Held, Paid
  <2> QED BY <1>2, <2>1, QuietLedger DEF Even
<1>4. CASE /\ item.account \notin DOMAIN db.accounts
           /\ db' = [db EXCEPT !.accounts = Insert(@, item.account, item.balance)]
           /\ paidIn' = [paidIn EXCEPT !.cash[item.account] = @ + item.balance]
  <2> DEFINE n == IF q.of = "cash" /\ q.key = item.account THEN item.balance ELSE 0
  <2>1. /\ db'.accounts = Insert(db.accounts, item.account, item.balance)
        /\ UNCHANGED <<db.positions, db.transactions, db.canceled_trans, db.executed_trans>>
    BY <1>1, <1>4 DEF IsDatabase
  <2>2. item.balance \in Int /\ item.account \in Account /\ n \in Int
    BY <1>1 DEF AccountItem
  <2>3. Base(q)' = Base(q) + n
    <3>1. Base(q) \in Int
      BY SumsAreTyped DEF SumsTyped
    <3>2. \A a : Balance(a)' = IF a = item.account THEN item.balance ELSE Balance(a)
      <4> DEFINE b == item.account
                 v == item.balance
      <4> HIDE DEF b, v
      <4>1. b \notin DOMAIN db.accounts /\ db'.accounts = Insert(db.accounts, b, v)
        BY <1>4, <2>1 DEF b, v
      <4>2. /\ DOMAIN db'.accounts = DOMAIN db.accounts \cup {b} /\ db'.accounts[b] = v
            /\ \A a \in DOMAIN db.accounts : db'.accounts[a] = db.accounts[a]
        BY ONLY <4>1 DEF Insert
      <4>3. \A a : Balance(a)' = IF a = b THEN v ELSE Balance(a)
        BY ONLY <4>2 DEF Balance
      <4> QED BY <4>3 DEF b, v
    <3>3. Balance(item.account) = 0
      BY <1>4 DEF Balance
    <3>4. \A p : Held(p)' = Held(p)
      BY <2>1 DEF Held
    <3> QED BY <2>2, <3>1, <3>2, <3>3, <3>4 DEF Base
  <2>4. Paid(q)' = Paid(q) + n /\ Paid(q) \in Int
    <3>1. Paid(q) \in Int
      BY LedgerInt
    <3>2. /\ paidIn'.cash = [paidIn.cash EXCEPT ![item.account] = @ + item.balance]
          /\ paidIn'.shares = paidIn.shares /\ DOMAIN paidIn.cash = Account
      BY <1>4, TypeParts DEF KeyInv, TradeInv, HistoryTyped
    <3> QED BY <2>2, <3>1, <3>2 DEF Paid, Quantity
  <2>5. Unmatched(q)' = Unmatched(q) + n /\ Unmatched(q) \in Int
    BY <1>2, <2>1, <2>2, <2>3, PayLedger, LedgerInt DEF SameRows
  <2> HIDE DEF n
  <2> QED BY <2>2, <2>4, <2>5 DEF Even
<1> QED BY <1>3, <1>4 DEF CreateAccount
\* Shares promised.
LEMMA PromiseLedger ==
  ASSUME KeyInv, NEW q \in Quantity, NEW t \in Thread, pc[t] \in Granting, Promise(t)
  PROVE  /\ GrantOf(t).shares \in Int
         /\ Paid(q)' = Paid(q) + (IF q.of = "shares" /\ q.key = Granted(t)
                                  THEN GrantOf(t).shares ELSE 0)
<1>1. GrantOf(t).shares \in Int /\ Granted(t) \in Account \X Symbol
  BY GrantTyped DEF Grant, KeyInv, TradeInv
<1>2. Paid(q) \in Int
  BY LedgerInt
<1>3. /\ paidIn'.shares = [paidIn.shares EXCEPT ![Granted(t)] = @ + GrantOf(t).shares]
      /\ paidIn'.cash = paidIn.cash /\ DOMAIN paidIn.shares = Account \X Symbol
  BY TypeParts DEF KeyInv, TradeInv, HistoryTyped, Promise
<1> DEFINE p == Granted(t)
           n == GrantOf(t).shares
<1> HIDE DEF p, n
<1>4. /\ paidIn'.shares = [paidIn.shares EXCEPT ![p] = @ + n] /\ paidIn'.cash = paidIn.cash
      /\ DOMAIN paidIn.shares = Account \X Symbol /\ n \in Int /\ p \in Account \X Symbol
  BY <1>1, <1>3 DEF p, n
<1>5. Paid(q)' = Paid(q) + (IF q.of = "shares" /\ q.key = p THEN n ELSE 0)
  BY ONLY <1>2, <1>4, q \in Quantity DEF Paid, Quantity
<1> QED BY <1>1, <1>5 DEF p, n

\* Shares added to the position that is there are those promised.
LEMMA GrantUpdateLedger ==
  ASSUME KeyInv, NEW q \in Quantity, NEW t \in Thread, GrantUpdatePosition(t)
  PROVE  Even(q)
<1> DEFINE st == UpdatePosition(GrantOf(t).account, ItemOf(t).symbol, GrantOf(t).shares)
           n == IF q.of = "shares" /\ q.key = Granted(t) THEN GrantOf(t).shares ELSE 0
<1>1. pc[t] \in Granting /\ IsDatabase(db) /\ db' = Apply(st, db) /\ UNCHANGED <<pending, trades>>
  BY TypeParts DEF KeyInv, TradeInv, EngineTyped, GrantUpdatePosition, At, Granting
<1>2. GrantOf(t).shares \in Int /\ Paid(q)' = Paid(q) + n
  BY <1>1, PromiseLedger DEF GrantUpdatePosition
<1>3. st \in Statement /\ NamesRows(st, db)
  <2>1. /\ GrantOf(t).account \in Account /\ ItemOf(t).symbol \in Symbol
        /\ Granted(t) \in DOMAIN db.positions
    BY <1>1, GrantTyped DEF KeyInv, TradeInv, KnowsRows, SeenRows, GrantUpdatePosition, At,
       Grant, SymbolItem
  <2> QED BY <1>2, <2>1 DEF UpdatePosition, Statement, NamesRows, Granted
<1>4. Worth(st, q) = n /\ st.op = "updatePosition"
  BY DEF Worth, UpdatePosition, Granted
<1>5. SameRows /\ UNCHANGED <<db.canceled_trans, db.executed_trans>>
  BY <1>1, <1>4 DEF IsDatabase, Apply, SameRows
<1> HIDE DEF st
<1>6. Base(q)' = Base(q) + n
  BY <1>1, <1>3, <1>4, ExecBase
<1>7. Paid(q) \in Int /\ Unmatched(q) \in Int /\ n \in Int
  BY <1>2, LedgerInt
<1> HIDE DEF n
<1>8. Unmatched(q)' = Unmatched(q) + n
  BY <1>1, <1>5, <1>6, <1>7, PayLedger
<1> QED BY ONLY <1>2, <1>7, <1>8 DEF Even

\* A position inserted has the shares promised; if another worker has inserted it
\* since the SELECT, the promise is not kept.
LEMMA GrantInsertLedger ==
  ASSUME KeyInv, NEW q \in Quantity, NEW t \in Thread, GrantInsertPosition(t)
  PROVE  Even(q) \/ (GrantLost(t) /\ Loses(q))
<1> DEFINE p == Granted(t)
           m == GrantOf(t).shares
           n == IF q.of = "shares" /\ q.key = p THEN m ELSE 0
<1>1. pc[t] \in Granting \ {"grant"} /\ IsDatabase(db) /\ UNCHANGED <<pending, trades>>
  BY TypeParts DEF KeyInv, TradeInv, EngineTyped, GrantInsertPosition, At, Granting
<1>2. m \in Int /\ Paid(q)' = Paid(q) + n
  BY <1>1, PromiseLedger DEF GrantInsertPosition
<1>3. m >= 0
  BY <1>1 DEF KeyInv, KnowsRows, SeenRows
<1>4. Paid(q) \in Int /\ Unmatched(q) \in Int /\ n \in Int /\ (q.of # "shares" => n = 0) /\ n >= 0
  BY <1>2, <1>3, LedgerInt
<1>5. CASE p \notin DOMAIN db.positions
  <2>1. db' = [db EXCEPT !.positions = Insert(@, p, m)]
    BY <1>5 DEF GrantInsertPosition
  <2>2. db'.positions = Insert(db.positions, p, m) /\ SameRows
        /\ UNCHANGED <<db.accounts, db.canceled_trans, db.executed_trans>>
    BY <1>1, <2>1 DEF IsDatabase, SameRows
  <2> HIDE DEF p, m
  <2>3. /\ DOMAIN db'.positions = DOMAIN db.positions \cup {p} /\ db'.positions[p] = m
        /\ \A x \in DOMAIN db.positions : db'.positions[x] = db.positions[x]
    BY ONLY <1>5, <2>2 DEF Insert
  <2>4. \A x : Held(x)' = IF x = p THEN m ELSE Held(x)
    BY ONLY <2>3 DEF Held
  <2>5. Held(p) = 0
    BY ONLY <1>5 DEF Held
  <2>6. \A a : Balance(a)' = Balance(a)
    BY <2>2 DEF Balance
  <2>7. Base(q) \in Int
    BY SumsAreTyped DEF SumsTyped
  <2>8. Base(q)' = Base(q) + n
    BY <1>2, <2>4, <2>5, <2>6, <2>7 DEF Base
  <2> HIDE DEF n
  <2>9. Unmatched(q)' = Unmatched(q) + n
    BY <1>1, <1>4, <2>2, <2>8, PayLedger
  <2> QED BY ONLY <1>2, <1>4, <2>9 DEF Even
<1>6. CASE p \in DOMAIN db.positions
  <2>1. UNCHANGED db /\ GrantLost(t)
    BY <1>6 DEF GrantInsertPosition, GrantLost
  <2>2. Unmatched(q)' = Unmatched(q)
    BY <1>1, <2>1, QuietLedger DEF SameBooks, SameRows, Base, Balance, Held
  <2> HIDE DEF n
  <2>3. CASE q.of = "shares"
    BY <1>2, <1>4, <2>1, <2>2, <2>3 DEF Loses
  <2>4. CASE q.of # "shares"
    BY <1>2, <1>4, <2>2, <2>4 DEF Even
  <2> QED BY <2>3, <2>4
<1> QED BY <1>5, <1>6

-----------------------------------------------------------------------------
(* Every step.                                                             *)

\* The statements that only read, and the row of a symbol.
LEMMA ReadLedger ==
  ASSUME NEW q, NEW t \in Thread, ~Terminate,
         \/ Receive(t) \/ CreateSymbol(t) \/ GrantSelectAccount(t) \/ GrantSelectPosition(t)
         \/ OrderSelectAccount(t) \/ OrderSelectSymbol(t) \/ Commit(t) \/ QuerySelectOrder(t)
         \/ QuerySelectCanceled(t) \/ QuerySelectExecuted(t) \/ CancelSelectExecuted(t),
         IsDatabase(db)
  PROVE  Even(q)
<1>1. UNCHANGED <<pending, trades, paidIn>>
  BY DEF Receive, CreateSymbol, GrantSelectAccount, GrantSelectPosition, OrderSelectAccount,
     OrderSelectSymbol, Commit, QuerySelectOrder, QuerySelectCanceled, QuerySelectExecuted,
     CancelSelectExecuted, history
<1>2. UNCHANGED <<db.accounts, db.positions, db.transactions, db.canceled_trans, db.executed_trans>>
  BY DEF Receive, CreateSymbol, GrantSelectAccount, GrantSelectPosition, OrderSelectAccount,
     OrderSelectSymbol, Commit, QuerySelectOrder, QuerySelectCanceled, QuerySelectExecuted,
     CancelSelectExecuted, IsDatabase
<1>3. SameBooks(q) /\ Paid(q)' = Paid(q)
  BY <1>1, <1>2 DEF SameBooks, SameRows, Base, Balance, Held, Paid
<1> QED BY <1>1, <1>3, QuietLedger DEF Even

\* A cancellation composed, or refused.
LEMMA CancelSelectLedger ==
  ASSUME KeyInv, KeyInv', NEW q \in Quantity, NEW t \in Thread, CancelSelectOrder(t)
  PROVE  Unmatched(q)' = Unmatched(q)
<1>1. pending[t] = << >> /\ UNCHANGED <<db, trades>>
  BY DEF CancelSelectOrder, At, history
<1>2. SameBooks(q)
  BY <1>1 DEF SameBooks, SameRows, Base, Balance, Held
<1>3. OnlyWorker(t)
  BY CancelKeys DEF KeepsKeys
<1>4. CASE UNCHANGED pending
  BY <1>1, <1>2, <1>4, QuietLedger
<1>5. ASSUME NEW i \in DOMAIN db.transactions,
             pending' = [pending EXCEPT ![t] = CancelStatements(i, db.transactions[i])]
      PROVE  Unmatched(q)' = Unmatched(q)
  BY <1>1, <1>2, <1>3, <1>5, CancelLedger
<1> QED BY <1>4, <1>5 DEF CancelSelectOrder

\* While the engine is up every step moves q and its ledger alike, but for a grant
\* that is lost.
LEMMA NextLedger ==
  ASSUME KeyInv, KeyInv', [Next]_vars, alive', NEW q \in Quantity
  PROVE  Even(q) \/ (Loses(q) /\ \E t \in Thread : GrantLost(t))
<1>1. ~Terminate
  BY DEF Terminate
<1>2. CASE UNCHANGED vars
  <2>1. SameBooks(q) /\ Paid(q)' = Paid(q)
    BY <1>2 DEF SameBooks, SameRows, Base, Balance, Held, Paid, vars
  <2> QED BY <1>2, <2>1, QuietLedger DEF Even, vars
<1>3. ASSUME NEW t \in Thread, Unmatched(q)' = Unmatched(q), UNCHANGED paidIn
      PROVE  Even(q)
  BY <1>3 DEF Even, Paid
<1>4. ASSUME NEW t \in Thread, Receive(t) \/ Step(t)
      PROVE  Even(q) \/ (Loses(q) /\ GrantLost(t))
  <2>1. IsDatabase(db)
    BY TypeParts DEF KeyInv, TradeInv, EngineTyped
  <2>2. CASE Exec(t)
    BY <1>3, <2>2, ExecLedger DEF Exec, history
  <2>3. CASE CreateAccount(t) \/ GrantUpdatePosition(t) \/ GrantInsertPosition(t)
    BY <2>3, CreateAccountLedger, GrantUpdateLedger, GrantInsertLedger
  <2>4. CASE OrderSelectPosition(t) \/ OrderInsertPosition(t) \/ OpenSell(t)
    BY <1>1, <1>3, <2>4, OpenLedger DEF OrderSelectPosition, OrderInsertPosition, OpenSell, history
  <2>5. CASE BuySelectAsk(t) \/ SellSelectBid(t)
    BY <1>3, <2>5, MatchLedger DEF BuySelectAsk, SellSelectBid
  <2>6. CASE CancelSelectOrder(t)
    BY <1>3, <2>6, CancelSelectLedger DEF CancelSelectOrder, history
  <2> QED BY <1>1, <1>4, <2>1, <2>2, <2>3, <2>4, <2>5, <2>6, ReadLedger DEF Step, Raise
<1> QED BY <1>2, <1>4 DEF Next, Stopped
-----------------------------------------------------------------------------
(* The ledgers of the properties.                                          *)

\* A sum over a table, entry by entry, and one of entries of the opposite sign.
LEMMA OverValues ==
  ASSUME NEW s, NEW e, NEW v, v = [k \in DOMAIN s |-> v[k]], \A k \in DOMAIN s : v[k] = e[s[k]]
  PROVE  SumFunction(v) = Over(s, e)
<1>1. v = [k \in DOMAIN s |-> e[s[k]]]
  OBVIOUS
<1> QED BY <1>1 DEF Over

LEMMA OverNegated ==
  ASSUME NEW T, NEW s \in Seq(T), NEW e, Valued(s, e),
         NEW v, v = [k \in DOMAIN s |-> v[k]], \A k \in DOMAIN s : e[s[k]] = -v[k] /\ v[k] \in Int
  PROVE  SumFunction(v) \in Int /\ SumFunction(v) = -Over(s, e)
<1> DEFINE f == [k \in DOMAIN s |-> e[s[k]]]
<1>1. Summable(f)
  BY OverInt
<1>2. DOMAIN v = DOMAIN f /\ \A k \in DOMAIN f : v[k] = -f[k]
  OBVIOUS
<1> HIDE DEF f
<1>3. Summable(v) /\ SumFunction(v) = -SumFunction(f)
  BY <1>1, <1>2, TotalNegated
<1> QED BY <1>3, TotalInt DEF Over, f

\* A sum over a table whose entries are all 0.
LEMMA OverZero ==
  ASSUME NEW T, NEW s \in Seq(T), NEW e, \A k \in DOMAIN s : e[s[k]] = 0
  PROVE  Over(s, e) = 0
<1> DEFINE f == [k \in DOMAIN s |-> e[s[k]]]
<1>1. IsFiniteSet(DOMAIN f)
  BY LenProperties, FS_Interval
<1>2. \A k \in DOMAIN f : f[k] = 0
  OBVIOUS
<1> HIDE DEF f
<1>3. SumFunction(f) = 0
  BY <1>1, <1>2, TotalZero
<1> QED BY <1>3 DEF Over, f

\* A sum over what is underway.
LEMMA SendingValues ==
  ASSUME NEW e, NEW v, v = [t \in Thread |-> v[t]], \A t \in Thread : v[t] = Over(pending[t], e)
  PROVE  SumFunction(v) = Sending(pending, e)
<1>1. v = [t \in Thread |-> Over(pending[t], e)]
  OBVIOUS
<1> QED BY <1>1 DEF Sending

\* A sum over what is underway, statement by statement.
LEMMA DueUnderway ==
  ASSUME KeyInv, NEW q \in Quantity, NEW one,
         \A t \in Thread : /\ one[t] = [k \in DOMAIN pending[t] |-> one[t][k]]
                           /\ \A k \in DOMAIN pending[t] : one[t][k] = Due(pending[t][k], q)
  PROVE  SumFunction([t \in Thread |-> SumFunction(one[t])]) = Sending(pending, Dues(q))
<1> DEFINE v == [t \in Thread |-> SumFunction(one[t])]
<1>1. SumsTyped(q)
  BY SumsAreTyped
<1>2. ASSUME NEW t \in Thread PROVE SumFunction(one[t]) = Over(pending[t], Dues(q))
  <2>1. \A k \in DOMAIN pending[t] : pending[t][k] \in Statement
    BY <1>1, ElementOfSeq DEF SumsTyped
  <2>2. \A k \in DOMAIN pending[t] : one[t][k] = Dues(q)[pending[t][k]]
    BY <2>1 DEF Dues
  <2> QED BY <2>2, OverValues
<1>3. v = [t \in Thread |-> v[t]] /\ \A t \in Thread : v[t] = Over(pending[t], Dues(q))
  BY <1>2
<1> HIDE DEF v
<1>4. SumFunction(v) = Sending(pending, Dues(q))
  BY <1>3, SendingValues
<1> QED BY <1>4 DEF v

\* What is underway to a balance, to a position and to the executions of an order.
LEMMA CashUnderway ==
  ASSUME KeyInv, NEW a, NEW q \in Quantity, q = [of |-> "cash", key |-> a]
  PROVE  Underway(LAMBDA st : CashDue(st, a)) = Sending(pending, Dues(q))
<1> DEFINE one == [t \in Thread |-> [k \in DOMAIN pending[t] |-> CashDue(pending[t][k], a)]]
<1>1. \A st : Due(st, q) = CashDue(st, a)
  BY DEF Due
<1>2. \A t \in Thread : /\ one[t] = [k \in DOMAIN pending[t] |-> one[t][k]]
                        /\ \A k \in DOMAIN pending[t] : one[t][k] = Due(pending[t][k], q)
  BY <1>1
<1> HIDE DEF one
<1>3. SumFunction([t \in Thread |-> SumFunction(one[t])]) = Sending(pending, Dues(q))
  BY <1>2, DueUnderway
<1>4. \A t \in Thread : one[t] = [k \in DOMAIN pending[t] |-> CashDue(pending[t][k], a)]
  BY DEF one
<1>5. [t \in Thread |-> SumFunction(one[t])]
        = [t \in Thread |-> SumFunction([k \in DOMAIN pending[t] |-> CashDue(pending[t][k], a)])]
  BY <1>4
<1> QED BY <1>3, <1>5 DEF Underway, SumOver

LEMMA SharesUnderway ==
  ASSUME KeyInv, NEW p, NEW q \in Quantity, q = [of |-> "shares", key |-> p]
  PROVE  Underway(LAMBDA st : SharesDue(st, p)) = Sending(pending, Dues(q))
<1> DEFINE one == [t \in Thread |-> [k \in DOMAIN pending[t] |-> SharesDue(pending[t][k], p)]]
<1>1. \A st : Due(st, q) = SharesDue(st, p)
  BY DEF Due
<1>2. \A t \in Thread : /\ one[t] = [k \in DOMAIN pending[t] |-> one[t][k]]
                        /\ \A k \in DOMAIN pending[t] : one[t][k] = Due(pending[t][k], q)
  BY <1>1
<1> HIDE DEF one
<1>3. SumFunction([t \in Thread |-> SumFunction(one[t])]) = Sending(pending, Dues(q))
  BY <1>2, DueUnderway
<1>4. \A t \in Thread : one[t] = [k \in DOMAIN pending[t] |-> SharesDue(pending[t][k], p)]
  BY DEF one
<1>5. [t \in Thread |-> SumFunction(one[t])]
        = [t \in Thread |-> SumFunction([k \in DOMAIN pending[t] |-> SharesDue(pending[t][k], p)])]
  BY <1>4
<1> QED BY <1>3, <1>5 DEF Underway, SumOver

LEMMA CountUnderway ==
  ASSUME KeyInv, NEW i, NEW q \in Quantity, q = [of |-> "count", key |-> i]
  PROVE  Underway(LAMBDA st : CountDue(st, i)) = Sending(pending, Dues(q))
<1> DEFINE one == [t \in Thread |-> [k \in DOMAIN pending[t] |-> CountDue(pending[t][k], i)]]
<1>1. \A st : Due(st, q) = CountDue(st, i)
  BY DEF Due
<1>2. \A t \in Thread : /\ one[t] = [k \in DOMAIN pending[t] |-> one[t][k]]
                        /\ \A k \in DOMAIN pending[t] : one[t][k] = Due(pending[t][k], q)
  BY <1>1
<1> HIDE DEF one
<1>3. SumFunction([t \in Thread |-> SumFunction(one[t])]) = Sending(pending, Dues(q))
  BY <1>2, DueUnderway
<1>4. \A t \in Thread : one[t] = [k \in DOMAIN pending[t] |-> CountDue(pending[t][k], i)]
  BY DEF one
<1>5. [t \in Thread |-> SumFunction(one[t])]
        = [t \in Thread |-> SumFunction([k \in DOMAIN pending[t] |-> CountDue(pending[t][k], i)])]
  BY <1>4
<1> QED BY <1>3, <1>5 DEF Underway, SumOver

LEMMA MovedUnderway ==
  ASSUME KeyInv, NEW i, NEW q \in Quantity, q = [of |-> "moved", key |-> i]
  PROVE  Underway(LAMBDA st : MovedDue(st, i)) = Sending(pending, Dues(q))
<1> DEFINE one == [t \in Thread |-> [k \in DOMAIN pending[t] |-> MovedDue(pending[t][k], i)]]
<1>1. \A st : Due(st, q) = MovedDue(st, i)
  BY DEF Due
<1>2. \A t \in Thread : /\ one[t] = [k \in DOMAIN pending[t] |-> one[t][k]]
                        /\ \A k \in DOMAIN pending[t] : one[t][k] = Due(pending[t][k], q)
  BY <1>1
<1> HIDE DEF one
<1>3. SumFunction([t \in Thread |-> SumFunction(one[t])]) = Sending(pending, Dues(q))
  BY <1>2, DueUnderway
<1>4. \A t \in Thread : one[t] = [k \in DOMAIN pending[t] |-> MovedDue(pending[t][k], i)]
  BY DEF one
<1>5. [t \in Thread |-> SumFunction(one[t])]
        = [t \in Thread |-> SumFunction([k \in DOMAIN pending[t] |-> MovedDue(pending[t][k], i)])]
  BY <1>4
<1> QED BY <1>3, <1>5 DEF Underway, SumOver

\* The ledger of an account's money.
LEMMA CashBooks ==
  ASSUME KeyInv, NEW a \in DOMAIN db.accounts, NEW q \in Quantity, q = [of |-> "cash", key |-> a],
         Unmatched(q) = Paid(q)
  PROVE  db.accounts[a] + Underway(LAMBDA st : CashDue(st, a)) = CashLedger(a)
<1> DEFINE due == Underway(LAMBDA st : CashDue(st, a))
           set == [i \in DOMAIN db.transactions |-> SetAside(db.transactions[i], a)]
           sold == [n \in DOMAIN trades |-> Proceeds(trades[n], a)]
           back == [n \in DOMAIN db.canceled_trans |-> Refund(db.canceled_trans[n], a)]
<1>1. SumsTyped(q)
  BY SumsAreTyped
<1>2. IntegerSums(q)
  BY <1>1, SumsInt
<1>3. SumFunction(set) = Over(db.transactions, OrderEntries(q))
  <2>1. \A k \in DOMAIN db.transactions : set[k] = OrderEntries(q)[db.transactions[k]]
    BY <1>1, ElementOfSeq DEF SumsTyped, OrderEntries, OrderEntry
  <2>2. set = [k \in DOMAIN db.transactions |-> set[k]]
    OBVIOUS
  <2> HIDE DEF set
  <2> QED BY <2>1, <2>2, OverValues
<1>4. SumFunction(sold) = Over(trades, TradeEntries(q))
  <2>1. \A k \in DOMAIN trades : sold[k] = TradeEntries(q)[trades[k]]
    BY <1>1, ElementOfSeq DEF SumsTyped, TradeEntries, TradeEntry
  <2>2. sold = [k \in DOMAIN trades |-> sold[k]]
    OBVIOUS
  <2> HIDE DEF sold
  <2> QED BY <2>1, <2>2, OverValues
<1>5. SumFunction(back) \in Int /\ SumFunction(back) = -Over(db.canceled_trans, CanceledEntries(q))
  <2>1. \A k \in DOMAIN db.canceled_trans :
          CanceledEntries(q)[db.canceled_trans[k]] = -back[k] /\ back[k] \in Int
    <3> SUFFICES ASSUME NEW k \in DOMAIN db.canceled_trans
                 PROVE  CanceledEntries(q)[db.canceled_trans[k]] = -back[k] /\ back[k] \in Int
      OBVIOUS
    <3> DEFINE c == db.canceled_trans[k]
    <3>1. c \in Cancellation /\ c.id \in DOMAIN db.transactions
      BY <1>1, ElementOfSeq DEF SumsTyped, KeyInv, ForeignKeysHold
    <3>2. db.transactions[c.id] \in Order
      BY <1>1, <3>1, ElementOfSeq DEF SumsTyped
    <3>3. Refund(c, a) \in Int
      BY <3>1, <3>2 DEF Refund, Order, Cancellation
    <3> QED BY <3>1, <3>3 DEF CanceledEntries, CanceledEntry
  <2>2. back = [k \in DOMAIN db.canceled_trans |-> back[k]]
    OBVIOUS
  <2>3. db.canceled_trans \in Seq(Cancellation) /\ Valued(db.canceled_trans, CanceledEntries(q))
    BY <1>1 DEF SumsTyped
  <2> HIDE DEF back
  <2> QED BY <2>1, <2>2, <2>3, OverNegated
<1>6. Over(db.executed_trans, ExecutedEntries(q)) = 0
  <2>1. \A k \in DOMAIN db.executed_trans : ExecutedEntries(q)[db.executed_trans[k]] = 0
    BY <1>1, ElementOfSeq DEF SumsTyped, ExecutedEntries, ExecutedEntry
  <2> QED BY <1>1, <2>1, OverZero DEF SumsTyped
<1>7. due = Sending(pending, Dues(q)) /\ Sending(pending, Dues(q)) \in Int
  <2>1. \A t \in Thread : Over(pending[t], Dues(q)) \in Int
    BY <1>2 DEF IntegerSums
  <2> QED BY <2>1, CashUnderway, SendingInt
<1>8. Base(q) = db.accounts[a] /\ Paid(q) = paidIn.cash[a] /\ Paid(q) \in Int
  BY LedgerInt DEF Base, Balance, Paid
<1>9. CashLedger(a) = paidIn.cash[a] - SumFunction(set) + SumFunction(sold) + SumFunction(back)
  BY DEF CashLedger, SumOver
<1> HIDE DEF due, set, sold, back
<1>10. /\ Over(db.transactions, OrderEntries(q)) \in Int /\ Over(trades, TradeEntries(q)) \in Int
       /\ Over(db.canceled_trans, CanceledEntries(q)) \in Int /\ Base(q) \in Int
  BY <1>2 DEF IntegerSums
<1>11. db.accounts[a] + due = CashLedger(a)
  BY ONLY <1>3, <1>4, <1>5, <1>6, <1>7, <1>8, <1>9, <1>10, Unmatched(q) = Paid(q)
     DEF Unmatched, InTables
<1> QED BY <1>11 DEF due
\* A position with what is underway to it.
Holding(p) == db.positions[p] + Underway(LAMBDA st : SharesDue(st, p))

\* The executions of order i are those of its matches, counted and added up.
CountKept(i) ==
  SumOver(DOMAIN db.executed_trans, LAMBDA n : RowCount(db.executed_trans[n], i))
    + Underway(LAMBDA st : CountDue(st, i))
  = SumOver(DOMAIN trades, LAMBDA n : LegCount(trades[n], i))
MovedKept(i) ==
  SumOver(DOMAIN db.executed_trans, LAMBDA n : RowShares(db.executed_trans[n], i))
    + Underway(LAMBDA st : MovedDue(st, i))
  = SumOver(DOMAIN trades, LAMBDA n : LegShares(trades[n], i))

\* The ledger of a position, and what it is short of it.
LEMMA SharesBooks ==
  ASSUME KeyInv, NEW p \in DOMAIN db.positions, NEW q \in Quantity, q = [of |-> "shares", key |-> p]
  PROVE  /\ Holding(p) \in Int /\ SharesLedger(p) \in Int
         /\ Holding(p) - SharesLedger(p) = Unmatched(q) - Paid(q)
<1> DEFINE due == Underway(LAMBDA st : SharesDue(st, p))
           offer == [i \in DOMAIN db.transactions |-> Offered(db.transactions[i], p)]
           bought == [n \in DOMAIN trades |-> Bought(trades[n], p)]
           back == [n \in DOMAIN db.canceled_trans |-> SharesBack(db.canceled_trans[n], p)]
<1>1. SumsTyped(q)
  BY SumsAreTyped
<1>2. IntegerSums(q)
  BY <1>1, SumsInt
<1>3. SumFunction(offer) \in Int /\ SumFunction(offer) = -Over(db.transactions, OrderEntries(q))
  <2>1. \A k \in DOMAIN db.transactions :
          OrderEntries(q)[db.transactions[k]] = -offer[k] /\ offer[k] \in Int
    <3> SUFFICES ASSUME NEW k \in DOMAIN db.transactions
                 PROVE  OrderEntries(q)[db.transactions[k]] = -offer[k] /\ offer[k] \in Int
      OBVIOUS
    <3> DEFINE o == db.transactions[k]
    <3>1. o \in Order
      BY <1>1, ElementOfSeq DEF SumsTyped
    <3>2. offer[k] = Offered(o, p) /\ OrderEntries(q)[o] = -Offered(o, p)
      BY <3>1 DEF OrderEntries, OrderEntry
    <3>3. Offered(o, p) \in Int
      BY <3>1 DEF Offered, Order
    <3> QED BY <3>2, <3>3
  <2>2. offer = [k \in DOMAIN db.transactions |-> offer[k]]
    OBVIOUS
  <2>3. db.transactions \in Seq(Order) /\ Valued(db.transactions, OrderEntries(q))
    BY <1>1 DEF SumsTyped
  <2> HIDE DEF offer
  <2> QED BY <2>1, <2>2, <2>3, OverNegated
<1>4. SumFunction(bought) = Over(trades, TradeEntries(q))
  <2>1. \A k \in DOMAIN trades : bought[k] = TradeEntries(q)[trades[k]]
    BY <1>1, ElementOfSeq DEF SumsTyped, TradeEntries, TradeEntry
  <2>2. bought = [k \in DOMAIN trades |-> bought[k]]
    OBVIOUS
  <2> HIDE DEF bought
  <2> QED BY <2>1, <2>2, OverValues
<1>5. SumFunction(back) \in Int /\ SumFunction(back) = -Over(db.canceled_trans, CanceledEntries(q))
  <2>1. \A k \in DOMAIN db.canceled_trans :
          CanceledEntries(q)[db.canceled_trans[k]] = -back[k] /\ back[k] \in Int
    <3> SUFFICES ASSUME NEW k \in DOMAIN db.canceled_trans
                 PROVE  CanceledEntries(q)[db.canceled_trans[k]] = -back[k] /\ back[k] \in Int
      OBVIOUS
    <3> DEFINE c == db.canceled_trans[k]
    <3>1. c \in Cancellation
      BY <1>1, ElementOfSeq DEF SumsTyped
    <3>2. back[k] = SharesBack(c, p) /\ CanceledEntries(q)[c] = -SharesBack(c, p)
      BY <3>1 DEF CanceledEntries, CanceledEntry
    <3>3. SharesBack(c, p) \in Int
      BY <3>1 DEF SharesBack, Cancellation
    <3> QED BY <3>2, <3>3
  <2>2. back = [k \in DOMAIN db.canceled_trans |-> back[k]]
    OBVIOUS
  <2>3. db.canceled_trans \in Seq(Cancellation) /\ Valued(db.canceled_trans, CanceledEntries(q))
    BY <1>1 DEF SumsTyped
  <2> HIDE DEF back
  <2> QED BY <2>1, <2>2, <2>3, OverNegated
<1>6. Over(db.executed_trans, ExecutedEntries(q)) = 0
  <2>1. \A k \in DOMAIN db.executed_trans : ExecutedEntries(q)[db.executed_trans[k]] = 0
    BY <1>1, ElementOfSeq DEF SumsTyped, ExecutedEntries, ExecutedEntry
  <2> QED BY <1>1, <2>1, OverZero DEF SumsTyped
<1>7. due = Sending(pending, Dues(q)) /\ Sending(pending, Dues(q)) \in Int
  <2>1. \A t \in Thread : Over(pending[t], Dues(q)) \in Int
    BY <1>2 DEF IntegerSums
  <2> QED BY <2>1, SharesUnderway, SendingInt
<1>8. Base(q) = db.positions[p] /\ Paid(q) = paidIn.shares[p] /\ Paid(q) \in Int
  BY LedgerInt DEF Base, Held, Paid
<1>9. SharesLedger(p) = paidIn.shares[p] + SumFunction(offer) + SumFunction(bought)
                          + SumFunction(back)
  BY DEF SharesLedger, SumOver
<1> HIDE DEF due, offer, bought, back
<1>10. /\ Over(db.transactions, OrderEntries(q)) \in Int /\ Over(trades, TradeEntries(q)) \in Int
       /\ Over(db.canceled_trans, CanceledEntries(q)) \in Int /\ Base(q) \in Int
  BY <1>2 DEF IntegerSums
<1>11. Holding(p) = db.positions[p] + due
  BY DEF Holding, due
<1> QED BY ONLY <1>3, <1>4, <1>5, <1>6, <1>7, <1>8, <1>9, <1>10, <1>11 DEF Unmatched, InTables

\* The executions of an order, counted or added up, are those of its matches.
LEMMA ExecutedBooks ==
  ASSUME KeyInv, NEW q \in Quantity, q.of \in {"count", "moved"}, Unmatched(q) = Paid(q)
  PROVE  Over(db.executed_trans, ExecutedEntries(q)) + Sending(pending, Dues(q))
           = Over(trades, TradeEntries(q))
<1>1. SumsTyped(q)
  BY SumsAreTyped
<1>2. IntegerSums(q)
  BY <1>1, SumsInt
<1>3. Over(db.transactions, OrderEntries(q)) = 0
  <2>1. \A k \in DOMAIN db.transactions : OrderEntries(q)[db.transactions[k]] = 0
    BY <1>1, ElementOfSeq DEF SumsTyped, OrderEntries, OrderEntry
  <2> QED BY <1>1, <2>1, OverZero DEF SumsTyped
<1>4. Over(db.canceled_trans, CanceledEntries(q)) = 0
  <2>1. \A k \in DOMAIN db.canceled_trans : CanceledEntries(q)[db.canceled_trans[k]] = 0
    BY <1>1, ElementOfSeq DEF SumsTyped, CanceledEntries, CanceledEntry
  <2> QED BY <1>1, <2>1, OverZero DEF SumsTyped
<1>5. Sending(pending, Dues(q)) \in Int
  <2>1. \A t \in Thread : Over(pending[t], Dues(q)) \in Int
    BY <1>2 DEF IntegerSums
  <2> QED BY <2>1, SendingInt
<1>6. Base(q) = 0 /\ Paid(q) = 0
  BY DEF Base, Paid
<1>7. /\ Over(trades, TradeEntries(q)) \in Int
      /\ Over(db.executed_trans, ExecutedEntries(q)) \in Int
  BY <1>2 DEF IntegerSums
<1> DEFINE x == Over(db.executed_trans, ExecutedEntries(q))
           u == Sending(pending, Dues(q))
           k == Over(trades, TradeEntries(q))
<1>8. 0 + 0 + 0 + x + u - k = 0
  BY <1>3, <1>4, <1>6 DEF Unmatched, InTables
<1>9. x \in Int /\ u \in Int /\ k \in Int
  BY <1>5, <1>7
<1> HIDE DEF x, u, k
<1>10. x + u = k
  BY ONLY <1>8, <1>9
<1> QED BY <1>10 DEF x, u, k

LEMMA CountBooks ==
  ASSUME KeyInv, NEW i, NEW q \in Quantity, q = [of |-> "count", key |-> i], Unmatched(q) = Paid(q)
  PROVE  CountKept(i)
<1> DEFINE rows == [n \in DOMAIN db.executed_trans |-> RowCount(db.executed_trans[n], i)]
           legs == [n \in DOMAIN trades |-> LegCount(trades[n], i)]
<1>1. SumsTyped(q)
  BY SumsAreTyped
<1>2. SumFunction(rows) = Over(db.executed_trans, ExecutedEntries(q))
  <2>1. \A k \in DOMAIN db.executed_trans : rows[k] = ExecutedEntries(q)[db.executed_trans[k]]
    BY <1>1, ElementOfSeq DEF SumsTyped, ExecutedEntries, ExecutedEntry
  <2>2. rows = [k \in DOMAIN db.executed_trans |-> rows[k]]
    OBVIOUS
  <2> HIDE DEF rows
  <2> QED BY <2>1, <2>2, OverValues
<1>3. SumFunction(legs) = Over(trades, TradeEntries(q))
  <2>1. \A k \in DOMAIN trades : legs[k] = TradeEntries(q)[trades[k]]
    BY <1>1, ElementOfSeq DEF SumsTyped, TradeEntries, TradeEntry
  <2>2. legs = [k \in DOMAIN trades |-> legs[k]]
    OBVIOUS
  <2> HIDE DEF legs
  <2> QED BY <2>1, <2>2, OverValues
<1>4. Underway(LAMBDA st : CountDue(st, i)) = Sending(pending, Dues(q))
  BY CountUnderway
<1>5. q.of \in {"count", "moved"}
  OBVIOUS
<1>6. SumFunction(rows) + Sending(pending, Dues(q)) = SumFunction(legs)
  BY <1>2, <1>3, <1>5, ExecutedBooks
<1> QED BY <1>4, <1>6 DEF SumOver, CountKept

LEMMA MovedBooks ==
  ASSUME KeyInv, NEW i, NEW q \in Quantity, q = [of |-> "moved", key |-> i], Unmatched(q) = Paid(q)
  PROVE  MovedKept(i)
<1> DEFINE rows == [n \in DOMAIN db.executed_trans |-> RowShares(db.executed_trans[n], i)]
           legs == [n \in DOMAIN trades |-> LegShares(trades[n], i)]
<1>1. SumsTyped(q)
  BY SumsAreTyped
<1>2. SumFunction(rows) = Over(db.executed_trans, ExecutedEntries(q))
  <2>1. \A k \in DOMAIN db.executed_trans : rows[k] = ExecutedEntries(q)[db.executed_trans[k]]
    BY <1>1, ElementOfSeq DEF SumsTyped, ExecutedEntries, ExecutedEntry
  <2>2. rows = [k \in DOMAIN db.executed_trans |-> rows[k]]
    OBVIOUS
  <2> HIDE DEF rows
  <2> QED BY <2>1, <2>2, OverValues
<1>3. SumFunction(legs) = Over(trades, TradeEntries(q))
  <2>1. \A k \in DOMAIN trades : legs[k] = TradeEntries(q)[trades[k]]
    BY <1>1, ElementOfSeq DEF SumsTyped, TradeEntries, TradeEntry
  <2>2. legs = [k \in DOMAIN trades |-> legs[k]]
    OBVIOUS
  <2> HIDE DEF legs
  <2> QED BY <2>1, <2>2, OverValues
<1>4. Underway(LAMBDA st : MovedDue(st, i)) = Sending(pending, Dues(q))
  BY MovedUnderway
<1>5. q.of \in {"count", "moved"}
  OBVIOUS
<1>6. SumFunction(rows) + Sending(pending, Dues(q)) = SumFunction(legs)
  BY <1>2, <1>3, <1>5, ExecutedBooks
<1> QED BY <1>4, <1>6 DEF SumOver, MovedKept

-----------------------------------------------------------------------------
(* The inductive invariant.                                                *)

\* While the engine is up every quantity is its ledger, but that a position may
\* have lost a grant.
Balanced(q) == IF q.of = "shares" THEN Unmatched(q) <= Paid(q) ELSE Unmatched(q) = Paid(q)
LedgerInv == KeyInv /\ (alive => \A q \in Quantity : Balanced(q))

\* The clients start with nothing ordered, and what the tables hold is paid in.
LEMMA InitBalanced == Init => \A q \in Quantity : Unmatched(q) = Paid(q) /\ Paid(q) \in Int
<1> SUFFICES ASSUME Init, NEW q \in Quantity PROVE Unmatched(q) = Paid(q) /\ Paid(q) \in Int
  OBVIOUS
<1>1. KeyInv
  BY InitKeys
<1>2. Paid(q) \in Int /\ Base(q) \in Int
  BY <1>1, LedgerInt, SumsAreTyped DEF SumsTyped
<1>3. Base(q) = Paid(q)
  BY SeedAssumption DEF Init, Base, Balance, Held, Paid, Quantity
<1>4. /\ db.transactions = << >> /\ db.canceled_trans = << >> /\ db.executed_trans = << >>
      /\ trades = << >> /\ \A t \in Thread : pending[t] = << >>
  BY SeedAssumption DEF Init
<1>5. Sending(pending, Dues(q)) = 0
  <2> DEFINE v == [t \in Thread |-> Over(pending[t], Dues(q))]
  <2>1. DOMAIN v = Thread /\ \A t \in Thread : v[t] = 0
    BY <1>4, OverNone
  <2> HIDE DEF v
  <2>2. SumFunction(v) = 0
    BY <2>1, FinitenessAssumption, TotalZero
  <2> QED BY <2>2 DEF Sending, v
<1>6. /\ Over(db.transactions, OrderEntries(q)) = 0 /\ Over(db.canceled_trans, CanceledEntries(q)) = 0
      /\ Over(db.executed_trans, ExecutedEntries(q)) = 0 /\ Over(trades, TradeEntries(q)) = 0
  BY <1>4, OverNone
<1> QED BY ONLY <1>2, <1>3, <1>5, <1>6 DEF Unmatched, InTables

LEMMA InitBooks == Init => LedgerInv
<1> SUFFICES ASSUME Init, NEW q \in Quantity PROVE Balanced(q)
  BY InitKeys DEF LedgerInv
<1> QED BY InitBalanced DEF Balanced

\* An engine that is up was up.
LEMMA AliveBefore == [Next]_vars /\ alive' => alive
<1> SUFFICES ASSUME NEW t \in Thread, Receive(t) \/ Step(t), alive' PROVE alive
  BY DEF Next, Stopped, vars
<1> QED BY DEF Receive, Step, Exec, CreateAccount, CreateSymbol, GrantSelectAccount,
     GrantSelectPosition, GrantInsertPosition, GrantUpdatePosition, OrderSelectAccount,
     OrderSelectSymbol, OrderSelectPosition, OrderInsertPosition, OpenSell, BuySelectAsk,
     SellSelectBid, Commit, QuerySelectOrder, QuerySelectCanceled, QuerySelectExecuted,
     CancelSelectOrder, CancelSelectExecuted, Raise, At

\* Every step keeps the inductive invariant.
LEMMA NextBooks == LedgerInv /\ [Next]_vars => LedgerInv'
<1> SUFFICES ASSUME LedgerInv, [Next]_vars PROVE LedgerInv'
  OBVIOUS
<1>1. KeyInv /\ KeyInv'
  BY NextKeys DEF LedgerInv
<1>2. ASSUME alive', NEW q \in Quantity PROVE Balanced(q)'
  <2>1. Balanced(q)
    BY <1>2, AliveBefore DEF LedgerInv
  <2>2. Even(q) \/ Loses(q)
    BY <1>1, <1>2, NextLedger
  <2>3. /\ Unmatched(q) \in Int /\ Paid(q) \in Int
        /\ Unmatched(q)' \in Int /\ Paid(q)' \in Int
    BY <1>1, LedgerInt, LedgerIntNext
  <2> DEFINE n == Unmatched(q)
             p == Paid(q)
             m == Unmatched(q)'
             r == Paid(q)'
  <2>4. /\ n \in Int /\ p \in Int /\ m \in Int /\ r \in Int
        /\ m - r = n - p \/ (q.of = "shares" /\ m = n /\ r >= p)
        /\ IF q.of = "shares" THEN n <= p ELSE n = p
    BY <2>1, <2>2, <2>3 DEF Even, Loses, Balanced
  <2>5. SUFFICES IF q.of = "shares" THEN m <= r ELSE m = r
    BY DEF Balanced
  <2> HIDE DEF n, p, m, r
  <2> QED BY ONLY <2>4
<1> QED BY <1>1, <1>2 DEF LedgerInv

LEMMA BooksKept == Spec => []LedgerInv
BY InitBooks, NextBooks, PTL DEF Spec

\* No balance ever drifts from the ledger, for every set of threads, accounts,
\* symbols and requests: every match and every refund reaches every account it
\* names exactly once, however the UPDATEs of the workers interleave
\* (handle_command.cpp:270, 369, 382, 432, 446, 579, 592, 642, 655, 835).
THEOREM BalancesNeverDrift == Spec => []BalanceIsLedger
<1>1. LedgerInv => BalanceIsLedger
  <2> SUFFICES ASSUME LedgerInv, alive, NEW a \in DOMAIN db.accounts
               PROVE  db.accounts[a] + Underway(LAMBDA st : CashDue(st, a)) = CashLedger(a)
    BY DEF BalanceIsLedger
  <2> DEFINE q == [of |-> "cash", key |-> a]
  <2>1. a \in Account
    BY TypeParts DEF LedgerInv, KeyInv, TradeInv, EngineTyped, IsDatabase, IsTable
  <2>2. q \in Quantity /\ q.of = "cash"
    BY <2>1 DEF Quantity
  <2>3. Unmatched(q) = Paid(q)
    <3> HIDE DEF q
    <3> QED BY <2>2 DEF LedgerInv, Balanced
  <2> QED BY <2>2, <2>3, CashBooks DEF LedgerInv
<1> QED BY <1>1, BooksKept, PTL

\* No position ever exceeds its ledger, for every set of threads, accounts, symbols
\* and requests: a grant may be lost to another worker's INSERT
\* (handle_command.cpp:86-96, 151), and no share is ever given twice.
THEOREM NoGrantTwice == Spec => []GrantsBounded
<1>1. LedgerInv => GrantsBounded
  <2> SUFFICES ASSUME LedgerInv, alive, NEW p \in DOMAIN db.positions
               PROVE  Holding(p) <= SharesLedger(p)
    BY DEF GrantsBounded, Holding
  <2> DEFINE q == [of |-> "shares", key |-> p]
  <2>1. p \in Account \X Symbol
    BY TypeParts DEF LedgerInv, KeyInv, TradeInv, EngineTyped, IsDatabase, IsTable
  <2>2. q \in Quantity /\ q.of = "shares"
    BY <2>1 DEF Quantity
  <2>3. /\ Holding(p) \in Int /\ SharesLedger(p) \in Int
        /\ Holding(p) - SharesLedger(p) = Unmatched(q) - Paid(q)
    BY <2>2, SharesBooks DEF LedgerInv
  <2>4. Unmatched(q) <= Paid(q) /\ Unmatched(q) \in Int /\ Paid(q) \in Int
    <3> HIDE DEF q
    <3> QED BY <2>2, LedgerInt DEF LedgerInv, Balanced
  <2> HIDE DEF q
  <2> QED BY ONLY <2>3, <2>4
<1> QED BY <1>1, BooksKept, PTL

\* EXECUTED_TRANS is the record of the matches, for every set of threads, accounts,
\* symbols and requests: no execution of any order is lost, made twice or of
\* another size than its match, whatever rows the workers write meanwhile
\* (handle_command.cpp:336-359, 398-423, 547-571, 608-633).
THEOREM ExecutionsRecorded == Spec => []ExecutionsAreTrades
<1>1. LedgerInv => ExecutionsAreTrades
  <2> SUFFICES ASSUME LedgerInv, alive, NEW i \in DOMAIN db.transactions
               PROVE  CountKept(i) /\ MovedKept(i)
    BY DEF ExecutionsAreTrades, CountKept, MovedKept
  <2> DEFINE q == [of |-> "count", key |-> i]
             r == [of |-> "moved", key |-> i]
  <2>1. i \in Nat
    BY TypeParts, LenProperties DEF LedgerInv, KeyInv, TradeInv, EngineTyped, IsDatabase
  <2>2. q \in Quantity /\ q.of = "count" /\ r \in Quantity /\ r.of = "moved"
    BY <2>1 DEF Quantity
  <2>3. Unmatched(q) = Paid(q) /\ Unmatched(r) = Paid(r)
    <3> HIDE DEF q, r
    <3> QED BY <2>2 DEF LedgerInv, Balanced
  <2> QED BY <2>2, <2>3, CountBooks, MovedBooks DEF LedgerInv
<1> QED BY <1>1, BooksKept, PTL
-----------------------------------------------------------------------------
(* Where no grant is lost.                                                 *)

ExactInv == KeyInv /\ (alive => \A q \in Quantity : Unmatched(q) = Paid(q))

LEMMA InitExact == Init => ExactInv
BY InitKeys, InitBalanced DEF ExactInv

\* A step that loses no grant keeps every quantity its ledger.
LEMMA NextExact ==
  ASSUME ExactInv, [Next]_vars, \A t \in Thread : ~GrantLost(t)
  PROVE  ExactInv'
<1>1. KeyInv /\ KeyInv'
  BY NextKeys DEF ExactInv
<1>2. ASSUME alive', NEW q \in Quantity PROVE Unmatched(q)' = Paid(q)'
  <2>1. Unmatched(q) = Paid(q)
    BY <1>2, AliveBefore DEF ExactInv
  <2>2. Unmatched(q)' - Paid(q)' = Unmatched(q) - Paid(q)
    BY <1>1, <1>2, NextLedger DEF Even
  <2>3. /\ Unmatched(q) \in Int /\ Paid(q) \in Int
        /\ Unmatched(q)' \in Int /\ Paid(q)' \in Int
    BY <1>1, LedgerInt, LedgerIntNext
  <2> QED BY ONLY <2>1, <2>2, <2>3
<1> QED BY <1>1, <1>2 DEF ExactInv

LEMMA ExactPositions == ExactInv => PositionIsLedger
<1> SUFFICES ASSUME ExactInv, alive, NEW p \in DOMAIN db.positions
             PROVE  Holding(p) = SharesLedger(p)
  BY DEF PositionIsLedger, Holding
<1> DEFINE q == [of |-> "shares", key |-> p]
<1>1. p \in Account \X Symbol
  BY TypeParts DEF ExactInv, KeyInv, TradeInv, EngineTyped, IsDatabase, IsTable
<1>2. q \in Quantity
  BY <1>1 DEF Quantity
<1>3. /\ Holding(p) \in Int /\ SharesLedger(p) \in Int
      /\ Holding(p) - SharesLedger(p) = Unmatched(q) - Paid(q)
  BY <1>2, SharesBooks DEF ExactInv
<1> HIDE DEF q
<1>4. Unmatched(q) = Paid(q) /\ Unmatched(q) \in Int /\ Paid(q) \in Int
  BY <1>2, LedgerInt DEF ExactInv
<1> QED BY ONLY <1>3, <1>4

\* The clients trade, and have made their grants before.
TradingOnly == \A doc \in Document : \A k \in DOMAIN doc : doc[k].kind # "symbol"

NoGrantAsked == \A t \in Thread : \A k \in DOMAIN todo[t] : todo[t][k].kind # "symbol"

\* A worker asked for no grant is making none.
LEMMA NoGrantMade ==
  ASSUME TypeOK, NoGrantAsked, NEW t \in Thread
  PROVE  pc[t] \notin LabelsOf["symbol"] /\ ~GrantLost(t)
<1>1. ASSUME pc[t] \in LabelsOf["symbol"] PROVE FALSE
  <2>1. ControlTyped
    BY TypeParts
  <2>2. todo[t] # << >> /\ todo[t] \in Seq(RequestItem) /\ ItemOf(t) \in SymbolItem
    BY <1>1, <2>1, ItemAt, KindAt DEF ControlTyped, LabelsOf
  <2>3. ItemOf(t) = todo[t][1] /\ 1 \in DOMAIN todo[t]
    BY <2>2, HeadTailProperties, LenProperties DEF ItemOf
  <2> QED BY <2>2, <2>3 DEF NoGrantAsked, SymbolItem
<1> QED BY <1>1 DEF GrantLost, GrantInsertPosition, At, LabelsOf

\* What a step does to the items a worker has still to handle.
LEMMA NextItems ==
  ASSUME TypeOK, NEW t \in Thread, Receive(t) \/ Step(t)
  PROVE  \/ UNCHANGED todo
         \/ todo[t] # << >> /\ todo' = [todo EXCEPT ![t] = Tail(@)]
         \/ \E doc \in Document : todo' = [todo EXCEPT ![t] = doc]
<1>0. ControlTyped
  BY TypeParts
<1>1. CASE Receive(t)
  BY <1>1 DEF Receive
<1>2. pc[t] # "idle" => todo[t] # << >>
  BY <1>0, ItemAt
<1>3. CASE UNCHANGED todo
  BY <1>3
<1>4. CASE pc[t] # "idle" /\ \E result : Finish(t, result)
  BY <1>2, <1>4 DEF Finish
<1>5. ASSUME NEW label, NEW locals, Continue(t, label, locals) PROVE UNCHANGED todo
  BY <1>5 DEF Continue
<1>6. ASSUME Terminate PROVE UNCHANGED todo
  BY <1>6 DEF Terminate, control
<1>7. ASSUME NEW msg, Note(t, msg)
      PROVE  UNCHANGED todo \/ \E result : Finish(t, result)
  BY <1>5, <1>7 DEF Note
<1>8. ASSUME OpenOrder(t) PROVE UNCHANGED todo \/ \E result : Finish(t, result)
  BY <1>5, <1>8 DEF OpenOrder, OpenBuy
<1>9. ASSUME NEW r, NEW executed, NEW remaining,
             Matched(t, r, executed, remaining) \/ NoMatch(t)
      PROVE  UNCHANGED todo
  BY <1>5, <1>9 DEF Matched, NoMatch
<1>10. CASE Exec(t)
  BY <1>10 DEF Exec
<1>11. CASE CreateAccount(t) \/ CreateSymbol(t)
  BY <1>3, <1>4, <1>5, <1>11 DEF CreateAccount, CreateSymbol, At
<1>12. CASE \/ GrantSelectAccount(t) \/ GrantSelectPosition(t)
            \/ GrantInsertPosition(t) \/ GrantUpdatePosition(t)
  BY <1>3, <1>4, <1>5, <1>7, <1>12 DEF GrantSelectAccount, GrantSelectPosition,
     GrantInsertPosition, GrantUpdatePosition, At
<1>13. CASE \/ OrderSelectAccount(t) \/ OrderSelectSymbol(t) \/ OrderSelectPosition(t)
            \/ OrderInsertPosition(t) \/ OpenSell(t)
  BY <1>3, <1>4, <1>5, <1>6, <1>8, <1>13 DEF OrderSelectAccount, OrderSelectSymbol,
     OrderSelectPosition, OrderInsertPosition, OpenSell, At
<1>14. CASE BuySelectAsk(t) \/ SellSelectBid(t)
  BY <1>9, <1>14 DEF BuySelectAsk, SellSelectBid
<1>15. CASE \/ Commit(t) \/ QuerySelectOrder(t) \/ QuerySelectCanceled(t)
            \/ QuerySelectExecuted(t) \/ CancelSelectOrder(t) \/ CancelSelectExecuted(t)
  BY <1>3, <1>4, <1>5, <1>6, <1>15 DEF Commit, QuerySelectOrder, QuerySelectCanceled,
     QuerySelectExecuted, CancelSelectOrder, CancelSelectExecuted, At
<1>16. CASE Raise(t)
  BY <1>6, <1>16 DEF Raise
<1> QED BY <1>1, <1>10, <1>11, <1>12, <1>13, <1>14, <1>15, <1>16 DEF Step

\* No step asks for a grant where no request does.
LEMMA NextTrading == TypeOK /\ TradingOnly /\ NoGrantAsked /\ [Next]_vars => NoGrantAsked'
<1> SUFFICES ASSUME TypeOK, TradingOnly, NoGrantAsked, [Next]_vars PROVE NoGrantAsked'
  OBVIOUS
<1>1. CASE UNCHANGED todo
  BY <1>1 DEF NoGrantAsked
<1>2. ASSUME NEW t \in Thread, NEW items, todo' = [todo EXCEPT ![t] = items],
             \A k \in DOMAIN items : items[k].kind # "symbol"
      PROVE  NoGrantAsked'
  <2>1. todo'[t] = items /\ \A u \in Thread \ {t} : todo'[u] = todo[u]
    BY <1>2, TypeParts DEF ControlTyped
  <2> QED BY <1>2, <2>1 DEF NoGrantAsked
<1>3. ASSUME NEW t \in Thread, todo[t] # << >>
      PROVE  \A k \in DOMAIN Tail(todo[t]) : Tail(todo[t])[k].kind # "symbol"
  <2>1. todo[t] \in Seq(RequestItem)
    BY TypeParts DEF ControlTyped
  <2>2. \A k \in DOMAIN Tail(todo[t]) :
          k + 1 \in DOMAIN todo[t] /\ Tail(todo[t])[k] = todo[t][k + 1]
    BY <1>3, <2>1, HeadTailProperties, LenProperties
  <2> QED BY <2>2 DEF NoGrantAsked
<1>4. ASSUME NEW t \in Thread, Receive(t) \/ Step(t) PROVE NoGrantAsked'
  BY <1>1, <1>2, <1>3, <1>4, NextItems DEF TradingOnly
<1> QED BY <1>1, <1>4 DEF Next, Stopped, vars

\* No position ever drifts from its ledger either, for every set of threads,
\* accounts and symbols, once the grants have been made: what is bought, set aside
\* and given back by the UPDATEs reaches every position exactly once
\* (handle_command.cpp:363, 427, 480, 587, 649, 842).
THEOREM PositionsNeverDrift == ASSUME TradingOnly PROVE Spec => []PositionIsLedger
<1> DEFINE Inv == ExactInv /\ NoGrantAsked
<1>1. Init => Inv
  BY InitExact DEF Init, NoGrantAsked
<1>2. Inv /\ [Next]_vars => Inv'
  <2> SUFFICES ASSUME ExactInv, NoGrantAsked, [Next]_vars PROVE ExactInv' /\ NoGrantAsked'
    OBVIOUS
  <2>1. TypeOK
    BY DEF ExactInv, KeyInv, TradeInv
  <2> QED BY <2>1, NextExact, NextTrading, NoGrantMade
<1>3. Inv => PositionIsLedger
  BY ExactPositions
<1> HIDE DEF Inv
<1> QED BY <1>1, <1>2, <1>3, PTL DEF Spec

-----------------------------------------------------------------------------
(* A cancellation is recorded, however many workers there are.             *)

\* Statement st records that order i was canceled.
Records(st, i) == st.op = "insertCanceled" /\ st.row.id = i

\* The record of an order whose cancellation is on its way follows it.
RecordFollows(t) ==
  \A k \in DOMAIN pending[t] :
    pending[t][k].op = "updateCanceled" =>
      \E j \in DOMAIN pending[t] : j > k /\ Records(pending[t][j], pending[t][k].id)

RecordInv == TradeInv /\ CanceledRecorded /\ \A t \in Thread : RecordFollows(t)

\* Rows and records stay as they are.
SameRecords == SameRows /\ UNCHANGED db.canceled_trans

\* A worker with nothing on its way composes no cancellation.
LEMMA AsideRecorded ==
  ASSUME RecordInv, NEW t \in Thread, pending[t] = << >>, SameRecords, alive,
         \A u \in Thread \ {t} : pending'[u] = pending[u],
         \A k \in DOMAIN pending'[t] : pending'[t][k].op # "updateCanceled"
  PROVE  CanceledRecorded' /\ \A u \in Thread : RecordFollows(u)'
<1>1. ASSUME NEW i \in DOMAIN db'.transactions, db'.transactions[i].status = "canceled"
      PROVE  \/ Cancellations(db', i) # {}
             \/ \E u \in Thread : \E k \in DOMAIN pending'[u] : Records(pending'[u][k], i)
  <2>1. i \in DOMAIN db.transactions /\ db.transactions[i].status = "canceled"
    BY <1>1 DEF SameRecords, SameRows
  <2>2. Cancellations(db', i) = Cancellations(db, i)
    BY DEF Cancellations, SameRecords
  <2>3. CASE Cancellations(db, i) # {}
    BY <2>2, <2>3
  <2>4. ASSUME NEW u \in Thread, NEW k \in DOMAIN pending[u], Records(pending[u][k], i)
        PROVE  \E v \in Thread : \E n \in DOMAIN pending'[v] : Records(pending'[v][n], i)
    <3>1. u # t
      BY <2>4
    <3> QED BY <2>4, <3>1
  <2> QED BY <2>1, <2>3, <2>4 DEF RecordInv, CanceledRecorded, Records
<1>2. ASSUME NEW u \in Thread PROVE RecordFollows(u)'
  BY <1>2 DEF RecordInv, RecordFollows
<1> QED BY <1>1, <1>2 DEF CanceledRecorded, Records

\* So it is where nothing is composed.
LEMMA QuietRecorded ==
  ASSUME RecordInv, NEW t \in Thread, pending[t] = << >>, SameRecords, alive, UNCHANGED pending
  PROVE  CanceledRecorded' /\ \A u \in Thread : RecordFollows(u)'
BY AsideRecorded

\* An exception loses what was on its way.
LEMMA TerminateRecorded ==
  ASSUME Terminate PROVE CanceledRecorded' /\ \A u \in Thread : RecordFollows(u)'
BY DEF Terminate, CanceledRecorded, RecordFollows

\* create_account and create_symbol touch no order.
LEMMA CreateRecorded ==
  ASSUME RecordInv, NEW t \in Thread,
         \/ CreateAccount(t) \/ CreateSymbol(t) \/ GrantSelectAccount(t)
         \/ GrantSelectPosition(t) \/ GrantInsertPosition(t) \/ GrantUpdatePosition(t)
  PROVE  CanceledRecorded' /\ \A u \in Thread : RecordFollows(u)'
<1>0. IsDatabase(db)
  BY TypeParts DEF RecordInv, TradeInv, EngineTyped
<1>1. SameRecords /\ UNCHANGED pending /\ pending[t] = << >> /\ alive
  BY <1>0 DEF CreateAccount, CreateSymbol, GrantSelectAccount, GrantSelectPosition,
     GrantInsertPosition, GrantUpdatePosition, Apply, UpdatePosition, SameRecords, SameRows,
     IsDatabase, At
<1> QED BY <1>1, QuietRecorded

\* The steps that only read.
LEMMA ReadRecorded ==
  ASSUME RecordInv, NEW t \in Thread,
         \/ Receive(t) \/ OrderSelectAccount(t) \/ OrderSelectSymbol(t) \/ Commit(t)
         \/ QuerySelectOrder(t) \/ QuerySelectCanceled(t) \/ QuerySelectExecuted(t)
         \/ CancelSelectExecuted(t)
  PROVE  CanceledRecorded' /\ \A u \in Thread : RecordFollows(u)'
<1>1. CASE Terminate
  BY <1>1, TerminateRecorded
<1>2. CASE UNCHANGED <<db, pending>>
  <2>1. SameRecords /\ pending[t] = << >> /\ alive
    BY <1>2 DEF Receive, OrderSelectAccount, OrderSelectSymbol, Commit, QuerySelectOrder,
       QuerySelectCanceled, QuerySelectExecuted, CancelSelectExecuted, At, SameRecords, SameRows
  <2> QED BY <1>2, <2>1, QuietRecorded
<1> QED BY <1>1, <1>2 DEF Receive, OrderSelectAccount, OrderSelectSymbol, Commit,
        QuerySelectOrder, QuerySelectCanceled, QuerySelectExecuted, CancelSelectExecuted

\* The statements that open an order cancel none.
LEMMA OpenRecorded ==
  ASSUME RecordInv, NEW t \in Thread,
         OrderSelectPosition(t) \/ OrderInsertPosition(t) \/ OpenSell(t)
  PROVE  CanceledRecorded' /\ \A u \in Thread : RecordFollows(u)'
<1>0. IsDatabase(db) /\ PendingTyped
  BY TypeParts DEF RecordInv, TradeInv, EngineTyped
<1>1. pending[t] = << >> /\ alive
  BY DEF OrderSelectPosition, OrderInsertPosition, OpenSell, At
<1>2. CASE Terminate
  BY <1>2, TerminateRecorded
<1>3. ASSUME ~Terminate PROVE SameRecords
  BY <1>0, <1>3 DEF OrderSelectPosition, OrderInsertPosition, OpenSell, SameRecords, SameRows,
     IsDatabase
<1>4. CASE UNCHANGED pending
  BY <1>1, <1>2, <1>3, <1>4, QuietRecorded
<1>5. ASSUME ~Terminate, NEW st, st.op # "updateCanceled", NEW row,
             pending' = [pending EXCEPT ![t] = << st, InsertTransaction(row) >>]
      PROVE  CanceledRecorded' /\ \A u \in Thread : RecordFollows(u)'
  <2>1. pending'[t] = << st, InsertTransaction(row) >>
    BY <1>0, <1>5 DEF PendingTyped
  <2>2. \A k \in DOMAIN pending'[t] : pending'[t][k].op # "updateCanceled"
    BY <1>5, <2>1 DEF InsertTransaction
  <2>3. \A u \in Thread \ {t} : pending'[u] = pending[u]
    BY <1>0, <1>5 DEF PendingTyped
  <2> QED BY <1>1, <1>3, <1>5, <2>2, <2>3, AsideRecorded
<1>6. \A a, n : UpdateBalance(a, n).op # "updateCanceled"
  BY DEF UpdateBalance
<1>7. \A a, s, n : UpdatePosition(a, s, n).op # "updateCanceled"
  BY DEF UpdatePosition
<1>8. CASE OpenOrder(t) /\ ~Terminate
  BY <1>4, <1>5, <1>6, <1>8 DEF OpenOrder, OpenBuy
<1>9. CASE OpenSell(t) /\ ~Terminate
  <2> DEFINE item == ItemOf(t)
  <2>1. \/ UNCHANGED pending
        \/ pending' = [pending EXCEPT ![t] =
              << UpdatePosition(item.account, item.symbol, item.amount),
                 InsertTransaction(NewOrder(item)) >>]
    BY <1>9 DEF OpenSell
  <2>2. UpdatePosition(item.account, item.symbol, item.amount).op # "updateCanceled"
    BY <1>7
  <2> QED BY <1>4, <1>5, <1>9, <2>1, <2>2
<1> QED BY <1>2, <1>4, <1>8, <1>9 DEF OrderSelectPosition, OrderInsertPosition

\* The statements of a match cancel no order.
LEMMA MatchCancelsNothing ==
  ASSUME NEW r, NEW row, NEW id, NEW left, NEW signed, NEW item, NEW executed,
         NEW settle \in {SettleBuy(item, row, executed), SettleSell(item, row, executed)},
         NEW sts, sts = Fill(r, row, id, left, signed) \o settle
  PROVE  \A k \in DOMAIN sts : sts[k].op # "updateCanceled"
<1> DEFINE U == {st \in {Fill(r, row, id, left, signed)[k] : k \in 1..4}
                          \cup {settle[k] : k \in 1..3} : st.op # "updateCanceled"}
<1>1. Fill(r, row, id, left, signed) \in Seq(U)
  BY DEF Fill, Shrink, UpdateShares, UpdateExecuted, InsertExecuted
<1>2. settle \in Seq(U)
  <2>1. PICK x, y, z : /\ settle = << x, y, z >>
                       /\ \A st \in {x, y, z} : st.op # "updateCanceled"
    BY DEF SettleBuy, SettleSell, UpdatePosition, UpdateBalance
  <2>2. settle[1] \in U /\ settle[2] \in U /\ settle[3] \in U
    BY <2>1
  <2> QED BY <2>1, <2>2
<1>3. Fill(r, row, id, left, signed) \o settle \in Seq(U)
  BY <1>1, <1>2, ConcatProperties
<1>4. \A st \in U : st.op # "updateCanceled"
  OBVIOUS
<1> HIDE DEF U
<1> QED BY <1>3, <1>4, ElementOfSeq, LenProperties

\* The matching loop cancels no order.
LEMMA MatchRecorded ==
  ASSUME RecordInv, NEW t \in Thread, BuySelectAsk(t) \/ SellSelectBid(t)
  PROVE  CanceledRecorded' /\ \A u \in Thread : RecordFollows(u)'
<1>0. PendingTyped
  BY TypeParts DEF RecordInv, TradeInv
<1>1. pending[t] = << >> /\ SameRecords /\ alive
  BY DEF BuySelectAsk, SellSelectBid, At, SameRecords, SameRows
<1>2. CASE UNCHANGED pending
  BY <1>1, <1>2, QuietRecorded
<1>3. ASSUME NEW r, NEW row, NEW left, NEW signed, NEW executed,
             NEW settle \in {SettleBuy(ItemOf(t), row, executed),
                             SettleSell(ItemOf(t), row, executed)},
             pending' = [pending EXCEPT ![t] =
                           Fill(r, row, local[t].id, left, signed) \o settle]
      PROVE  CanceledRecorded' /\ \A u \in Thread : RecordFollows(u)'
  <2>1. pending'[t] = Fill(r, row, local[t].id, left, signed) \o settle
    BY <1>0, <1>3 DEF PendingTyped
  <2>2. \A u \in Thread \ {t} : pending'[u] = pending[u]
    BY <1>0, <1>3 DEF PendingTyped
  <2>3. \A k \in DOMAIN pending'[t] : pending'[t][k].op # "updateCanceled"
    BY ONLY <1>3, <2>1, MatchCancelsNothing
  <2> QED BY <1>1, <2>2, <2>3, AsideRecorded
<1>4. CASE BuySelectAsk(t)
  <2> DEFINE left == local[t].remaining
             item == ItemOf(t)
  <2>1. SUFFICES ASSUME NEW r, NEW executed,
                        pending' = [pending EXCEPT ![t] =
                                      Fill(r, db.transactions[r], local[t].id, left, executed)
                                        \o SettleBuy(item, db.transactions[r], executed)]
                 PROVE  CanceledRecorded' /\ \A u \in Thread : RecordFollows(u)'
    BY <1>2, <1>4 DEF BuySelectAsk, NoMatch
  <2> QED BY <1>3, <2>1
<1>5. CASE SellSelectBid(t)
  <2> DEFINE left == local[t].remaining
             item == ItemOf(t)
  <2>1. SUFFICES ASSUME NEW r, NEW executed,
                        pending' = [pending EXCEPT ![t] =
                                      Fill(r, db.transactions[r], local[t].id, left, -executed)
                                        \o SettleSell(item, db.transactions[r], executed)]
                 PROVE  CanceledRecorded' /\ \A u \in Thread : RecordFollows(u)'
    BY <1>2, <1>5 DEF SellSelectBid, NoMatch
  <2> QED BY <1>3, <2>1
<1> QED BY <1>4, <1>5

\* A cancellation sends its record after the status.
LEMMA CancelRecorded ==
  ASSUME RecordInv, NEW t \in Thread, CancelSelectOrder(t)
  PROVE  CanceledRecorded' /\ \A u \in Thread : RecordFollows(u)'
<1> DEFINE i == ItemOf(t).id
           sts == CancelStatements(i, db.transactions[i])
<1>0. PendingTyped
  BY TypeParts DEF RecordInv, TradeInv
<1>1. pending[t] = << >> /\ UNCHANGED <<db, alive>> /\ SameRecords /\ alive
  BY DEF CancelSelectOrder, At, SameRecords, SameRows
<1>2. CASE UNCHANGED pending
  BY <1>1, <1>2, QuietRecorded
<1>3. CASE pending' = [pending EXCEPT ![t] = sts]
  <2>1. pending'[t] = sts /\ \A u \in Thread \ {t} : pending'[u] = pending[u]
    BY <1>0, <1>3 DEF PendingTyped
  <2>2. /\ DOMAIN sts = 1..3 /\ sts[1].id = i /\ Records(sts[2], i)
        /\ sts[2].op # "updateCanceled" /\ sts[3].op # "updateCanceled"
    BY DEF CancelStatements, UpdateCanceled, InsertCanceled, UpdateBalance, UpdatePosition,
       Records
  <2> HIDE DEF sts
  <2>3. RecordFollows(t)'
    BY <2>1, <2>2 DEF RecordFollows
  <2>4. \A u \in Thread \ {t} : RecordFollows(u)'
    BY <2>1 DEF RecordInv, RecordFollows
  <2>5. ASSUME NEW u \in Thread, NEW k \in DOMAIN pending[u]
        PROVE  k \in DOMAIN pending'[u] /\ pending'[u][k] = pending[u][k]
    <3>1. u # t
      BY <1>1, <2>5
    <3> QED BY <2>1, <2>5, <3>1
  <2>6. CanceledRecorded'
    <3> SUFFICES ASSUME NEW j \in DOMAIN db.transactions, db.transactions[j].status = "canceled",
                        Cancellations(db, j) = {}
                 PROVE  \E u \in Thread : \E k \in DOMAIN pending'[u] : Records(pending'[u][k], j)
      BY <1>1 DEF CanceledRecorded, Records
    <3>1. PICK u \in Thread : \E k \in DOMAIN pending[u] : Records(pending[u][k], j)
      BY <1>1 DEF RecordInv, CanceledRecorded, Records
    <3> QED BY <2>5, <3>1
  <2> QED BY <2>3, <2>4, <2>6
<1> QED BY <1>2, <1>3 DEF CancelSelectOrder

\* Only a cancellation makes a row canceled.
LEMMA ApplyStatus ==
  ASSUME NEW d, IsDatabase(d), NEW st \in Statement, NEW e, e = Apply(st, d),
         NEW i \in DOMAIN e.transactions, e.transactions[i].status = "canceled"
  PROVE  \/ i \in DOMAIN d.transactions /\ d.transactions[i].status = "canceled"
         \/ st.op = "updateCanceled" /\ st.id = i
         \/ st.op = "insertTransaction" /\ st.row.status = "canceled"
<1> DEFINE rows == d.transactions
           then == e.transactions
<1>0. rows \in Seq(Order) /\ "transactions" \in DOMAIN d /\ DOMAIN rows = 1..Len(rows)
  BY LenProperties DEF IsDatabase
<1>1. \A j \in DOMAIN rows : rows[j] \in Order
  BY <1>0
<1>2. \A o \in Order : \A v \in Int : [o EXCEPT !.shares = v].status = o.status
  BY DEF Order
<1>3. \A o \in Order : [o EXCEPT !.status = "executed"].status = "executed"
  BY DEF Order
<1>4. CASE st.op = "updateShares"
  <2>1. then = [rows EXCEPT ![st.id].shares = st.shares] /\ st.shares \in Int
    BY <1>0, <1>4 DEF Apply, Statement
  <2> QED BY <1>0, <1>1, <1>2, <2>1
<1>5. CASE st.op = "updateExecuted"
  <2> DEFINE half == [rows EXCEPT ![st.id].shares = st.shares]
  <2>1. then = [half EXCEPT ![st.id].status = "executed"] /\ st.shares \in Int
    BY <1>0, <1>5 DEF Apply, Statement
  <2>2. half \in Seq(Order) /\ Len(half) = Len(rows)
    <3>1. st.shares \in Int
      BY <2>1
    <3>2. SetsShares(half, rows, st.id, st.shares)
      BY <1>0, <3>1, UpdateOfShares
    <3> QED BY <3>2 DEF SetsShares, KeepsRows
  <2>3. \A j \in DOMAIN rows : half[j] \in Order /\ half[j].status = rows[j].status
    BY <1>0, <1>1, <1>2, <2>1, <2>2
  <2>4. DOMAIN then = DOMAIN rows /\ DOMAIN half = DOMAIN rows
    BY <1>0, <2>1
  <2> HIDE DEF half
  <2>5. i # st.id => then[i] = half[i]
    BY <2>1, <2>4
  <2>6. i = st.id => then[i].status = "executed"
    BY <1>3, <2>1, <2>3, <2>4
  <2> QED BY <2>3, <2>4, <2>5, <2>6
<1>6. CASE st.op = "updateCanceled"
  <2>1. then = [rows EXCEPT ![st.id].status = "canceled"]
    BY <1>0, <1>6 DEF Apply
  <2> QED BY <1>0, <1>6, <2>1
<1>7. CASE st.op = "insertTransaction"
  <2>1. then = Append(rows, st.row) /\ st.row \in Order
    BY <1>0, <1>7 DEF Apply, Statement
  <2>2. DOMAIN then = 1..(Len(rows) + 1) /\ then[Len(rows) + 1] = st.row
        /\ \A j \in 1..Len(rows) : then[j] = rows[j]
    BY <1>0, <2>1, AppendProperties, LenProperties
  <2> QED BY <1>0, <1>7, <2>2, LenProperties
<1>8. CASE st.op \in {"updateBalance", "updatePosition", "insertExecuted", "insertCanceled"}
  <2>1. then = rows
    BY <1>0, <1>8 DEF Apply
  <2> QED BY <2>1
<1> QED BY <1>4, <1>5, <1>6, <1>7, <1>8 DEF Statement

\* A statement sent: the record of an order it cancels is still to come, and the one
\* it writes is no longer owed.
LEMMA ExecRecorded ==
  ASSUME RecordInv, NEW t \in Thread, Exec(t)
  PROVE  CanceledRecorded' /\ \A u \in Thread : RecordFollows(u)'
<1> DEFINE st == Head(pending[t])
           rest == Tail(pending[t])
<1>0. IsDatabase(db) /\ PendingTyped /\ db.canceled_trans \in Seq(Cancellation)
  BY TypeParts DEF RecordInv, TradeInv, EngineTyped, IsDatabase
<1>1. /\ pending[t] \in Seq(Statement) /\ pending[t] # << >> /\ pending'[t] = rest
      /\ \A u \in Thread \ {t} : pending'[u] = pending[u]
  BY <1>0 DEF PendingTyped, Exec
<1>2. /\ st \in Statement /\ st = pending[t][1] /\ 1 \in DOMAIN pending[t]
      /\ DOMAIN pending[t] = 1..Len(pending[t]) /\ Len(pending[t]) \in Nat
      /\ DOMAIN rest = 1..(Len(pending[t]) - 1)
      /\ \A k \in DOMAIN rest : k + 1 \in DOMAIN pending[t] /\ rest[k] = pending[t][k + 1]
  BY <1>1, HeadTailProperties, LenProperties
<1>3. \A k \in DOMAIN pending[t] : k > 1 => k - 1 \in DOMAIN rest /\ rest[k - 1] = pending[t][k]
  BY <1>2
<1>4. db' = Apply(st, db) /\ alive
  BY DEF Exec
<1> HIDE DEF st, rest
<1>5. RecordFollows(t)'
  <2> SUFFICES ASSUME NEW k \in DOMAIN rest, rest[k].op = "updateCanceled"
               PROVE  \E j \in DOMAIN rest : j > k /\ Records(rest[j], rest[k].id)
    BY <1>1 DEF RecordFollows
  <2>1. k + 1 \in DOMAIN pending[t] /\ rest[k] = pending[t][k + 1] /\ k \in Nat /\ k >= 1
    BY <1>2
  <2>2. PICK j \in DOMAIN pending[t] : j > k + 1 /\ Records(pending[t][j], rest[k].id)
    BY <2>1 DEF RecordInv, RecordFollows
  <2>3. j - 1 \in DOMAIN rest /\ rest[j - 1] = pending[t][j] /\ j - 1 > k
    BY <1>2, <1>3, <2>1, <2>2
  <2> QED BY <2>2, <2>3
<1>6. \A u \in Thread \ {t} : RecordFollows(u)'
  BY <1>1 DEF RecordInv, RecordFollows
<1>7. db'.canceled_trans = IF st.op = "insertCanceled" THEN Append(db.canceled_trans, st.row)
                                                       ELSE db.canceled_trans
  BY <1>0, <1>2, <1>4 DEF IsDatabase, Statement, Apply
<1>8. ASSUME NEW k \in DOMAIN rest, NEW i, Records(rest[k], i)
      PROVE  \E u \in Thread : \E j \in DOMAIN pending'[u] : Records(pending'[u][j], i)
  BY <1>1, <1>8
<1>9. CanceledRecorded'
  <2> SUFFICES ASSUME NEW i \in DOMAIN db'.transactions, db'.transactions[i].status = "canceled"
               PROVE  \/ Cancellations(db', i) # {}
                      \/ \E u \in Thread : \E k \in DOMAIN pending'[u] : Records(pending'[u][k], i)
    BY DEF CanceledRecorded, Records
  <2>1. \/ i \in DOMAIN db.transactions /\ db.transactions[i].status = "canceled"
        \/ st.op = "updateCanceled" /\ st.id = i
        \/ st.op = "insertTransaction" /\ st.row.status = "canceled"
    BY <1>0, <1>2, <1>4, ApplyStatus
  <2>2. ~(st.op = "insertTransaction" /\ st.row.status = "canceled")
    <3>1. InsertsLast(t)
      BY DEF RecordInv, TradeInv, OrdersKeepSides
    <3>2. st.op = "insertTransaction" => st.row = NewOrder(ItemOf(t))
      BY <1>2, <3>1 DEF InsertsLast
    <3> QED BY <3>2 DEF NewOrder
  <2>3. CASE st.op = "updateCanceled" /\ st.id = i
    <3>1. PICK j \in DOMAIN pending[t] : j > 1 /\ Records(pending[t][j], i)
      BY <1>2, <2>3 DEF RecordInv, RecordFollows
    <3> QED BY <1>3, <1>8, <3>1
  <2>4. CASE i \in DOMAIN db.transactions /\ db.transactions[i].status = "canceled"
    <3>1. CASE Cancellations(db, i) # {}
      <4>1. CASE st.op = "insertCanceled"
        <5>1. st.row \in Cancellation
          BY <1>2, <4>1 DEF Statement
        <5>2. \A n \in DOMAIN db.canceled_trans :
                n \in DOMAIN db'.canceled_trans /\ db'.canceled_trans[n] = db.canceled_trans[n]
          BY <1>0, <1>7, <4>1, <5>1, AppendProperties, LenProperties
        <5> QED BY <3>1, <5>2 DEF Cancellations
      <4> QED BY <1>7, <3>1, <4>1 DEF Cancellations
    <3>2. ASSUME NEW u \in Thread, NEW k \in DOMAIN pending[u], Records(pending[u][k], i)
          PROVE  \/ Cancellations(db', i) # {}
                 \/ \E v \in Thread : \E j \in DOMAIN pending'[v] : Records(pending'[v][j], i)
      <4>1. CASE u # t
        <5>1. pending'[u] = pending[u]
          BY <1>1, <4>1
        <5> QED BY <3>2, <5>1
      <4>2. CASE u = t /\ k = 1
        <5>1. st.op = "insertCanceled" /\ st.row.id = i /\ st.row \in Cancellation
          BY <1>2, <3>2, <4>2 DEF Records, Statement
        <5>2. Len(db.canceled_trans) + 1 \in DOMAIN db'.canceled_trans
              /\ db'.canceled_trans[Len(db.canceled_trans) + 1] = st.row
          BY <1>0, <1>7, <5>1, AppendProperties, LenProperties
        <5> QED BY <5>1, <5>2 DEF Cancellations
      <4>3. CASE u = t /\ k # 1
        <5>1. k > 1 /\ k \in DOMAIN pending[t]
          BY <1>2, <3>2, <4>3
        <5> QED BY <1>3, <1>8, <3>2, <4>3, <5>1
      <4> QED BY <4>1, <4>2, <4>3
    <3>3. Cancellations(db, i) # {} \/ \E u \in Thread : \E k \in DOMAIN pending[u] :
                                         Records(pending[u][k], i)
      BY <1>4, <2>4 DEF RecordInv, CanceledRecorded, Records
    <3> QED BY <3>1, <3>2, <3>3
  <2> QED BY <2>1, <2>2, <2>3, <2>4
<1> QED BY <1>5, <1>6, <1>9

\* The clients start with no order canceled.
LEMMA InitRecords == Init => RecordInv
<1> SUFFICES ASSUME Init PROVE RecordInv
  OBVIOUS
<1>1. db.transactions = << >> /\ \A t \in Thread : pending[t] = << >>
  BY SeedAssumption DEF Init
<1> QED BY <1>1, InitFair DEF RecordInv, CanceledRecorded, RecordFollows

\* Every step keeps the inductive invariant.
LEMMA NextRecords == RecordInv /\ [Next]_vars => RecordInv'
<1> SUFFICES ASSUME RecordInv, [Next]_vars
             PROVE  CanceledRecorded' /\ \A t \in Thread : RecordFollows(t)'
  BY NextFair DEF RecordInv
<1>1. ASSUME NEW t \in Thread, Receive(t) \/ Step(t)
      PROVE  CanceledRecorded' /\ \A u \in Thread : RecordFollows(u)'
  BY <1>1, ExecRecorded, CreateRecorded, ReadRecorded, OpenRecorded, MatchRecorded,
     CancelRecorded, TerminateRecorded
     DEF Step, Raise
<1>2. CASE UNCHANGED vars
  BY <1>2 DEF RecordInv, CanceledRecorded, RecordFollows, Cancellations, vars
<1> QED BY <1>1, <1>2 DEF Next, Stopped

\* A canceled order has its record, or the worker that cancels it is about to insert
\* it, for every set of threads: nothing but the window between the two statements
\* can show a query a canceled order without one (handle_command.cpp:738-744, 809-822).
THEOREM CancellationsRecorded == Spec => []CanceledRecorded
<1>1. RecordInv => CanceledRecorded
  BY DEF RecordInv
<1> QED BY <1>1, InitRecords, NextRecords, PTL DEF Spec

-----------------------------------------------------------------------------
(* With a thread count of 1 what a handler has read stays true until it    *)
(* uses it: an exception escapes only over what the request itself says,   *)
(* and with one symbol nobody owes shares.  Both fail with two workers,    *)
(* and the second with two symbols.                                        *)

-----------------------------------------------------------------------------
(* Only the input ends the engine.                                         *)

\* A worker that ends an item goes where nothing need be so.
LEMMA FinishStarts ==
  ASSUME TypeOK, NEW w \in Thread, pc[w] # "idle", NEW result, Finish(w, result)
  PROVE  pc'[w] \in {"idle"} \cup Starts
<1>0. ControlTyped
  BY TypeParts
<1>1. todo[w] # << >> /\ todo[w] \in Seq(RequestItem)
  BY <1>0, ItemAt DEF ControlTyped
<1>2. Tail(todo[w]) \in Seq(RequestItem)
  BY <1>1, HeadTailProperties
<1> QED BY <1>0, <1>2, StartTyped DEF Finish, ControlTyped

\* A worker that goes on inside an item.
LEMMA ContinueTo ==
  ASSUME TypeOK, NEW w \in Thread, NEW label, NEW locals, Continue(w, label, locals)
  PROVE  pc'[w] = label /\ todo' = todo
BY TypeParts DEF Continue, ControlTyped

\* The position the SELECT did not find is still not there, and an order that was
\* found canceled has its record.
NotThere(w) == pc[w] = "orderInsert" => OrderPosition(w) \notin DOMAIN db.positions
QueriedRecorded(w) == pc[w] = "queryCanceled" => Cancellations(db, ItemOf(w).id) # {}

SoloInv(w) == RecordInv /\ alive /\ NotThere(w) /\ QueriedRecorded(w)

\* Where nothing need be so.
Harmless == Label \ {"orderInsert", "queryCanceled"}

\* The exceptions that nobody catches.
LEMMA Escapes ==
  ASSUME NEW t \in Thread, Receive(t) \/ Step(t), alive, ~alive'
  PROVE  \/ Raise(t)
         \/ OrderInsertPosition(t) /\ OrderPosition(t) \in DOMAIN db.positions
         \/ QuerySelectCanceled(t) /\ Cancellations(db, ItemOf(t).id) = {}
<1>1. CASE Receive(t) \/ Exec(t) \/ CreateAccount(t) \/ CreateSymbol(t)
  BY <1>1 DEF Receive, Exec, CreateAccount, CreateSymbol
<1>2. CASE \/ GrantSelectAccount(t) \/ GrantSelectPosition(t)
           \/ GrantInsertPosition(t) \/ GrantUpdatePosition(t)
  BY <1>2 DEF GrantSelectAccount, GrantSelectPosition, GrantInsertPosition, GrantUpdatePosition
<1>3. CASE OrderSelectAccount(t) \/ OrderSelectSymbol(t) \/ OrderSelectPosition(t) \/ OpenSell(t)
  BY <1>3 DEF OrderSelectAccount, OrderSelectSymbol, OrderSelectPosition, OpenSell
<1>4. CASE BuySelectAsk(t) \/ SellSelectBid(t) \/ Commit(t)
  BY <1>4 DEF BuySelectAsk, SellSelectBid, Commit
<1>5. CASE \/ QuerySelectOrder(t) \/ QuerySelectExecuted(t)
           \/ CancelSelectOrder(t) \/ CancelSelectExecuted(t)
  BY <1>5 DEF QuerySelectOrder, QuerySelectExecuted, CancelSelectOrder, CancelSelectExecuted
<1>6. CASE OrderInsertPosition(t)
  BY <1>6 DEF OrderInsertPosition
<1>7. CASE QuerySelectCanceled(t)
  BY <1>7 DEF QuerySelectCanceled
<1> QED BY <1>1, <1>2, <1>3, <1>4, <1>5, <1>6, <1>7 DEF Step

\* A worker gets where something need be so from two SELECTs only.
LEMMA HarmlessFrom ==
  ASSUME TypeOK, NEW w \in Thread, Receive(w) \/ Step(w), ~Raise(w), alive', pc'[w] \notin Harmless
  PROVE  OrderSelectPosition(w) \/ QuerySelectOrder(w)
<1>0. \A s \in {"idle"} \cup Starts : s \in Harmless
  BY DEF Starts, Harmless, Label
<1>1. ASSUME Receive(w) PROVE FALSE
  <2>1. PICK doc \in Document : pc' = [pc EXCEPT ![w] = StartOf(doc)]
    BY <1>1 DEF Receive
  <2> QED BY <1>0, <2>1, DocumentAssumption, StartTyped, TypeParts DEF ControlTyped
<1>2. ASSUME pc[w] # "idle", NEW result, Finish(w, result) PROVE FALSE
  BY <1>0, <1>2, FinishStarts
<1>3. ASSUME NEW label \in Harmless, NEW locals, Continue(w, label, locals) PROVE FALSE
  BY <1>3, ContinueTo
<1>4. ASSUME pc[w] # "idle", NEW msg, Note(w, msg) PROVE FALSE
  BY <1>2, <1>3, <1>4 DEF Note, Harmless, Label
<1>5. ASSUME Exec(w) PROVE FALSE
  <2>1. pc[w] \in {"match", "commit", "cancelExecuted"} /\ UNCHANGED pc
    BY <1>5, TypeParts DEF Exec, PendingTyped, SendingOK
  <2> QED BY <2>1 DEF Harmless, Label
<1>6. ASSUME CreateAccount(w) \/ CreateSymbol(w) PROVE FALSE
  BY <1>2, <1>3, <1>6 DEF CreateAccount, CreateSymbol, At, Harmless, Label
<1>7. ASSUME \/ GrantSelectAccount(w) \/ GrantSelectPosition(w)
             \/ GrantInsertPosition(w) \/ GrantUpdatePosition(w)
      PROVE  FALSE
  BY <1>3, <1>4, <1>7 DEF GrantSelectAccount, GrantSelectPosition, GrantInsertPosition,
     GrantUpdatePosition, At, Harmless, Label
<1>8. ASSUME OpenOrder(w), pc[w] # "idle" PROVE FALSE
  BY <1>2, <1>3, <1>8 DEF OpenOrder, OpenBuy, Harmless, Label
<1>9. ASSUME \/ OrderSelectAccount(w) \/ OrderSelectSymbol(w) \/ OrderInsertPosition(w) \/ OpenSell(w)
      PROVE  FALSE
  <2>1. ~Terminate
    BY DEF Terminate
  <2> QED BY <1>2, <1>3, <1>8, <1>9, <2>1 DEF OrderSelectAccount, OrderSelectSymbol,
          OrderInsertPosition, OpenSell, At, Harmless, Label
<1>10. ASSUME BuySelectAsk(w) \/ SellSelectBid(w) PROVE FALSE
  BY <1>3, <1>10 DEF BuySelectAsk, SellSelectBid, NoMatch, Matched, Harmless, Label
<1>11. ASSUME \/ Commit(w) \/ QuerySelectCanceled(w) \/ QuerySelectExecuted(w)
              \/ CancelSelectOrder(w) \/ CancelSelectExecuted(w)
       PROVE  FALSE
  <2>1. ~Terminate
    BY DEF Terminate
  <2> QED BY <1>2, <1>3, <1>11, <2>1 DEF Commit, QuerySelectCanceled, QuerySelectExecuted,
          CancelSelectOrder, CancelSelectExecuted, At, Harmless, Label
<1> QED BY <1>1, <1>5, <1>6, <1>7, <1>9, <1>10, <1>11 DEF Step

LEMMA InitSolo == ASSUME NEW w \in Thread, Init PROVE SoloInv(w)
<1>1. pc[w] = "idle" /\ alive
  BY DEF Init
<1> QED BY <1>1, InitRecords DEF SoloInv, NotThere, QueriedRecorded

\* With nobody else every step but the exception over the input keeps the inductive
\* invariant.
LEMMA NextSolo ==
  ASSUME NEW w, Thread = {w}, SoloInv(w), [Next]_vars
  PROVE  SoloInv(w)' \/ Raise(w)
<1> SUFFICES ASSUME ~Raise(w) PROVE (alive /\ NotThere(w) /\ QueriedRecorded(w))'
  BY NextRecords DEF SoloInv
<1>1. CASE Receive(w) \/ Step(w)
  <2>1. TypeOK /\ alive /\ w \in Thread
    BY DEF SoloInv, RecordInv, TradeInv
  <2>2. alive'
    BY <1>1, <2>1, Escapes, TypeParts DEF SoloInv, NotThere, QueriedRecorded, OrderInsertPosition,
       QuerySelectCanceled, At, EngineTyped
  <2>3. CASE pc'[w] \in Harmless
    BY <2>2, <2>3 DEF Harmless, NotThere, QueriedRecorded
  <2>4. CASE OrderSelectPosition(w) /\ pc'[w] \notin Harmless
    <3>1. pc[w] # "idle"
      BY <2>4 DEF OrderSelectPosition, At
    <3>2. ~OpenOrder(w)
      <4>1. ASSUME NEW result, Finish(w, result) PROVE pc'[w] \in Harmless
        BY <2>1, <3>1, <4>1, FinishStarts DEF Starts, Harmless, Label
      <4>2. ASSUME NEW label \in {"match", "holding"}, NEW locals, Continue(w, label, locals)
            PROVE  pc'[w] \in Harmless
        BY <2>1, <4>2, ContinueTo DEF Harmless, Label
      <4> QED BY <2>4, <4>1, <4>2 DEF OpenOrder, OpenBuy
    <3>3. OrderPosition(w) \notin DOMAIN db.positions /\ Continue(w, "orderInsert", local[w])
          /\ UNCHANGED db
      BY <2>4, <3>2 DEF OrderSelectPosition
    <3>4. pc'[w] = "orderInsert" /\ todo' = todo
      BY <2>1, <3>3, ContinueTo
    <3> QED BY <2>2, <3>3, <3>4 DEF NotThere, QueriedRecorded, OrderPosition, ItemOf
  <2>5. CASE QuerySelectOrder(w) /\ pc'[w] \notin Harmless
    <3> DEFINE i == ItemOf(w).id
    <3>1. pc[w] # "idle" /\ pending[w] = << >> /\ UNCHANGED db
      BY <2>5 DEF QuerySelectOrder, At
    <3>2. ASSUME NEW result, Finish(w, result) PROVE FALSE
      BY <2>1, <2>5, <3>1, <3>2, FinishStarts DEF Starts, Harmless, Label
    <3>3. PICK label, locals :
            /\ Continue(w, label, locals) /\ i \in DOMAIN db.transactions
            /\ label = IF db.transactions[i].status = "canceled" THEN "queryCanceled"
                                                                  ELSE "queryExecuted"
      BY <2>5, <3>2 DEF QuerySelectOrder
    <3>4. pc'[w] = label /\ todo' = todo
      BY <2>1, <3>3, ContinueTo
    <3>5. label = "queryCanceled" /\ db.transactions[i].status = "canceled"
      BY <2>5, <3>3, <3>4 DEF Harmless, Label
    <3>6. Cancellations(db, i) # {}
      BY <2>1, <3>1, <3>3, <3>5 DEF SoloInv, RecordInv, CanceledRecorded
    <3> QED BY <2>2, <3>1, <3>4, <3>5, <3>6 DEF NotThere, QueriedRecorded, ItemOf
  <2> QED BY <1>1, <2>1, <2>2, <2>3, <2>4, <2>5, HarmlessFrom
<1>2. CASE UNCHANGED vars
  BY <1>2 DEF SoloInv, NotThere, QueriedRecorded, Cancellations, OrderPosition, ItemOf, vars
<1> QED BY <1>1, <1>2 DEF Next, Stopped

\* The statement that is refused is made from an item that PostgreSQL cannot take.
LEMMA RaiseBroken ==
  ASSUME TypeOK, NEW t \in Thread, Raise(t)
  PROVE  todo[t] # << >> /\ Broken(ItemOf(t))
<1>0. ControlTyped /\ PendingTyped
  BY TypeParts
<1>1. pc[t] # "idle"
  BY <1>0 DEF Raise, At, PendingTyped, SendingOK
<1>2. todo[t] # << >> /\ pc[t] \in LabelsOf[ItemOf(t).kind]
  BY <1>0, <1>1, ItemAt
<1>3. CASE pc[t] = "account" /\ ItemOf(t).bad # {}
  <2>1. ItemOf(t).kind = "account"
    BY <1>0, <1>3, KindAt DEF AccountItem
  <2> QED BY <1>2, <1>3, <2>1 DEF Broken
<1>4. CASE pc[t] = "symbol" /\ ItemOf(t).symbol \in BadName
  <2>1. ItemOf(t).kind = "symbol"
    BY <1>0, <1>4, KindAt DEF LabelsOf, SymbolItem
  <2> QED BY <1>2, <1>4, <2>1 DEF Broken
<1>5. CASE pc[t] \in {"grantInsert", "grantUpdate"} /\ GrantOf(t).bad # {}
  <2>1. /\ ItemOf(t) \in SymbolItem /\ local[t] \in Local
        /\ Len(local[t].notes) < Len(ItemOf(t).grants)
    BY <1>5, GrantTyped DEF Granting
  <2>2. ItemOf(t).kind = "symbol" /\ ItemOf(t).grants \in Seq(Grant) /\ local[t].notes \in Seq(Message)
    BY <2>1 DEF SymbolItem, Local
  <2>3. Len(local[t].notes) + 1 \in DOMAIN ItemOf(t).grants
    BY <2>1, <2>2, LenProperties
  <2> QED BY <1>2, <1>5, <2>2, <2>3 DEF Broken, GrantOf
<1>6. CASE pc[t] = "orderSymbol" /\ ItemOf(t).symbol \in BadName
  <2>1. ItemOf(t).kind = "order"
    BY <1>0, <1>6, KindAt DEF LabelsOf, OrderItem
  <2> QED BY <1>2, <1>6, <2>1 DEF Broken
<1>7. ASSUME NEW st, Refused(ItemOf(t), st) PROVE todo[t] # << >> /\ Broken(ItemOf(t))
  <2>1. ItemOf(t).kind = "order" /\ ItemOf(t).bad # {}
    BY <1>7 DEF Refused
  <2> QED BY <1>2, <2>1 DEF Broken
<1> QED BY <1>3, <1>4, <1>5, <1>6, <1>7 DEF Raise, At

\* What an exception leaves stays as it is.
LEMMA DownStays == ASSUME ~alive, [Next]_vars PROVE UNCHANGED vars
<1> SUFFICES ASSUME NEW t \in Thread, Receive(t) \/ Step(t) PROVE FALSE
  BY DEF Next, Stopped
<1> QED BY DEF Receive, Step, Exec, CreateAccount, CreateSymbol, GrantSelectAccount,
     GrantSelectPosition, GrantInsertPosition, GrantUpdatePosition, OrderSelectAccount,
     OrderSelectSymbol, OrderSelectPosition, OrderInsertPosition, OpenSell, BuySelectAsk,
     SellSelectBid, Commit, QuerySelectOrder, QuerySelectCanceled, QuerySelectExecuted,
     CancelSelectOrder, CancelSelectExecuted, Raise, At

\* With a thread count of 1 the engine goes down only on an item with a name or a number
\* that no statement can carry: the position an order did not find is still not there
\* when it is inserted, and an order found canceled has its record
\* (handle_command.cpp:257, 472, 744).
THEOREM OneWorkerOnlyInputEnds == ASSUME NEW w, Thread = {w} PROVE Spec => []OnlyInputEnds
<1> DEFINE Inv == SoloInv(w) \/ (~alive /\ OnlyInputEnds)
<1>1. Inv => OnlyInputEnds
  BY DEF SoloInv, OnlyInputEnds
<1>2. Init => Inv
  BY InitSolo
<1>3. Inv /\ [Next]_vars => Inv'
  <2> SUFFICES ASSUME Inv, [Next]_vars PROVE Inv'
    OBVIOUS
  <2>1. CASE ~alive /\ OnlyInputEnds
    <3>1. UNCHANGED vars
      BY <2>1, DownStays
    <3> QED BY <2>1, <3>1 DEF OnlyInputEnds, ItemOf, vars
  <2>2. CASE SoloInv(w) /\ SoloInv(w)'
    BY <2>2
  <2>3. CASE SoloInv(w) /\ Raise(w)
    <3>1. todo[w] # << >> /\ Broken(ItemOf(w)) /\ w \in Thread
      BY <2>3, RaiseBroken DEF SoloInv, RecordInv, TradeInv
    <3>2. ~alive' /\ UNCHANGED todo
      BY <2>3 DEF Raise, Terminate, control
    <3> QED BY <3>1, <3>2 DEF OnlyInputEnds, ItemOf
  <2> QED BY <2>1, <2>2, <2>3, NextSolo
<1> HIDE DEF Inv
<1> QED BY <1>1, <1>2, <1>3, PTL DEF Spec

-----------------------------------------------------------------------------
(* Nobody owes shares.                                                     *)

\* Statement st takes no shares from a position, or no more than it holds.
Gives(st) == st.op = "updatePosition" => st.add >= 0
TakesWhatIsHeld(st) ==
  st.op = "updatePosition" /\ <<st.account, st.symbol>> \in DOMAIN db.positions =>
    db.positions[<<st.account, st.symbol>>] + st.add >= 0

\* Only the next statement may take shares, and they were there at the SELECT.
TakesHeld(w) ==
  \A k \in DOMAIN pending[w] : \/ Gives(pending[w][k])
                               \/ k = 1 /\ TakesWhatIsHeld(pending[w][k])
GrantsNoDebt(w) == pc[w] \in Granting \ {"grant"} => GrantOf(w).shares >= 0

KeepsHeld(w) == HoldingsCovered /\ TakesHeld(w) /\ GrantsNoDebt(w)
HeldInv(w)   == TradeInv /\ KeepsHeld(w)

\* A worker that composes no statement and leaves the positions alone.
LEMMA AsideHeld ==
  ASSUME NEW w \in Thread, HeldInv(w), UNCHANGED db.positions, pending'[w] = << >>,
         pc'[w] \notin Granting \ {"grant"}
  PROVE  KeepsHeld(w)'
BY DEF HeldInv, KeepsHeld, HoldingsCovered, TakesHeld, GrantsNoDebt

\* A worker that ends an item is in no loop over grants.
LEMMA FinishHeld ==
  ASSUME NEW w \in Thread, HeldInv(w), UNCHANGED <<db.positions, pending>>, pending[w] = << >>,
         pc[w] # "idle", NEW result, Finish(w, result)
  PROVE  KeepsHeld(w)'
<1>1. pc'[w] \notin Granting
  BY FinishStarts DEF HeldInv, TradeInv, Starts, Granting
<1> QED BY <1>1, AsideHeld

\* Inserting or adding what is not negative owes nothing.
LEMMA GainHeld ==
  ASSUME IsDatabase(db), HoldingsCovered, NEW p, NEW n \in Int, n >= 0,
         \/ db'.positions = Insert(db.positions, p, n)
         \/ db'.positions = [db.positions EXCEPT ![p] = @ + n]
  PROVE  HoldingsCovered'
<1>1. \A q \in DOMAIN db.positions : db.positions[q] \in Int /\ db.positions[q] >= 0
  BY DEF IsDatabase, IsTable, HoldingsCovered
<1>2. CASE db'.positions = Insert(db.positions, p, n)
  BY <1>1, <1>2 DEF Insert, HoldingsCovered
<1>3. CASE db'.positions = [db.positions EXCEPT ![p] = @ + n]
  <2>1. DOMAIN db'.positions = DOMAIN db.positions
    BY <1>3
  <2>2. \A q \in DOMAIN db.positions :
          db'.positions[q] = IF q = p THEN db.positions[q] + n ELSE db.positions[q]
    BY <1>3
  <2> QED BY <1>1, <2>1, <2>2 DEF HoldingsCovered
<1> QED BY <1>2, <1>3

\* create_account and create_symbol grant no debt.
LEMMA CreateHeld ==
  ASSUME NEW w \in Thread, HeldInv(w),
         \/ CreateAccount(w) \/ CreateSymbol(w) \/ GrantSelectAccount(w)
         \/ GrantSelectPosition(w) \/ GrantInsertPosition(w) \/ GrantUpdatePosition(w)
  PROVE  KeepsHeld(w)'
<1>0. TypeOK /\ IsDatabase(db) /\ HoldingsCovered /\ ControlTyped
  BY TypeParts DEF HeldInv, KeepsHeld, TradeInv, EngineTyped
<1>1. pending'[w] = << >> /\ UNCHANGED pending /\ pending[w] = << >> /\ pc[w] # "idle"
  BY DEF CreateAccount, CreateSymbol, GrantSelectAccount, GrantSelectPosition,
     GrantInsertPosition, GrantUpdatePosition, At
<1>2. CASE CreateAccount(w)
  <2>1. UNCHANGED db.positions /\ \E result : Finish(w, result)
    BY <1>0, <1>2 DEF CreateAccount, IsDatabase
  <2> QED BY <1>1, <2>1, FinishHeld
<1>3. CASE CreateSymbol(w)
  <2>1. UNCHANGED db.positions
    BY <1>0, <1>3 DEF CreateSymbol, IsDatabase
  <2>2. CASE \E result : Finish(w, result)
    BY <1>1, <2>1, <2>2, FinishHeld
  <2>3. CASE Continue(w, "grant", local[w])
    BY <1>0, <1>1, <2>1, <2>3, ContinueTo, AsideHeld
  <2> QED BY <1>3, <2>2, <2>3 DEF CreateSymbol
<1>4. ASSUME NEW msg, Note(w, msg) PROVE pc'[w] \notin Granting \ {"grant"}
  <2>1. CASE \E result : Finish(w, result)
    BY <1>0, <1>1, <2>1, FinishStarts DEF Starts, Granting
  <2>2. CASE \E locals : Continue(w, "grant", locals)
    BY <1>0, <2>2, ContinueTo
  <2> QED BY <1>4, <2>1, <2>2 DEF Note
<1>5. ASSUME NEW label, Continue(w, label, local[w]), GrantOf(w).shares >= 0, UNCHANGED db
      PROVE  KeepsHeld(w)'
  <2>1. GrantOf(w)' = GrantOf(w)
    BY <1>0, <1>5 DEF Continue, ControlTyped, GrantOf, ItemOf
  <2> QED BY <1>0, <1>1, <1>5, <2>1 DEF KeepsHeld, HoldingsCovered, TakesHeld, GrantsNoDebt
<1>6. CASE GrantSelectAccount(w)
  BY <1>1, <1>4, <1>5, <1>6, AsideHeld DEF GrantSelectAccount
<1>7. CASE GrantSelectPosition(w)
  <2>1. GrantOf(w).shares >= 0
    BY <1>7 DEF HeldInv, KeepsHeld, GrantsNoDebt, GrantSelectPosition, At, Granting
  <2> QED BY <1>5, <1>7, <2>1 DEF GrantSelectPosition
<1>8. CASE GrantInsertPosition(w) \/ GrantUpdatePosition(w)
  <2>1. pc[w] \in Granting \ {"grant"} /\ Note(w, "Success")
    BY <1>8 DEF GrantInsertPosition, GrantUpdatePosition, At, Granting
  <2>2. GrantOf(w).shares >= 0 /\ GrantOf(w).shares \in Int
    BY <1>0, <2>1, GrantTyped DEF HeldInv, KeepsHeld, GrantsNoDebt, Grant
  <2>3. \/ UNCHANGED db.positions
        \/ db'.positions = Insert(db.positions, Granted(w), GrantOf(w).shares)
        \/ db'.positions = [db.positions EXCEPT ![Granted(w)] = @ + GrantOf(w).shares]
    BY <1>0, <1>8 DEF GrantInsertPosition, GrantUpdatePosition, Apply, UpdatePosition,
       IsDatabase, Granted
  <2>4. HoldingsCovered'
    <3>1. CASE UNCHANGED db.positions
      BY <1>0, <3>1 DEF HoldingsCovered
    <3> QED BY <1>0, <2>2, <2>3, <3>1, GainHeld
  <2>5. pc'[w] \notin Granting \ {"grant"}
    BY <1>4, <2>1
  <2> QED BY <1>1, <2>4, <2>5 DEF KeepsHeld, TakesHeld, GrantsNoDebt
<1> QED BY <1>2, <1>3, <1>6, <1>7, <1>8

\* An order that is opened takes what its account was seen to hold of the symbol,
\* there being no other.
LEMMA OrderHeld ==
  ASSUME NEW s, Symbol = {s}, NEW w \in Thread, HeldInv(w),
         \/ OrderSelectAccount(w) \/ OrderSelectSymbol(w) \/ OrderSelectPosition(w)
         \/ OrderInsertPosition(w) \/ OpenSell(w)
  PROVE  KeepsHeld(w)'
<1> DEFINE item == ItemOf(w)
<1>0. /\ TypeOK /\ IsDatabase(db) /\ HoldingsCovered /\ PendingTyped
      /\ pending[w] = << >> /\ pc[w] # "idle" /\ pc[w] \in LabelsOf["order"]
  BY TypeParts DEF HeldInv, KeepsHeld, TradeInv, EngineTyped, OrderSelectAccount, OrderSelectSymbol,
     OrderSelectPosition, OrderInsertPosition, OpenSell, At, LabelsOf
<1>1. ASSUME NEW label \in Label \ Granting, NEW locals, Continue(w, label, locals),
             HoldingsCovered', TakesHeld(w)'
      PROVE  KeepsHeld(w)'
  BY <1>0, <1>1, ContinueTo DEF KeepsHeld, GrantsNoDebt
<1>2. ASSUME NEW result, Finish(w, result), HoldingsCovered', UNCHANGED pending
      PROVE  KeepsHeld(w)'
  <2>1. pc'[w] \notin Granting
    BY <1>0, <1>2, FinishStarts DEF Starts, Granting
  <2> QED BY <1>0, <1>2, <2>1 DEF KeepsHeld, TakesHeld, GrantsNoDebt
<1>3. ASSUME OpenOrder(w), HoldingsCovered' PROVE KeepsHeld(w)'
  <2>1. CASE (\E result : Finish(w, result)) /\ UNCHANGED pending
    BY <1>2, <1>3, <2>1
  <2>2. ASSUME NEW n, NEW locals, Continue(w, "match", locals),
               pending' = [pending EXCEPT ![w] = << UpdateBalance(item.account, n),
                                                    InsertTransaction(NewOrder(item)) >>]
        PROVE  KeepsHeld(w)'
    <3>1. pending'[w] = << UpdateBalance(item.account, n), InsertTransaction(NewOrder(item)) >>
      BY <1>0, <2>2 DEF PendingTyped
    <3>2. TakesHeld(w)'
      BY <3>1 DEF TakesHeld, Gives, UpdateBalance, InsertTransaction
    <3> QED BY <1>1, <1>3, <2>2, <3>2 DEF Label, Granting
  <2>3. CASE Continue(w, "holding", local[w]) /\ UNCHANGED pending
    <3>1. TakesHeld(w)'
      BY <1>0, <2>3 DEF TakesHeld
    <3> QED BY <1>1, <1>3, <2>3, <3>1 DEF Label, Granting
  <2> QED BY <1>3, <2>1, <2>2, <2>3 DEF OpenOrder, OpenBuy
<1>4. CASE OrderSelectAccount(w) \/ OrderSelectSymbol(w)
  <2>1. HoldingsCovered' /\ UNCHANGED pending /\ TakesHeld(w)'
    <3>1. UNCHANGED <<db, pending>>
      BY <1>4 DEF OrderSelectAccount, OrderSelectSymbol
    <3>2. HoldingsCovered'
      BY <1>0, <3>1 DEF HoldingsCovered
    <3>3. TakesHeld(w)'
      BY <1>0, <3>1 DEF TakesHeld
    <3> QED BY <3>1, <3>2, <3>3
  <2>2. \/ \E result : Finish(w, result)
        \/ \E label \in {"orderSymbol", "orderPosition"} : \E locals : Continue(w, label, locals)
    BY <1>4 DEF OrderSelectAccount, OrderSelectSymbol
  <2>3. {"orderSymbol", "orderPosition"} \subseteq Label \ Granting
    BY DEF Label, Granting
  <2> QED BY <1>1, <1>2, <2>1, <2>2, <2>3
<1>5. CASE OrderSelectPosition(w)
  <2>1. HoldingsCovered'
    BY <1>0, <1>5 DEF OrderSelectPosition, HoldingsCovered
  <2>2. CASE Continue(w, "orderInsert", local[w]) /\ UNCHANGED pending
    <3>1. TakesHeld(w)'
      BY <1>0, <2>2 DEF TakesHeld
    <3> QED BY <1>1, <2>1, <2>2, <3>1 DEF Label, Granting
  <2> QED BY <1>3, <1>5, <2>1, <2>2 DEF OrderSelectPosition
<1>6. CASE OrderInsertPosition(w)
  <2>1. CASE db' = [db EXCEPT !.positions = Insert(@, OrderPosition(w), 0)] /\ OpenOrder(w)
    <3>1. db'.positions = Insert(db.positions, OrderPosition(w), 0)
      BY <1>0, <2>1 DEF IsDatabase
    <3>2. HoldingsCovered'
      BY <1>0, <3>1 DEF Insert, HoldingsCovered
    <3> QED BY <1>3, <2>1, <3>2
  <2>2. CASE Terminate
    <3>1. pending'[w] = << >> /\ UNCHANGED <<db, pc>>
      BY <2>2 DEF Terminate, control
    <3>2. pc[w] \notin Granting
      BY <1>0 DEF LabelsOf, Granting
    <3> QED BY <3>1, <3>2, AsideHeld
  <2> QED BY <1>6, <2>1, <2>2 DEF OrderInsertPosition
<1>7. CASE OpenSell(w)
  <2>1. HoldingsCovered'
    BY <1>0, <1>7 DEF OpenSell, HoldingsCovered
  <2>2. CASE (\E result : Finish(w, result)) /\ UNCHANGED pending
    BY <1>2, <2>1, <2>2
  <2>3. ASSUME NEW p \in DOMAIN db.positions, p[1] = item.account,
               Covers(db.positions[p], item.amount),
               pending' = [pending EXCEPT ![w] =
                  << UpdatePosition(item.account, item.symbol, item.amount),
                     InsertTransaction(NewOrder(item)) >>],
               NEW locals, Continue(w, "match", locals)
        PROVE  KeepsHeld(w)'
    <3>1. item.symbol = s /\ item.amount \in Int
      BY <1>0, OrderTyped
    <3>2. p \in Account \X {s} /\ db.positions[p] \in Int
      BY <1>0 DEF IsDatabase, IsTable
    <3>3. p = << item.account, item.symbol >>
      BY <2>3, <3>1, <3>2
    <3>4. db.positions[<< item.account, item.symbol >>] + item.amount >= 0
      BY <2>3, <3>1, <3>2, <3>3 DEF Covers
    <3>5. UNCHANGED db
      BY <1>7 DEF OpenSell
    <3>6. pending'[w] = << UpdatePosition(item.account, item.symbol, item.amount),
                           InsertTransaction(NewOrder(item)) >>
      BY <1>0, <2>3 DEF PendingTyped
    <3>7. TakesHeld(w)'
      BY <3>4, <3>5, <3>6 DEF TakesHeld, Gives, TakesWhatIsHeld, UpdatePosition,
         InsertTransaction
    <3> QED BY <1>1, <2>1, <2>3, <3>7 DEF Label, Granting
  <2> QED BY <1>7, <2>2, <2>3 DEF OpenSell
<1> QED BY <1>4, <1>5, <1>6, <1>7

\* The statements of a match take no shares from a position.
LEMMA MatchGives ==
  ASSUME NEW r, NEW row, NEW id, NEW left, NEW signed, NEW item, NEW executed \in Int,
         executed >= 0,
         NEW settle \in {SettleBuy(item, row, executed), SettleSell(item, row, executed)},
         NEW sts, sts = Fill(r, row, id, left, signed) \o settle
  PROVE  \A k \in DOMAIN sts : Gives(sts[k])
<1> DEFINE U == {st \in {Fill(r, row, id, left, signed)[k] : k \in 1..4}
                          \cup {settle[k] : k \in 1..3} : Gives(st)}
<1>1. Fill(r, row, id, left, signed) \in Seq(U)
  BY DEF Fill, Shrink, UpdateShares, UpdateExecuted, InsertExecuted, Gives
<1>2. settle \in Seq(U)
  <2>1. PICK x, y, z : /\ settle = << x, y, z >>
                       /\ \A st \in {x, y, z} : Gives(st)
    BY DEF SettleBuy, SettleSell, UpdatePosition, UpdateBalance, Gives
  <2>2. settle[1] \in U /\ settle[2] \in U /\ settle[3] \in U
    BY <2>1
  <2> QED BY <2>1, <2>2
<1>3. Fill(r, row, id, left, signed) \o settle \in Seq(U)
  BY <1>1, <1>2, ConcatProperties
<1>4. \A st \in U : Gives(st)
  OBVIOUS
<1> HIDE DEF U
<1> QED BY <1>3, <1>4, ElementOfSeq, LenProperties

\* A match gives the shares to the buyer, and takes none.
LEMMA MatchHeld ==
  ASSUME NEW w \in Thread, HeldInv(w), BuySelectAsk(w) \/ SellSelectBid(w)
  PROVE  KeepsHeld(w)'
<1>0. TypeOK /\ PendingTyped /\ At(w, "match") /\ TradeInv
  BY TypeParts DEF HeldInv, TradeInv, BuySelectAsk, SellSelectBid
<1>1. pending[w] = << >> /\ UNCHANGED db /\ HoldingsCovered'
  BY <1>0 DEF BuySelectAsk, SellSelectBid, At, HeldInv, KeepsHeld, HoldingsCovered
<1>2. CASE NoMatch(w)
  <2>1. pc'[w] = "commit" /\ pending'[w] = << >>
    BY <1>0, <1>1, <1>2, ContinueTo DEF NoMatch
  <2> QED BY <1>1, <2>1, AsideHeld DEF Granting
<1>3. ASSUME NEW r, NEW row, NEW left, NEW signed, NEW executed \in Int, executed >= 0,
             NEW remaining,
             NEW settle \in {SettleBuy(ItemOf(w), row, executed),
                             SettleSell(ItemOf(w), row, executed)},
             pending' = [pending EXCEPT ![w] =
                           Fill(r, row, local[w].id, left, signed) \o settle],
             Matched(w, r, executed, remaining)
      PROVE  KeepsHeld(w)'
  <2>1. pending'[w] = Fill(r, row, local[w].id, left, signed) \o settle
    BY <1>0, <1>3 DEF PendingTyped
  <2>2. \A k \in DOMAIN pending'[w] : Gives(pending'[w][k])
    BY <1>3, <2>1, MatchGives
  <2>3. pc'[w] \in {"match", "commit"}
    BY <1>0, <1>3, ContinueTo DEF Matched
  <2>4. TakesHeld(w)'
    BY <2>2 DEF TakesHeld, Gives
  <2> QED BY <1>1, <2>3, <2>4 DEF KeepsHeld, GrantsNoDebt, Granting
<1>4. CASE BuySelectAsk(w)
  <2> DEFINE left == local[w].remaining
             item == ItemOf(w)
  <2>1. left \in Int /\ item.amount > 0 /\ left >= 0
    BY <1>0, <1>4, AtMatch DEF BuySelectAsk, OnSide
  <2>2. SUFFICES ASSUME NEW r \in Asks(db, item.symbol),
                        NEW executed, executed = LesserOf(left, -db.transactions[r].shares),
                        pending' = [pending EXCEPT ![w] =
                                      Fill(r, db.transactions[r], local[w].id, left, executed)
                                        \o SettleBuy(item, db.transactions[r], executed)],
                        Matched(w, r, executed, left - executed)
                 PROVE  KeepsHeld(w)'
    BY <1>2, <1>4 DEF BuySelectAsk
  <2>3. db.transactions[r].shares \in Int /\ db.transactions[r].shares < 0
    BY <1>0, <2>2, AtMatch DEF Asks, Order
  <2>4. executed \in Int /\ executed >= 0
    BY <2>1, <2>2, <2>3 DEF LesserOf
  <2> QED BY <1>3, <2>2, <2>4
<1>5. CASE SellSelectBid(w)
  <2> DEFINE left == local[w].remaining
             item == ItemOf(w)
  <2>1. left \in Int /\ left <= 0
    <3>1. /\ left \in Int /\ OnSide(left, item.amount)
          /\ item \in OrderItem /\ item.amount <= 0
      BY <1>0, <1>5, AtMatch DEF SellSelectBid
    <3>2. item.amount \in Int
      BY <3>1 DEF OrderItem
    <3> QED BY <3>1, <3>2 DEF OnSide
  <2>2. SUFFICES ASSUME NEW r \in Bids(db, item.symbol),
                        NEW executed, executed = LesserOf(-left, db.transactions[r].shares),
                        pending' = [pending EXCEPT ![w] =
                                      Fill(r, db.transactions[r], local[w].id, left, -executed)
                                        \o SettleSell(item, db.transactions[r], executed)],
                        Matched(w, r, executed, left + executed)
                 PROVE  KeepsHeld(w)'
    BY <1>2, <1>5 DEF SellSelectBid
  <2>3. db.transactions[r].shares \in Int /\ db.transactions[r].shares > 0
    BY <1>0, <2>2, AtMatch DEF Bids, Order
  <2>4. executed \in Int /\ executed >= 0
    BY <2>1, <2>2, <2>3 DEF LesserOf
  <2> QED BY <1>3, <2>2, <2>4
<1> QED BY <1>4, <1>5

\* The steps that neither compose a statement nor write one.
LEMMA ReadHeld ==
  ASSUME NEW w \in Thread, HeldInv(w),
         \/ Receive(w) \/ Commit(w) \/ QuerySelectOrder(w) \/ QuerySelectCanceled(w)
         \/ QuerySelectExecuted(w) \/ CancelSelectExecuted(w)
  PROVE  KeepsHeld(w)'
<1>0. TypeOK /\ ControlTyped
  BY TypeParts DEF HeldInv, TradeInv
<1>1. UNCHANGED db /\ pending'[w] = << >> /\ pending[w] = << >>
  BY DEF Receive, Commit, QuerySelectOrder, QuerySelectCanceled, QuerySelectExecuted,
     CancelSelectExecuted, Terminate, At
<1>2. pc'[w] \notin Granting
  <2>1. CASE Receive(w)
    <3>1. PICK doc \in Document : pc' = [pc EXCEPT ![w] = StartOf(doc)]
      BY <2>1 DEF Receive
    <3> QED BY <1>0, <3>1, DocumentAssumption, StartTyped DEF ControlTyped, Starts, Granting
  <2>2. CASE pc[w] # "idle" /\ \E result : Finish(w, result)
    BY <1>0, <2>2, FinishStarts DEF Starts, Granting
  <2>3. CASE \E label \in {"queryCanceled", "queryExecuted"} : \E locals : Continue(w, label, locals)
    BY <1>0, <2>3, ContinueTo DEF Granting
  <2>4. CASE Terminate /\ pc[w] = "queryCanceled"
    BY <2>4 DEF Terminate, control, Granting
  <2> QED BY <2>1, <2>2, <2>3, <2>4 DEF Commit, QuerySelectOrder, QuerySelectCanceled,
          QuerySelectExecuted, CancelSelectExecuted, At
<1> QED BY <1>1, <1>2, AsideHeld

\* A cancellation gives back what a sell had set aside.
LEMMA CancelHeld ==
  ASSUME NEW w \in Thread, HeldInv(w), CancelSelectOrder(w)
  PROVE  KeepsHeld(w)'
<1> DEFINE i == ItemOf(w).id
           row == db.transactions[i]
           sts == CancelStatements(i, row)
<1>0. TypeOK /\ PendingTyped /\ db.transactions \in Seq(Order)
  BY TypeParts DEF HeldInv, TradeInv, EngineTyped, IsDatabase
<1>1. pending[w] = << >> /\ pc[w] # "idle" /\ UNCHANGED db
  BY DEF CancelSelectOrder, At
<1>2. CASE (\E result : Finish(w, result)) /\ UNCHANGED pending
  BY <1>1, <1>2, FinishHeld
<1>3. ASSUME i \in DOMAIN db.transactions, NEW locals, Continue(w, "cancelExecuted", locals),
             pending' = [pending EXCEPT ![w] = sts]
      PROVE  KeepsHeld(w)'
  <2>1. pending'[w] = sts
    BY <1>0, <1>3 DEF PendingTyped
  <2>2. pc'[w] = "cancelExecuted"
    BY <1>0, <1>3, ContinueTo
  <2>3. row.shares \in Int
    <3>1. row \in Order
      BY <1>0, <1>3, ElementOfSeq
    <3> QED BY <3>1 DEF Order
  <2>4. DOMAIN sts = 1..3 /\ Gives(sts[1]) /\ Gives(sts[2]) /\ Gives(sts[3])
    BY <2>3 DEF CancelStatements, UpdateCanceled, InsertCanceled, UpdateBalance, UpdatePosition,
       Gives
  <2> HIDE DEF sts
  <2>5. TakesHeld(w)'
    <3>1. \A k \in DOMAIN sts : Gives(sts[k])
      BY <2>4
    <3> QED BY <2>1, <3>1 DEF TakesHeld, Gives
  <2> QED BY <1>1, <2>2, <2>5 DEF HeldInv, KeepsHeld, HoldingsCovered, GrantsNoDebt, Granting
<1> QED BY <1>2, <1>3 DEF CancelSelectOrder

\* A statement sent takes what is held, and those after it take nothing.
LEMMA ExecHeld ==
  ASSUME NEW w \in Thread, HeldInv(w), Exec(w)
  PROVE  KeepsHeld(w)'
<1> DEFINE st == Head(pending[w])
           rest == Tail(pending[w])
<1>0. IsDatabase(db) /\ ControlTyped /\ PendingTyped
  BY TypeParts DEF HeldInv, TradeInv, EngineTyped
<1>1. pending[w] \in Seq(Statement) /\ pending[w] # << >> /\ pending'[w] = rest
  BY <1>0 DEF PendingTyped, Exec
<1>2. /\ st \in Statement /\ st = pending[w][1] /\ 1 \in DOMAIN pending[w]
      /\ \A k \in DOMAIN rest :
           k + 1 \in DOMAIN pending[w] /\ rest[k] = pending[w][k + 1] /\ k + 1 # 1
  BY <1>1, HeadTailProperties, LenProperties
<1>3. db' = Apply(st, db) /\ UNCHANGED <<alive, pc>>
  BY DEF Exec
<1> HIDE DEF st, rest
<1>4. pc'[w] \in {"match", "commit", "cancelExecuted"}
  BY <1>0, <1>1, <1>3 DEF PendingTyped, SendingOK
<1>5. TakesHeld(w)'
  <2>1. \A k \in DOMAIN rest : Gives(rest[k])
    BY <1>2 DEF HeldInv, KeepsHeld, TakesHeld
  <2> QED BY <1>1, <2>1 DEF TakesHeld, Gives
<1>6. HoldingsCovered'
  <2>1. Gives(st) \/ TakesWhatIsHeld(st)
    BY <1>2 DEF HeldInv, KeepsHeld, TakesHeld
  <2>2. CASE st.op # "updatePosition"
    <3>1. UNCHANGED db.positions
      BY <1>0, <1>2, <1>3, <2>2 DEF IsDatabase, Statement, Apply
    <3> QED BY <3>1 DEF HeldInv, KeepsHeld, HoldingsCovered
  <2>3. CASE st.op = "updatePosition"
    <3> DEFINE p == <<st.account, st.symbol>>
    <3>1. db'.positions = [db.positions EXCEPT ![p] = @ + st.add] /\ st.add \in Int
      BY <1>0, <1>2, <1>3, <2>3 DEF IsDatabase, Statement, Apply
    <3>2. /\ DOMAIN db'.positions = DOMAIN db.positions
          /\ \A q \in DOMAIN db.positions :
               db'.positions[q] = IF q = p THEN db.positions[q] + st.add ELSE db.positions[q]
      BY <3>1
    <3>3. \A q \in DOMAIN db.positions : db.positions[q] \in Int /\ db.positions[q] >= 0
      BY <1>0 DEF IsDatabase, IsTable, HeldInv, KeepsHeld, HoldingsCovered
    <3>4. p \in DOMAIN db.positions => db.positions[p] + st.add >= 0
      BY <2>1, <2>3, <3>1, <3>3 DEF Gives, TakesWhatIsHeld
    <3> HIDE DEF p
    <3> QED BY <3>2, <3>3, <3>4 DEF HoldingsCovered
  <2> QED BY <2>2, <2>3
<1> QED BY <1>4, <1>5, <1>6 DEF KeepsHeld, GrantsNoDebt, Granting

\* An exception over the input loses what was on its way.
LEMMA RaiseHeld == ASSUME NEW w \in Thread, HeldInv(w), Raise(w) PROVE KeepsHeld(w)'
<1>1. pending'[w] = << >> /\ UNCHANGED <<db, todo, pc, local>>
  BY DEF Raise, Terminate, control
<1> QED BY <1>1 DEF HeldInv, KeepsHeld, HoldingsCovered, TakesHeld, GrantsNoDebt, GrantOf, ItemOf

\* With nobody else and no other symbol every step keeps the inductive invariant.
LEMMA NextHeld ==
  ASSUME NEW w, Thread = {w}, NEW s, Symbol = {s}
  PROVE  HeldInv(w) /\ [Next]_vars => HeldInv(w)'
<1> SUFFICES ASSUME HeldInv(w), [Next]_vars PROVE KeepsHeld(w)'
  BY NextFair DEF HeldInv
<1>1. CASE Receive(w) \/ Step(w)
  BY <1>1, CreateHeld, OrderHeld, MatchHeld, ReadHeld, CancelHeld, ExecHeld, RaiseHeld DEF Step
<1>2. CASE UNCHANGED vars
  BY <1>2 DEF HeldInv, KeepsHeld, HoldingsCovered, TakesHeld, Gives, TakesWhatIsHeld, GrantsNoDebt,
     GrantOf, ItemOf, vars
<1> QED BY <1>1, <1>2 DEF Next, Stopped

\* With a thread count of 1 and one symbol no account ever owes shares, if none
\* does when the clients start: what a sell was seen to cover is still there when
\* its shares are taken, and nothing else takes any (handle_command.cpp:467-480).
THEOREM OneWorkerCovered ==
  ASSUME NEW w, Thread = {w}, NEW s, Symbol = {s},
         \A p \in DOMAIN Seed.positions : Seed.positions[p] >= 0
  PROVE  Spec => []HoldingsCovered
<1>1. HeldInv(w) => HoldingsCovered
  BY DEF HeldInv, KeepsHeld
<1>2. Init => HeldInv(w)
  <2> SUFFICES ASSUME Init PROVE HeldInv(w)
    OBVIOUS
  <2>1. KeepsHeld(w)
    BY DEF Init, KeepsHeld, HoldingsCovered, TakesHeld, GrantsNoDebt, Granting
  <2> QED BY <2>1, InitFair DEF HeldInv
<1> QED BY <1>1, <1>2, NextHeld, PTL DEF Spec

-----------------------------------------------------------------------------
(* No grant is lost.                                                       *)

\* The position the SELECT did not find is still not there.
GrantNotThere(w) == pc[w] = "grantInsert" => Granted(w) \notin DOMAIN db.positions

\* A worker gets to the INSERT of a granted position from its SELECT only.
LEMMA GrantInsertFrom ==
  ASSUME TypeOK, NEW w \in Thread, Receive(w) \/ Step(w), pc'[w] = "grantInsert"
  PROVE  GrantSelectPosition(w) \/ Raise(w)
<1>1. ASSUME Receive(w) PROVE FALSE
  <2>1. PICK doc \in Document : pc' = [pc EXCEPT ![w] = StartOf(doc)]
    BY <1>1 DEF Receive
  <2>2. pc'[w] \in {"idle"} \cup Starts
    BY <2>1, DocumentAssumption, StartTyped, TypeParts DEF ControlTyped
  <2> QED BY <2>2 DEF Starts
<1>2. ASSUME pc[w] # "idle", NEW result, Finish(w, result) PROVE FALSE
  BY <1>2, FinishStarts DEF Starts
<1>3. ASSUME NEW label, NEW locals, Continue(w, label, locals) PROVE label = "grantInsert"
  BY <1>3, ContinueTo
<1>4. ASSUME pc[w] # "idle", NEW msg, Note(w, msg) PROVE FALSE
  BY <1>2, <1>3, <1>4 DEF Note
<1>5. ASSUME pc[w] # "grantInsert", UNCHANGED pc PROVE FALSE
  BY <1>5
<1>6. ASSUME Exec(w) PROVE FALSE
  <2>1. pc[w] \in {"match", "commit", "cancelExecuted"} /\ UNCHANGED pc
    BY <1>6, TypeParts DEF Exec, PendingTyped, SendingOK
  <2> QED BY <1>5, <2>1
<1>7. ASSUME CreateAccount(w) \/ CreateSymbol(w) PROVE FALSE
  BY <1>2, <1>3, <1>7 DEF CreateAccount, CreateSymbol, At
<1>8. ASSUME GrantSelectAccount(w) \/ GrantInsertPosition(w) \/ GrantUpdatePosition(w) PROVE FALSE
  BY <1>3, <1>4, <1>8 DEF GrantSelectAccount, GrantInsertPosition, GrantUpdatePosition, At
<1>9. ASSUME OpenOrder(w), pc[w] # "idle" PROVE FALSE
  BY <1>2, <1>3, <1>9 DEF OpenOrder, OpenBuy
<1>10. ASSUME Terminate, pc[w] # "grantInsert" PROVE FALSE
  BY <1>5, <1>10 DEF Terminate, control
<1>11. ASSUME \/ OrderSelectAccount(w) \/ OrderSelectSymbol(w) \/ OrderSelectPosition(w)
              \/ OrderInsertPosition(w) \/ OpenSell(w)
       PROVE  FALSE
  BY <1>2, <1>3, <1>9, <1>10, <1>11 DEF OrderSelectAccount, OrderSelectSymbol,
     OrderSelectPosition, OrderInsertPosition, OpenSell, At
<1>12. ASSUME BuySelectAsk(w) \/ SellSelectBid(w) PROVE FALSE
  BY <1>3, <1>12 DEF BuySelectAsk, SellSelectBid, NoMatch, Matched
<1>13. ASSUME \/ Commit(w) \/ QuerySelectOrder(w) \/ QuerySelectCanceled(w)
              \/ QuerySelectExecuted(w) \/ CancelSelectOrder(w) \/ CancelSelectExecuted(w)
       PROVE  FALSE
  BY <1>2, <1>3, <1>10, <1>13 DEF Commit, QuerySelectOrder, QuerySelectCanceled,
     QuerySelectExecuted, CancelSelectOrder, CancelSelectExecuted, At
<1> QED BY <1>1, <1>6, <1>7, <1>8, <1>11, <1>12, <1>13 DEF Step

\* With nobody else a granted position is inserted where there is none.
LEMMA NextGrants ==
  ASSUME NEW w, Thread = {w}, TypeOK, GrantNotThere(w), [Next]_vars
  PROVE  GrantNotThere(w)' /\ \A t \in Thread : ~GrantLost(t)
<1>1. ~GrantLost(w)
  BY DEF GrantLost, GrantInsertPosition, At, GrantNotThere
<1>2. CASE GrantSelectPosition(w)
  <2>1. PICK label : /\ Continue(w, label, local[w])
                     /\ label = "grantInsert" => Granted(w) \notin DOMAIN db.positions
    BY <1>2 DEF GrantSelectPosition
  <2>2. pc'[w] = label /\ todo' = todo /\ local'[w] = local[w]
    BY <2>1, TypeParts DEF Continue, ControlTyped
  <2>3. UNCHANGED db
    BY <1>2 DEF GrantSelectPosition
  <2> QED BY <1>1, <2>1, <2>2, <2>3 DEF GrantNotThere, Granted, GrantOf, ItemOf
<1>3. CASE UNCHANGED vars
  BY <1>1, <1>3 DEF GrantNotThere, Granted, GrantOf, ItemOf, vars
<1>4. CASE Raise(w)
  BY <1>1, <1>4 DEF GrantNotThere, Granted, GrantOf, ItemOf, Raise, Terminate, control
<1>5. CASE (Receive(w) \/ Step(w)) /\ ~GrantSelectPosition(w) /\ ~Raise(w)
  BY <1>1, <1>5, GrantInsertFrom DEF GrantNotThere
<1> QED BY <1>2, <1>3, <1>4, <1>5 DEF Next, Stopped

\* With a thread count of 1 no grant answered Success is ever lost, and no position
\* drifts from its ledger (handle_command.cpp:86-96, 144-157).
THEOREM OneWorkerGrants == ASSUME NEW w, Thread = {w} PROVE Spec => []PositionIsLedger
<1> DEFINE Inv == ExactInv /\ GrantNotThere(w)
<1>1. Init => Inv
  BY InitExact DEF Init, GrantNotThere
<1>2. Inv /\ [Next]_vars => Inv'
  <2> SUFFICES ASSUME ExactInv, GrantNotThere(w), [Next]_vars PROVE ExactInv' /\ GrantNotThere(w)'
    OBVIOUS
  <2>1. TypeOK
    BY DEF ExactInv, KeyInv, TradeInv
  <2> QED BY <2>1, NextExact, NextGrants
<1>3. Inv => PositionIsLedger
  BY ExactPositions
<1> HIDE DEF Inv
<1> QED BY <1>1, <1>2, <1>3, PTL DEF Spec

=============================================================================
