-------------------------- MODULE OrderBookProofs --------------------------
(***************************************************************************)
(* Theorems of OrderBook, for every set of accounts, symbols and offers    *)
(* and any number of orders.                                               *)
(***************************************************************************)
EXTENDS OrderBookProperties, SumProofs

-----------------------------------------------------------------------------
(* The orders of a match.                                                  *)

\* Adding to the value of a key, if it is there, leaves a function to Int one.
LEMMA AddInt ==
  ASSUME NEW S, NEW f \in [S -> Int], NEW x, NEW n \in Int
  PROVE  Add(f, x, n) \in [S -> Int]
<1>1. CASE x \in S
  BY <1>1 DEF Add
<1>2. CASE x \notin S
  BY <1>2 DEF Add
<1> QED BY <1>1, <1>2

\* A product of integers is one.
LEMMA TimesInt == ASSUME NEW m \in Int, NEW n \in Int PROVE m * n \in Int
OBVIOUS

\* An order on the book has a number of its own, and a limit and a side.
LEMMA OnBook ==
  ASSUME TypeOK, NEW k \in DOMAIN book
  PROVE  /\ k \in Nat /\ k # 0 /\ k \in 1..placed
         /\ book[k] \in BookOrder
         /\ book[k].account \in Account /\ book[k].symbol \in Symbol
         /\ book[k].limit \in Int /\ book[k].wants \in Int /\ book[k].wants # 0
         /\ <<book[k].account, book[k].symbol>> \in Account \X Symbol
BY DEF TypeOK, BookOrder

\* What two orders that face each other exchange is something, and no more than
\* either wants, so that neither changes sides.
LEMMA LeftOver ==
  ASSUME TypeOK, NEW i \in DOMAIN book, NEW m \in Facing(i), NEW q,
         q = Lesser(Size(m), Size(i))
  PROVE  /\ m \in DOMAIN book /\ m # i
         /\ q \in Nat /\ q > 0
         /\ \A k \in DOMAIN book :
              /\ Left(k, m, i, q) \in Int
              /\ Left(k, m, i, q) > 0 => book[k].wants > 0
              /\ Left(k, m, i, q) < 0 => book[k].wants < 0
<1>1. m \in DOMAIN book /\ (book[i].wants > 0 => book[m].wants < 0)
                        /\ (~(book[i].wants > 0) => book[m].wants > 0)
  BY DEF Facing
<1>2. /\ book[i].wants \in Int /\ book[i].wants # 0
      /\ book[m].wants \in Int /\ book[m].wants # 0
  BY <1>1, OnBook
<1>3. Size(i) \in Nat /\ Size(m) \in Nat /\ Size(i) > 0 /\ Size(m) > 0
  BY <1>2 DEF Size
<1>4. q \in Nat /\ q > 0 /\ q <= Size(i) /\ q <= Size(m)
  BY <1>3 DEF Lesser
<1>5. ASSUME NEW k \in DOMAIN book
      PROVE  /\ Left(k, m, i, q) \in Int
             /\ Left(k, m, i, q) > 0 => book[k].wants > 0
             /\ Left(k, m, i, q) < 0 => book[k].wants < 0
  <2>1. book[k].wants \in Int
    BY OnBook
  <2>2. k \in {m, i} => q <= Size(k)
    BY <1>4
  <2> QED BY <1>4, <2>1, <2>2 DEF Left, Size
<1> QED BY <1>1, <1>2, <1>4, <1>5

-----------------------------------------------------------------------------
(* Types.                                                                  *)

\* The exchange opens with well-typed tables and an empty book.
LEMMA InitType == Init => TypeOK
BY OpeningAssumption DEF Init, TypeOK, BookOrder

\* Placing an order keeps the types.
LEMMA PlaceType == ASSUME TypeOK, NEW o \in Offer, Place(o) PROVE TypeOK'
<1>1. /\ o.account \in Account /\ o.symbol \in Symbol /\ o.amount \in Int /\ o.limit \in Int
      /\ o.amount * o.limit \in Int
  BY OfferAssumption
<1>2. DOMAIN cash' \subseteq Account /\ cash' \in [DOMAIN cash' -> Int]
  <2>1. CASE cash' = Add(cash, o.account, -(o.amount * o.limit))
    <3>1. -(o.amount * o.limit) \in Int
      BY <1>1
    <3>2. cash' \in [DOMAIN cash -> Int]
      BY <2>1, <3>1, AddInt DEF TypeOK
    <3> QED BY <3>2 DEF TypeOK
  <2>2. CASE UNCHANGED cash
    BY <2>2 DEF TypeOK
  <2> QED BY <2>1, <2>2 DEF Place
<1>3. held' \in [Account \X Symbol -> Int]
  <2>1. CASE held' = Add(held, <<o.account, o.symbol>>, o.amount)
    BY <1>1, <2>1, AddInt DEF TypeOK
  <2>2. CASE UNCHANGED held
    BY <2>2 DEF TypeOK
  <2> QED BY <2>1, <2>2 DEF Place
<1>4. placed \in Nat /\ placed' = placed + 1 /\ placed' \in Nat
  BY DEF Place, TypeOK
<1>5. done' \in [1..placed' -> Int]
  BY <1>4 DEF Place, TypeOK
<1>6. DOMAIN book' \subseteq 1..placed' /\ book' \in [DOMAIN book' -> BookOrder]
      /\ incoming' \in {0} \cup DOMAIN book'
  <2>1. CASE o.amount = 0
    BY <1>4, <2>1 DEF Place, TypeOK
  <2>2. CASE o.amount # 0
    <3> DEFINE new == [account |-> o.account, symbol |-> o.symbol,
                       limit |-> o.limit, wants |-> o.amount]
    <3>1. new \in BookOrder
      BY <1>1, <2>2 DEF BookOrder
    <3>2. /\ book' = [i \in DOMAIN book \cup {placed + 1} |->
                        IF i = placed + 1 THEN new ELSE book[i]]
          /\ incoming' = placed + 1
      BY <2>2 DEF Place
    <3> HIDE DEF new
    <3>3. DOMAIN book' = DOMAIN book \cup {placed + 1}
      BY <3>2
    <3>4. \A i \in DOMAIN book' : book'[i] \in BookOrder
      BY <3>1, <3>2, <3>3 DEF TypeOK
    <3>5. DOMAIN book' \subseteq 1..placed'
      BY <1>4, <3>3 DEF TypeOK
    <3>6. book' \in [DOMAIN book' -> BookOrder]
      BY <3>2, <3>3, <3>4
    <3> QED BY <3>2, <3>3, <3>5, <3>6
  <2> QED BY <2>1, <2>2
<1>7. listed' \subseteq Symbol
  BY DEF Place, TypeOK
<1> QED BY <1>2, <1>3, <1>4, <1>5, <1>6, <1>7 DEF TypeOK

\* A cancellation keeps the types: what it gives back is a number.
LEMMA CancelType == ASSUME TypeOK, NEW i \in DOMAIN book, Cancel(i) PROVE TypeOK'
<1> DEFINE a == book[i].account
           s == book[i].symbol
           w == book[i].wants
           n == w * book[i].limit
<1>1. a \in Account /\ s \in Symbol /\ w \in Int /\ n \in Int
  <2>1. book[i].limit \in Int /\ w \in Int
    BY OnBook
  <2>2. n \in Int
    BY <2>1, TimesInt
  <2> QED BY <2>2, OnBook
<1>2. \/ cash' = Add(cash, a, n) /\ UNCHANGED held
      \/ held' = Add(held, <<a, s>>, -w) /\ UNCHANGED cash
  BY DEF Cancel, GiveBack
<1> HIDE DEF a, s, w, n
<1>3. DOMAIN cash' \subseteq Account /\ cash' \in [DOMAIN cash' -> Int]
  <2>1. cash' \in [DOMAIN cash -> Int]
    BY <1>1, <1>2, AddInt DEF TypeOK
  <2> QED BY <2>1 DEF TypeOK
<1>4. held' \in [Account \X Symbol -> Int]
  BY <1>1, <1>2, AddInt DEF TypeOK
<1>5. DOMAIN book' \subseteq 1..placed' /\ book' \in [DOMAIN book' -> BookOrder]
      /\ incoming' \in {0} \cup DOMAIN book'
  BY DEF Cancel, TypeOK
<1> QED BY <1>3, <1>4, <1>5 DEF Cancel, TypeOK

\* A match keeps the types of both orders, both accounts and both positions.
LEMMA TradeType ==
  ASSUME TypeOK, NEW i \in DOMAIN book, i = incoming, NEW m \in Facing(i),
         NEW q, q = Lesser(Size(m), Size(i)), Trade(m, i, q)
  PROVE  TypeOK'
<1> DEFINE maker == book[m].account
           taker == book[i].account
           s     == book[i].symbol
           n1    == q * (book[i].limit - book[m].limit)
           n2    == q * book[m].limit
<1>1. /\ m \in DOMAIN book /\ m # i /\ q \in Nat
      /\ \A k \in DOMAIN book : Left(k, m, i, q) \in Int
  BY LeftOver
<1>2. /\ maker \in Account /\ taker \in Account /\ s \in Symbol
      /\ n1 \in Int /\ n2 \in Int /\ i \in 1..placed /\ m \in 1..placed
  <2>1. q \in Int /\ book[m].limit \in Int /\ book[i].limit \in Int
    <3>1. book[m].limit \in Int /\ book[i].limit \in Int
      BY <1>1, OnBook
    <3> QED BY <1>1, <3>1
  <2>2. book[i].limit - book[m].limit \in Int
    BY <2>1
  <2>4. n1 \in Int /\ n2 \in Int
    BY <2>1, <2>2, TimesInt
  <2>3. maker \in Account /\ taker \in Account /\ s \in Symbol
    BY <1>1, OnBook
  <2> QED BY <1>1, <2>3, <2>4, OnBook
<1>3. \/ /\ held' = Add(held, <<taker, s>>, q)
         /\ cash' = Add(Add(cash, taker, n1), maker, n2)
         /\ done' = Add(Add(done, i, q), m, -q)
      \/ /\ held' = Add(held, <<maker, s>>, q)
         /\ cash' = Add(Add(cash, taker, n2), maker, -n2)
         /\ done' = Add(Add(done, i, -q), m, q)
  BY DEF Trade
<1> HIDE DEF maker, taker, s, n1, n2
<1>4. DOMAIN cash' \subseteq Account /\ cash' \in [DOMAIN cash' -> Int]
  <2>1. \E u \in Int, v \in Int : cash' = Add(Add(cash, taker, u), maker, v)
    BY <1>2, <1>3
  <2>2. PICK u \in Int, v \in Int : cash' = Add(Add(cash, taker, u), maker, v)
    BY <2>1
  <2>3. Add(cash, taker, u) \in [DOMAIN cash -> Int]
    BY AddInt DEF TypeOK
  <2>4. cash' \in [DOMAIN cash -> Int]
    BY <2>2, <2>3, AddInt
  <2> QED BY <2>4 DEF TypeOK
<1>5. held' \in [Account \X Symbol -> Int]
  BY <1>1, <1>2, <1>3, AddInt DEF TypeOK
<1>6. done' \in [1..placed -> Int]
  <2>1. PICK u \in Int, v \in Int : done' = Add(Add(done, i, u), m, v)
    BY <1>1, <1>3
  <2>2. Add(done, i, u) \in [1..placed -> Int]
    BY AddInt DEF TypeOK
  <2> QED BY <2>1, <2>2, AddInt
<1>7. placed' = placed /\ listed' = listed
  BY DEF Trade
<1>8. /\ book' = [k \in {j \in DOMAIN book : Left(j, m, i, q) # 0} |->
                    [book[k] EXCEPT !.wants = Left(k, m, i, q)]]
      /\ incoming' = IF Left(i, m, i, q) = 0 THEN 0 ELSE i
  BY DEF Trade
<1>9. \A k \in DOMAIN book : Left(k, m, i, q) # 0 =>
        [book[k] EXCEPT !.wants = Left(k, m, i, q)] \in BookOrder
  BY <1>1, OnBook DEF BookOrder
<1>10. DOMAIN book' \subseteq 1..placed' /\ book' \in [DOMAIN book' -> BookOrder]
       /\ incoming' \in {0} \cup DOMAIN book'
  BY <1>7, <1>8, <1>9 DEF TypeOK
<1> QED BY <1>4, <1>5, <1>6, <1>7, <1>10 DEF TypeOK

\* A match is a trade with the first order that faces the incoming one.
LEMMA MatchTrades ==
  ASSUME TypeOK, Match
  PROVE  /\ incoming \in DOMAIN book
         /\ \E m \in Facing(incoming) : Trade(m, incoming, Lesser(Size(m), Size(incoming)))
BY DEF Match, TypeOK

\* Every step keeps the types.
LEMMA NextType == TypeOK /\ [Next]_vars => TypeOK'
<1> SUFFICES ASSUME TypeOK, [Next]_vars PROVE TypeOK'
  OBVIOUS
<1>1. CASE \E a \in Account, balance \in Deposit : OpenAccount(a, balance)
  BY <1>1, CreateAssumption DEF OpenAccount, TypeOK
<1>2. CASE \E s \in Symbol : List(s)
  BY <1>2 DEF List, TypeOK
<1>3. CASE \E a \in Account, s \in Symbol, n \in Parcel : Grant(a, s, n)
  <2>1. PICK a \in Account, s \in Symbol, n \in Parcel : Grant(a, s, n)
    BY <1>3
  <2>2. n \in Int
    BY CreateAssumption
  <2>3. held' \in [Account \X Symbol -> Int]
    BY <2>1, <2>2, AddInt DEF Grant, TypeOK
  <2> QED BY <2>1, <2>3 DEF Grant, TypeOK
<1>4. CASE \E o \in Offer : Place(o)
  BY <1>4, PlaceType
<1>5. CASE \E i \in DOMAIN book : Cancel(i)
  BY <1>5, CancelType
<1>6. CASE Match
  BY <1>6, MatchTrades, TradeType
<1>7. CASE Rest
  BY <1>7 DEF Rest, TypeOK
<1>8. CASE UNCHANGED vars
  BY <1>8 DEF vars, TypeOK
<1> QED BY <1>1, <1>2, <1>3, <1>4, <1>5, <1>6, <1>7, <1>8 DEF Next

\* Every state of the order book has its types.
THEOREM BookTypes == Spec => []TypeOK
BY InitType, NextType, PTL DEF Spec

-----------------------------------------------------------------------------
(* Shares.                                                                 *)

\* No step makes anybody owe shares: a sell takes what is held, and a match and a
\* cancellation only give.
LEMMA NextCovered == TypeOK /\ SharesCovered /\ [Next]_vars => SharesCovered'
<1> SUFFICES ASSUME TypeOK, SharesCovered, [Next]_vars, NEW p \in Account \X Symbol
             PROVE  held'[p] >= 0
  BY DEF SharesCovered
<1>0. held \in [Account \X Symbol -> Int] /\ held[p] \in Int /\ held[p] >= 0
  BY DEF TypeOK, SharesCovered
<1>1. CASE UNCHANGED held
  BY <1>0, <1>1
<1>2. ASSUME NEW a \in Account, NEW s \in Symbol, NEW n \in Parcel, Grant(a, s, n)
      PROVE  held'[p] >= 0
  <2>1. n \in Nat /\ held' = Add(held, <<a, s>>, n)
    BY <1>2, CreateAssumption DEF Grant
  <2> QED BY <1>0, <2>1 DEF Add
<1>3. ASSUME NEW o \in Offer, Place(o), ~UNCHANGED held PROVE held'[p] >= 0
  <2>1. o.account \in Account /\ o.symbol \in Symbol /\ o.amount \in Int
    BY OfferAssumption
  <2>2. /\ held' = Add(held, <<o.account, o.symbol>>, o.amount)
        /\ held[<<o.account, o.symbol>>] >= -o.amount
    BY <1>3 DEF Place, Covers
  <2>3. CASE p = <<o.account, o.symbol>>
    BY <1>0, <2>1, <2>2, <2>3 DEF Add
  <2>4. CASE p # <<o.account, o.symbol>>
    BY <1>0, <2>2, <2>4 DEF Add
  <2> QED BY <2>3, <2>4
<1>4. ASSUME NEW i \in DOMAIN book, Cancel(i), ~UNCHANGED held PROVE held'[p] >= 0
  <2>1. book[i].wants \in Int
    BY OnBook
  <2>2. /\ book[i].wants < 0
        /\ held' = Add(held, <<book[i].account, book[i].symbol>>, -book[i].wants)
    BY <1>4 DEF Cancel, GiveBack
  <2> QED BY <1>0, <2>1, <2>2 DEF Add
<1>5. CASE Match
  <2>1. PICK m \in Facing(incoming) : Trade(m, incoming, Lesser(Size(m), Size(incoming)))
    BY <1>5, MatchTrades
  <2> DEFINE q == Lesser(Size(m), Size(incoming))
  <2>2. q \in Nat
    BY <1>5, MatchTrades, LeftOver
  <2>3. \E x : held' = Add(held, x, q)
    BY <2>1 DEF Trade
  <2> HIDE DEF q
  <2> QED BY <1>0, <2>2, <2>3 DEF Add
<1> QED BY <1>1, <1>2, <1>3, <1>4, <1>5 DEF Next, OpenAccount, List, Rest, vars

\* If nobody owes shares to start with, nobody ever does: what is set aside is
\* held, and no more is given back (handle_command.cpp:467-484, 840-845).
THEOREM SharesStayCovered ==
  ASSUME \A p \in Account \X Symbol : Opening.held[p] >= 0
  PROVE  Spec => []SharesCovered
<1>1. Init => SharesCovered
  BY DEF Init, SharesCovered
<1> QED BY <1>1, NextCovered, BookTypes, PTL DEF Spec

-----------------------------------------------------------------------------
(* The book.                                                               *)

\* Bids and asks of a book are below and above each other.
LEMMA NextUncrossed == TypeOK /\ Uncrossed /\ [Next]_vars => Uncrossed'
<1> SUFFICES ASSUME TypeOK, Uncrossed, [Next]_vars,
                    NEW i \in DOMAIN book' \ {incoming'}, NEW m \in DOMAIN book' \ {incoming'},
                    book'[i].symbol = book'[m].symbol,
                    book'[i].wants > 0, book'[m].wants < 0
             PROVE  book'[i].limit < book'[m].limit
  BY DEF Uncrossed
<1>1. CASE UNCHANGED <<book, incoming>>
  BY <1>1 DEF Uncrossed
<1>2. ASSUME NEW o \in Offer, Place(o), ~UNCHANGED <<book, incoming>>
      PROVE  book'[i].limit < book'[m].limit
  <2>1. /\ incoming = 0 /\ incoming' = placed + 1
        /\ DOMAIN book' = DOMAIN book \cup {placed + 1}
        /\ \A k \in DOMAIN book : k # placed + 1 => book'[k] = book[k]
    BY <1>2 DEF Place
  <2>2. i \in DOMAIN book /\ m \in DOMAIN book /\ book'[i] = book[i] /\ book'[m] = book[m]
    BY <2>1
  <2>3. i # 0 /\ m # 0
    BY <2>2, OnBook
  <2> QED BY <2>1, <2>2, <2>3 DEF Uncrossed
<1>3. ASSUME NEW k \in DOMAIN book, Cancel(k)
      PROVE  book'[i].limit < book'[m].limit
  <2>1. /\ incoming' = incoming /\ i \in DOMAIN book /\ m \in DOMAIN book
        /\ book'[i] = book[i] /\ book'[m] = book[m]
    BY <1>3 DEF Cancel
  <2> QED BY <2>1 DEF Uncrossed
<1>4. CASE Match
  <2>1. incoming \in DOMAIN book
    BY <1>4, MatchTrades
  <2>2. PICK f \in Facing(incoming) : Trade(f, incoming, Lesser(Size(f), Size(incoming)))
    BY <1>4, MatchTrades
  <2> DEFINE q == Lesser(Size(f), Size(incoming))
             left(k) == Left(k, f, incoming, q)
  <2>3. \A k \in DOMAIN book : /\ left(k) > 0 => book[k].wants > 0
                               /\ left(k) < 0 => book[k].wants < 0
    BY <2>1, LeftOver
  <2>4. /\ book' = [k \in {j \in DOMAIN book : left(j) # 0} |->
                      [book[k] EXCEPT !.wants = left(k)]]
        /\ incoming' = IF left(incoming) = 0 THEN 0 ELSE incoming
    BY <2>2 DEF Trade
  <2> HIDE DEF q, left
  <2>5. /\ i \in DOMAIN book /\ left(i) # 0 /\ book'[i] = [book[i] EXCEPT !.wants = left(i)]
        /\ m \in DOMAIN book /\ left(m) # 0 /\ book'[m] = [book[m] EXCEPT !.wants = left(m)]
    BY <2>4
  <2>6. i # incoming /\ m # incoming
    BY <2>4, <2>5
  <2>7. book[i] \in BookOrder /\ book[m] \in BookOrder
    BY <2>5, OnBook
  <2>8. /\ book'[i].symbol = book[i].symbol /\ book'[m].symbol = book[m].symbol
        /\ book'[i].limit = book[i].limit /\ book'[m].limit = book[m].limit
        /\ book'[i].wants = left(i) /\ book'[m].wants = left(m)
    BY <2>5, <2>7 DEF BookOrder
  <2> QED BY <2>3, <2>5, <2>6, <2>8 DEF Uncrossed
<1>5. CASE Rest
  <2>1. /\ incoming # 0 /\ incoming' = 0 /\ book' = book
        /\ \A k \in Facing(incoming) : ~Acceptable(k, incoming)
    BY <1>5 DEF Rest
  <2>2. /\ i \in DOMAIN book /\ m \in DOMAIN book
        /\ book[i].limit \in Int /\ book[m].limit \in Int
        /\ book[i].wants \in Int /\ book[m].wants \in Int
    BY <2>1, OnBook
  <2>3. CASE i = incoming
    <3>1. m \in Facing(incoming)
      BY <2>1, <2>2, <2>3 DEF Facing
    <3> QED BY <2>1, <2>2, <2>3, <3>1 DEF Acceptable, AtLeastAsGood
  <2>4. CASE m = incoming
    <3>1. i \in Facing(incoming)
      BY <2>1, <2>2, <2>4 DEF Facing
    <3> QED BY <2>1, <2>2, <2>4, <3>1 DEF Acceptable, AtLeastAsGood
  <2>5. CASE i # incoming /\ m # incoming
    BY <2>1, <2>2, <2>5 DEF Uncrossed
  <2> QED BY <2>3, <2>4, <2>5
<1> QED BY <1>1, <1>2, <1>3, <1>4, <1>5 DEF Next, OpenAccount, List, Grant, vars

\* No two orders that rest on the book could be matched
\* (handle_command.cpp:299-461, 510-670).
THEOREM BookStaysUncrossed == Spec => []Uncrossed
<1>1. Init => Uncrossed
  BY DEF Init, Uncrossed
<1> QED BY <1>1, NextUncrossed, BookTypes, PTL DEF Spec

-----------------------------------------------------------------------------
(* All shares and all money.                                               *)

\* Every order on the book is an account's that exists.
OwnersExist == \A i \in DOMAIN book : book[i].account \in DOMAIN cash

\* No account goes away, and only one that exists orders.
LEMMA NextOwners == TypeOK /\ OwnersExist /\ [Next]_vars => OwnersExist'
<1> SUFFICES ASSUME TypeOK, OwnersExist, [Next]_vars, NEW k \in DOMAIN book'
             PROVE  book'[k].account \in DOMAIN cash'
  BY DEF OwnersExist
<1>1. DOMAIN cash \subseteq DOMAIN cash'
  BY DEF Next, OpenAccount, List, Grant, Place, Cancel, GiveBack, Match, Trade, Rest, Add, vars
<1>2. CASE book' = book
  BY <1>1, <1>2 DEF OwnersExist
<1>3. ASSUME NEW o \in Offer, Place(o), book' # book PROVE book'[k].account \in DOMAIN cash'
  BY <1>1, <1>3 DEF Place, OwnersExist
<1>4. ASSUME NEW i \in DOMAIN book, Cancel(i) PROVE book'[k].account \in DOMAIN cash'
  BY <1>1, <1>4 DEF Cancel, OwnersExist
<1>5. CASE Match
  <2>1. PICK m \in Facing(incoming) : Trade(m, incoming, Lesser(Size(m), Size(incoming)))
    BY <1>5, MatchTrades
  <2>2. k \in DOMAIN book /\ \E n : book'[k] = [book[k] EXCEPT !.wants = n]
    BY <2>1 DEF Trade
  <2>3. book'[k].account = book[k].account
    BY <2>2, OnBook DEF BookOrder
  <2> QED BY <1>1, <2>2, <2>3 DEF OwnersExist
<1> QED BY <1>2, <1>3, <1>4, <1>5 DEF Next, OpenAccount, List, Grant, Rest, vars

\* Adding to one value adds to the sum.
LEMMA AddTotal ==
  ASSUME NEW f, Summable(f), NEW x \in DOMAIN f, NEW n \in Int
  PROVE  /\ Summable(Add(f, x, n)) /\ DOMAIN Add(f, x, n) = DOMAIN f
         /\ SumFunction(Add(f, x, n)) = SumFunction(f) + n
<1> DEFINE g == Add(f, x, n)
<1>1. /\ f[x] \in Int /\ DOMAIN g = DOMAIN f
      /\ \A y \in DOMAIN f : y # x => g[y] = f[y]
  BY DEF Summable, Add
<1>2. g[x] = f[x] + n
  BY DEF Add
<1> HIDE DEF g
<1>3. Summable(g) /\ SumFunction(g) = SumFunction(f) - f[x] + g[x] /\ SumFunction(f) \in Int
  BY <1>1, <1>2, TotalChange, TotalInt
<1>4. SumFunction(g) = SumFunction(f) + n
  BY <1>1, <1>2, <1>3
<1> QED BY <1>1, <1>3, <1>4 DEF g

\* The tables and the book have sums.
LEMMA BookSums ==
  ASSUME TypeOK
  PROVE  /\ Summable(held) /\ Summable(cash) /\ Summable(Offered) /\ Summable(Escrowed)
         /\ SumFunction(held) \in Int /\ SumFunction(cash) \in Int
         /\ SumFunction(Offered) \in Int /\ SumFunction(Escrowed) \in Int
<1>1. IsFiniteSet(Account \X Symbol) /\ IsFiniteSet(DOMAIN cash)
  BY FiniteAssumption, FS_Product, FS_Subset DEF TypeOK
<1>2. IsFiniteSet(DOMAIN book)
  <2>1. 1 \in Int /\ placed \in Int /\ DOMAIN book \subseteq 1..placed
    BY DEF TypeOK
  <2>2. IsFiniteSet(1..placed)
    BY <2>1, FS_Interval, Zenon
  <2> QED BY <2>1, <2>2, FS_Subset, Zenon
<1>3. Summable(held) /\ Summable(cash)
  BY <1>1 DEF TypeOK, Summable
<1>4. \A k \in DOMAIN book : OnOffer(book[k]) \in Int /\ Escrow(book[k]) \in Int
  <2> SUFFICES ASSUME NEW k \in DOMAIN book
               PROVE  OnOffer(book[k]) \in Int /\ Escrow(book[k]) \in Int
    OBVIOUS
  <2>1. book[k].wants \in Int /\ book[k].limit \in Int
    BY OnBook
  <2>2. book[k].wants * book[k].limit \in Int
    BY <2>1, TimesInt
  <2> QED BY <2>1, <2>2 DEF OnOffer, Escrow
<1>5. Summable(Offered) /\ Summable(Escrowed)
  BY <1>2, <1>4 DEF Offered, Escrowed, Summable
<1> QED BY <1>3, <1>5, TotalInt

\* Placing an order keeps all shares and all money.
LEMMA PlaceKeeps ==
  ASSUME TypeOK, OwnersExist, NEW o \in Offer, Place(o)
  PROVE  TotalShares' = TotalShares /\ TotalMoney' = TotalMoney
<1> DEFINE p == <<o.account, o.symbol>>
           cost == o.amount * o.limit
           k == placed + 1
<1>1. /\ o.account \in DOMAIN cash /\ p \in DOMAIN held
      /\ o.amount \in Int /\ cost \in Int
  BY OfferAssumption, TimesInt DEF Place, TypeOK
<1>2. /\ Summable(held) /\ Summable(cash) /\ Summable(Offered) /\ Summable(Escrowed)
      /\ SumFunction(held) \in Int /\ SumFunction(cash) \in Int
      /\ SumFunction(Offered) \in Int /\ SumFunction(Escrowed) \in Int
  BY BookSums
<1>3. \/ /\ o.amount > 0
         /\ SumFunction(cash)' = SumFunction(cash) - cost /\ SumFunction(held)' = SumFunction(held)
      \/ /\ o.amount <= 0
         /\ SumFunction(cash)' = SumFunction(cash)
         /\ SumFunction(held)' = SumFunction(held) + o.amount
  <2>1. CASE o.amount > 0
    <3>1. cash' = Add(cash, o.account, -cost) /\ held' = held
      BY <1>1, <2>1 DEF Place
    <3>2. -cost \in Int
      BY <1>1
    <3> HIDE DEF cost
    <3>3. SumFunction(Add(cash, o.account, -cost)) = SumFunction(cash) + (-cost)
      BY <1>1, <1>2, <3>2, AddTotal
    <3> QED BY <1>1, <1>2, <2>1, <3>1, <3>3
  <2>2. CASE ~(o.amount > 0)
    <3>1. held' = Add(held, p, o.amount) /\ cash' = cash
      BY <2>2 DEF Place
    <3> HIDE DEF p
    <3>2. SumFunction(Add(held, p, o.amount)) = SumFunction(held) + o.amount
      BY <1>1, <1>2, AddTotal
    <3> QED BY <1>1, <2>2, <3>1, <3>2
  <2> QED BY <2>1, <2>2
<1>4. CASE o.amount = 0
  <2>1. book' = book
    BY <1>4 DEF Place
  <2>2. Offered' = Offered /\ Escrowed' = Escrowed
    BY <2>1 DEF Offered, Escrowed
  <2> QED BY <1>2, <1>3, <1>4, <2>2 DEF TotalShares, TotalMoney
<1>5. CASE o.amount # 0
  <2> DEFINE new == [account |-> o.account, symbol |-> o.symbol,
                     limit |-> o.limit, wants |-> o.amount]
  <2>1. book' = [i \in DOMAIN book \cup {k} |-> IF i = k THEN new ELSE book[i]]
    BY <1>5 DEF Place
  <2>2. k \notin DOMAIN book
    BY DEF TypeOK
  <2>3. /\ OnOffer(new) = IF o.amount > 0 THEN 0 ELSE -o.amount
        /\ Escrow(new) = IF o.amount > 0 THEN cost ELSE 0
    BY <1>1, <1>5 DEF OnOffer, Escrow
  <2>4. OnOffer(new) \in Int /\ Escrow(new) \in Int
    BY <1>1, <2>3
  <2> HIDE DEF new, k
  <2>5. SumFunction(Offered') = SumFunction(Offered) + OnOffer(new)
    <3>1. /\ k \notin DOMAIN Offered /\ DOMAIN Offered' = DOMAIN Offered \cup {k}
          /\ Offered'[k] = OnOffer(new) /\ \A i \in DOMAIN Offered : Offered'[i] = Offered[i]
      BY <2>1, <2>2 DEF Offered
    <3> QED BY ONLY <1>2, <2>4, <3>1, TotalMore
  <2>6. SumFunction(Escrowed') = SumFunction(Escrowed) + Escrow(new)
    <3>1. /\ k \notin DOMAIN Escrowed /\ DOMAIN Escrowed' = DOMAIN Escrowed \cup {k}
          /\ Escrowed'[k] = Escrow(new) /\ \A i \in DOMAIN Escrowed : Escrowed'[i] = Escrowed[i]
      BY <2>1, <2>2 DEF Escrowed
    <3> QED BY ONLY <1>2, <2>4, <3>1, TotalMore
  <2> HIDE DEF cost
  <2> QED BY <1>1, <1>2, <1>3, <2>3, <2>5, <2>6 DEF TotalShares, TotalMoney
<1> QED BY <1>4, <1>5

\* A cancellation gives back what the order has set aside.
LEMMA CancelKeeps ==
  ASSUME TypeOK, OwnersExist, NEW i \in DOMAIN book, Cancel(i)
  PROVE  TotalShares' = TotalShares /\ TotalMoney' = TotalMoney
<1> DEFINE o == book[i]
           p == <<o.account, o.symbol>>
           back == o.wants * o.limit
<1>1. /\ o.account \in DOMAIN cash /\ p \in DOMAIN held
      /\ o.wants \in Int /\ o.wants # 0 /\ back \in Int
  <2>1. o.wants \in Int /\ o.limit \in Int /\ o.wants # 0 /\ p \in Account \X Symbol
    BY OnBook
  <2> QED BY <2>1, TimesInt DEF TypeOK, OwnersExist
<1>2. /\ Summable(held) /\ Summable(cash) /\ Summable(Offered) /\ Summable(Escrowed)
      /\ SumFunction(held) \in Int /\ SumFunction(cash) \in Int
      /\ SumFunction(Offered) \in Int /\ SumFunction(Escrowed) \in Int
  BY BookSums
<1>3. \/ /\ o.wants > 0
         /\ SumFunction(cash)' = SumFunction(cash) + back /\ SumFunction(held)' = SumFunction(held)
      \/ /\ o.wants < 0
         /\ SumFunction(cash)' = SumFunction(cash)
         /\ SumFunction(held)' = SumFunction(held) - o.wants
  <2>1. CASE o.wants > 0
    <3>1. cash' = Add(cash, o.account, back) /\ held' = held
      BY <1>1, <2>1 DEF Cancel, GiveBack
    <3> HIDE DEF o, back
    <3>2. SumFunction(Add(cash, o.account, back)) = SumFunction(cash) + back
      BY <1>1, <1>2, AddTotal
    <3> QED BY <2>1, <3>1, <3>2
  <2>2. CASE ~(o.wants > 0)
    <3>1. held' = Add(held, p, -o.wants) /\ cash' = cash /\ o.wants < 0
      BY <1>1, <2>2 DEF Cancel, GiveBack
    <3>2. -o.wants \in Int
      BY <1>1
    <3> HIDE DEF p, o
    <3>3. SumFunction(Add(held, p, -o.wants)) = SumFunction(held) + (-o.wants)
      BY <1>1, <1>2, <3>2, AddTotal
    <3> QED BY <1>1, <1>2, <3>1, <3>3
  <2> QED BY <2>1, <2>2
<1>4. book' = [k \in DOMAIN book \ {i} |-> book[k]]
  BY DEF Cancel
<1>5. /\ OnOffer(o) = IF o.wants > 0 THEN 0 ELSE -o.wants
      /\ Escrow(o) = IF o.wants > 0 THEN back ELSE 0
  BY <1>1 DEF OnOffer, Escrow
<1>6. OnOffer(o) \in Int /\ Escrow(o) \in Int
  BY <1>1, <1>5
<1> HIDE DEF o, p, back
<1>7. SumFunction(Offered) = SumFunction(Offered') + OnOffer(o)
  <2>1. /\ DOMAIN Offered' = DOMAIN Offered \ {i} /\ i \in DOMAIN Offered
        /\ Offered[i] = OnOffer(o) /\ \A k \in DOMAIN Offered' : Offered[k] = Offered'[k]
    BY <1>4 DEF Offered, o
  <2>2. Summable(Offered')
    BY <1>2, <2>1, FS_Subset DEF Summable
  <2>3. i \notin DOMAIN Offered' /\ DOMAIN Offered = DOMAIN Offered' \cup {i}
    BY <2>1
  <2>4. Offered[i] \in Int
    BY <1>6, <2>1
  <2>5. SumFunction(Offered) = SumFunction(Offered') + Offered[i]
    BY ONLY <2>1, <2>2, <2>3, <2>4, TotalMore
  <2> QED BY <2>1, <2>5
<1>8. SumFunction(Escrowed) = SumFunction(Escrowed') + Escrow(o)
  <2>1. /\ DOMAIN Escrowed' = DOMAIN Escrowed \ {i} /\ i \in DOMAIN Escrowed
        /\ Escrowed[i] = Escrow(o) /\ \A k \in DOMAIN Escrowed' : Escrowed[k] = Escrowed'[k]
    BY <1>4 DEF Escrowed, o
  <2>2. Summable(Escrowed')
    BY <1>2, <2>1, FS_Subset DEF Summable
  <2>3. i \notin DOMAIN Escrowed' /\ DOMAIN Escrowed = DOMAIN Escrowed' \cup {i}
    BY <2>1
  <2>4. Escrowed[i] \in Int
    BY <1>6, <2>1
  <2>5. SumFunction(Escrowed) = SumFunction(Escrowed') + Escrowed[i]
    BY ONLY <2>1, <2>2, <2>3, <2>4, TotalMore
  <2> QED BY <2>1, <2>5
<1>9. SumFunction(Offered') \in Int /\ SumFunction(Escrowed') \in Int
  <2>1. Summable(Offered') /\ Summable(Escrowed')
    <3>1. /\ DOMAIN Offered' \subseteq DOMAIN Offered
          /\ \A k \in DOMAIN Offered' : Offered[k] = Offered'[k]
          /\ DOMAIN Escrowed' \subseteq DOMAIN Escrowed
          /\ \A k \in DOMAIN Escrowed' : Escrowed[k] = Escrowed'[k]
      BY <1>4 DEF Offered, Escrowed
    <3> QED BY <1>2, <3>1, FS_Subset DEF Summable
  <2> QED BY <2>1, TotalInt
<1> QED BY <1>1, <1>2, <1>3, <1>5, <1>7, <1>8, <1>9 DEF TotalShares, TotalMoney

\* Taking shares from what an order wants takes their price from what it has set aside.
LEMMA PriceOf ==
  ASSUME NEW w \in Int, NEW n \in Int, NEW l \in Int
  PROVE  /\ w * l \in Int /\ n * l \in Int /\ (w - n) * l = w * l - n * l
OBVIOUS

\* A match takes the shares it moves from what its sell has set aside, and their cost
\* at the limit of its buy from what that has.
LEMMA TradeTakes ==
  ASSUME TypeOK, NEW i \in DOMAIN book, NEW m \in Facing(i),
         NEW q, q = Lesser(Size(m), Size(i)), Trade(m, i, q),
         NEW b, b = (IF book[i].wants > 0 THEN i ELSE m)
  PROVE  /\ b \in DOMAIN book /\ q * book[b].limit \in Int
         /\ SumFunction(Offered)' = SumFunction(Offered) - q
         /\ SumFunction(Escrowed)' = SumFunction(Escrowed) - q * book[b].limit
<1> DEFINE s == IF book[i].wants > 0 THEN m ELSE i
           left(k) == Left(k, m, i, q)
           offers == [k \in DOMAIN book |-> OnOffer([book[k] EXCEPT !.wants = left(k)])]
           holds == [k \in DOMAIN book |-> Escrow([book[k] EXCEPT !.wants = left(k)])]
<1>1. /\ m \in DOMAIN book /\ m # i /\ q \in Nat /\ q \in Int
      /\ \A k \in DOMAIN book : /\ left(k) \in Int
                                /\ left(k) > 0 => book[k].wants > 0
                                /\ left(k) < 0 => book[k].wants < 0
  BY LeftOver
<1>2. book' = [k \in {j \in DOMAIN book : left(j) # 0} |-> [book[k] EXCEPT !.wants = left(k)]]
  BY DEF Trade
<1>3. /\ b \in DOMAIN book /\ s \in DOMAIN book /\ b # s
      /\ book[b].wants > 0 /\ book[s].wants < 0
      /\ left(b) = book[b].wants - q /\ left(s) = book[s].wants + q
      /\ \A k \in DOMAIN book : k \notin {b, s} => left(k) = book[k].wants
  <2>1. book[i].wants \in Int /\ book[i].wants # 0 /\ book[m].wants \in Int /\ book[m].wants # 0
    BY <1>1, OnBook
  <2> QED BY <1>1, <2>1 DEF Left, Facing
<1> HIDE DEF left, s
<1>4. \A k \in DOMAIN book :
        /\ book[k].wants \in Int /\ book[k].limit \in Int /\ left(k) * book[k].limit \in Int
        /\ OnOffer(book[k]) = IF book[k].wants < 0 THEN -book[k].wants ELSE 0
        /\ Escrow(book[k]) = IF book[k].wants > 0 THEN book[k].wants * book[k].limit ELSE 0
        /\ offers[k] = IF left(k) < 0 THEN -left(k) ELSE 0
        /\ holds[k] = IF left(k) > 0 THEN left(k) * book[k].limit ELSE 0
  <2> SUFFICES ASSUME NEW k \in DOMAIN book
               PROVE /\ book[k].wants \in Int /\ book[k].limit \in Int
                     /\ left(k) * book[k].limit \in Int
                     /\ OnOffer(book[k]) = IF book[k].wants < 0 THEN -book[k].wants ELSE 0
                     /\ Escrow(book[k]) =
                          IF book[k].wants > 0 THEN book[k].wants * book[k].limit ELSE 0
                     /\ offers[k] = IF left(k) < 0 THEN -left(k) ELSE 0
                     /\ holds[k] = IF left(k) > 0 THEN left(k) * book[k].limit ELSE 0
    OBVIOUS
  <2>1. book[k].wants \in Int /\ book[k].limit \in Int /\ book[k] \in BookOrder
    BY OnBook
  <2>2. left(k) * book[k].limit \in Int
    BY <1>1, <2>1, TimesInt
  <2>3. /\ [book[k] EXCEPT !.wants = left(k)].wants = left(k)
        /\ [book[k] EXCEPT !.wants = left(k)].limit = book[k].limit
    BY <2>1 DEF BookOrder
  <2> QED BY <2>1, <2>2, <2>3 DEF OnOffer, Escrow
<1>5. /\ Summable(Offered) /\ Summable(Escrowed)
      /\ SumFunction(Offered) \in Int /\ SumFunction(Escrowed) \in Int
  BY BookSums
<1>6. /\ DOMAIN offers = DOMAIN Offered /\ DOMAIN holds = DOMAIN Escrowed
      /\ s \in DOMAIN Offered /\ b \in DOMAIN Escrowed
      /\ DOMAIN Offered' \subseteq DOMAIN offers /\ DOMAIN Escrowed' \subseteq DOMAIN holds
      /\ \A k \in DOMAIN Offered' : Offered'[k] = offers[k]
      /\ \A k \in DOMAIN Escrowed' : Escrowed'[k] = holds[k]
      /\ \A k \in DOMAIN offers \ DOMAIN Offered' : left(k) = 0
      /\ \A k \in DOMAIN holds \ DOMAIN Escrowed' : left(k) = 0
      /\ \A k \in DOMAIN book : Offered[k] = OnOffer(book[k]) /\ Escrowed[k] = Escrow(book[k])
      /\ DOMAIN offers = DOMAIN book /\ DOMAIN holds = DOMAIN book
  BY <1>2, <1>3 DEF Offered, Escrowed
<1> HIDE DEF offers, holds
<1>7. SumFunction(Offered)' = SumFunction(Offered) - q
  <2>1. /\ offers[s] = -left(s) /\ Offered[s] = -book[s].wants
        /\ \A k \in DOMAIN Offered : k # s => offers[k] = Offered[k]
    <3>1. left(s) <= 0
      BY <1>1, <1>3, <1>4
    <3>2. offers[b] = 0 /\ Offered[b] = 0
      BY <1>1, <1>3, <1>4, <1>6
    <3>3. offers[s] = -left(s) /\ Offered[s] = -book[s].wants
      BY <1>1, <1>3, <1>4, <1>6, <3>1
    <3>4. \A k \in DOMAIN Offered : k \notin {b, s} => offers[k] = Offered[k]
      BY <1>3, <1>4, <1>6
    <3> QED BY <3>2, <3>3, <3>4
  <2>2. offers[s] \in Int /\ Offered[s] \in Int /\ offers[s] = Offered[s] - q
    BY <1>1, <1>3, <1>4, <2>1
  <2>3. Summable(offers) /\ SumFunction(offers) = SumFunction(Offered) - Offered[s] + offers[s]
    BY <1>5, <1>6, <2>1, <2>2, TotalChange
  <2>4. \A k \in DOMAIN offers \ DOMAIN Offered' : offers[k] = 0
    BY <1>4, <1>6
  <2>5. SumFunction(Offered') = SumFunction(offers)
    BY ONLY <1>6, <2>3, <2>4, TotalPart
  <2> QED BY <1>1, <1>5, <2>2, <2>3, <2>5
<1>8. q * book[b].limit \in Int
  BY <1>1, <1>3, <1>4, TimesInt
<1>9. SumFunction(Escrowed)' = SumFunction(Escrowed) - q * book[b].limit
  <2>1. /\ holds[b] = (book[b].wants - q) * book[b].limit
        /\ Escrowed[b] = book[b].wants * book[b].limit
        /\ \A k \in DOMAIN Escrowed : k # b => holds[k] = Escrowed[k]
    <3>1. left(b) >= 0
      BY <1>1, <1>3, <1>4
    <3>2. holds[s] = 0 /\ Escrowed[s] = 0
      BY <1>1, <1>3, <1>4, <1>6
    <3>3. holds[b] = left(b) * book[b].limit /\ Escrowed[b] = book[b].wants * book[b].limit
      <4>1. CASE left(b) > 0
        BY <1>3, <1>4, <1>6, <4>1
      <4>2. CASE left(b) = 0
        <5>1. holds[b] = 0 /\ 0 * book[b].limit = 0
          BY <1>3, <1>4, <4>2
        <5> QED BY <1>3, <1>4, <1>6, <4>2, <5>1
      <4> QED BY <1>1, <1>3, <3>1, <4>1, <4>2
    <3>4. \A k \in DOMAIN Escrowed : k \notin {b, s} => holds[k] = Escrowed[k]
      BY <1>3, <1>4, <1>6
    <3> QED BY <1>3, <3>2, <3>3, <3>4
  <2>2. holds[b] \in Int /\ Escrowed[b] \in Int /\ holds[b] = Escrowed[b] - q * book[b].limit
    BY <1>1, <1>3, <1>4, <2>1, PriceOf
  <2>6. /\ holds[b] \in Int /\ \A k \in DOMAIN Escrowed : k # b => holds[k] = Escrowed[k]
        /\ b \in DOMAIN Escrowed /\ DOMAIN holds = DOMAIN Escrowed /\ Summable(Escrowed)
    BY <1>5, <1>6, <2>1, <2>2
  <2>3. Summable(holds) /\ SumFunction(holds) = SumFunction(Escrowed) - Escrowed[b] + holds[b]
    BY ONLY <2>6, TotalChange
  <2>4. \A k \in DOMAIN holds \ DOMAIN Escrowed' : holds[k] = 0
    BY <1>4, <1>6
  <2>5. SumFunction(Escrowed') = SumFunction(holds)
    BY ONLY <1>6, <2>3, <2>4, TotalPart
  <2> QED BY <1>5, <1>8, <2>2, <2>3, <2>5
<1> QED BY <1>3, <1>7, <1>8, <1>9

\* A match keeps all shares; it keeps all money when the incoming order buys, and
\* otherwise loses the price, which the resting buy had set aside.
LEMMA TradeKeeps ==
  ASSUME TypeOK, OwnersExist, NEW i \in DOMAIN book, NEW m \in Facing(i),
         NEW q, q = Lesser(Size(m), Size(i)), Trade(m, i, q)
  PROVE  /\ TotalShares' = TotalShares
         /\ TotalMoney' = IF book[i].wants > 0 THEN TotalMoney
                                               ELSE TotalMoney - q * book[m].limit
<1> DEFINE b == IF book[i].wants > 0 THEN i ELSE m
           s == IF book[i].wants > 0 THEN m ELSE i
           p == <<book[b].account, book[b].symbol>>
           price == q * book[m].limit
           rebate == q * (book[i].limit - book[m].limit)
           x == IF book[i].wants > 0 THEN rebate ELSE price
           y == IF book[i].wants > 0 THEN price ELSE -price
           taken == q * book[b].limit
<1>1. /\ m \in DOMAIN book /\ m # i /\ q \in Nat /\ q \in Int /\ b \in DOMAIN book
      /\ book[m].symbol = book[i].symbol
  BY LeftOver DEF Facing
<1>2. /\ book[i].wants \in Int /\ book[i].wants # 0
      /\ book[i].limit \in Int /\ book[m].limit \in Int
      /\ price \in Int /\ rebate \in Int /\ q * book[i].limit \in Int
      /\ rebate = q * book[i].limit - price
  <2>1. /\ book[i].wants \in Int /\ book[i].wants # 0
        /\ book[i].limit \in Int /\ book[m].limit \in Int
    BY <1>1, OnBook
  <2>2. price \in Int /\ q * book[i].limit \in Int
    BY <1>1, <2>1, TimesInt
  <2>3. rebate = q * book[i].limit - price
    BY <1>1, <2>1
  <2> QED BY <2>1, <2>2, <2>3
<1>3. x \in Int /\ y \in Int /\ x + y = (IF book[i].wants > 0 THEN taken ELSE 0)
  BY <1>2
<1>4. /\ p \in DOMAIN held /\ book[i].account \in DOMAIN cash /\ book[m].account \in DOMAIN cash
  BY <1>1, OnBook DEF OwnersExist, TypeOK
<1>5. held' = Add(held, p, q) /\ cash' = Add(Add(cash, book[i].account, x), book[m].account, y)
  BY <1>1, <1>2 DEF Trade
<1>6. /\ Summable(held) /\ Summable(cash)
      /\ SumFunction(held) \in Int /\ SumFunction(cash) \in Int
      /\ SumFunction(Offered) \in Int /\ SumFunction(Escrowed) \in Int
  BY BookSums
<1>7. /\ taken \in Int
      /\ SumFunction(Offered)' = SumFunction(Offered) - q
      /\ SumFunction(Escrowed)' = SumFunction(Escrowed) - taken
  BY TradeTakes
<1>8. ~(book[i].wants > 0) => taken = price
  OBVIOUS
<1> HIDE DEF b, s, p, price, rebate, x, y, taken
<1>9. SumFunction(held)' = SumFunction(held) + q
  <2>1. SumFunction(Add(held, p, q)) = SumFunction(held) + q
    BY <1>1, <1>4, <1>6, AddTotal
  <2> QED BY <1>5, <2>1
<1>10. SumFunction(cash)' = SumFunction(cash) + x + y
  <2>1. /\ Summable(Add(cash, book[i].account, x)) /\ DOMAIN Add(cash, book[i].account, x) = DOMAIN cash
        /\ SumFunction(Add(cash, book[i].account, x)) = SumFunction(cash) + x
    BY <1>3, <1>4, <1>6, AddTotal
  <2>2. SumFunction(Add(Add(cash, book[i].account, x), book[m].account, y))
          = SumFunction(Add(cash, book[i].account, x)) + y
    BY <1>3, <1>4, <2>1, AddTotal
  <2> QED BY <1>5, <2>1, <2>2
<1>11. TotalShares' = TotalShares
  BY <1>1, <1>6, <1>7, <1>9 DEF TotalShares
<1>12. TotalMoney' = TotalMoney + (x + y) - taken
  BY <1>3, <1>6, <1>7, <1>10 DEF TotalMoney
<1>13. TotalMoney \in Int
  BY <1>6 DEF TotalMoney
<1> QED BY <1>2, <1>3, <1>7, <1>8, <1>11, <1>12, <1>13 DEF price

\* Only a grant makes shares, and nothing loses any
\* (handle_command.cpp:363, 427, 480, 587, 649, 842).
THEOREM BookKeepsShares == Spec => SharesOnlyGranted
<1>1. TypeOK /\ OwnersExist /\ [Next]_vars => [Granting \/ TotalShares' = TotalShares]_vars
  <2> SUFFICES ASSUME TypeOK, OwnersExist, Next PROVE Granting \/ TotalShares' = TotalShares
    OBVIOUS
  <2>1. CASE UNCHANGED <<held, book>>
    BY <2>1 DEF TotalShares, Offered
  <2>2. CASE Match
    BY <2>2, MatchTrades, TradeKeeps
  <2> QED BY <2>1, <2>2, PlaceKeeps, CancelKeeps DEF Next, OpenAccount, List, Granting, Rest
<1>2. Init => OwnersExist
  BY DEF Init, OwnersExist
<1>3. Spec => [](TypeOK /\ OwnersExist)
  BY <1>2, InitType, NextType, NextOwners, PTL DEF Spec
<1> QED BY <1>1, <1>3, PTL DEF Spec, SharesOnlyGranted

\* Only a new account brings money, and only a match with a resting buy loses any: the
\* price that it had set aside (handle_command.cpp:270, 369, 382, 579, 592, 835).
THEOREM BookKeepsMoney == Spec => MoneyOnlyDeposited
<1> DEFINE Known == \/ Depositing \/ TotalMoney' = TotalMoney
                    \/ /\ incoming # 0 /\ book[incoming].wants < 0
                       /\ \E m \in Facing(incoming) : TotalMoney' = TotalMoney - Price(m)
<1>1. TypeOK /\ OwnersExist /\ [Next]_vars => [Known]_vars
  <2> SUFFICES ASSUME TypeOK, OwnersExist, Next PROVE Known
    OBVIOUS
  <2>1. CASE UNCHANGED <<cash, book>>
    BY <2>1 DEF TotalMoney, Escrowed
  <2>2. CASE Match
    <3>1. incoming \in DOMAIN book
      BY <2>2, MatchTrades
    <3>2. book[incoming].wants \in Int /\ book[incoming].wants # 0 /\ incoming # 0
      BY <3>1, OnBook
    <3>3. PICK m \in Facing(incoming) : Trade(m, incoming, Lesser(Size(m), Size(incoming)))
      BY <2>2, MatchTrades
    <3>4. TotalMoney' = IF book[incoming].wants > 0 THEN TotalMoney ELSE TotalMoney - Price(m)
      BY <3>1, <3>3, TradeKeeps DEF Price
    <3> QED BY <3>2, <3>4
  <2> QED BY <2>1, <2>2, PlaceKeeps, CancelKeeps DEF Next, List, Grant, Depositing, Rest
<1>2. Init => OwnersExist
  BY DEF Init, OwnersExist
<1>3. Spec => [](TypeOK /\ OwnersExist)
  BY <1>2, InitType, NextType, NextOwners, PTL DEF Spec
<1> QED BY <1>1, <1>3, PTL DEF Spec, MoneyOnlyDeposited
=============================================================================
