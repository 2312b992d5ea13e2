------------------------------ MODULE OrderBook ------------------------------
(***************************************************************************)
(* What the exchange promises, without statements, workers or messages:    *)
(* accounts with cash and shares, and one order at a time matched against  *)
(* the orders that rest, each match a single step.                         *)
(*                                                                         *)
(* An order is on the book as long as it wants shares (positive for a buy, *)
(* negative for a sell): whether a filled one is called open or executed   *)
(* makes no difference here.                                               *)
(***************************************************************************)
EXTENDS Integers, FiniteSets

CONSTANTS
  Account, Symbol,
  Offer,       \* the orders clients may place: account, symbol, amount, limit
  Deposit,     \* the balances accounts may open with
  Parcel,      \* the numbers of shares that may be granted
  Opening,     \* cash, held and listed to start with
  MaxOrders,   \* bound on the orders placed
  MaxHolding   \* bound on the shares an account is granted of a symbol

ASSUME OfferAssumption ==
  Offer \subseteq [account : Account, symbol : Symbol, amount : Int, limit : Int]
ASSUME CreateAssumption == Deposit \subseteq Nat /\ Parcel \subseteq Nat
ASSUME OpeningAssumption ==
  /\ DOMAIN Opening.cash \subseteq Account /\ Opening.cash \in [DOMAIN Opening.cash -> Int]
  /\ Opening.held \in [Account \X Symbol -> Int]
  /\ Opening.listed \subseteq Symbol
ASSUME FiniteAssumption == IsFiniteSet(Account) /\ IsFiniteSet(Symbol)
ASSUME BoundAssumption == MaxOrders \in Nat /\ MaxHolding \in Nat

VARIABLES
  cash,       \* the balance of each account that exists
  held,       \* the shares each account holds of each symbol
  listed,     \* the symbols that exist
  book,       \* the orders that still want shares, by number
  placed,     \* how many orders have been placed: they are numbered from 1
  incoming,   \* the order being matched, 0 when there is none
  done        \* the shares executed so far for each order placed

vars == <<cash, held, listed, book, placed, incoming, done>>

BookOrder == [account : Account, symbol : Symbol, limit : Int, wants : Int \ {0}]

\* f with n more for x.
Add(f, x, n) == [f EXCEPT ![x] = @ + n]

TypeOK ==
  /\ DOMAIN cash \subseteq Account /\ cash \in [DOMAIN cash -> Int]
  /\ held \in [Account \X Symbol -> Int]
  /\ listed \subseteq Symbol
  /\ placed \in Nat
  /\ DOMAIN book \subseteq 1..placed /\ book \in [DOMAIN book -> BookOrder]
  /\ incoming \in {0} \cup DOMAIN book
  /\ done \in [1..placed -> Int]

-----------------------------------------------------------------------------
(* Setting up.                                                             *)

OpenAccount(a, balance) ==
  /\ incoming = 0
  /\ a \notin DOMAIN cash
  /\ cash' = [x \in DOMAIN cash \cup {a} |-> IF x = a THEN balance ELSE cash[x]]
  /\ UNCHANGED <<held, listed, book, placed, incoming, done>>

List(s) ==
  /\ incoming = 0
  /\ listed' = listed \cup {s}
  /\ UNCHANGED <<cash, held, book, placed, incoming, done>>

Grant(a, s, n) ==
  /\ incoming = 0
  /\ a \in DOMAIN cash /\ s \in listed
  /\ held[<<a, s>>] + n <= MaxHolding
  /\ held' = Add(held, <<a, s>>, n)
  /\ UNCHANGED <<cash, listed, book, placed, incoming, done>>

-----------------------------------------------------------------------------
(* Placing and canceling.                                                  *)

Affords(o) == cash[o.account] >= o.amount * o.limit

\* Mutant: the sign of the amount is forgotten.
CoversSigned(o) == held[<<o.account, o.symbol>>] >= o.amount

Covers(o) == held[<<o.account, o.symbol>>] >= -o.amount

\* A buy sets aside its cost, a sell its shares.  An order for nothing is
\* numbered and never on the book.
Place(o) ==
  /\ incoming = 0
  /\ placed < MaxOrders
  /\ o.account \in DOMAIN cash /\ o.symbol \in listed
  /\ \/ /\ o.amount > 0
        /\ Affords(o)
        /\ cash' = Add(cash, o.account, -(o.amount * o.limit))
        /\ UNCHANGED held
     \/ /\ o.amount <= 0
        /\ Covers(o)
        /\ held' = Add(held, <<o.account, o.symbol>>, o.amount)
        /\ UNCHANGED cash
  /\ placed' = placed + 1
  /\ IF o.amount = 0
     THEN UNCHANGED <<book, incoming>>
     ELSE /\ book' = [i \in DOMAIN book \cup {placed + 1} |->
                        IF i = placed + 1
                        THEN [account |-> o.account, symbol |-> o.symbol,
                              limit |-> o.limit, wants |-> o.amount]
                        ELSE book[i]]
          /\ incoming' = placed + 1
  /\ done' = [i \in 1..(placed + 1) |-> IF i = placed + 1 THEN 0 ELSE done[i]]
  /\ UNCHANGED listed

\* What is left of an order is given back.
GiveBack(i) ==
  LET o == book[i]
  IN  \/ /\ o.wants > 0
         /\ cash' = Add(cash, o.account, o.wants * o.limit)
         /\ UNCHANGED held
      \/ /\ o.wants < 0
         /\ held' = Add(held, <<o.account, o.symbol>>, -o.wants)
         /\ UNCHANGED cash

\* Mutant: the order stays on the book.
CancelKept(i) ==
  /\ incoming = 0
  /\ GiveBack(i)
  /\ UNCHANGED <<listed, book, placed, incoming, done>>

\* Mutant: an order that is being matched can be canceled.
CancelAnyTime(i) ==
  /\ GiveBack(i)
  /\ book' = [k \in DOMAIN book \ {i} |-> book[k]]
  /\ UNCHANGED <<listed, placed, incoming, done>>

Cancel(i) ==
  /\ incoming = 0
  /\ GiveBack(i)
  /\ book' = [k \in DOMAIN book \ {i} |-> book[k]]
  /\ UNCHANGED <<listed, placed, incoming, done>>

-----------------------------------------------------------------------------
(* Matching.                                                               *)

\* The resting orders on the other side of order i's book.
Facing(i) == {m \in DOMAIN book : /\ book[m].symbol = book[i].symbol
                                  /\ IF book[i].wants > 0 THEN book[m].wants < 0
                                                          ELSE book[m].wants > 0}

\* Limits a and b of orders facing i: a is at least as good for i.
AtLeastAsGood(i, a, b) == IF book[i].wants > 0 THEN a <= b ELSE a >= b

Acceptable(m, i) == AtLeastAsGood(i, book[m].limit, book[i].limit)

\* m has the best limit, and is the oldest of those that have it.
IsFirst(m, i) ==
  \A k \in Facing(i) : /\ AtLeastAsGood(i, book[m].limit, book[k].limit)
                       /\ book[m].limit = book[k].limit => m <= k

Size(i) == IF book[i].wants > 0 THEN book[i].wants ELSE -book[i].wants

\* Mutant: the resting order is always used up.
LesserFirst(m, n) == m

Lesser(m, n) == IF m <= n THEN m ELSE n

\* What is left of order k when m and i exchange q shares.
Left(k, m, i, q) == IF k \notin {m, i} THEN book[k].wants
                    ELSE IF book[k].wants > 0 THEN book[k].wants - q
                                              ELSE book[k].wants + q

\* i takes q shares from m, or gives it q shares, at m's limit.  A buy that takes
\* gets back what it had set aside above the price.  A buy that rested pays for
\* the shares now, although it set its cost aside when it was placed.
Trade(m, i, q) ==
  LET price == book[m].limit
      maker == book[m].account
      taker == book[i].account
  IN  /\ \/ /\ book[i].wants > 0
            /\ held' = Add(held, <<taker, book[i].symbol>>, q)
            /\ cash' = Add(Add(cash, taker, q * (book[i].limit - price)), maker, q * price)
            /\ done' = Add(Add(done, i, q), m, -q)
         \/ /\ book[i].wants < 0
            /\ held' = Add(held, <<maker, book[i].symbol>>, q)
            /\ cash' = Add(Add(cash, taker, q * price), maker, -(q * price))
            /\ done' = Add(Add(done, i, -q), m, q)
      /\ book' = [k \in {j \in DOMAIN book : Left(j, m, i, q) # 0} |->
                    [book[k] EXCEPT !.wants = Left(k, m, i, q)]]
      /\ incoming' = IF Left(i, m, i, q) = 0 THEN 0 ELSE i
      /\ UNCHANGED <<listed, placed>>

Match ==
  /\ incoming # 0
  /\ \E m \in Facing(incoming) :
       /\ IsFirst(m, incoming)
       /\ Acceptable(m, incoming)
       /\ Trade(m, incoming, Lesser(Size(m), Size(incoming)))

\* Mutant: the order rests although more of it could be matched.
RestEarly ==
  /\ incoming # 0
  /\ incoming' = 0
  /\ UNCHANGED <<cash, held, listed, book, placed, done>>

\* Nothing on the book is acceptable: the order rests.
Rest ==
  /\ incoming # 0
  /\ \A m \in Facing(incoming) : ~Acceptable(m, incoming)
  /\ incoming' = 0
  /\ UNCHANGED <<cash, held, listed, book, placed, done>>

-----------------------------------------------------------------------------

Next ==
  \/ \E a \in Account, balance \in Deposit : OpenAccount(a, balance)
  \/ \E s \in Symbol : List(s)
  \/ \E a \in Account, s \in Symbol, n \in Parcel : Grant(a, s, n)
  \/ \E o \in Offer : Place(o)
  \/ \E i \in DOMAIN book : Cancel(i)
  \/ Match
  \/ Rest

Init ==
  /\ cash = Opening.cash
  /\ held = Opening.held
  /\ listed = Opening.listed
  /\ book = [i \in {} |-> 0]
  /\ placed = 0
  /\ incoming = 0
  /\ done = [i \in {} |-> 0]

Spec == Init /\ [][Next]_vars

-----------------------------------------------------------------------------

\* When no order is being matched nothing on the book can be: every bid for a
\* symbol is below every ask, and an order being matched disturbs this for itself
\* alone (handle_command.cpp:299-461, 510-670).
Uncrossed ==
  \A i, m \in DOMAIN book \ {incoming} :
    /\ book[i].symbol = book[m].symbol
    /\ book[i].wants > 0
    /\ book[m].wants < 0
    => book[i].limit < book[m].limit

\* No account ever owes shares: a sell sets aside what the account holds, and
\* gets back at most what it set aside (handle_command.cpp:467-484, 840-845).
SharesCovered == \A p \in Account \X Symbol : held[p] >= 0
=============================================================================
