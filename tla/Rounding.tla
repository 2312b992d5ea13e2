------------------------------ MODULE Rounding ------------------------------
(***************************************************************************)
(* What becomes of doubles on their way into the tables.  A statement is   *)
(* text: to_string prints a number with six decimals, operator<< with six  *)
(* significant digits, and the handler goes on with the double it has.     *)
(*                                                                         *)
(* Money and shares are counted in grains, Unit of which are one sixth     *)
(* decimal: to_string prints whole Units, a handler computes in grains.    *)
(* Limits are whole numbers.  A request is one step and a round of the     *)
(* matching loop another, on one symbol, as with one worker.  Left out is  *)
(* the rounding of the doubles themselves, which are 53 bits long.         *)
(***************************************************************************)
EXTENDS Integers, Sequences, FiniteSetsExt

CONSTANTS
  Account,       \* the accounts
  Deposit,       \* the balances accounts are created with
  Granted,       \* the shares granted
  Amount,        \* the amounts ordered, negative for a sell
  Limit,         \* the limit prices
  MaxRequests,   \* bound on the requests of a behaviour
  Unit,          \* the grains in a sixth decimal
  Ten,           \* the base
  Digits,        \* the digits operator<< prints
  Width,         \* the digits of the largest number
  None           \* no row, or no order in the matching loop

ASSUME SizeAssumption ==
  /\ Unit \in Nat \ {0} /\ Ten \in Nat \ {0, 1} /\ Digits \in Nat \ {0} /\ Width \in Nat
  /\ \A n \in Granted \cup Amount : n < Ten^Width /\ -n < Ten^Width
  /\ MaxRequests \in Nat
\* A request with a negative balance or negative shares is refused
\* (handle_command.cpp:46-49, 118-120).
ASSUME NumberAssumption ==
  /\ Deposit \cup Granted \subseteq Nat /\ Amount \cup Limit \subseteq Int
  /\ None \notin Int
  /\ IsFiniteSet(Account)
\* The powers of a positive number are positive, which the provers do not know.
ASSUME PowerAssumption == \A k \in 0..Width \cup {Digits} : Ten^k \in Nat \ {0}

VARIABLES
  balance,    \* ACCOUNTS, by account
  position,   \* POSITIONS, by account
  orders,     \* TRANSACTIONS: account, limit, shares and whether it is open
  taker,      \* the order in the matching loop: its row and remaining_shares
  requests,   \* the requests so far
  granted     \* history: the shares that grants have stored

vars == <<balance, position, orders, taker, requests, granted>>

-----------------------------------------------------------------------------
(* Printing.                                                               *)

\* The multiple of step nearest to v, of two that are as near the even one: printf
\* sees every bit of a double, and some are exactly half way (0.0078125).
Nearest(v, step) ==
  LET down  == v \div step
      twice == 2 * (v % step)
  IN  step * (IF twice < step \/ (twice = step /\ down % 2 = 0) THEN down ELSE down + 1)

\* Mutant: six decimals are rounded down, not to the nearest.
DecimalsDown(v) == (v \div Unit) * Unit

\* to_string: "%f".
Decimals(v) == Nearest(v, Unit)

\* operator<<: the last of Digits digits decides the step.
Significant(v) ==
  Nearest(v, Min({p \in {Ten^k : k \in 0..Width} : v < p * Ten^Digits /\ -v < p * Ten^Digits}))

-----------------------------------------------------------------------------
(* create_account and create_symbol.                                       *)

Magnitude(n) == IF n < 0 THEN -n ELSE n
LesserOf(m, n) == IF m <= n THEN m ELSE n
Add(table, a, n) == [table EXCEPT ![a] = @ + n]

Begin ==
  /\ taker = None
  /\ requests < MaxRequests
  /\ requests' = requests + 1

\* Mutant: the balance is printed as the shares of a first grant are.
CreateAccountSignificant(a, n) ==
  /\ Begin
  /\ balance[a] = None
  /\ balance' = [balance EXCEPT ![a] = Significant(n)]
  /\ UNCHANGED <<position, orders, taker, granted>>

CreateAccount(a, n) ==
  /\ Begin
  /\ balance[a] = None
  /\ balance' = [balance EXCEPT ![a] = Decimals(n)]
  /\ UNCHANGED <<position, orders, taker, granted>>

\* The first grant INSERTs the shares by operator<<, a later one adds them by
\* to_string.
Grant(a, n) ==
  LET stored == IF position[a] = None THEN Significant(n) ELSE Decimals(n)
  IN  /\ Begin
      /\ balance[a] # None
      /\ position' = [position EXCEPT ![a] = IF @ = None THEN stored ELSE @ + stored]
      /\ granted' = granted + stored
      /\ UNCHANGED <<balance, orders, taker>>

-----------------------------------------------------------------------------
(* trans_order and trans_cancel.                                           *)

\* The row that trans_order inserts, with no shares, for an account without one.
Holding(a) == IF position[a] = None THEN 0 ELSE position[a]

NewOrder(a, n, l) ==
  [account |-> a, limit |-> l, shares |-> Decimals(n), open |-> TRUE]

Enter(a, n, l) ==
  /\ orders' = Append(orders, NewOrder(a, n, l))
  /\ taker' = [row |-> Len(orders) + 1, remaining |-> n]
  /\ UNCHANGED granted

PlaceBuy(a, n, l) ==
  /\ Begin
  /\ n > 0 /\ balance[a] # None
  /\ balance[a] >= n * l
  /\ balance' = Add(balance, a, -Decimals(n * l))
  /\ position' = [position EXCEPT ![a] = Holding(a)]
  /\ Enter(a, n, l)

\* Mutant: the shares sold are printed by operator<<.
PlaceSellSignificant(a, n, l) ==
  /\ Begin
  /\ n <= 0 /\ balance[a] # None
  /\ Holding(a) >= -n
  /\ position' = [position EXCEPT ![a] = Holding(a) + Significant(n)]
  /\ UNCHANGED balance
  /\ Enter(a, n, l)

PlaceSell(a, n, l) ==
  /\ Begin
  /\ n <= 0 /\ balance[a] # None
  /\ Holding(a) >= -n
  /\ position' = [position EXCEPT ![a] = Holding(a) + Decimals(n)]
  /\ UNCHANGED balance
  /\ Enter(a, n, l)

\* trans_order has inserted the row when it finds that the account cannot pay, or
\* does not hold what it sells.
Refuse(a, n, l) ==
  /\ Begin
  /\ balance[a] # None
  /\ (n > 0 /\ balance[a] < n * l) \/ (n <= 0 /\ Holding(a) < -n)
  /\ position' = [position EXCEPT ![a] = Holding(a)]
  /\ UNCHANGED <<balance, orders, taker, granted>>

Own == orders[taker.row]
\* 1 for a buy, -1 for a sell, told by what was ordered: the row may say 0.
Side == IF taker.remaining > 0 THEN 1 ELSE -1

Facing == {k \in DOMAIN orders : orders[k].open /\ orders[k].shares * Side < 0}

Better(k, j) ==
  LET gap == Side * (orders[j].limit - orders[k].limit)
  IN  gap > 0 \/ (gap = 0 /\ k <= j)

Best(k) == \A j \in Facing : Better(k, j)

Acceptable(k) == Side * orders[k].limit <= Side * Own.limit

\* The money of a match: a buy gets back what it had set aside above the price, a
\* resting buy is charged again.
Settle(buyer, seller, e, price) ==
  IF Side = 1
  THEN Add(Add(balance, buyer, Decimals(e * (Own.limit - price))), seller, Decimals(e * price))
  ELSE Add(Add(balance, seller, Decimals(e * price)), buyer, -Decimals(e * price))

\* One round of the loop.  The handler's remaining_shares is never rounded, the
\* rows are.
Match(k) ==
  LET left   == Magnitude(taker.remaining)
      e      == LesserOf(left, Magnitude(orders[k].shares))
      last   == left = e
      after  == taker.remaining - Side * e
      buyer  == IF Side = 1 THEN Own.account ELSE orders[k].account
      seller == IF Side = 1 THEN orders[k].account ELSE Own.account
  IN  /\ taker # None
      /\ k \in Facing /\ Best(k) /\ Acceptable(k)
      /\ orders' = [orders EXCEPT
           ![k].shares = Decimals(@ + Side * e), ![k].open = last,
           ![taker.row].shares = IF last THEN 0 ELSE Decimals(after),
           ![taker.row].open = ~last]
      /\ position' = Add(position, buyer, Decimals(e))
      /\ balance' = Settle(buyer, seller, e, orders[k].limit)
      /\ taker' = IF last THEN None ELSE [taker EXCEPT !.remaining = after]
      /\ UNCHANGED <<requests, granted>>

\* The order rests.
Rest ==
  /\ taker # None
  /\ \A k \in Facing : ~(Best(k) /\ Acceptable(k))
  /\ taker' = None
  /\ UNCHANGED <<balance, position, orders, requests, granted>>

Cancel(k) ==
  /\ Begin
  /\ orders[k].open
  /\ orders' = [orders EXCEPT ![k].open = FALSE]
  /\ IF orders[k].shares > 0
     THEN /\ balance' = Add(balance, orders[k].account,
                            Decimals(orders[k].shares * orders[k].limit))
          /\ UNCHANGED position
     ELSE /\ position' = Add(position, orders[k].account, -Decimals(orders[k].shares))
          /\ UNCHANGED balance
  /\ UNCHANGED <<taker, granted>>

-----------------------------------------------------------------------------

Init ==
  /\ balance = [a \in Account |-> None] /\ position = [a \in Account |-> None]
  /\ orders = << >> /\ taker = None
  /\ requests = 0 /\ granted = 0

Place(a) ==
  \E n \in Amount, l \in Limit : PlaceBuy(a, n, l) \/ PlaceSell(a, n, l) \/ Refuse(a, n, l)

Next ==
  \/ \E a \in Account, n \in Deposit : CreateAccount(a, n)
  \/ \E a \in Account, n \in Granted : Grant(a, n)
  \/ \E a \in Account : Place(a)
  \/ \E k \in DOMAIN orders : Match(k) \/ Cancel(k)
  \/ Rest

Spec == Init /\ [][Next]_vars
=============================================================================
