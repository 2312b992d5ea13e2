------------------------- MODULE RoundingProperties -------------------------
(***************************************************************************)
(* What the engine's books keep of their promises although every statement *)
(* rounds the numbers it carries.                                          *)
(***************************************************************************)
EXTENDS Rounding

\* v has six decimals.
SixDecimals(v) == v \in Int /\ v % Unit = 0

\* The shares each account holds, and those each open sell has set aside.
Held    == [a \in Account |-> Holding(a)]
Offered == [k \in DOMAIN orders |-> IF orders[k].open /\ orders[k].shares < 0
                                    THEN -orders[k].shares ELSE 0]

\* The rows have the columns' types and the order in the loop has a row; what a
\* balance or an order's row holds has six decimals, because to_string has printed
\* every number that has gone into it (handle_command.cpp:54, 271, 281, 332, 384, 835).
\* A position may hold more of them: its first grant goes by operator<<.
TypeOK ==
  /\ \A a \in Account : /\ balance[a] = None \/ SixDecimals(balance[a])
                        /\ position[a] = None \/ position[a] \in Int
  /\ \A k \in DOMAIN orders :
       /\ orders[k].account \in Account /\ orders[k].limit \in Limit
       /\ SixDecimals(orders[k].shares) /\ orders[k].open \in BOOLEAN
  /\ taker = None \/ (taker.row \in DOMAIN orders /\ taker.remaining \in Int)
  /\ requests \in 0..MaxRequests /\ granted \in Int

\* v is half way between two prints of six decimals.
HalfWay(v) == 2 * (v % Unit) = Unit

\* The shares that are held or set aside beyond those granted.
Surplus == (SumFunction(Held) + SumFunction(Offered)) - granted

\* Trading neither creates nor destroys shares, to the last decimal, with one
\* exception.  A match changes the position, two rows and two executions by prints of
\* different doubles, target_shares + executed_shares, executed_shares and
\* remaining_shares, and they agree whatever fraction of a decimal remaining_shares
\* still has, unless it is exactly half of one: then the two prints round to even
\* each for itself, and the match may make or lose one sixth decimal of shares
\* (handle_command.cpp:332-363, 394-427, 543-587, 604-650).
TradingKeepsShares ==
  [][\/ Surplus' = Surplus
     \/ /\ taker # None /\ HalfWay(taker.remaining)
        /\ Surplus' - Surplus \in {-Unit, Unit}]_vars

\* An account owes at most half of a sixth decimal of shares: a sell of shares that
\* operator<< has put past the sixth decimal is covered by the double the check
\* reads, and takes the nearest six decimals (handle_command.cpp:145, 473, 481).
OwesAtMostHalf == \A a \in Account : 2 * Holding(a) >= -Unit

\* Placing an order never takes a balance below zero, although the check compares
\* the exact cost and the charge is rounded, perhaps up: a balance is a number
\* of six decimals, and no cost it covers rounds to more
\* (handle_command.cpp:54, 264, 271).
PlacingKeepsCredit ==
  [][\A a \in Account : Place(a) => (balance[a] >= 0 => balance'[a] >= 0)]_vars
=============================================================================
