------------------------- MODULE OrderBookProperties -------------------------
(***************************************************************************)
(* What the order book makes of all shares and all money.                  *)
(***************************************************************************)
EXTENDS OrderBook, Functions

\* The shares a sell has set aside, and the money a buy has.
OnOffer(o) == IF o.wants < 0 THEN -o.wants ELSE 0
Escrow(o)  == IF o.wants > 0 THEN o.wants * o.limit ELSE 0

Offered  == [i \in DOMAIN book |-> OnOffer(book[i])]
Escrowed == [i \in DOMAIN book |-> Escrow(book[i])]

TotalShares == SumFunction(held) + SumFunction(Offered)
TotalMoney  == SumFunction(cash) + SumFunction(Escrowed)

Granting   == \E a \in Account, s \in Symbol, n \in Parcel : Grant(a, s, n)
Depositing == \E a \in Account, balance \in Deposit : OpenAccount(a, balance)

\* What the incoming order takes from or gives to order m costs.
Price(m) == Lesser(Size(m), Size(incoming)) * book[m].limit

\* Only a grant makes shares, and nothing loses any: they are held, or set aside
\* by a sell that rests (handle_command.cpp:363, 427, 480, 587, 649, 842).
SharesOnlyGranted == [][Granting \/ TotalShares' = TotalShares]_vars

\* Only a new account brings money, and only a match with a resting buy loses any: the
\* price of its shares, which is charged again although it had been set aside
\* (handle_command.cpp:270, 369, 382, 579, 592, 835).
MoneyOnlyDeposited ==
  [][\/ Depositing
     \/ TotalMoney' = TotalMoney
     \/ /\ incoming # 0 /\ book[incoming].wants < 0
        /\ \E m \in Facing(incoming) : TotalMoney' = TotalMoney - Price(m)]_vars
=============================================================================
