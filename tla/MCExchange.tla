----------------------------- MODULE MCExchange -----------------------------
(***************************************************************************)
(* Instances of Exchange for TLC: the requests the clients may send and    *)
(* the tables they start from.  Limits are positive, as in every request   *)
(* of the repository's tests; amounts take both signs and 0, which         *)
(* test/myxml.py draws from -100..100.                                     *)
(***************************************************************************)
EXTENDS ExchangeRefinement

CONSTANTS a1, a2, a3, s1, s2, w1, w2

AccountOf(a, balance) == [kind |-> "account", account |-> a, balance |-> balance, bad |-> {}]
SymbolOf(s, grants)   == [kind |-> "symbol", symbol |-> s, grants |-> grants]
Give(a, shares)       == [account |-> a, shares |-> shares, bad |-> {}]
Place(a, s, amount, limit) ==
  [kind |-> "order", account |-> a, symbol |-> s, amount |-> amount, limit |-> limit,
   bad |-> {}]
Query(a, i)  == [kind |-> "query", account |-> a, id |-> i]
Cancel(a, i) == [kind |-> "cancel", account |-> a, id |-> i]

\* The fields named are inf or nan.
Spoilt(item, fields) == [item EXCEPT !.bad = fields]

Singly(items) == {<< item >> : item \in items}

-----------------------------------------------------------------------------
(* Trading: accounts and one symbol, set up as test/myxml.py's setup()   *)
(* does, with enough money and shares for some orders and not for others.  *)

TradingSeed ==
  [EmptyTables EXCEPT !.accounts  = (a1 :> 5) @@ (a2 :> 3),
                      !.symbols   = {s1},
                      !.positions = (<<a1, s1>> :> 2) @@ (<<a2, s1>> :> 1)]

TradingOrders ==
  Singly({Place(a1, s1, -2, 2), Place(a1, s1, -1, 1), Place(a1, s1, -1, 2),
          Place(a1, s1, 1, 2), Place(a1, s1, 2, 1), Place(a1, s1, 2, 2),
          Place(a2, s1, -1, 1), Place(a2, s1, -2, 2), Place(a2, s1, 1, 1), Place(a2, s1, 2, 2)})

\* Requests with names and numbers PostgreSQL refuses (s2 is a bad name), and a balance
\* that is refused before it gets into a statement.
UnsoundDocuments ==
  Singly({SymbolOf(s2, << Give(a1, 1) >>), Place(a1, s2, 1, 1),
          Spoilt(AccountOf(a3, -1), {"balance"})})
  \cup { << Spoilt(AccountOf(a3, 1), {"balance"}) >>,
         << AccountOf(a3, 1), SymbolOf(s1, << Give(a1, 1), Spoilt(Give(a3, 1), {"shares"}) >>) >> }

\* An account is opened, granted shares and sells them.
OneWorkerDocuments ==
  { << AccountOf(a3, 2), SymbolOf(s1, << Give(a3, 1), Give(a2, 1), Give(a1, -1) >>) >>,
    << Place(a3, s1, -1, 2), Place(a1, s1, 0, 1) >>,
    << Query(a1, 1), Query(a2, 2) >> }
  \cup TradingOrders \cup Singly({Cancel(a1, 1), Cancel(a2, 1), Cancel(a1, 2)})
  \cup UnsoundDocuments

\* With two workers every order can be paid for, so that all of them interleave.
TwoWorkersSeed ==
  [TradingSeed EXCEPT !.accounts[a2] = 5, !.positions[<<a2, s1>>] = 2]

TwoWorkersOrders ==
  Singly({Place(a1, s1, -1, 1), Place(a1, s1, 1, 2), Place(a2, s1, 2, 1), Place(a2, s1, -2, 2)})

TwoWorkersDocuments ==
  TwoWorkersOrders \cup Singly({Cancel(a1, 1), Query(a1, 1), Cancel(a2, 1)})

\* More orders of different sizes for the safety properties.
ContentionDocuments ==
  TwoWorkersDocuments
    \cup Singly({Place(a1, s1, -2, 1), Place(a2, s1, 1, 1), Cancel(a2, 2)})

Workers == Permutations({w1, w2})

-----------------------------------------------------------------------------
(* Setting up, from the tables create_tables leaves: accounts and symbols  *)
(* are created while others already order, as when several processes of    *)
(* test/test.py run setup() at once.  Some orders have a limit that is inf *)
(* or an amount that is nan, which sells.                                  *)

SetUpDocuments ==
  { << AccountOf(a1, 2), SymbolOf(s1, << Give(a1, 1), Give(a2, 2) >>) >>,
    << AccountOf(a1, 3) >>,
    << SymbolOf(s1, << >>), AccountOf(a2, -1) >>,
    << SymbolOf(s1, << Give(a1, 2), Give(a1, -1) >>) >>,
    << Place(a1, s1, 1, 1), Cancel(a1, 1) >>,
    << Place(a1, s1, -1, 1), Query(a1, 1) >>,
    << Place(a2, s1, -2, 1) >>,
    << Spoilt(Place(a2, s1, -1, 1), {"limit"}) >>,
    << Spoilt(Place(a1, s1, 0, 1), {"amount"}) >> }

\* Orders alone, of an account that has no position yet.
RacingDocuments == Singly({Place(a1, s1, 1, 1), Place(a1, s1, 0, 1), Query(a1, 1)})
RacingSeed == [EmptyTables EXCEPT !.accounts = (a1 :> 5), !.symbols = {s1}]

-----------------------------------------------------------------------------
(* Two symbols, of which a1 holds shares of one only.                      *)

TwoSymbolsSeed ==
  [EmptyTables EXCEPT !.accounts  = (a1 :> 5) @@ (a2 :> 3),
                      !.symbols   = {s1, s2},
                      !.positions = (<<a1, s1>> :> 2)]

TwoSymbolsDocuments ==
  Singly({Place(a1, s1, -1, 1), Place(a1, s2, -2, 1), Place(a2, s2, 1, 2), Place(a2, s2, -1, 1)})
=============================================================================
