------------------------------- MODULE Tables -------------------------------
(***************************************************************************)
(* The six tables db_interact.cpp creates, and the SQL statements          *)
(* handle_command.cpp runs against them.                                   *)
(*                                                                         *)
(* Every statement is sent through a pqxx::nontransaction, which never     *)
(* issues BEGIN: PostgreSQL commits each statement by itself, a FOR UPDATE *)
(* lock ends with its own SELECT, and the "COMMIT;" the code sends is a    *)
(* warning without effect.  One statement is therefore one atomic step.    *)
(*                                                                         *)
(* Money, prices and shares are integers here; the code keeps doubles and  *)
(* prints them into the statements.                                        *)
(***************************************************************************)
EXTENDS Integers, Sequences

CONSTANTS
  Account,   \* the ids clients may name, created or not
  Symbol     \* the symbol names clients may name, created or not

\* A table keyed by S with values in T.
IsTable(f, S, T) == DOMAIN f \subseteq S /\ f \in [DOMAIN f -> T]

\* INSERT of the row k with value v into a table keyed by k.
Insert(f, k, v) == [x \in DOMAIN f \cup {k} |-> IF x = k THEN v ELSE f[x]]

Status == {"open", "executed", "canceled"}

\* A row of TRANSACTIONS; its TRANS_ID is its place in the table.  SHARES is
\* what is left, negative for a sell.  "amount" is a history field: the amount
\* first ordered, which no column keeps and no statement reads.
Order == [status : Status, account : Account, symbol : Symbol,
          limit : Int, shares : Int, amount : Int]

Execution    == [id : Nat, price : Int, shares : Int]
Cancellation == [id : Nat, shares : Int]

IsDatabase(d) ==
  /\ d = [accounts |-> d.accounts, symbols |-> d.symbols, positions |-> d.positions,
          transactions |-> d.transactions, executed_trans |-> d.executed_trans,
          canceled_trans |-> d.canceled_trans]
  /\ IsTable(d.accounts, Account, Int)
  /\ d.symbols \subseteq Symbol
  /\ IsTable(d.positions, Account \X Symbol, Int)
  /\ d.transactions \in Seq(Order)
  /\ d.executed_trans \in Seq(Execution)
  /\ d.canceled_trans \in Seq(Cancellation)

\* What drop_tables and create_tables leave behind when the engine starts.
EmptyTables ==
  [accounts |-> [a \in {} |-> 0], symbols |-> {}, positions |-> [p \in {} |-> 0],
   transactions |-> << >>, executed_trans |-> << >>, canceled_trans |-> << >>]

-----------------------------------------------------------------------------
(* Writing statements.  Their values are already printed into the text.    *)

UpdateBalance(a, add)     == [op |-> "updateBalance", account |-> a, add |-> add]
UpdatePosition(a, s, add) == [op |-> "updatePosition", account |-> a, symbol |-> s, add |-> add]
UpdateShares(i, left)     == [op |-> "updateShares", id |-> i, shares |-> left]
UpdateExecuted(i, left)   == [op |-> "updateExecuted", id |-> i, shares |-> left]
UpdateCanceled(i)         == [op |-> "updateCanceled", id |-> i]
InsertTransaction(o)      == [op |-> "insertTransaction", row |-> o]
InsertExecuted(i, price, shares) ==
  [op |-> "insertExecuted", row |-> [id |-> i, price |-> price, shares |-> shares]]
InsertCanceled(i, shares) ==
  [op |-> "insertCanceled", row |-> [id |-> i, shares |-> shares]]

Statement ==
       [op : {"updateBalance"}, account : Account, add : Int]
  \cup [op : {"updatePosition"}, account : Account, symbol : Symbol, add : Int]
  \cup [op : {"updateShares", "updateExecuted"}, id : Nat, shares : Int]
  \cup [op : {"updateCanceled"}, id : Nat]
  \cup [op : {"insertTransaction"}, row : Order]
  \cup [op : {"insertExecuted"}, row : Execution]
  \cup [op : {"insertCanceled"}, row : Cancellation]

\* The tables after statement st.  An UPDATE whose WHERE matches no row leaves
\* its table alone, as EXCEPT does outside the domain.
Apply(st, d) ==
  CASE st.op = "updateBalance"     -> [d EXCEPT !.accounts[st.account] = @ + st.add]
    [] st.op = "updatePosition"    -> [d EXCEPT !.positions[<<st.account, st.symbol>>] = @ + st.add]
    [] st.op = "updateShares"      -> [d EXCEPT !.transactions[st.id].shares = st.shares]
    [] st.op = "updateExecuted"    -> [d EXCEPT !.transactions[st.id].shares = st.shares,
                                                !.transactions[st.id].status = "executed"]
    [] st.op = "updateCanceled"    -> [d EXCEPT !.transactions[st.id].status = "canceled"]
    [] st.op = "insertTransaction" -> [d EXCEPT !.transactions = Append(@, st.row)]
    [] st.op = "insertExecuted"    -> [d EXCEPT !.executed_trans = Append(@, st.row)]
    [] st.op = "insertCanceled"    -> [d EXCEPT !.canceled_trans = Append(@, st.row)]

-----------------------------------------------------------------------------
(* Reading statements.                                                     *)

\* The open orders on one side of a symbol's book: WHERE SHARES < 0 (> 0) AND
\* STATUS = 'open' AND SYMBOL_NAME = s.  An order with no shares left is on
\* neither side, whatever its status.
Asks(d, s) == {i \in DOMAIN d.transactions :
                 /\ d.transactions[i].shares < 0
                 /\ d.transactions[i].status = "open"
                 /\ d.transactions[i].symbol = s}
Bids(d, s) == {i \in DOMAIN d.transactions :
                 /\ d.transactions[i].shares > 0
                 /\ d.transactions[i].status = "open"
                 /\ d.transactions[i].symbol = s}

\* Mutant: ORDER BY LIMIT_PRICE only takes the latest of equal prices.
IsLatestAsk(d, i, s) ==
  \A j \in Asks(d, s) : \/ d.transactions[i].limit < d.transactions[j].limit
                        \/ d.transactions[i].limit = d.transactions[j].limit /\ i >= j

\* ORDER BY LIMIT_PRICE, TRANS_ID LIMIT 1 (LIMIT_PRICE DESC for the bids).
IsBestAsk(d, i, s) ==
  \A j \in Asks(d, s) : \/ d.transactions[i].limit < d.transactions[j].limit
                        \/ d.transactions[i].limit = d.transactions[j].limit /\ i <= j
IsBestBid(d, i, s) ==
  \A j \in Bids(d, s) : \/ d.transactions[i].limit > d.transactions[j].limit
                        \/ d.transactions[i].limit = d.transactions[j].limit /\ i <= j

\* SELECT * FROM EXECUTED_TRANS (CANCELED_TRANS) WHERE TRANS_ID = i, as the
\* places of the rows: no order is asked for, and rows never move or change.
Executions(d, i)    == {k \in DOMAIN d.executed_trans : d.executed_trans[k].id = i}
Cancellations(d, i) == {k \in DOMAIN d.canceled_trans : d.canceled_trans[k].id = i}
=============================================================================
