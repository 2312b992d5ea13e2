------------------------------ MODULE Exchange ------------------------------
(***************************************************************************)
(* handle_command.cpp on the worker threads of the engine: each worker     *)
(* takes one request at a time and runs its items in order, one SQL        *)
(* statement per step, against tables it shares with the other workers.    *)
(* What a worker read in one statement it uses in the next ones, whatever  *)
(* the others have written in between.                                     *)
(*                                                                         *)
(* The statements whose values are settled at one point of the code (by    *)
(* the row a SELECT returned) are queued there in "pending" and sent one   *)
(* by one, in the order the code sends them.                               *)
(*                                                                         *)
(* The requests are put into the statements as they come.  A symbol's name *)
(* may hold a quote, be too long for its column or not be in the           *)
(* database's encoding; a double may be inf or nan, which SQL takes for    *)
(* the name of a column.  PostgreSQL refuses such a statement, and the     *)
(* code catches nothing of it but a unique_violation.  Left out are names  *)
(* that make another statement of the text, numbers so large that a        *)
(* product or a sum of theirs overflows, and serial keys running out.      *)
(***************************************************************************)
EXTENDS Tables, FiniteSets

CONSTANTS
  Thread,        \* the threads in io_context::run()
  BadName,       \* the symbol names no INSERT can carry
  Document,      \* the requests clients send, parsed: sequences of items
  Seed,          \* the tables when the clients start
  MaxRequests    \* bound on the requests received in a behaviour

\* "bad" names the fields that are inf or nan; in the field itself is a number
\* that the code's comparisons take for it (0 for an amount that is nan).
Grant == [account : Account, shares : Int, bad : SUBSET {"shares"}]

AccountItem == [kind : {"account"}, account : Account, balance : Int, bad : SUBSET {"balance"}]
SymbolItem  == [kind : {"symbol"}, symbol : Symbol, grants : Seq(Grant)]
OrderItem   == [kind : {"order"}, account : Account, symbol : Symbol, amount : Int, limit : Int,
                bad : SUBSET {"amount", "limit"}]
IdItem      == [kind : {"query", "cancel"}, account : Account, id : Nat]
RequestItem == AccountItem \cup SymbolItem \cup OrderItem \cup IdItem

\* A vector of threads, BIGINT account ids and VARCHAR(256) symbol names
\* (engine.cpp:56, db_interact.cpp:33-38).
ASSUME FinitenessAssumption  == IsFiniteSet(Thread) /\ IsFiniteSet(Account) /\ IsFiniteSet(Symbol)
ASSUME BadNameAssumption     == BadName \subseteq Symbol
ASSUME DocumentAssumption    == Document \subseteq Seq(RequestItem)
\* Seed is what a set-up of create requests leaves: positions of the accounts and
\* symbols created, and no order placed.
ASSUME SeedAssumption        == /\ IsDatabase(Seed)
                                /\ \A p \in DOMAIN Seed.positions :
                                     p[1] \in DOMAIN Seed.accounts /\ p[2] \in Seed.symbols
                                /\ Seed.symbols \cap BadName = {}
                                /\ Seed.transactions = << >>
                                /\ Seed.executed_trans = << >>
                                /\ Seed.canceled_trans = << >>
ASSUME MaxRequestsAssumption == MaxRequests \in Nat

VARIABLES
  db,         \* the tables
  alive,      \* no exception has escaped a handler and terminated the engine
  received,   \* requests received so far
  todo,       \* per worker: the items of its request still to be handled
  pc,         \* per worker: the statement it sends next
  local,      \* per worker: the C++ locals that outlive a statement
  pending,    \* per worker: statements already composed and not yet sent
  reply,      \* per worker: the results of the items handled so far
  trades,     \* history: the matches decided, in order
  paidIn      \* history: the balances and shares create requests were promised

control == <<todo, pc, local, reply>>
history == <<trades, paidIn>>
vars    == <<db, alive, received, todo, pc, local, pending, reply, trades, paidIn>>

Message ==
  {"Success", "Account balance cannot be negative!", "Account already exists!",
   "Shares cannot be negative!", "Account_ID does not exist!",
   "Account does not exist!", "Symbol does not exist!", "Insufficient balance!",
   "Insufficient Shares!", "Account to be queryed does not exist!",
   "No access to query other accounts", "Account to be canceled does not exist!",
   "No access to other accounts!", "Only open orders can be canceled!"}

\* create_result and trans_result in one: the fields an item does not set keep
\* the values below.  "rows" are the places of the executions listed.
Result == [kind : {"account", "symbol", "order", "query", "cancel", "none"},
           msg : Message, id : Nat, status : Status, shares : Int,
           rows : SUBSET Nat, notes : Seq(Message)]
NoResult == [kind |-> "none", msg |-> "Success", id |-> 0, status |-> "open",
             shares |-> 0, rows |-> {}, notes |-> << >>]

\* R1's BALANCE; the order's own TRANS_ID; remaining_shares (self_shares in a
\* query or cancel); self_status; the result_list of a symbol.
Local == [funds : Int, id : Nat, remaining : Int, status : Status, notes : Seq(Message)]
NoLocal == [funds |-> 0, id |-> 0, remaining |-> 0, status |-> "open", notes |-> << >>]

Trade == [maker : Nat, taker : Nat, shares : Int, price : Int]

Label == {"idle", "account", "symbol", "grant", "grantPosition", "grantInsert",
          "grantUpdate", "order", "orderSymbol", "orderPosition", "orderInsert",
          "holding", "match", "commit", "query", "queryCanceled",
          "queryExecuted", "cancel", "cancelExecuted"}

-----------------------------------------------------------------------------
(* Control.                                                                *)

ItemOf(t) == Head(todo[t])
StartOf(items) == IF items = << >> THEN "idle" ELSE Head(items).kind

\* Worker t is about to send the statement at this label.
At(t, label) == alive /\ pc[t] = label /\ pending[t] = << >>

Continue(t, label, locals) ==
  /\ pc' = [pc EXCEPT ![t] = label]
  /\ local' = [local EXCEPT ![t] = locals]
  /\ UNCHANGED <<todo, reply>>

\* Mutant: a worker's locals outlive the item they were read for.
FinishKeepingLocals(t, result) ==
  /\ reply' = [reply EXCEPT ![t] = Append(@, [result EXCEPT !.kind = ItemOf(t).kind])]
  /\ todo' = [todo EXCEPT ![t] = Tail(@)]
  /\ pc' = [pc EXCEPT ![t] = StartOf(Tail(todo[t]))]
  /\ UNCHANGED local

\* The item is answered; the worker goes on to the next one, or sends the reply.
Finish(t, result) ==
  /\ reply' = [reply EXCEPT ![t] = Append(@, [result EXCEPT !.kind = ItemOf(t).kind])]
  /\ todo' = [todo EXCEPT ![t] = Tail(@)]
  /\ pc' = [pc EXCEPT ![t] = StartOf(Tail(todo[t]))]
  /\ local' = [local EXCEPT ![t] = NoLocal]

Answer(msg) == [NoResult EXCEPT !.msg = msg]

\* An exception nobody catches leaves io_context::run(): std::terminate.  The
\* tables stay in PostgreSQL; what the workers had still to send is lost.
Terminate ==
  /\ alive' = FALSE
  /\ pending' = [t \in Thread |-> << >>]
  /\ UNCHANGED <<db, control, history>>

\* A request arrives at an idle worker, which has sent its previous reply.
Receive(t) ==
  /\ At(t, "idle")
  /\ received < MaxRequests
  /\ received' = received + 1
  /\ \E doc \in Document : /\ todo' = [todo EXCEPT ![t] = doc]
                           /\ pc' = [pc EXCEPT ![t] = StartOf(doc)]
  /\ reply' = [reply EXCEPT ![t] = << >>]
  /\ UNCHANGED <<db, alive, local, pending, history>>

\* PostgreSQL refuses the text of statement st, composed while item is handled: an
\* order's cost, amount or limit is printed into it.
Refused(item, st) ==
  /\ item.kind = "order"
  /\ \/ st.op \in {"updateBalance", "insertTransaction"} /\ item.bad # {}
     \/ st.op = "updatePosition" /\ "amount" \in item.bad

\* The next of the composed statements is sent.  INSERT INTO TRANSACTIONS
\* returns the new TRANS_ID.
Exec(t) ==
  /\ alive
  /\ pending[t] # << >>
  /\ ~Refused(ItemOf(t), Head(pending[t]))
  /\ LET st == Head(pending[t])
     IN  /\ db' = Apply(st, db)
         /\ local' = IF st.op = "insertTransaction"
                     THEN [local EXCEPT ![t].id = Len(db.transactions) + 1]
                     ELSE local
  /\ pending' = [pending EXCEPT ![t] = Tail(@)]
  /\ UNCHANGED <<alive, received, todo, pc, reply, history>>

-----------------------------------------------------------------------------
(* create_account and create_symbol.                                       *)

CreateAccount(t) ==
  /\ At(t, "account")
  /\ LET item == ItemOf(t)
     IN  \/ /\ item.balance < 0
            /\ Finish(t, Answer("Account balance cannot be negative!"))
            /\ UNCHANGED <<db, paidIn>>
         \/ /\ item.balance >= 0 /\ item.bad = {}
            /\ item.account \in DOMAIN db.accounts
            /\ Finish(t, Answer("Account already exists!"))
            /\ UNCHANGED <<db, paidIn>>
         \/ /\ item.balance >= 0 /\ item.bad = {}
            /\ item.account \notin DOMAIN db.accounts
            /\ db' = [db EXCEPT !.accounts = Insert(@, item.account, item.balance)]
            /\ paidIn' = [paidIn EXCEPT !.cash[item.account] = @ + item.balance]
            /\ Finish(t, Answer("Success"))
  /\ UNCHANGED <<alive, received, pending, trades>>

\* insert_symbol for the SYMBOLS row.  A unique_violation is caught and the row
\* selected instead; rows are never deleted, so the loop ends there.
CreateSymbol(t) ==
  /\ At(t, "symbol")
  /\ ItemOf(t).symbol \notin BadName
  /\ db' = [db EXCEPT !.symbols = @ \cup {ItemOf(t).symbol}]
  /\ IF ItemOf(t).grants = << >>
     THEN Finish(t, NoResult)
     ELSE Continue(t, "grant", local[t])
  /\ UNCHANGED <<alive, received, pending, history>>

GrantOf(t) == ItemOf(t).grants[Len(local[t].notes) + 1]
Granted(t) == <<GrantOf(t).account, ItemOf(t).symbol>>

\* The account's entry of the result_list, then the next account of the symbol.
Note(t, msg) ==
  LET notes == Append(local[t].notes, msg)
  IN  IF Len(notes) = Len(ItemOf(t).grants)
      THEN Finish(t, [NoResult EXCEPT !.notes = notes])
      ELSE Continue(t, "grant", [local[t] EXCEPT !.notes = notes])

Promise(t) == paidIn' = [paidIn EXCEPT !.shares[Granted(t)] = @ + GrantOf(t).shares]

\* Mutant: the account is not looked up.
GrantAnyAccount(t) ==
  /\ At(t, "grant")
  /\ IF GrantOf(t).shares < 0 THEN Note(t, "Shares cannot be negative!")
                              ELSE Continue(t, "grantPosition", local[t])
  /\ UNCHANGED <<db, alive, received, pending, history>>

GrantSelectAccount(t) ==
  /\ At(t, "grant")
  /\ \/ GrantOf(t).shares < 0 /\ Note(t, "Shares cannot be negative!")
     \/ /\ GrantOf(t).shares >= 0
        /\ GrantOf(t).account \notin DOMAIN db.accounts
        /\ Note(t, "Account_ID does not exist!")
     \/ /\ GrantOf(t).shares >= 0
        /\ GrantOf(t).account \in DOMAIN db.accounts
        /\ Continue(t, "grantPosition", local[t])
  /\ UNCHANGED <<db, alive, received, pending, history>>

GrantSelectPosition(t) ==
  /\ At(t, "grantPosition")
  /\ Continue(t, IF Granted(t) \in DOMAIN db.positions THEN "grantUpdate" ELSE "grantInsert",
              local[t])
  /\ UNCHANGED <<db, alive, received, pending, history>>

\* Mutant: the row inserted is updated too.
GrantInsertThenUpdate(t) ==
  /\ At(t, "grantInsert")
  /\ GrantOf(t).bad = {}
  /\ Granted(t) \notin DOMAIN db.positions
  /\ db' = [db EXCEPT !.positions = Insert(@, Granted(t), GrantOf(t).shares)]
  /\ Continue(t, "grantUpdate", local[t])
  /\ UNCHANGED <<alive, received, pending, history>>

\* insert_symbol for the POSITIONS row.  If another worker has inserted the row
\* since the SELECT, the unique_violation is caught, the row is selected, and
\* the account is answered Success all the same: its shares are not added.
GrantInsertPosition(t) ==
  /\ At(t, "grantInsert")
  /\ GrantOf(t).bad = {}
  /\ \/ /\ Granted(t) \notin DOMAIN db.positions
        /\ db' = [db EXCEPT !.positions = Insert(@, Granted(t), GrantOf(t).shares)]
     \/ /\ Granted(t) \in DOMAIN db.positions
        /\ UNCHANGED db
  /\ Promise(t)
  /\ Note(t, "Success")
  /\ UNCHANGED <<alive, received, pending, trades>>

GrantUpdatePosition(t) ==
  /\ At(t, "grantUpdate")
  /\ GrantOf(t).bad = {}
  /\ db' = Apply(UpdatePosition(GrantOf(t).account, ItemOf(t).symbol, GrantOf(t).shares), db)
  /\ Promise(t)
  /\ Note(t, "Success")
  /\ UNCHANGED <<alive, received, pending, trades>>

-----------------------------------------------------------------------------
(* trans_order, up to the order's row in TRANSACTIONS.                     *)

OrderSelectAccount(t) ==
  /\ At(t, "order")
  /\ LET a == ItemOf(t).account
     IN  IF a \in DOMAIN db.accounts
         THEN Continue(t, "orderSymbol", [local[t] EXCEPT !.funds = db.accounts[a]])
         ELSE Finish(t, Answer("Account does not exist!"))
  /\ UNCHANGED <<db, alive, received, pending, history>>

\* N.quote makes a literal of any name in the database's encoding; a bad one is in
\* no row.
OrderSelectSymbol(t) ==
  /\ At(t, "orderSymbol")
  /\ IF ItemOf(t).symbol \in db.symbols
     THEN Continue(t, "orderPosition", local[t])
     ELSE Finish(t, Answer("Symbol does not exist!"))
  /\ UNCHANGED <<db, alive, received, pending, history>>

NewOrder(item) == [status |-> "open", account |-> item.account, symbol |-> item.symbol,
                   limit |-> item.limit, shares |-> item.amount, amount |-> item.amount]

\* Charge the account and insert the row, or give the balance read by R1 as the
\* reason not to.
OpenBuy(t, item) ==
  LET cost == item.amount * item.limit
  IN  \/ /\ local[t].funds < cost
         /\ Finish(t, Answer("Insufficient balance!"))
         /\ UNCHANGED pending
      \/ /\ local[t].funds >= cost
         /\ pending' = [pending EXCEPT ![t] = << UpdateBalance(item.account, -cost),
                                                InsertTransaction(NewOrder(item)) >>]
         /\ Continue(t, "match", [local[t] EXCEPT !.remaining = item.amount])

\* The account has a position in the symbol; a sell goes on to read it.
OpenOrder(t) ==
  \/ ItemOf(t).amount > 0 /\ OpenBuy(t, ItemOf(t))
  \/ ItemOf(t).amount <= 0 /\ Continue(t, "holding", local[t]) /\ UNCHANGED pending

OrderPosition(t) == <<ItemOf(t).account, ItemOf(t).symbol>>

OrderSelectPosition(t) ==
  /\ At(t, "orderPosition")
  /\ IF OrderPosition(t) \in DOMAIN db.positions
     THEN OpenOrder(t)
     ELSE Continue(t, "orderInsert", local[t]) /\ UNCHANGED pending
  /\ UNCHANGED <<db, alive, received, history>>

\* If another worker has inserted the row since the SELECT, the unique_violation
\* of this INSERT is caught nowhere.
OrderInsertPosition(t) ==
  /\ At(t, "orderInsert")
  /\ \/ /\ OrderPosition(t) \notin DOMAIN db.positions
        /\ db' = [db EXCEPT !.positions = Insert(@, OrderPosition(t), 0)]
        /\ OpenOrder(t)
        /\ UNCHANGED <<alive, history>>
     \/ /\ OrderPosition(t) \in DOMAIN db.positions
        /\ Terminate
  /\ UNCHANGED received

\* Mutant: the sign of the amount is not taken off.
CoversSigned(holding, amount) == holding >= amount

Covers(holding, amount) == holding >= -amount

\* SELECT * FROM POSITIONS WHERE ACCOUNT_ID = ..., of any symbol; the code looks
\* at the first row, and PostgreSQL may return any of them first.
OpenSell(t) ==
  /\ At(t, "holding")
  /\ LET item == ItemOf(t)
     IN  \E p \in DOMAIN db.positions :
           /\ p[1] = item.account
           /\ \/ /\ ~Covers(db.positions[p], item.amount)
                 /\ Finish(t, Answer("Insufficient Shares!"))
                 /\ UNCHANGED pending
              \/ /\ Covers(db.positions[p], item.amount)
                 /\ pending' = [pending EXCEPT ![t] =
                      << UpdatePosition(item.account, item.symbol, item.amount),
                         InsertTransaction(NewOrder(item)) >>]
                 /\ Continue(t, "match", [local[t] EXCEPT !.remaining = item.amount])
  /\ UNCHANGED <<db, alive, received, history>>

-----------------------------------------------------------------------------
(* trans_order, the matching loop.                                         *)

\* Mutant: the resting order is taken to be large enough.
LesserOfFirst(m, n) == m

\* What a match exchanges: the branch of the loop that "remaining_shares <=
\* abs(target_shares)" takes gives what is wanted, the other what there is.
LesserOf(m, n) == IF m <= n THEN m ELSE n

\* Mutant: a sell compares prices as a buy does.
CrossesBelow(item, row) == row.limit <= item.limit

\* The price of the row the SELECT returned is within the order's limit.
Crosses(item, row) == IF item.amount > 0 THEN row.limit <= item.limit
                                         ELSE row.limit >= item.limit

\* Mutant: the two branches close each other's order.
ShrinkSwapped(r, left, last) == IF last THEN UpdateExecuted(r, left) ELSE UpdateShares(r, left)

\* What a match leaves of the resting order r.  If it is the last match of the
\* incoming order, r stays open, even when nothing is left of it.
Shrink(r, left, last) == IF last THEN UpdateShares(r, left) ELSE UpdateExecuted(r, left)

\* Mutant: the resting order's execution is not recorded.
FillOneLeg(r, row, id, left, signed) ==
  LET last == signed = left
  IN  << Shrink(r, row.shares + signed, last),
         IF last THEN UpdateExecuted(id, 0) ELSE UpdateShares(id, left - signed),
         InsertExecuted(id, row.limit, signed) >>

\* Mutant: both executions are recorded with the incoming order's sign.
FillUnsigned(r, row, id, left, signed) ==
  LET last == signed = left
  IN  << Shrink(r, row.shares + signed, last),
         InsertExecuted(r, row.limit, signed),
         IF last THEN UpdateExecuted(id, 0) ELSE UpdateShares(id, left - signed),
         InsertExecuted(id, row.limit, signed) >>

\* The statements on the two orders of a match, composed from the resting order r
\* as the SELECT returned it (row) and from what the incoming order, id, still
\* wants (left).  "signed" is the shares exchanged, negative if id sells.
Fill(r, row, id, left, signed) ==
  LET last == signed = left
  IN  << Shrink(r, row.shares + signed, last),
         InsertExecuted(r, row.limit, -signed),
         IF last THEN UpdateExecuted(id, 0) ELSE UpdateShares(id, left - signed),
         InsertExecuted(id, row.limit, signed) >>

\* Mutant: the buyer gets nothing back.
SettleBuyInFull(item, row, executed) ==
  << UpdatePosition(item.account, item.symbol, executed),
     UpdateBalance(row.account, executed * row.limit) >>

\* A buy takes from the resting sell row: the buyer gets the shares and what its
\* limit had set aside above the seller's price, which the seller is paid.
SettleBuy(item, row, executed) ==
  << UpdatePosition(item.account, item.symbol, executed),
     UpdateBalance(item.account, executed * (item.limit - row.limit)),
     UpdateBalance(row.account, executed * row.limit) >>

\* Mutant: the shares go to the account that sold them.
SettleSellToSelf(item, row, executed) ==
  << UpdateBalance(item.account, executed * row.limit),
     UpdatePosition(item.account, item.symbol, executed),
     UpdateBalance(row.account, -(executed * row.limit)) >>

\* Mutant: the buyer is not given the shares.
SettleSellForNothing(item, row, executed) ==
  << UpdateBalance(item.account, executed * row.limit),
     UpdateBalance(row.account, -(executed * row.limit)) >>

\* A sell takes from the resting buy row: the buyer, charged when its order was
\* placed, is charged again.
SettleSell(item, row, executed) ==
  << UpdateBalance(item.account, executed * row.limit),
     UpdatePosition(row.account, item.symbol, executed),
     UpdateBalance(row.account, -(executed * row.limit)) >>

\* Mutant: the loop is left after one match.
MatchedOnce(t, r, executed, remaining) ==
  /\ trades' = Append(trades, [maker |-> r, taker |-> local[t].id, shares |-> executed,
                               price |-> db.transactions[r].limit])
  /\ Continue(t, "commit", [local[t] EXCEPT !.remaining = remaining])

\* The loop goes round again unless the match has used up the order.
Matched(t, r, executed, remaining) ==
  /\ trades' = Append(trades, [maker |-> r, taker |-> local[t].id, shares |-> executed,
                               price |-> db.transactions[r].limit])
  /\ Continue(t, IF remaining = 0 THEN "commit" ELSE "match",
              [local[t] EXCEPT !.remaining = remaining])

\* Mutant: the loop goes round again although nothing can be matched.
LoopAgain(t) == UNCHANGED <<control, pending, trades>>

\* The order rests on the book.
NoMatch(t) ==
  /\ Continue(t, "commit", local[t])
  /\ UNCHANGED <<pending, trades>>

BuySelectAsk(t) ==
  /\ At(t, "match")
  /\ LET item == ItemOf(t)
         left == local[t].remaining
     IN  /\ item.amount > 0
         /\ \/ Asks(db, item.symbol) = {} /\ NoMatch(t)
            \/ \E r \in Asks(db, item.symbol) :
                 /\ IsBestAsk(db, r, item.symbol)
                 /\ LET row == db.transactions[r]
                        executed == LesserOf(left, -row.shares)
                    IN  \/ ~Crosses(item, row) /\ NoMatch(t)
                        \/ /\ Crosses(item, row)
                           /\ pending' = [pending EXCEPT ![t] =
                                Fill(r, row, local[t].id, left, executed)
                                  \o SettleBuy(item, row, executed)]
                           /\ Matched(t, r, executed, left - executed)
  /\ UNCHANGED <<db, alive, received, paidIn>>

SellSelectBid(t) ==
  /\ At(t, "match")
  /\ LET item == ItemOf(t)
         left == local[t].remaining
     IN  /\ item.amount <= 0
         /\ \/ Bids(db, item.symbol) = {} /\ NoMatch(t)
            \/ \E r \in Bids(db, item.symbol) :
                 /\ IsBestBid(db, r, item.symbol)
                 /\ LET row == db.transactions[r]
                        executed == LesserOf(-left, row.shares)
                    IN  \/ ~Crosses(item, row) /\ NoMatch(t)
                        \/ /\ Crosses(item, row)
                           /\ pending' = [pending EXCEPT ![t] =
                                Fill(r, row, local[t].id, left, -executed)
                                  \o SettleSell(item, row, executed)]
                           /\ Matched(t, r, executed, left + executed)
  /\ UNCHANGED <<db, alive, received, paidIn>>

Commit(t) ==
  /\ At(t, "commit")
  /\ Finish(t, [NoResult EXCEPT !.id = local[t].id])
  /\ UNCHANGED <<db, alive, received, pending, history>>

-----------------------------------------------------------------------------
(* trans_query.                                                            *)

\* R[0], if the id names a row, and the reason to go no further.
QuerySelectOrder(t) ==
  /\ At(t, "query")
  /\ LET i == ItemOf(t).id
     IN  \/ /\ i \notin DOMAIN db.transactions
            /\ Finish(t, Answer("Account to be queryed does not exist!"))
         \/ /\ i \in DOMAIN db.transactions
            /\ LET row == db.transactions[i]
               IN  \/ /\ row.account # ItemOf(t).account
                      /\ Finish(t, Answer("No access to query other accounts"))
                   \/ /\ row.account = ItemOf(t).account
                      /\ Continue(t, IF row.status = "canceled" THEN "queryCanceled"
                                                                ELSE "queryExecuted",
                                  [local[t] EXCEPT !.status = row.status,
                                                   !.remaining = row.shares])
  /\ UNCHANGED <<db, alive, received, pending, history>>

\* R1[0] of an empty result has no value to convert: the exception escapes.
QuerySelectCanceled(t) ==
  /\ At(t, "queryCanceled")
  /\ LET rows == Cancellations(db, ItemOf(t).id)
     IN  \/ /\ rows = {}
            /\ Terminate
         \/ /\ \E k \in rows :
                 Continue(t, "queryExecuted",
                          [local[t] EXCEPT !.remaining = db.canceled_trans[k].shares])
            /\ UNCHANGED <<db, alive, pending, history>>
  /\ UNCHANGED received

\* An executed order is answered with its executions alone.
QuerySelectExecuted(t) ==
  /\ At(t, "queryExecuted")
  /\ LET i == ItemOf(t).id
     IN  Finish(t, [NoResult EXCEPT !.id = i, !.status = local[t].status,
                                    !.shares = IF local[t].status = "executed"
                                               THEN 0 ELSE local[t].remaining,
                                    !.rows = Executions(db, i)])
  /\ UNCHANGED <<db, alive, received, pending, history>>

-----------------------------------------------------------------------------
(* trans_cancel.                                                           *)

\* Mutant: no row is written for the cancellation.
CancelUnrecorded(i, row) ==
  << UpdateCanceled(i),
     IF row.shares > 0 THEN UpdateBalance(row.account, row.shares * row.limit)
                       ELSE UpdatePosition(row.account, row.symbol, -row.shares) >>

\* Mutant: the refund is of the amount first ordered.
CancelWhole(i, row) ==
  << UpdateCanceled(i),
     InsertCanceled(i, row.shares),
     IF row.amount > 0 THEN UpdateBalance(row.account, row.amount * row.limit)
                       ELSE UpdatePosition(row.account, row.symbol, -row.amount) >>

\* Money back for a buy, shares back for a sell, by what was left at the SELECT.
CancelStatements(i, row) ==
  << UpdateCanceled(i),
     InsertCanceled(i, row.shares),
     IF row.shares > 0 THEN UpdateBalance(row.account, row.shares * row.limit)
                       ELSE UpdatePosition(row.account, row.symbol, -row.shares) >>

CancelSelectOrder(t) ==
  /\ At(t, "cancel")
  /\ LET i == ItemOf(t).id
     IN  \/ /\ i \notin DOMAIN db.transactions
            /\ Finish(t, Answer("Account to be canceled does not exist!"))
            /\ UNCHANGED pending
         \/ /\ i \in DOMAIN db.transactions
            /\ LET row == db.transactions[i]
               IN  \/ /\ row.account # ItemOf(t).account
                      /\ Finish(t, Answer("No access to other accounts!"))
                      /\ UNCHANGED pending
                   \/ /\ row.account = ItemOf(t).account
                      /\ row.status # "open"
                      /\ Finish(t, Answer("Only open orders can be canceled!"))
                      /\ UNCHANGED pending
                   \/ /\ row.account = ItemOf(t).account
                      /\ row.status = "open"
                      /\ pending' = [pending EXCEPT ![t] = CancelStatements(i, row)]
                      /\ Continue(t, "cancelExecuted",
                                  [local[t] EXCEPT !.remaining = row.shares])
  /\ UNCHANGED <<db, alive, received, history>>

CancelSelectExecuted(t) ==
  /\ At(t, "cancelExecuted")
  /\ LET i == ItemOf(t).id
     IN  Finish(t, [NoResult EXCEPT !.id = i, !.status = "canceled",
                                    !.shares = local[t].remaining,
                                    !.rows = Executions(db, i)])
  /\ UNCHANGED <<db, alive, received, pending, history>>

-----------------------------------------------------------------------------
(* What PostgreSQL refuses.                                                *)

\* The statement worker t is to send prints a name or a double that PostgreSQL
\* cannot take, and the exception is caught nowhere.  The lookup of an order's
\* symbol fails if the name is not in the database's encoding, and else finds no
\* row.  A sell with a bad limit has given up its shares when its INSERT fails.
Raise(t) ==
  /\ \/ At(t, "account") /\ ItemOf(t).balance >= 0 /\ ItemOf(t).bad # {}
     \/ At(t, "symbol") /\ ItemOf(t).symbol \in BadName
     \/ At(t, "grantInsert") /\ GrantOf(t).bad # {}
     \/ At(t, "grantUpdate") /\ GrantOf(t).bad # {}
     \/ At(t, "orderSymbol") /\ ItemOf(t).symbol \in BadName
     \/ alive /\ pending[t] # << >> /\ Refused(ItemOf(t), Head(pending[t]))
  /\ Terminate
  /\ UNCHANGED received

-----------------------------------------------------------------------------

Init ==
  /\ db = Seed
  /\ alive = TRUE
  /\ received = 0
  /\ todo = [t \in Thread |-> << >>]
  /\ pc = [t \in Thread |-> "idle"]
  /\ local = [t \in Thread |-> NoLocal]
  /\ pending = [t \in Thread |-> << >>]
  /\ reply = [t \in Thread |-> << >>]
  /\ trades = << >>
  /\ paidIn = [cash   |-> [a \in Account |->
                             IF a \in DOMAIN Seed.accounts THEN Seed.accounts[a] ELSE 0],
               shares |-> [p \in Account \X Symbol |->
                             IF p \in DOMAIN Seed.positions THEN Seed.positions[p] ELSE 0]]

\* What a worker does for the request it has taken.
Step(t) ==
  \/ Exec(t)
  \/ CreateAccount(t)
  \/ CreateSymbol(t) \/ GrantSelectAccount(t) \/ GrantSelectPosition(t)
  \/ GrantInsertPosition(t) \/ GrantUpdatePosition(t)
  \/ OrderSelectAccount(t) \/ OrderSelectSymbol(t) \/ OrderSelectPosition(t)
  \/ OrderInsertPosition(t) \/ OpenSell(t)
  \/ BuySelectAsk(t) \/ SellSelectBid(t) \/ Commit(t)
  \/ QuerySelectOrder(t) \/ QuerySelectCanceled(t) \/ QuerySelectExecuted(t)
  \/ CancelSelectOrder(t) \/ CancelSelectExecuted(t)
  \/ Raise(t)

\* The engine is down, or every request of the behaviour has been answered.
Stopped ==
  /\ ~alive \/ (received = MaxRequests /\ \A t \in Thread : pc[t] = "idle")
  /\ UNCHANGED vars

Next == (\E t \in Thread : Receive(t) \/ Step(t)) \/ Stopped

Spec == Init /\ [][Next]_vars

\* Each worker is an OS thread and PostgreSQL answers every statement; clients
\* need not send anything.
FairSpec == Spec /\ \A t \in Thread : WF_vars(Step(t))
=============================================================================
