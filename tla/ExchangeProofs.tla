--------------------------- MODULE ExchangeProofs ---------------------------
(***************************************************************************)
(* Theorems of Exchange, for every set of threads, accounts, symbols and   *)
(* requests, and any number of requests: it keeps its types, every match   *)
(* is within what its two orders asked for, and no statement ever violates *)
(* a foreign key.                                                          *)
(***************************************************************************)
EXTENDS ExchangeProperties, SequenceTheorems, TLAPS

-----------------------------------------------------------------------------
(* Statements on the tables.                                               *)

\* UPDATE ... SET column = column + n keeps a table in its type.
LEMMA TableAdd ==
  ASSUME NEW f, NEW S, IsTable(f, S, Int), NEW k, NEW n \in Int
  PROVE  IsTable([f EXCEPT ![k] = @ + n], S, Int)
<1> DEFINE g == [f EXCEPT ![k] = @ + n]
<1>1. DOMAIN g = DOMAIN f
  OBVIOUS
<1>2. \A x \in DOMAIN g : g[x] \in Int
  BY DEF IsTable
<1>3. g = [x \in DOMAIN g |-> g[x]]
  BY DEF IsTable
<1>4. g \in [DOMAIN g -> Int]
  BY <1>2, <1>3
<1> QED BY <1>1, <1>4 DEF IsTable

\* Setting the status or the shares of a row keeps the rows in their type and in
\* their places; so does naming a row that is not there.
LEMMA RowUpdate ==
  ASSUME NEW s \in Seq(Order), NEW i, NEW f \in {"shares", "status"}, NEW v,
         f = "shares" => v \in Int, f = "status" => v \in Status
  PROVE  /\ [s EXCEPT ![i][f] = v] \in Seq(Order)
         /\ Len([s EXCEPT ![i][f] = v]) = Len(s)
         /\ \A j \in 1..Len(s) :
              [s EXCEPT ![i][f] = v][j] = IF j = i THEN [s[i] EXCEPT ![f] = v] ELSE s[j]
<1> DEFINE e == [s[i] EXCEPT ![f] = v]
           r == [s EXCEPT ![i] = e]
<1>1. [s EXCEPT ![i][f] = v] = r
  OBVIOUS
<1>2. CASE i \in 1..Len(s)
  <2>1. s[i] \in Order
    BY <1>2
  <2>2. e \in Order
    <3>1. CASE f = "shares"
      BY <2>1, <3>1 DEF Order
    <3>2. CASE f = "status"
      BY <2>1, <3>2 DEF Order
    <3> QED BY <3>1, <3>2
  <2> HIDE DEF e
  <2>3. /\ r \in Seq(Order)
        /\ Len(r) = Len(s)
        /\ \A j \in 1..Len(s) : r[j] = IF j = i THEN e ELSE s[j]
    BY <1>2, <2>2, ExceptSeq
  <2> QED BY <1>1, <2>3 DEF e
<1>3. CASE i \notin 1..Len(s)
  <2>1. DOMAIN s = 1..Len(s)
    OBVIOUS
  <2>2. r = s
    BY <1>3, <2>1
  <2> QED BY <1>1, <1>3, <2>2
<1> QED BY <1>2, <1>3

\* Rows r are rows s but for shares and status, and with others at the end.
KeepsRows(r, s) ==
  /\ r \in Seq(Order)
  /\ Len(r) >= Len(s)
  /\ \A j \in 1..Len(s) :
       /\ r[j].account = s[j].account
       /\ r[j].symbol = s[j].symbol
       /\ r[j].limit = s[j].limit
       /\ r[j].amount = s[j].amount

\* Rows r are rows s with the shares of row i set to v.
SetsShares(r, s, i, v) ==
  /\ KeepsRows(r, s)
  /\ Len(r) = Len(s)
  /\ \A j \in 1..Len(s) : r[j].shares = IF j = i THEN v ELSE s[j].shares

\* Rows r are rows s but for status.
KeepsShares(r, s) ==
  /\ KeepsRows(r, s)
  /\ Len(r) = Len(s)
  /\ \A j \in 1..Len(s) : r[j].shares = s[j].shares

\* An UPDATE of a row's shares changes nothing else of any row.
LEMMA UpdateOfShares ==
  ASSUME NEW s \in Seq(Order), NEW i, NEW v \in Int, NEW r, r = [s EXCEPT ![i].shares = v]
  PROVE  SetsShares(r, s, i, v)
<1>1. /\ r \in Seq(Order)
      /\ Len(r) = Len(s)
      /\ \A j \in 1..Len(s) : r[j] = IF j = i THEN [s[i] EXCEPT !.shares = v] ELSE s[j]
  BY RowUpdate
<1>2. \A j \in 1..Len(s) : s[j] \in Order
  OBVIOUS
<1>3. \A o \in Order : LET p == [o EXCEPT !.shares = v]
                       IN  /\ p.account = o.account
                           /\ p.symbol = o.symbol
                           /\ p.limit = o.limit
                           /\ p.amount = o.amount
                           /\ p.shares = v
  BY DEF Order
<1>4. \A j \in 1..Len(s) : r[j].shares = IF j = i THEN v ELSE s[j].shares
  BY <1>1, <1>2, <1>3
<1>5. \A j \in 1..Len(s) : /\ r[j].account = s[j].account
                          /\ r[j].symbol = s[j].symbol
                          /\ r[j].limit = s[j].limit
                          /\ r[j].amount = s[j].amount
  BY <1>1, <1>2, <1>3
<1> QED BY <1>1, <1>4, <1>5 DEF SetsShares, KeepsRows

\* An UPDATE of a row's status changes nothing else of any row.
LEMMA UpdateOfStatus ==
  ASSUME NEW s \in Seq(Order), NEW i, NEW v \in Status, NEW r, r = [s EXCEPT ![i].status = v]
  PROVE  KeepsShares(r, s)
<1>1. /\ r \in Seq(Order)
      /\ Len(r) = Len(s)
      /\ \A j \in 1..Len(s) : r[j] = IF j = i THEN [s[i] EXCEPT !.status = v] ELSE s[j]
  BY RowUpdate
<1>2. \A j \in 1..Len(s) : s[j] \in Order
  OBVIOUS
<1>3. \A o \in Order : LET p == [o EXCEPT !.status = v]
                       IN  /\ p.account = o.account
                           /\ p.symbol = o.symbol
                           /\ p.limit = o.limit
                           /\ p.amount = o.amount
                           /\ p.shares = o.shares
  BY DEF Order
<1>4. \A j \in 1..Len(s) : r[j] = s[j] \/ r[j] = [s[j] EXCEPT !.status = v]
  BY <1>1
<1> QED BY <1>1, <1>2, <1>3, <1>4 DEF KeepsShares, KeepsRows

\* What statement st makes of the rows of TRANSACTIONS: an INSERT adds its row at
\* the end, an UPDATE changes the shares or the status of the row it names.
LEMMA ApplyRows ==
  ASSUME NEW d, IsDatabase(d), NEW st \in Statement, NEW e, e = Apply(st, d),
         NEW rows, rows = d.transactions, NEW then, then = e.transactions
  PROVE  /\ KeepsRows(then, rows)
         /\ st.op \in {"updateShares", "updateExecuted"}
              => SetsShares(then, rows, st.id, st.shares)
         /\ st.op = "insertTransaction" => then = Append(rows, st.row)
         /\ st.op \notin {"updateShares", "updateExecuted", "insertTransaction"}
              => KeepsShares(then, rows)
<1>0. rows \in Seq(Order) /\ "transactions" \in DOMAIN d
  BY DEF IsDatabase
<1>1. CASE st.op = "updateShares"
  <2>1. then = [rows EXCEPT ![st.id].shares = st.shares]
    BY <1>1, <1>0 DEF Apply
  <2>2. st.shares \in Int
    BY <1>1 DEF Statement
  <2>3. SetsShares(then, rows, st.id, st.shares)
    BY <2>1, <2>2, <1>0, UpdateOfShares
  <2> QED BY <1>1, <2>3 DEF SetsShares
<1>2. CASE st.op = "updateExecuted"
  <2> DEFINE half == [rows EXCEPT ![st.id].shares = st.shares]
  <2>1. then = [half EXCEPT ![st.id].status = "executed"]
    BY <1>2, <1>0 DEF Apply
  <2>2. st.shares \in Int
    BY <1>2 DEF Statement
  <2>3. SetsShares(half, rows, st.id, st.shares)
    BY <2>2, <1>0, UpdateOfShares
  <2> HIDE DEF half
  <2>4. half \in Seq(Order) /\ "executed" \in Status
    BY <2>3 DEF Status, SetsShares, KeepsRows
  <2>5. KeepsShares(then, half)
    BY <2>1, <2>4, UpdateOfStatus
  <2>6. SetsShares(then, rows, st.id, st.shares)
    BY <2>3, <2>5, <1>0 DEF SetsShares, KeepsShares, KeepsRows
  <2> QED BY <1>2, <2>6 DEF SetsShares
<1>3. CASE st.op = "updateCanceled"
  <2>1. then = [rows EXCEPT ![st.id].status = "canceled"]
    BY <1>3, <1>0 DEF Apply
  <2>2. KeepsShares(then, rows)
    BY <2>1, <1>0, UpdateOfStatus DEF Status
  <2> QED BY <1>3, <2>2 DEF KeepsShares
<1>4. CASE st.op = "insertTransaction"
  <2>1. then = Append(rows, st.row) /\ st.row \in Order
    BY <1>4, <1>0 DEF Apply, Statement
  <2>2. KeepsRows(then, rows)
    BY <2>1, <1>0, AppendProperties DEF KeepsRows
  <2> QED BY <1>4, <2>1, <2>2
<1>5. CASE st.op \in {"updateBalance", "updatePosition", "insertExecuted", "insertCanceled"}
  <2>1. then = rows
    BY <1>5, <1>0 DEF Apply
  <2> QED BY <1>5, <2>1, <1>0 DEF KeepsRows, KeepsShares
<1> QED
  BY <1>1, <1>2, <1>3, <1>4, <1>5 DEF Statement

\* No statement takes the tables out of their types.
LEMMA ApplyKeepsTables ==
  ASSUME NEW d, IsDatabase(d), NEW st \in Statement, NEW e, e = Apply(st, d)
  PROVE  IsDatabase(e)
<1>0. /\ IsTable(d.accounts, Account, Int)
      /\ IsTable(d.positions, Account \X Symbol, Int)
      /\ d.executed_trans \in Seq(Execution)
      /\ d.canceled_trans \in Seq(Cancellation)
  BY DEF IsDatabase
<1>a. e.transactions \in Seq(Order)
  BY ApplyRows DEF KeepsRows
<1>b. e = [accounts |-> e.accounts, symbols |-> e.symbols, positions |-> e.positions,
           transactions |-> e.transactions, executed_trans |-> e.executed_trans,
           canceled_trans |-> e.canceled_trans]
  BY DEF Apply, Statement, IsDatabase
<1>1. CASE st.op = "updateBalance"
  <2>1. /\ e = [d EXCEPT !.accounts[st.account] = @ + st.add]
        /\ st.add \in Int
    BY <1>1 DEF Apply, Statement
  <2>2. IsTable([d.accounts EXCEPT ![st.account] = @ + st.add], Account, Int)
    BY <1>0, <2>1, TableAdd
  <2>3. /\ e.accounts = [d.accounts EXCEPT ![st.account] = @ + st.add]
        /\ e.symbols = d.symbols
        /\ e.positions = d.positions
        /\ e.executed_trans = d.executed_trans
        /\ e.canceled_trans = d.canceled_trans
    BY <2>1 DEF IsDatabase
  <2> QED BY <2>2, <2>3, <1>a, <1>b DEF IsDatabase
<1>2. CASE st.op = "updatePosition"
  <2>1. /\ e = [d EXCEPT !.positions[<<st.account, st.symbol>>] = @ + st.add]
        /\ st.add \in Int
    BY <1>2 DEF Apply, Statement
  <2>2. IsTable([d.positions EXCEPT ![<<st.account, st.symbol>>] = @ + st.add],
                Account \X Symbol, Int)
    BY <1>0, <2>1, TableAdd
  <2>3. /\ e.accounts = d.accounts
        /\ e.symbols = d.symbols
        /\ e.positions = [d.positions EXCEPT ![<<st.account, st.symbol>>] = @ + st.add]
        /\ e.executed_trans = d.executed_trans
        /\ e.canceled_trans = d.canceled_trans
    BY <2>1 DEF IsDatabase
  <2> QED BY <2>2, <2>3, <1>a, <1>b DEF IsDatabase
<1>3. CASE st.op \in {"updateShares", "updateExecuted", "updateCanceled", "insertTransaction"}
  <2>1. /\ e.accounts = d.accounts
        /\ e.symbols = d.symbols
        /\ e.positions = d.positions
        /\ e.executed_trans = d.executed_trans
        /\ e.canceled_trans = d.canceled_trans
    BY <1>3 DEF Apply, IsDatabase
  <2> QED BY <2>1, <1>a, <1>b DEF IsDatabase
<1>4. CASE st.op = "insertExecuted"
  <2>1. e = [d EXCEPT !.executed_trans = Append(@, st.row)] /\ st.row \in Execution
    BY <1>4 DEF Apply, Statement
  <2>2. Append(d.executed_trans, st.row) \in Seq(Execution)
    BY <1>0, <2>1, AppendProperties
  <2>3. /\ e.accounts = d.accounts
        /\ e.symbols = d.symbols
        /\ e.positions = d.positions
        /\ e.executed_trans = Append(d.executed_trans, st.row)
        /\ e.canceled_trans = d.canceled_trans
    BY <2>1 DEF IsDatabase
  <2> QED BY <2>2, <2>3, <1>a, <1>b DEF IsDatabase
<1>5. CASE st.op = "insertCanceled"
  <2>1. e = [d EXCEPT !.canceled_trans = Append(@, st.row)] /\ st.row \in Cancellation
    BY <1>5 DEF Apply, Statement
  <2>2. Append(d.canceled_trans, st.row) \in Seq(Cancellation)
    BY <1>0, <2>1, AppendProperties
  <2>3. /\ e.accounts = d.accounts
        /\ e.symbols = d.symbols
        /\ e.positions = d.positions
        /\ e.executed_trans = d.executed_trans
        /\ e.canceled_trans = Append(d.canceled_trans, st.row)
    BY <2>1 DEF IsDatabase
  <2> QED BY <2>2, <2>3, <1>a, <1>b DEF IsDatabase
<1> QED
  BY <1>1, <1>2, <1>3, <1>4, <1>5 DEF Statement

-----------------------------------------------------------------------------
(* Control.                                                                *)

ControlTyped ==
  /\ todo \in [Thread -> Seq(RequestItem)]
  /\ pc \in [Thread -> Label]
  /\ local \in [Thread -> Local]
  /\ reply \in [Thread -> Seq(Result)]
  /\ ControlOK

\* Where an item starts.
Starts == {"account", "symbol", "order", "query", "cancel"}

\* A worker that is not idle is handling an item of the kind its label says.
LEMMA ItemAt ==
  ASSUME ControlTyped, NEW t \in Thread, pc[t] # "idle"
  PROVE  /\ todo[t] # << >>
         /\ ItemOf(t) \in RequestItem
         /\ pc[t] \in LabelsOf[ItemOf(t).kind]
<1>1. todo[t] # << >> /\ todo[t] \in Seq(RequestItem)
  BY DEF ControlTyped, ControlOK
<1>2. Head(todo[t]) \in RequestItem
  BY <1>1, HeadTailProperties
<1> QED BY <1>1, <1>2 DEF ControlTyped, ControlOK, ItemOf

\* A worker's label tells the kind of the item it is handling.
LEMMA KindAt ==
  ASSUME ControlTyped, NEW t \in Thread
  PROVE  /\ pc[t] = "account" => ItemOf(t) \in AccountItem
         /\ pc[t] \in LabelsOf["symbol"] => ItemOf(t) \in SymbolItem
         /\ pc[t] \in LabelsOf["order"] => ItemOf(t) \in OrderItem
         /\ pc[t] \in LabelsOf["query"] \cup LabelsOf["cancel"] => ItemOf(t) \in IdItem
<1>1. CASE pc[t] = "idle"
  BY <1>1 DEF LabelsOf
<1>2. CASE pc[t] # "idle"
  <2>1. ItemOf(t) \in RequestItem /\ pc[t] \in LabelsOf[ItemOf(t).kind]
    BY <1>2, ItemAt
  <2>2. CASE ItemOf(t) \in AccountItem
    <3>1. ItemOf(t).kind = "account"
      BY <2>2 DEF AccountItem
    <3> QED BY <2>1, <2>2, <3>1 DEF LabelsOf
  <2>3. CASE ItemOf(t) \in SymbolItem
    <3>1. ItemOf(t).kind = "symbol"
      BY <2>3 DEF SymbolItem
    <3> QED BY <2>1, <2>3, <3>1 DEF LabelsOf
  <2>4. CASE ItemOf(t) \in OrderItem
    <3>1. ItemOf(t).kind = "order"
      BY <2>4 DEF OrderItem
    <3> QED BY <2>1, <2>4, <3>1 DEF LabelsOf
  <2>5. CASE ItemOf(t) \in IdItem
    <3>1. ItemOf(t).kind \in {"query", "cancel"}
      BY <2>5 DEF IdItem
    <3> QED BY <2>1, <2>5, <3>1 DEF LabelsOf
  <2> QED BY <2>1, <2>2, <2>3, <2>4, <2>5 DEF RequestItem
<1> QED BY <1>1, <1>2

\* A request's first label.
LEMMA StartTyped ==
  ASSUME NEW items \in Seq(RequestItem)
  PROVE  /\ StartOf(items) \in Label
         /\ StartOf(items) \in {"idle"} \cup Starts
         /\ items = << >> => StartOf(items) = "idle"
         /\ items # << >> => StartOf(items) \in LabelsOf[Head(items).kind]
<1>1. CASE items = << >>
  BY <1>1 DEF StartOf, Label
<1>2. CASE items # << >>
  <2>1. Head(items) \in RequestItem
    BY <1>2, HeadTailProperties
  <2>2. Head(items).kind \in Starts
    BY <2>1 DEF RequestItem, AccountItem, SymbolItem, OrderItem, IdItem, Starts
  <2> QED BY <1>2, <2>2 DEF StartOf, Label, LabelsOf, Starts
<1> QED BY <1>1, <1>2

\* Answering an item leaves control at the start of the next one.
LEMMA FinishTyped ==
  ASSUME ControlTyped, NEW t \in Thread, pc[t] # "idle", NEW result \in Result,
         Finish(t, result)
  PROVE  ControlTyped'
<1>1. todo[t] # << >> /\ ItemOf(t) \in RequestItem /\ todo[t] \in Seq(RequestItem)
  BY ItemAt DEF ControlTyped
<1>2. Tail(todo[t]) \in Seq(RequestItem)
  BY <1>1, HeadTailProperties
<1>3. [result EXCEPT !.kind = ItemOf(t).kind] \in Result
  <2>1. ItemOf(t).kind \in {"account", "symbol", "order", "query", "cancel", "none"}
    BY <1>1 DEF RequestItem, AccountItem, SymbolItem, OrderItem, IdItem
  <2> QED BY <2>1 DEF Result
<1>4. NoLocal \in Local
  BY DEF NoLocal, Local, Status
<1>5. /\ todo' \in [Thread -> Seq(RequestItem)]
      /\ local' \in [Thread -> Local]
      /\ pc' \in [Thread -> Label]
  BY <1>2, <1>4, StartTyped DEF Finish, ControlTyped
<1>6. reply' \in [Thread -> Seq(Result)]
  BY <1>3, AppendProperties DEF Finish, ControlTyped
<1>7. ControlOK'
  <2> SUFFICES ASSUME NEW u \in Thread
               PROVE  /\ todo'[u] = << >> => pc'[u] = "idle"
                      /\ todo'[u] # << >> => pc'[u] \in LabelsOf[Head(todo'[u]).kind]
                      /\ pc'[u] \in {"idle", "account", "symbol", "order", "query", "cancel"}
                           => local'[u] = NoLocal
                      /\ pc'[u] \in Granting => Len(local'[u].notes) < Len(Head(todo'[u]).grants)
    BY DEF ControlOK
  <2>1. CASE u = t
    <3>1. /\ todo'[t] = Tail(todo[t])
          /\ pc'[t] = StartOf(Tail(todo[t]))
          /\ local'[t] = NoLocal
      BY DEF Finish, ControlTyped
    <3> QED BY <2>1, <3>1, <1>2, StartTyped DEF Starts, Granting
  <2>2. CASE u # t
    <3>1. todo'[u] = todo[u] /\ pc'[u] = pc[u] /\ local'[u] = local[u]
      BY <2>2 DEF Finish, ControlTyped
    <3> QED BY <3>1 DEF ControlTyped, ControlOK
  <2> QED BY <2>1, <2>2
<1> QED BY <1>5, <1>6, <1>7 DEF ControlTyped

\* Going on inside an item keeps control inside it.
LEMMA ContinueTyped ==
  ASSUME ControlTyped, NEW t \in Thread, pc[t] # "idle",
         NEW label \in LabelsOf[ItemOf(t).kind] \ Starts, NEW locals \in Local,
         label \in Granting => Len(locals.notes) < Len(ItemOf(t).grants),
         Continue(t, label, locals)
  PROVE  ControlTyped'
<1>1. todo[t] # << >> /\ ItemOf(t) \in RequestItem
  BY ItemAt
<1>2. label \in Label /\ label # "idle"
  <2>1. ItemOf(t).kind \in {"account", "symbol", "order", "query", "cancel"}
    BY <1>1 DEF RequestItem, AccountItem, SymbolItem, OrderItem, IdItem
  <2> QED BY <2>1 DEF LabelsOf, Label
<1>3. /\ todo' \in [Thread -> Seq(RequestItem)]
      /\ local' \in [Thread -> Local]
      /\ pc' \in [Thread -> Label]
      /\ reply' \in [Thread -> Seq(Result)]
  BY <1>2 DEF Continue, ControlTyped
<1>4. ControlOK'
  <2> SUFFICES ASSUME NEW u \in Thread
               PROVE  /\ todo'[u] = << >> => pc'[u] = "idle"
                      /\ todo'[u] # << >> => pc'[u] \in LabelsOf[Head(todo'[u]).kind]
                      /\ pc'[u] \in {"idle", "account", "symbol", "order", "query", "cancel"}
                           => local'[u] = NoLocal
                      /\ pc'[u] \in Granting => Len(local'[u].notes) < Len(Head(todo'[u]).grants)
    BY DEF ControlOK
  <2>1. CASE u = t
    <3>1. todo'[t] = todo[t] /\ pc'[t] = label /\ local'[t] = locals
      BY DEF Continue, ControlTyped
    <3> QED BY <2>1, <3>1, <1>1, <1>2 DEF Starts, ItemOf
  <2>2. CASE u # t
    <3>1. todo'[u] = todo[u] /\ pc'[u] = pc[u] /\ local'[u] = local[u]
      BY <2>2 DEF Continue, ControlTyped
    <3> QED BY <3>1 DEF ControlTyped, ControlOK
  <2> QED BY <2>1, <2>2
<1> QED BY <1>3, <1>4 DEF ControlTyped

\* Only worker t moves to another label.
OnlyMoves(t) == \A u \in Thread \ {t} : pc'[u] = pc[u]

\* Answering an item moves no other worker.
LEMMA FinishMoves ==
  ASSUME ControlTyped, NEW t \in Thread, NEW result, Finish(t, result)
  PROVE  OnlyMoves(t)
BY DEF Finish, ControlTyped, OnlyMoves

\* Going on inside an item moves no other worker.
LEMMA ContinueMoves ==
  ASSUME ControlTyped, NEW t \in Thread, NEW label, NEW locals, Continue(t, label, locals)
  PROVE  OnlyMoves(t) /\ pc'[t] = label
BY DEF Continue, ControlTyped, OnlyMoves

\* The result with no field set is a result.
LEMMA NoResultTyped == NoResult \in Result
<1>1. << >> \in Seq(Message) /\ {} \in SUBSET Nat
  OBVIOUS
<1> QED BY <1>1 DEF NoResult, Result, Message, Status

\* Noting an account's result ends the symbol's item with its last account.
LEMMA NoteTyped ==
  ASSUME ControlTyped, NEW t \in Thread, pc[t] \in Granting, NEW msg \in Message, Note(t, msg)
  PROVE  ControlTyped' /\ OnlyMoves(t)
<1> DEFINE notes == Append(local[t].notes, msg)
<1>1. /\ local[t] \in Local
      /\ ItemOf(t) \in SymbolItem
      /\ pc[t] # "idle"
      /\ Len(local[t].notes) < Len(ItemOf(t).grants)
  BY KindAt DEF ControlTyped, ControlOK, Granting, LabelsOf, ItemOf
<1>2. local[t].notes \in Seq(Message) /\ ItemOf(t).grants \in Seq(Grant)
  BY <1>1 DEF Local, SymbolItem
<1>3. notes \in Seq(Message) /\ Len(notes) = Len(local[t].notes) + 1
  BY <1>2, AppendProperties
<1> HIDE DEF notes
<1>4. CASE Len(notes) = Len(ItemOf(t).grants)
  <2>1. Finish(t, [NoResult EXCEPT !.notes = notes])
    BY <1>4 DEF Note, notes
  <2>2. [NoResult EXCEPT !.notes = notes] \in Result
    BY <1>3, NoResultTyped DEF Result
  <2> QED BY <2>1, <2>2, <1>1, FinishTyped, FinishMoves
<1>5. CASE Len(notes) # Len(ItemOf(t).grants)
  <2>1. Continue(t, "grant", [local[t] EXCEPT !.notes = notes])
    BY <1>5 DEF Note, notes
  <2>2. /\ [local[t] EXCEPT !.notes = notes] \in Local
        /\ [local[t] EXCEPT !.notes = notes].notes = notes
    BY <1>1, <1>3 DEF Local
  <2>3. Len(notes) < Len(ItemOf(t).grants)
    BY <1>1, <1>2, <1>3, <1>5, LenProperties
  <2>4. "grant" \in LabelsOf[ItemOf(t).kind] \ Starts
    BY <1>1 DEF SymbolItem, LabelsOf, Starts
  <2> QED BY <2>1, <2>2, <2>3, <2>4, <1>1, ContinueTyped, ContinueMoves
<1> QED BY <1>4, <1>5

-----------------------------------------------------------------------------
(* Statements on their way.                                                *)

PendingTyped == pending \in [Thread -> Seq(Statement)] /\ SendingOK
HistoryTyped == /\ trades \in Seq(Trade)
                /\ paidIn \in [cash : [Account -> Int], shares : [Account \X Symbol -> Int]]
EngineTyped  == IsDatabase(db) /\ alive \in BOOLEAN /\ received \in 0..MaxRequests

\* The type invariant in four parts, of a state and of the next one.
LEMMA TypeParts ==
  /\ TypeOK <=> EngineTyped /\ ControlTyped /\ PendingTyped /\ HistoryTyped
  /\ TypeOK' <=> (EngineTyped /\ ControlTyped /\ PendingTyped /\ HistoryTyped)'
BY DEF TypeOK, EngineTyped, ControlTyped, PendingTyped, HistoryTyped

\* A worker with nothing to send may move anywhere.
LEMMA QuietTyped ==
  ASSUME PendingTyped, NEW t \in Thread, pending[t] = << >>, OnlyMoves(t), UNCHANGED pending
  PROVE  PendingTyped'
BY DEF PendingTyped, SendingOK, OnlyMoves

\* What a worker composes it sends from the labels where it may.
LEMMA ComposeTyped ==
  ASSUME PendingTyped, NEW t \in Thread, OnlyMoves(t), NEW sts \in Seq(Statement),
         pc'[t] \in {"match", "commit", "cancelExecuted"},
         pending' = [pending EXCEPT ![t] = sts]
  PROVE  PendingTyped'
BY DEF PendingTyped, SendingOK, OnlyMoves

\* Only the lost statements and the lost engine change.
LEMMA TerminateTyped ==
  ASSUME TypeOK, Terminate, UNCHANGED received
  PROVE  TypeOK'
<1>1. EngineTyped' /\ ControlTyped' /\ HistoryTyped'
  BY TypeParts DEF Terminate, EngineTyped, ControlTyped, ControlOK, HistoryTyped, control, history
<1>2. PendingTyped'
  BY DEF Terminate, PendingTyped, SendingOK
<1> QED BY <1>1, <1>2, TypeParts

\* A worker answers, goes on or notes a result without composing a statement.
LEMMA QuietFinish ==
  ASSUME TypeOK, NEW t \in Thread, pc[t] # "idle", pending[t] = << >>, UNCHANGED pending,
         NEW result \in Result, Finish(t, result)
  PROVE  ControlTyped' /\ PendingTyped'
BY TypeParts, FinishTyped, FinishMoves, QuietTyped

\* A worker goes on inside its item without composing a statement.
LEMMA QuietContinue ==
  ASSUME TypeOK, NEW t \in Thread, pc[t] # "idle", pending[t] = << >>, UNCHANGED pending,
         NEW label \in LabelsOf[ItemOf(t).kind] \ Starts, NEW locals \in Local,
         label \in Granting => Len(locals.notes) < Len(ItemOf(t).grants),
         Continue(t, label, locals)
  PROVE  ControlTyped' /\ PendingTyped'
BY TypeParts, ContinueTyped, ContinueMoves, QuietTyped

\* A worker notes an account's result without composing a statement.
LEMMA QuietNote ==
  ASSUME TypeOK, NEW t \in Thread, pc[t] \in Granting, pending[t] = << >>, UNCHANGED pending,
         NEW msg \in Message, Note(t, msg)
  PROVE  ControlTyped' /\ PendingTyped'
BY TypeParts, NoteTyped, QuietTyped

\* A worker goes on with statements to send.
LEMMA ComposeContinue ==
  ASSUME TypeOK, NEW t \in Thread, pc[t] # "idle", NEW sts \in Seq(Statement),
         pending' = [pending EXCEPT ![t] = sts],
         NEW label \in LabelsOf[ItemOf(t).kind] \ Starts, NEW locals \in Local,
         label \in {"match", "commit", "cancelExecuted"},
         Continue(t, label, locals)
  PROVE  ControlTyped' /\ PendingTyped'
<1>1. ControlTyped /\ PendingTyped
  BY TypeParts
<1>2. label \notin Granting
  BY DEF Granting
<1>3. ControlTyped' /\ OnlyMoves(t) /\ pc'[t] = label
  BY <1>1, <1>2, ContinueTyped, ContinueMoves
<1> QED BY <1>1, <1>3, ComposeTyped

\* A result with only a message is a result.
LEMMA AnswerTyped == \A msg \in Message : Answer(msg) \in Result
BY NoResultTyped DEF Answer, Result

\* INSERT of a row with a new key, or of an existing one, keeps a table in its type.
LEMMA InsertTyped ==
  ASSUME NEW f, NEW S, NEW T, IsTable(f, S, T), NEW k \in S, NEW v \in T
  PROVE  IsTable(Insert(f, k, v), S, T)
<1>1. DOMAIN Insert(f, k, v) = DOMAIN f \cup {k}
  BY DEF Insert
<1>2. Insert(f, k, v) \in [DOMAIN f \cup {k} -> T]
  BY DEF Insert, IsTable
<1> QED BY <1>1, <1>2 DEF IsTable

\* Adding to the money promised to an account keeps the history in its type.
LEMMA CashTyped ==
  ASSUME NEW p \in [cash : [Account -> Int], shares : [Account \X Symbol -> Int]],
         NEW a \in Account, NEW n \in Int
  PROVE  [p EXCEPT !.cash[a] = @ + n]
           \in [cash : [Account -> Int], shares : [Account \X Symbol -> Int]]
<1>1. [p.cash EXCEPT ![a] = @ + n] \in [Account -> Int]
  OBVIOUS
<1>2. [p EXCEPT !.cash[a] = @ + n]
        = [cash |-> [p.cash EXCEPT ![a] = @ + n], shares |-> p.shares]
  OBVIOUS
<1> QED BY <1>1, <1>2

\* Adding to the shares promised to a position keeps the history in its type.
LEMMA SharesTyped ==
  ASSUME NEW p \in [cash : [Account -> Int], shares : [Account \X Symbol -> Int]],
         NEW k \in Account \X Symbol, NEW n \in Int
  PROVE  [p EXCEPT !.shares[k] = @ + n]
           \in [cash : [Account -> Int], shares : [Account \X Symbol -> Int]]
<1>1. [p.shares EXCEPT ![k] = @ + n] \in [Account \X Symbol -> Int]
  OBVIOUS
<1>2. [p EXCEPT !.shares[k] = @ + n]
        = [cash |-> p.cash, shares |-> [p.shares EXCEPT ![k] = @ + n]]
  OBVIOUS
<1> QED BY <1>1, <1>2

-----------------------------------------------------------------------------
(* Type correctness, action by action.                                     *)

\* Type correctness of a step of Receive.
LEMMA ReceiveTyped == ASSUME TypeOK, NEW t \in Thread, Receive(t) PROVE TypeOK'
<1>0. ControlTyped /\ EngineTyped /\ PendingTyped /\ HistoryTyped
  BY TypeParts
<1>1. EngineTyped' /\ HistoryTyped'
  BY <1>0, MaxRequestsAssumption DEF Receive, EngineTyped, HistoryTyped, history
<1>2. PICK doc \in Document : /\ todo' = [todo EXCEPT ![t] = doc]
                              /\ pc' = [pc EXCEPT ![t] = StartOf(doc)]
  BY DEF Receive
<1>3. doc \in Seq(RequestItem)
  BY DocumentAssumption
<1>4. /\ pc'[t] \in {"idle"} \cup Starts
      /\ pc'[t] \in Label
      /\ doc = << >> => pc'[t] = "idle"
      /\ doc # << >> => pc'[t] \in LabelsOf[Head(doc).kind]
      /\ todo'[t] = doc
      /\ local'[t] = NoLocal
  BY <1>0, <1>2, <1>3, StartTyped DEF ControlTyped, ControlOK, Receive, At
<1>5. ControlTyped'
  <2>1. /\ todo' \in [Thread -> Seq(RequestItem)]
        /\ pc' \in [Thread -> Label]
        /\ local' \in [Thread -> Local]
        /\ reply' \in [Thread -> Seq(Result)]
    BY <1>0, <1>2, <1>3, StartTyped DEF ControlTyped, Receive
  <2>2. ControlOK'
    <3> SUFFICES ASSUME NEW u \in Thread
                 PROVE  /\ todo'[u] = << >> => pc'[u] = "idle"
                        /\ todo'[u] # << >> => pc'[u] \in LabelsOf[Head(todo'[u]).kind]
                        /\ pc'[u] \in {"idle", "account", "symbol", "order", "query", "cancel"}
                             => local'[u] = NoLocal
                        /\ pc'[u] \in Granting => Len(local'[u].notes) < Len(Head(todo'[u]).grants)
      BY DEF ControlOK
    <3>1. CASE u = t
      BY <3>1, <1>4 DEF Starts, Granting
    <3>2. CASE u # t
      <4>1. todo'[u] = todo[u] /\ pc'[u] = pc[u] /\ local'[u] = local[u]
        BY <3>2, <1>0, <1>2 DEF Receive, ControlTyped
      <4> QED BY <4>1, <1>0 DEF ControlTyped, ControlOK
    <3> QED BY <3>1, <3>2
  <2> QED BY <2>1, <2>2 DEF ControlTyped
<1>6. PendingTyped'
  <2>1. OnlyMoves(t) /\ pending[t] = << >> /\ UNCHANGED pending
    BY <1>0, <1>2 DEF OnlyMoves, ControlTyped, Receive, At
  <2> QED BY <2>1, <1>0, QuietTyped
<1> QED BY <1>1, <1>5, <1>6, TypeParts

\* Type correctness of a step of Exec.
LEMMA ExecTyped == ASSUME TypeOK, NEW t \in Thread, Exec(t) PROVE TypeOK'
<1>0. ControlTyped /\ EngineTyped /\ PendingTyped /\ HistoryTyped
  BY TypeParts
<1> DEFINE st == Head(pending[t])
<1>1. pending[t] \in Seq(Statement) /\ pending[t] # << >>
  BY <1>0 DEF PendingTyped, Exec
<1>2. st \in Statement /\ Tail(pending[t]) \in Seq(Statement)
  BY <1>1, HeadTailProperties
<1>3. db' = Apply(st, db)
  BY DEF Exec
<1>4. EngineTyped' /\ HistoryTyped'
  <2>1. IsDatabase(db)'
    BY <1>0, <1>2, <1>3, ApplyKeepsTables DEF EngineTyped
  <2> QED BY <2>1, <1>0 DEF Exec, EngineTyped, HistoryTyped, history
<1>5. pc[t] \in {"match", "commit", "cancelExecuted"}
  BY <1>0, <1>1 DEF PendingTyped, SendingOK
<1>6. ControlTyped'
  <2>1. \/ UNCHANGED local
        \/ local' = [local EXCEPT ![t].id = Len(db.transactions) + 1]
    BY DEF Exec
  <2>2. Len(db.transactions) + 1 \in Nat
    BY <1>0, LenProperties DEF EngineTyped, IsDatabase
  <2>3. local' \in [Thread -> Local] /\ \A u \in Thread \ {t} : local'[u] = local[u]
    BY <2>1, <2>2, <1>0 DEF ControlTyped, Local
  <2>4. UNCHANGED <<todo, pc, reply>>
    BY DEF Exec
  <2>5. ControlOK'
    <3> SUFFICES ASSUME NEW u \in Thread
                 PROVE  /\ todo[u] = << >> => pc[u] = "idle"
                        /\ todo[u] # << >> => pc[u] \in LabelsOf[Head(todo[u]).kind]
                        /\ pc[u] \in {"idle", "account", "symbol", "order", "query", "cancel"}
                             => local'[u] = NoLocal
                        /\ pc[u] \in Granting => Len(local'[u].notes) < Len(Head(todo[u]).grants)
      BY <2>4 DEF ControlOK
    <3>1. CASE u = t
      BY <3>1, <1>5, <1>0 DEF ControlTyped, ControlOK, Granting
    <3>2. CASE u # t
      BY <3>2, <2>3, <1>0 DEF ControlTyped, ControlOK
    <3> QED BY <3>1, <3>2
  <2> QED BY <2>3, <2>4, <2>5, <1>0 DEF ControlTyped
<1>7. PendingTyped'
  <2>1. pending' = [pending EXCEPT ![t] = Tail(pending[t])] /\ UNCHANGED pc
    BY DEF Exec
  <2> QED BY <2>1, <1>0, <1>2, <1>5, ComposeTyped DEF OnlyMoves
<1> QED BY <1>4, <1>6, <1>7, TypeParts

\* Type correctness of a step of CreateAccount.
LEMMA CreateAccountTyped == ASSUME TypeOK, NEW t \in Thread, CreateAccount(t) PROVE TypeOK'
<1>0. ControlTyped /\ EngineTyped /\ PendingTyped /\ HistoryTyped
  BY TypeParts
<1>1. /\ pc[t] # "idle" /\ pending[t] = << >> /\ UNCHANGED pending
      /\ ItemOf(t) \in AccountItem
  BY <1>0, KindAt DEF CreateAccount, At
<1>2. PICK msg \in Message : Finish(t, Answer(msg))
  BY DEF CreateAccount, Message
<1>3. ControlTyped' /\ PendingTyped'
  BY <1>1, <1>2, AnswerTyped, QuietFinish
<1>4. EngineTyped' /\ HistoryTyped'
  <2>1. CASE UNCHANGED <<db, paidIn>>
    BY <2>1, <1>0 DEF CreateAccount, EngineTyped, HistoryTyped
  <2>2. CASE /\ db' = [db EXCEPT !.accounts = Insert(@, ItemOf(t).account, ItemOf(t).balance)]
             /\ paidIn' = [paidIn EXCEPT !.cash[ItemOf(t).account] = @ + ItemOf(t).balance]
    <3>1. ItemOf(t).account \in Account /\ ItemOf(t).balance \in Int
      BY <1>1 DEF AccountItem
    <3>2. IsDatabase(db)'
      <4>1. IsTable(Insert(db.accounts, ItemOf(t).account, ItemOf(t).balance), Account, Int)
        BY <3>1, <1>0, InsertTyped DEF EngineTyped, IsDatabase
      <4> QED BY <4>1, <2>2, <1>0 DEF EngineTyped, IsDatabase
    <3>3. paidIn' \in [cash : [Account -> Int], shares : [Account \X Symbol -> Int]]
      BY <3>1, <2>2, <1>0, CashTyped DEF HistoryTyped
    <3> QED BY <3>2, <3>3, <1>0 DEF CreateAccount, EngineTyped, HistoryTyped
  <2> QED BY <2>1, <2>2 DEF CreateAccount
<1> QED BY <1>3, <1>4, TypeParts

\* Type correctness of a step of CreateSymbol.
LEMMA CreateSymbolTyped == ASSUME TypeOK, NEW t \in Thread, CreateSymbol(t) PROVE TypeOK'
<1>0. ControlTyped /\ EngineTyped /\ PendingTyped /\ HistoryTyped
  BY TypeParts
<1>1. /\ pc[t] = "symbol" /\ pending[t] = << >> /\ UNCHANGED pending
      /\ ItemOf(t) \in SymbolItem
  BY <1>0, KindAt DEF CreateSymbol, At, LabelsOf
<1>2. ControlTyped' /\ PendingTyped'
  <2>1. CASE ItemOf(t).grants = << >>
    BY <1>1, <2>1, NoResultTyped, QuietFinish DEF CreateSymbol
  <2>2. CASE ItemOf(t).grants # << >>
    <3>1. Continue(t, "grant", local[t])
      BY <2>2 DEF CreateSymbol
    <3>2. local[t] = NoLocal /\ local[t] \in Local
      BY <1>0, <1>1 DEF ControlTyped, ControlOK
    <3>3. Len(local[t].notes) = 0 /\ Len(ItemOf(t).grants) > 0
      BY <1>1, <2>2, <3>2, EmptySeq DEF NoLocal, SymbolItem
    <3>4. "grant" \in LabelsOf[ItemOf(t).kind] \ Starts
      BY <1>1 DEF SymbolItem, LabelsOf, Starts
    <3> QED BY <1>1, <3>1, <3>2, <3>3, <3>4, QuietContinue
  <2> QED BY <2>1, <2>2
<1>3. EngineTyped'
  <2>1. ItemOf(t).symbol \in Symbol
    BY <1>1 DEF SymbolItem
  <2> QED BY <2>1, <1>0 DEF CreateSymbol, EngineTyped, IsDatabase
<1> QED BY <1>0, <1>2, <1>3, TypeParts DEF CreateSymbol, HistoryTyped, history

\* In the loop over a symbol's accounts.
LEMMA GrantTyped ==
  ASSUME TypeOK, NEW t \in Thread, pc[t] \in Granting
  PROVE  /\ ItemOf(t) \in SymbolItem
         /\ GrantOf(t) \in Grant
         /\ Granted(t) \in Account \X Symbol
         /\ local[t] \in Local
         /\ Len(local[t].notes) < Len(ItemOf(t).grants)
<1>0. ControlTyped
  BY TypeParts
<1>1. ItemOf(t) \in SymbolItem
  BY <1>0, KindAt DEF LabelsOf, Granting
<1>2. local[t] \in Local /\ Len(local[t].notes) < Len(ItemOf(t).grants)
  BY <1>0 DEF ControlTyped, ControlOK, ItemOf
<1>3. local[t].notes \in Seq(Message) /\ ItemOf(t).grants \in Seq(Grant)
  BY <1>1, <1>2 DEF Local, SymbolItem
<1>4. Len(local[t].notes) + 1 \in 1..Len(ItemOf(t).grants)
  BY <1>2, <1>3, LenProperties
<1>5. GrantOf(t) \in Grant
  BY <1>3, <1>4, ElementOfSeq DEF GrantOf
<1>6. Granted(t) \in Account \X Symbol
  BY <1>1, <1>5 DEF Granted, Grant, SymbolItem
<1> QED BY <1>1, <1>2, <1>5, <1>6

\* The loop goes on to another label of its own.
LEMMA GrantContinue ==
  ASSUME TypeOK, NEW t \in Thread, pc[t] \in Granting, pending[t] = << >>, UNCHANGED pending,
         NEW label \in Granting, Continue(t, label, local[t])
  PROVE  ControlTyped' /\ PendingTyped'
<1>1. label \in LabelsOf[ItemOf(t).kind] \ Starts
  BY GrantTyped DEF SymbolItem, LabelsOf, Starts, Granting
<1>2. pc[t] # "idle"
  BY DEF Granting
<1> QED BY <1>1, <1>2, GrantTyped, QuietContinue

\* Type correctness of a step of GrantSelectAccount.
LEMMA GrantSelectAccountTyped ==
  ASSUME TypeOK, NEW t \in Thread, GrantSelectAccount(t) PROVE TypeOK'
<1>0. ControlTyped /\ EngineTyped /\ PendingTyped /\ HistoryTyped
  BY TypeParts
<1>1. pc[t] \in Granting /\ pending[t] = << >> /\ UNCHANGED pending
  BY DEF GrantSelectAccount, At, Granting
<1>2. CASE \E msg \in Message : Note(t, msg)
  <2>1. ControlTyped' /\ PendingTyped'
    BY <1>1, <1>2, QuietNote
  <2> QED BY <1>0, <2>1, TypeParts DEF GrantSelectAccount, EngineTyped, HistoryTyped, history
<1>3. CASE Continue(t, "grantPosition", local[t])
  <2>1. ControlTyped' /\ PendingTyped'
    BY <1>1, <1>3, GrantContinue DEF Granting
  <2> QED BY <1>0, <2>1, TypeParts DEF GrantSelectAccount, EngineTyped, HistoryTyped, history
<1> QED BY <1>2, <1>3 DEF GrantSelectAccount, Message

\* Type correctness of a step of GrantSelectPosition.
LEMMA GrantSelectPositionTyped ==
  ASSUME TypeOK, NEW t \in Thread, GrantSelectPosition(t) PROVE TypeOK'
<1>0. ControlTyped /\ EngineTyped /\ PendingTyped /\ HistoryTyped
  BY TypeParts
<1>1. pc[t] \in Granting /\ pending[t] = << >> /\ UNCHANGED pending
  BY DEF GrantSelectPosition, At, Granting
<1>2. PICK label \in Granting : Continue(t, label, local[t])
  BY DEF GrantSelectPosition, Granting
<1>3. ControlTyped' /\ PendingTyped'
  BY <1>1, <1>2, GrantContinue
<1> QED BY <1>0, <1>3, TypeParts DEF GrantSelectPosition, EngineTyped, HistoryTyped, history

\* Promising a grant keeps the history in its type.
LEMMA PromiseTyped ==
  ASSUME TypeOK, NEW t \in Thread, pc[t] \in Granting, Promise(t), UNCHANGED trades
  PROVE  HistoryTyped'
<1>1. GrantOf(t).shares \in Int /\ Granted(t) \in Account \X Symbol
  BY GrantTyped DEF Grant
<1> QED BY <1>1, TypeParts, SharesTyped DEF Promise, HistoryTyped

\* Type correctness of a step of GrantInsertPosition.
LEMMA GrantInsertPositionTyped ==
  ASSUME TypeOK, NEW t \in Thread, GrantInsertPosition(t) PROVE TypeOK'
<1>0. ControlTyped /\ EngineTyped /\ PendingTyped /\ HistoryTyped
  BY TypeParts
<1>1. pc[t] \in Granting /\ pending[t] = << >> /\ UNCHANGED pending
  BY DEF GrantInsertPosition, At, Granting
<1>2. ControlTyped' /\ PendingTyped'
  BY <1>1, QuietNote DEF GrantInsertPosition, Message
<1>3. HistoryTyped'
  BY <1>1, PromiseTyped DEF GrantInsertPosition
<1>4. EngineTyped'
  <2>1. GrantOf(t).shares \in Int /\ Granted(t) \in Account \X Symbol
    BY <1>1, GrantTyped DEF Grant
  <2>2. IsTable(Insert(db.positions, Granted(t), GrantOf(t).shares), Account \X Symbol, Int)
    BY <2>1, <1>0, InsertTyped DEF EngineTyped, IsDatabase
  <2> QED BY <2>2, <1>0 DEF GrantInsertPosition, EngineTyped, IsDatabase
<1> QED BY <1>2, <1>3, <1>4, TypeParts

\* Type correctness of a step of GrantUpdatePosition.
LEMMA GrantUpdatePositionTyped ==
  ASSUME TypeOK, NEW t \in Thread, GrantUpdatePosition(t) PROVE TypeOK'
<1>0. ControlTyped /\ EngineTyped /\ PendingTyped /\ HistoryTyped
  BY TypeParts
<1>1. pc[t] \in Granting /\ pending[t] = << >> /\ UNCHANGED pending
  BY DEF GrantUpdatePosition, At, Granting
<1>2. ControlTyped' /\ PendingTyped'
  BY <1>1, QuietNote DEF GrantUpdatePosition, Message
<1>3. HistoryTyped'
  BY <1>1, PromiseTyped DEF GrantUpdatePosition
<1>4. EngineTyped'
  <2>1. UpdatePosition(GrantOf(t).account, ItemOf(t).symbol, GrantOf(t).shares) \in Statement
    BY <1>1, GrantTyped DEF Grant, SymbolItem, UpdatePosition, Statement
  <2>2. IsDatabase(db)'
    BY <2>1, <1>0, ApplyKeepsTables DEF GrantUpdatePosition, EngineTyped
  <2> QED BY <2>2, <1>0 DEF GrantUpdatePosition, EngineTyped
<1> QED BY <1>2, <1>3, <1>4, TypeParts

\* In trans_order.
LEMMA OrderTyped ==
  ASSUME TypeOK, NEW t \in Thread, pc[t] \in LabelsOf["order"]
  PROVE  /\ ItemOf(t) \in OrderItem
         /\ ItemOf(t).account \in Account
         /\ ItemOf(t).symbol \in Symbol
         /\ ItemOf(t).amount \in Int
         /\ ItemOf(t).limit \in Int
         /\ local[t] \in Local
         /\ pc[t] # "idle"
         /\ LabelsOf[ItemOf(t).kind] = LabelsOf["order"]
<1>0. ControlTyped
  BY TypeParts
<1>1. ItemOf(t) \in OrderItem
  BY <1>0, KindAt
<1>2. local[t] \in Local
  BY <1>0 DEF ControlTyped
<1> QED BY <1>1, <1>2 DEF OrderItem, LabelsOf

\* trans_order goes on without composing a statement, from where it is not.
LEMMA OrderContinue ==
  ASSUME TypeOK, NEW t \in Thread, pc[t] \in LabelsOf["order"], pending[t] = << >>,
         UNCHANGED pending, NEW label \in LabelsOf["order"] \ {"order"}, NEW locals \in Local,
         Continue(t, label, locals)
  PROVE  ControlTyped' /\ PendingTyped'
<1>1. label \in LabelsOf[ItemOf(t).kind] \ Starts /\ label \notin Granting
  BY OrderTyped DEF LabelsOf, Starts, Granting
<1> QED BY <1>1, OrderTyped, QuietContinue

\* Type correctness of a step of OrderSelectAccount.
LEMMA OrderSelectAccountTyped ==
  ASSUME TypeOK, NEW t \in Thread, OrderSelectAccount(t) PROVE TypeOK'
<1>0. ControlTyped /\ EngineTyped /\ PendingTyped /\ HistoryTyped
  BY TypeParts
<1>1. pc[t] \in LabelsOf["order"] /\ pending[t] = << >> /\ UNCHANGED pending
  BY DEF OrderSelectAccount, At, LabelsOf
<1>2. ControlTyped' /\ PendingTyped'
  <2>1. CASE ItemOf(t).account \in DOMAIN db.accounts
    <3>1. Continue(t, "orderSymbol", [local[t] EXCEPT !.funds = db.accounts[ItemOf(t).account]])
      BY <2>1 DEF OrderSelectAccount
    <3>2. db.accounts[ItemOf(t).account] \in Int
      BY <2>1, <1>0 DEF EngineTyped, IsDatabase, IsTable
    <3>3. [local[t] EXCEPT !.funds = db.accounts[ItemOf(t).account]] \in Local
      BY <3>2, <1>1, OrderTyped DEF Local
    <3>4. "orderSymbol" \in LabelsOf["order"] \ {"order"}
      BY DEF LabelsOf
    <3> QED BY <1>1, <3>1, <3>3, <3>4, OrderContinue
  <2>2. CASE ItemOf(t).account \notin DOMAIN db.accounts
    <3>1. Finish(t, Answer("Account does not exist!"))
      BY <2>2 DEF OrderSelectAccount
    <3> QED BY <1>1, <3>1, OrderTyped, AnswerTyped, QuietFinish DEF Message
  <2> QED BY <2>1, <2>2
<1> QED BY <1>0, <1>2, TypeParts DEF OrderSelectAccount, EngineTyped, HistoryTyped, history

\* Type correctness of a step of OrderSelectSymbol.
LEMMA OrderSelectSymbolTyped ==
  ASSUME TypeOK, NEW t \in Thread, OrderSelectSymbol(t) PROVE TypeOK'
<1>0. ControlTyped /\ EngineTyped /\ PendingTyped /\ HistoryTyped
  BY TypeParts
<1>1. pc[t] \in LabelsOf["order"] /\ pending[t] = << >> /\ UNCHANGED pending
  BY DEF OrderSelectSymbol, At, LabelsOf
<1>2. ControlTyped' /\ PendingTyped'
  <2>1. CASE Continue(t, "orderPosition", local[t])
    <3>1. "orderPosition" \in LabelsOf["order"] \ {"order"}
      BY DEF LabelsOf
    <3> QED BY <1>1, <2>1, <3>1, OrderTyped, OrderContinue
  <2>2. CASE Finish(t, Answer("Symbol does not exist!"))
    BY <1>1, <2>2, OrderTyped, AnswerTyped, QuietFinish DEF Message
  <2> QED BY <2>1, <2>2 DEF OrderSelectSymbol
<1> QED BY <1>0, <1>2, TypeParts DEF OrderSelectSymbol, EngineTyped, HistoryTyped, history

\* The row trans_order inserts is a row of TRANSACTIONS.
LEMMA NewOrderTyped == \A item \in OrderItem : NewOrder(item) \in Order
BY DEF OrderItem, NewOrder, Order, Status

\* The charge for an order and its row are sent before the matching.
LEMMA PlaceTyped ==
  ASSUME TypeOK, NEW t \in Thread, pc[t] \in LabelsOf["order"],
         NEW charge \in Statement,
         pending' = [pending EXCEPT ![t] = << charge, InsertTransaction(NewOrder(ItemOf(t))) >>],
         Continue(t, "match", [local[t] EXCEPT !.remaining = ItemOf(t).amount])
  PROVE  ControlTyped' /\ PendingTyped'
<1>1. InsertTransaction(NewOrder(ItemOf(t))) \in Statement
  BY OrderTyped, NewOrderTyped DEF InsertTransaction, Statement
<1>2. << charge, InsertTransaction(NewOrder(ItemOf(t))) >> \in Seq(Statement)
  BY <1>1
<1>3. [local[t] EXCEPT !.remaining = ItemOf(t).amount] \in Local
  BY OrderTyped DEF Local
<1>4. "match" \in LabelsOf[ItemOf(t).kind] \ Starts
  BY OrderTyped DEF LabelsOf, Starts
<1> QED BY <1>2, <1>3, <1>4, OrderTyped, ComposeContinue

\* Opening a buy, refusing it, or going on to a sell's holding keeps control in type.
LEMMA OpenOrderTyped ==
  ASSUME TypeOK, NEW t \in Thread, pc[t] \in LabelsOf["order"], pending[t] = << >>, OpenOrder(t)
  PROVE  ControlTyped' /\ PendingTyped'
<1> DEFINE item == ItemOf(t)
           cost == item.amount * item.limit
<1>1. CASE Finish(t, Answer("Insufficient balance!")) /\ UNCHANGED pending
  BY <1>1, OrderTyped, AnswerTyped, QuietFinish DEF Message
<1>2. CASE /\ pending' = [pending EXCEPT ![t] = << UpdateBalance(item.account, -cost),
                                                  InsertTransaction(NewOrder(item)) >>]
           /\ Continue(t, "match", [local[t] EXCEPT !.remaining = item.amount])
  <2>1. UpdateBalance(item.account, -cost) \in Statement
    BY OrderTyped DEF UpdateBalance, Statement
  <2> QED BY <1>2, <2>1, PlaceTyped
<1>3. CASE Continue(t, "holding", local[t]) /\ UNCHANGED pending
  <2>1. "holding" \in LabelsOf["order"] \ {"order"}
    BY DEF LabelsOf
  <2> QED BY <1>3, <2>1, OrderTyped, OrderContinue
<1> QED BY <1>1, <1>2, <1>3 DEF OpenOrder, OpenBuy

\* Type correctness of a step of OrderSelectPosition.
LEMMA OrderSelectPositionTyped ==
  ASSUME TypeOK, NEW t \in Thread, OrderSelectPosition(t) PROVE TypeOK'
<1>0. ControlTyped /\ EngineTyped /\ PendingTyped /\ HistoryTyped
  BY TypeParts
<1>1. pc[t] \in LabelsOf["order"] /\ pending[t] = << >>
  BY DEF OrderSelectPosition, At, LabelsOf
<1>2. ControlTyped' /\ PendingTyped'
  <2>1. CASE OpenOrder(t)
    BY <1>1, <2>1, OpenOrderTyped
  <2>2. CASE Continue(t, "orderInsert", local[t]) /\ UNCHANGED pending
    <3>1. "orderInsert" \in LabelsOf["order"] \ {"order"}
      BY DEF LabelsOf
    <3> QED BY <1>1, <2>2, <3>1, OrderTyped, OrderContinue
  <2> QED BY <2>1, <2>2 DEF OrderSelectPosition
<1> QED BY <1>0, <1>2, TypeParts DEF OrderSelectPosition, EngineTyped, HistoryTyped, history

\* Type correctness of a step of OrderInsertPosition.
LEMMA OrderInsertPositionTyped ==
  ASSUME TypeOK, NEW t \in Thread, OrderInsertPosition(t) PROVE TypeOK'
<1>0. ControlTyped /\ EngineTyped /\ PendingTyped /\ HistoryTyped
  BY TypeParts
<1>1. pc[t] \in LabelsOf["order"] /\ pending[t] = << >>
  BY DEF OrderInsertPosition, At, LabelsOf
<1>2. CASE Terminate
  BY <1>2, TerminateTyped DEF OrderInsertPosition
<1>3. CASE /\ db' = [db EXCEPT !.positions = Insert(@, OrderPosition(t), 0)]
           /\ OpenOrder(t)
           /\ UNCHANGED <<alive, history>>
  <2>1. ControlTyped' /\ PendingTyped'
    BY <1>1, <1>3, OpenOrderTyped
  <2>2. /\ OrderPosition(t) \in Account \X Symbol
        /\ 0 \in Int
        /\ IsTable(db.positions, Account \X Symbol, Int)
    BY <1>0, <1>1, OrderTyped DEF OrderPosition, EngineTyped, IsDatabase
  <2>3. IsTable(Insert(db.positions, OrderPosition(t), 0), Account \X Symbol, Int)
    BY <2>2, InsertTyped
  <2>4. EngineTyped'
    BY <2>3, <1>0, <1>3 DEF OrderInsertPosition, EngineTyped, IsDatabase
  <2> QED BY <2>1, <2>4, <1>0, <1>3, TypeParts DEF HistoryTyped, history
<1> QED BY <1>2, <1>3 DEF OrderInsertPosition

\* Type correctness of a step of OpenSell.
LEMMA OpenSellTyped == ASSUME TypeOK, NEW t \in Thread, OpenSell(t) PROVE TypeOK'
<1>0. ControlTyped /\ EngineTyped /\ PendingTyped /\ HistoryTyped
  BY TypeParts
<1> DEFINE item == ItemOf(t)
<1>1. pc[t] \in LabelsOf["order"] /\ pending[t] = << >>
  BY DEF OpenSell, At, LabelsOf
<1>2. CASE Finish(t, Answer("Insufficient Shares!")) /\ UNCHANGED pending
  <2>1. ControlTyped' /\ PendingTyped'
    BY <1>1, <1>2, OrderTyped, AnswerTyped, QuietFinish DEF Message
  <2> QED BY <1>0, <2>1, TypeParts DEF OpenSell, EngineTyped, HistoryTyped, history
<1>3. CASE /\ pending' = [pending EXCEPT ![t] =
                << UpdatePosition(item.account, item.symbol, item.amount),
                   InsertTransaction(NewOrder(item)) >>]
           /\ Continue(t, "match", [local[t] EXCEPT !.remaining = item.amount])
  <2>1. UpdatePosition(item.account, item.symbol, item.amount) \in Statement
    BY <1>1, OrderTyped DEF UpdatePosition, Statement
  <2>2. ControlTyped' /\ PendingTyped'
    BY <1>1, <1>3, <2>1, PlaceTyped
  <2> QED BY <1>0, <2>2, TypeParts DEF OpenSell, EngineTyped, HistoryTyped, history
<1> QED BY <1>2, <1>3 DEF OpenSell

-----------------------------------------------------------------------------
(* Type correctness of the matching loop.                                  *)

\* The statements on the two orders of a match are statements.
LEMMA FillTyped ==
  ASSUME NEW r \in Nat, NEW row \in Order, NEW id \in Nat, NEW left \in Int, NEW signed \in Int
  PROVE  Fill(r, row, id, left, signed) \in Seq(Statement)
<1>1. row.shares \in Int /\ row.limit \in Int
  BY DEF Order
<1>2. Shrink(r, row.shares + signed, signed = left) \in Statement
  BY <1>1 DEF Shrink, UpdateShares, UpdateExecuted, Statement
<1>3. (IF signed = left THEN UpdateExecuted(id, 0) ELSE UpdateShares(id, left - signed)) \in Statement
  BY DEF UpdateShares, UpdateExecuted, Statement
<1>4. \A i \in Nat, n \in Int : InsertExecuted(i, row.limit, n) \in Statement
  BY <1>1 DEF InsertExecuted, Execution, Statement
<1>5. \A a, b, c, d \in Statement : << a, b, c, d >> \in Seq(Statement)
  OBVIOUS
<1>6. /\ InsertExecuted(r, row.limit, -signed) \in Statement
      /\ InsertExecuted(id, row.limit, signed) \in Statement
  BY <1>4
<1> QED BY <1>2, <1>3, <1>5, <1>6 DEF Fill

\* The statements that settle a match of a buy are statements.
LEMMA SettleBuyTyped ==
  ASSUME NEW item \in OrderItem, NEW row \in Order, NEW executed \in Int
  PROVE  SettleBuy(item, row, executed) \in Seq(Statement)
<1>1. /\ item.account \in Account /\ item.symbol \in Symbol
      /\ row.account \in Account
      /\ executed * (item.limit - row.limit) \in Int
      /\ executed * row.limit \in Int
  BY DEF OrderItem, Order
<1>2. UpdatePosition(item.account, item.symbol, executed) \in Statement
  BY <1>1 DEF UpdatePosition, Statement
<1>3. \A a \in Account, n \in Int : UpdateBalance(a, n) \in Statement
  BY DEF UpdateBalance, Statement
<1> QED BY <1>1, <1>2, <1>3 DEF SettleBuy

\* The statements that settle a match of a sell are statements.
LEMMA SettleSellTyped ==
  ASSUME NEW item \in OrderItem, NEW row \in Order, NEW executed \in Int
  PROVE  SettleSell(item, row, executed) \in Seq(Statement)
<1>1. /\ item.account \in Account /\ item.symbol \in Symbol
      /\ row.account \in Account
      /\ executed * row.limit \in Int
      /\ -(executed * row.limit) \in Int
  BY DEF OrderItem, Order
<1>2. UpdatePosition(row.account, item.symbol, executed) \in Statement
  BY <1>1 DEF UpdatePosition, Statement
<1>3. \A a \in Account, n \in Int : UpdateBalance(a, n) \in Statement
  BY DEF UpdateBalance, Statement
<1> QED BY <1>1, <1>2, <1>3 DEF SettleSell

\* What a SELECT returns is a row.
LEMMA RowTyped ==
  ASSUME NEW rows \in Seq(Order), NEW r \in DOMAIN rows
  PROVE  rows[r] \in Order /\ r \in Nat
BY LenProperties, ElementOfSeq

\* A match leaves its worker with statements to send, in the loop or out of it.
LEMMA MatchedTyped ==
  ASSUME TypeOK, NEW t \in Thread, pc[t] \in LabelsOf["order"],
         NEW r \in DOMAIN db.transactions, NEW executed \in Int, NEW remaining \in Int,
         NEW sts \in Seq(Statement), pending' = [pending EXCEPT ![t] = sts],
         Matched(t, r, executed, remaining)
  PROVE  ControlTyped' /\ PendingTyped' /\ trades' \in Seq(Trade)
<1>1. ControlTyped' /\ PendingTyped'
  <2>1. PICK label \in {"match", "commit"} :
          Continue(t, label, [local[t] EXCEPT !.remaining = remaining])
    BY DEF Matched
  <2>2. [local[t] EXCEPT !.remaining = remaining] \in Local
    BY OrderTyped DEF Local
  <2>3. label \in LabelsOf[ItemOf(t).kind] \ Starts
    BY OrderTyped DEF LabelsOf, Starts
  <2> QED BY <2>1, <2>2, <2>3, OrderTyped, ComposeContinue
<1>2. trades' \in Seq(Trade)
  <2>1. db.transactions \in Seq(Order) /\ trades \in Seq(Trade)
    BY TypeParts DEF EngineTyped, IsDatabase, HistoryTyped
  <2>2. db.transactions[r] \in Order /\ r \in Nat
    BY <2>1, ElementOfSeq
  <2>3. [maker |-> r, taker |-> local[t].id, shares |-> executed,
         price |-> db.transactions[r].limit] \in Trade
    BY <2>2, OrderTyped DEF Trade, Local, Order
  <2> QED BY <2>1, <2>3, AppendProperties DEF Matched
<1> QED BY <1>1, <1>2

\* Leaving the loop without a match keeps control and matches in type.
LEMMA NoMatchTyped ==
  ASSUME TypeOK, NEW t \in Thread, pc[t] \in LabelsOf["order"], pending[t] = << >>, NoMatch(t)
  PROVE  ControlTyped' /\ PendingTyped' /\ trades' \in Seq(Trade)
<1>1. "commit" \in LabelsOf["order"] \ {"order"}
  BY DEF LabelsOf
<1>2. ControlTyped' /\ PendingTyped'
  BY <1>1, OrderTyped, OrderContinue DEF NoMatch
<1> QED BY <1>2, TypeParts DEF NoMatch, HistoryTyped

\* LesserOf is the lesser of two integers.
LEMMA LesserTyped ==
  \A m, n \in Int : /\ LesserOf(m, n) \in Int
                    /\ LesserOf(m, n) <= m
                    /\ LesserOf(m, n) <= n
                    /\ LesserOf(m, n) \in {m, n}
BY DEF LesserOf

\* Type correctness of a step of BuySelectAsk.
LEMMA BuySelectAskTyped == ASSUME TypeOK, NEW t \in Thread, BuySelectAsk(t) PROVE TypeOK'
<1>0. ControlTyped /\ EngineTyped /\ PendingTyped /\ HistoryTyped
  BY TypeParts
<1> DEFINE item == ItemOf(t)
           left == local[t].remaining
<1>1. pc[t] \in LabelsOf["order"] /\ pending[t] = << >>
  BY DEF BuySelectAsk, At, LabelsOf
<1>2. ControlTyped' /\ PendingTyped' /\ trades' \in Seq(Trade)
  <2>1. CASE NoMatch(t)
    BY <1>1, <2>1, NoMatchTyped
  <2>2. ASSUME NEW r \in Asks(db, item.symbol), NEW row, row = db.transactions[r],
               NEW executed, executed = LesserOf(left, -row.shares),
               pending' = [pending EXCEPT ![t] =
                             Fill(r, row, local[t].id, left, executed)
                               \o SettleBuy(item, row, executed)],
               Matched(t, r, executed, left - executed)
        PROVE  ControlTyped' /\ PendingTyped' /\ trades' \in Seq(Trade)
    <3>1. db.transactions \in Seq(Order) /\ r \in DOMAIN db.transactions
      BY <1>0 DEF EngineTyped, IsDatabase, Asks
    <3>2. row \in Order /\ r \in Nat
      <4>1. db.transactions[r] \in Order /\ r \in Nat
        BY <3>1, RowTyped
      <4> QED BY <4>1, <2>2
    <3>3. left \in Int /\ local[t].id \in Nat /\ item \in OrderItem
      BY <1>1, OrderTyped DEF Local
    <3>4. executed \in Int /\ left - executed \in Int
      <4>1. -row.shares \in Int
        BY <3>2 DEF Order
      <4>2. executed \in Int
        BY <4>1, <2>2, <3>3, LesserTyped
      <4> QED BY <4>2, <3>3
    <3>5. /\ Fill(r, row, local[t].id, left, executed) \in Seq(Statement)
          /\ SettleBuy(item, row, executed) \in Seq(Statement)
      BY <3>2, <3>3, <3>4, FillTyped, SettleBuyTyped
    <3>6. Fill(r, row, local[t].id, left, executed) \o SettleBuy(item, row, executed)
            \in Seq(Statement)
      BY <3>5, ConcatProperties
    <3> QED BY <1>1, <2>2, <3>1, <3>4, <3>6, MatchedTyped
  <2> QED BY <2>1, <2>2 DEF BuySelectAsk
<1> QED BY <1>0, <1>2, TypeParts DEF BuySelectAsk, EngineTyped, HistoryTyped

\* Type correctness of a step of SellSelectBid.
LEMMA SellSelectBidTyped == ASSUME TypeOK, NEW t \in Thread, SellSelectBid(t) PROVE TypeOK'
<1>0. ControlTyped /\ EngineTyped /\ PendingTyped /\ HistoryTyped
  BY TypeParts
<1> DEFINE item == ItemOf(t)
           left == local[t].remaining
<1>1. pc[t] \in LabelsOf["order"] /\ pending[t] = << >>
  BY DEF SellSelectBid, At, LabelsOf
<1>2. ControlTyped' /\ PendingTyped' /\ trades' \in Seq(Trade)
  <2>1. CASE NoMatch(t)
    BY <1>1, <2>1, NoMatchTyped
  <2>2. ASSUME NEW r \in Bids(db, item.symbol), NEW row, row = db.transactions[r],
               NEW executed, executed = LesserOf(-left, row.shares),
               pending' = [pending EXCEPT ![t] =
                             Fill(r, row, local[t].id, left, -executed)
                               \o SettleSell(item, row, executed)],
               Matched(t, r, executed, left + executed)
        PROVE  ControlTyped' /\ PendingTyped' /\ trades' \in Seq(Trade)
    <3>1. db.transactions \in Seq(Order) /\ r \in DOMAIN db.transactions
      BY <1>0 DEF EngineTyped, IsDatabase, Bids
    <3>2. row \in Order /\ r \in Nat
      <4>1. db.transactions[r] \in Order /\ r \in Nat
        BY <3>1, RowTyped
      <4> QED BY <4>1, <2>2
    <3>3. left \in Int /\ local[t].id \in Nat /\ item \in OrderItem
      BY <1>1, OrderTyped DEF Local
    <3>4. executed \in Int /\ -executed \in Int /\ left + executed \in Int
      <4>1. -left \in Int /\ row.shares \in Int
        BY <3>2, <3>3 DEF Order
      <4>2. executed \in Int
        BY <4>1, <2>2, LesserTyped
      <4> QED BY <4>2, <3>3
    <3>5. /\ Fill(r, row, local[t].id, left, -executed) \in Seq(Statement)
          /\ SettleSell(item, row, executed) \in Seq(Statement)
      BY <3>2, <3>3, <3>4, FillTyped, SettleSellTyped
    <3>6. Fill(r, row, local[t].id, left, -executed) \o SettleSell(item, row, executed)
            \in Seq(Statement)
      BY <3>5, ConcatProperties
    <3> QED BY <1>1, <2>2, <3>1, <3>4, <3>6, MatchedTyped
  <2> QED BY <2>1, <2>2 DEF SellSelectBid
<1> QED BY <1>0, <1>2, TypeParts DEF SellSelectBid, EngineTyped, HistoryTyped

\* Type correctness of a step of Commit.
LEMMA CommitTyped == ASSUME TypeOK, NEW t \in Thread, Commit(t) PROVE TypeOK'
<1>0. ControlTyped /\ EngineTyped /\ PendingTyped /\ HistoryTyped
  BY TypeParts
<1>1. pc[t] \in LabelsOf["order"] /\ pending[t] = << >> /\ UNCHANGED pending
  BY DEF Commit, At, LabelsOf
<1>2. [NoResult EXCEPT !.id = local[t].id] \in Result
  BY <1>1, OrderTyped, NoResultTyped DEF Result, Local
<1>3. ControlTyped' /\ PendingTyped'
  BY <1>1, <1>2, OrderTyped, QuietFinish DEF Commit
<1> QED BY <1>0, <1>3, TypeParts DEF Commit, EngineTyped, HistoryTyped, history

-----------------------------------------------------------------------------
(* Type correctness of trans_query and trans_cancel.                       *)

\* In trans_query and trans_cancel.
LEMMA IdTyped ==
  ASSUME TypeOK, NEW t \in Thread, pc[t] \in LabelsOf["query"] \cup LabelsOf["cancel"]
  PROVE  /\ ItemOf(t).id \in Nat
         /\ local[t] \in Local
         /\ pc[t] # "idle"
         /\ pc[t] \in LabelsOf[ItemOf(t).kind]
         /\ db.transactions \in Seq(Order)
         /\ \A i \in DOMAIN db.transactions : db.transactions[i] \in Order
<1>0. ControlTyped /\ EngineTyped
  BY TypeParts
<1>1. ItemOf(t) \in IdItem
  BY <1>0, KindAt
<1>2. pc[t] # "idle"
  BY DEF LabelsOf
<1>3. pc[t] \in LabelsOf[ItemOf(t).kind]
  BY <1>0, <1>2, ItemAt
<1>4. db.transactions \in Seq(Order)
  BY <1>0 DEF EngineTyped, IsDatabase
<1>5. \A i \in DOMAIN db.transactions : db.transactions[i] \in Order
  BY <1>4, ElementOfSeq
<1> QED BY <1>0, <1>1, <1>2, <1>3, <1>4, <1>5 DEF IdItem, ControlTyped

\* Only a query is at a query's labels, and only a cancellation at a cancellation's.
LEMMA IdKind ==
  ASSUME TypeOK, NEW t \in Thread
  PROVE  /\ pc[t] \in LabelsOf["query"] => ItemOf(t).kind = "query"
         /\ pc[t] \in LabelsOf["cancel"] => ItemOf(t).kind = "cancel"
<1>0. ControlTyped
  BY TypeParts
<1>1. CASE pc[t] \in LabelsOf["query"] \cup LabelsOf["cancel"]
  <2>1. ItemOf(t) \in IdItem /\ pc[t] # "idle"
    BY <1>0, <1>1, KindAt DEF LabelsOf
  <2>2. pc[t] \in LabelsOf[ItemOf(t).kind] /\ ItemOf(t).kind \in {"query", "cancel"}
    BY <1>0, <2>1, ItemAt DEF IdItem
  <2> QED BY <2>2 DEF LabelsOf
<1> QED BY <1>1

\* The answer to a query or a cancellation.
LEMMA ReportTyped ==
  ASSUME TypeOK, NEW i \in Nat, NEW status \in Status, NEW shares \in Int
  PROVE  [NoResult EXCEPT !.id = i, !.status = status, !.shares = shares,
                          !.rows = Executions(db, i)] \in Result
<1>1. db.executed_trans \in Seq(Execution)
  BY TypeParts DEF EngineTyped, IsDatabase
<1>2. Executions(db, i) \in SUBSET Nat
  BY <1>1 DEF Executions
<1> QED BY <1>2, NoResultTyped DEF Result

\* Type correctness of a step of QuerySelectOrder.
LEMMA QuerySelectOrderTyped == ASSUME TypeOK, NEW t \in Thread, QuerySelectOrder(t) PROVE TypeOK'
<1>0. ControlTyped /\ EngineTyped /\ PendingTyped /\ HistoryTyped
  BY TypeParts
<1> DEFINE i == ItemOf(t).id
           row == db.transactions[i]
<1>1. /\ pc[t] \in LabelsOf["query"] \cup LabelsOf["cancel"] /\ pc[t] = "query"
      /\ pending[t] = << >> /\ UNCHANGED pending
  BY DEF QuerySelectOrder, At, LabelsOf
<1>2. ControlTyped' /\ PendingTyped'
  <2>1. CASE \E msg \in Message : Finish(t, Answer(msg))
    BY <1>1, <2>1, IdTyped, AnswerTyped, QuietFinish
  <2>2. ASSUME i \in DOMAIN db.transactions,
               NEW label \in {"queryCanceled", "queryExecuted"},
               NEW locals, locals = [local[t] EXCEPT !.status = row.status,
                                                     !.remaining = row.shares],
               Continue(t, label, locals)
        PROVE  ControlTyped' /\ PendingTyped'
    <3>1. row \in Order
      BY <2>2, <1>1, IdTyped
    <3>2. locals \in Local
      BY <3>1, <2>2, <1>1, IdTyped DEF Local, Order
    <3>3. label \in LabelsOf[ItemOf(t).kind] \ Starts /\ label \notin Granting
      <4>1. ItemOf(t).kind = "query"
        BY <1>1, IdKind DEF LabelsOf
      <4> QED BY <4>1 DEF LabelsOf, Starts, Granting
    <3> QED BY <1>1, <2>2, <3>2, <3>3, IdTyped, QuietContinue
  <2> QED BY <2>1, <2>2 DEF QuerySelectOrder, Message
<1> QED BY <1>0, <1>2, TypeParts DEF QuerySelectOrder, EngineTyped, HistoryTyped, history

\* Type correctness of a step of QuerySelectCanceled.
LEMMA QuerySelectCanceledTyped ==
  ASSUME TypeOK, NEW t \in Thread, QuerySelectCanceled(t) PROVE TypeOK'
<1>0. ControlTyped /\ EngineTyped /\ PendingTyped /\ HistoryTyped
  BY TypeParts
<1> DEFINE rows == Cancellations(db, ItemOf(t).id)
<1>1. /\ pc[t] \in LabelsOf["query"] \cup LabelsOf["cancel"] /\ pc[t] = "queryCanceled"
      /\ pending[t] = << >>
  BY DEF QuerySelectCanceled, At, LabelsOf
<1>2. CASE Terminate
  BY <1>2, TerminateTyped DEF QuerySelectCanceled
<1>3. ASSUME NEW k \in rows,
             NEW locals, locals = [local[t] EXCEPT !.remaining = db.canceled_trans[k].shares],
             Continue(t, "queryExecuted", locals), UNCHANGED <<db, alive, pending, history>>
      PROVE  TypeOK'
  <2>1. db.canceled_trans \in Seq(Cancellation) /\ k \in DOMAIN db.canceled_trans
    BY <1>0 DEF EngineTyped, IsDatabase, Cancellations
  <2>2. db.canceled_trans[k] \in Cancellation
    BY <2>1, ElementOfSeq
  <2>3. locals \in Local
    BY <2>2, <1>1, <1>3, IdTyped DEF Local, Cancellation
  <2>4. "queryExecuted" \in LabelsOf[ItemOf(t).kind] \ Starts /\ "queryExecuted" \notin Granting
    <3>1. ItemOf(t).kind = "query"
      BY <1>1, IdKind DEF LabelsOf
    <3> QED BY <3>1 DEF LabelsOf, Starts, Granting
  <2>5. ControlTyped' /\ PendingTyped'
    BY <1>1, <1>3, <2>3, <2>4, IdTyped, QuietContinue
  <2> QED BY <1>0, <1>3, <2>5, TypeParts DEF QuerySelectCanceled, EngineTyped, HistoryTyped, history
<1> QED BY <1>2, <1>3 DEF QuerySelectCanceled

\* Type correctness of a step of QuerySelectExecuted.
LEMMA QuerySelectExecutedTyped ==
  ASSUME TypeOK, NEW t \in Thread, QuerySelectExecuted(t) PROVE TypeOK'
<1>0. ControlTyped /\ EngineTyped /\ PendingTyped /\ HistoryTyped
  BY TypeParts
<1>1. /\ pc[t] \in LabelsOf["query"] \cup LabelsOf["cancel"]
      /\ pending[t] = << >> /\ UNCHANGED pending
  BY DEF QuerySelectExecuted, At, LabelsOf
<1>2. local[t].status \in Status /\ local[t].remaining \in Int
  BY <1>1, IdTyped DEF Local
<1>4. /\ ItemOf(t).id \in Nat /\ Executions(db, ItemOf(t).id) \subseteq Nat
      /\ (IF local[t].status = "executed" THEN 0 ELSE local[t].remaining) \in Int
  BY <1>0, <1>1, <1>2, IdTyped DEF Executions, EngineTyped, IsDatabase
<1>3. ControlTyped' /\ PendingTyped'
  BY <1>1, <1>2, <1>4, IdTyped, ReportTyped, QuietFinish DEF QuerySelectExecuted
<1> QED BY <1>0, <1>3, TypeParts DEF QuerySelectExecuted, EngineTyped, HistoryTyped, history

\* The statements of a cancellation are statements.
LEMMA CancelStatementsTyped ==
  ASSUME NEW i \in Nat, NEW row \in Order
  PROVE  CancelStatements(i, row) \in Seq(Statement)
<1>1. /\ row.account \in Account /\ row.symbol \in Symbol
      /\ row.shares \in Int /\ -row.shares \in Int
      /\ row.shares * row.limit \in Int
  BY DEF Order
<1>2. UpdateCanceled(i) \in Statement
  BY DEF UpdateCanceled, Statement
<1>3. InsertCanceled(i, row.shares) \in Statement
  BY <1>1 DEF InsertCanceled, Cancellation, Statement
<1>4. /\ UpdateBalance(row.account, row.shares * row.limit) \in Statement
      /\ UpdatePosition(row.account, row.symbol, -row.shares) \in Statement
  BY <1>1 DEF UpdateBalance, UpdatePosition, Statement
<1> QED BY <1>2, <1>3, <1>4 DEF CancelStatements

\* Type correctness of a step of CancelSelectOrder.
LEMMA CancelSelectOrderTyped ==
  ASSUME TypeOK, NEW t \in Thread, CancelSelectOrder(t) PROVE TypeOK'
<1>0. ControlTyped /\ EngineTyped /\ PendingTyped /\ HistoryTyped
  BY TypeParts
<1> DEFINE i == ItemOf(t).id
           row == db.transactions[i]
<1>1. /\ pc[t] \in LabelsOf["query"] \cup LabelsOf["cancel"] /\ pc[t] = "cancel"
      /\ pending[t] = << >>
  BY DEF CancelSelectOrder, At, LabelsOf
<1>2. ControlTyped' /\ PendingTyped'
  <2>1. CASE (\E msg \in Message : Finish(t, Answer(msg))) /\ UNCHANGED pending
    BY <1>1, <2>1, IdTyped, AnswerTyped, QuietFinish
  <2>2. ASSUME i \in DOMAIN db.transactions,
               pending' = [pending EXCEPT ![t] = CancelStatements(i, row)],
               NEW locals, locals = [local[t] EXCEPT !.remaining = row.shares],
               Continue(t, "cancelExecuted", locals)
        PROVE  ControlTyped' /\ PendingTyped'
    <3>1. row \in Order /\ i \in Nat
      BY <2>2, <1>1, IdTyped
    <3>2. locals \in Local
      BY <3>1, <2>2, <1>1, IdTyped DEF Local, Order
    <3>3. "cancelExecuted" \in LabelsOf[ItemOf(t).kind] \ Starts
      <4>1. ItemOf(t).kind = "cancel"
        BY <1>1, IdKind DEF LabelsOf
      <4> QED BY <4>1 DEF LabelsOf, Starts
    <3>4. CancelStatements(i, row) \in Seq(Statement)
      BY <3>1, CancelStatementsTyped
    <3> QED BY <1>1, <2>2, <3>2, <3>3, <3>4, IdTyped, ComposeContinue
  <2> QED BY <2>1, <2>2 DEF CancelSelectOrder, Message
<1> QED BY <1>0, <1>2, TypeParts DEF CancelSelectOrder, EngineTyped, HistoryTyped, history

\* Type correctness of a step of CancelSelectExecuted.
LEMMA CancelSelectExecutedTyped ==
  ASSUME TypeOK, NEW t \in Thread, CancelSelectExecuted(t) PROVE TypeOK'
<1>0. ControlTyped /\ EngineTyped /\ PendingTyped /\ HistoryTyped
  BY TypeParts
<1>1. /\ pc[t] \in LabelsOf["query"] \cup LabelsOf["cancel"]
      /\ pending[t] = << >> /\ UNCHANGED pending
  BY DEF CancelSelectExecuted, At, LabelsOf
<1>2. "canceled" \in Status /\ local[t].remaining \in Int
  BY <1>1, IdTyped DEF Local, Status
<1>3. ControlTyped' /\ PendingTyped'
  BY <1>1, <1>2, IdTyped, ReportTyped, QuietFinish DEF CancelSelectExecuted
<1> QED BY <1>0, <1>3, TypeParts DEF CancelSelectExecuted, EngineTyped, HistoryTyped, history

-----------------------------------------------------------------------------

\* The engine starts with every variable in its type.
LEMMA InitTyped == Init => TypeOK
<1> SUFFICES ASSUME Init PROVE TypeOK
  OBVIOUS
<1>1. EngineTyped
  BY SeedAssumption, MaxRequestsAssumption DEF Init, EngineTyped
<1>2. ControlTyped
  <2>1. NoLocal \in Local
    BY DEF NoLocal, Local, Status
  <2>2. ControlOK
    BY DEF Init, ControlOK, Granting
  <2> QED BY <2>1, <2>2 DEF Init, ControlTyped, Label
<1>3. PendingTyped
  BY DEF Init, PendingTyped, SendingOK
<1>4. HistoryTyped
  <2>1. /\ IsTable(Seed.accounts, Account, Int)
        /\ IsTable(Seed.positions, Account \X Symbol, Int)
    BY SeedAssumption DEF IsDatabase
  <2>2. /\ paidIn.cash \in [Account -> Int]
        /\ paidIn.shares \in [Account \X Symbol -> Int]
        /\ paidIn = [cash |-> paidIn.cash, shares |-> paidIn.shares]
    BY <2>1 DEF Init, IsTable
  <2> QED BY <2>2 DEF Init, HistoryTyped
<1> QED BY <1>1, <1>2, <1>3, <1>4, TypeParts

\* Every step keeps the type invariant.
LEMMA NextTyped == TypeOK /\ [Next]_vars => TypeOK'
<1> SUFFICES ASSUME TypeOK, [Next]_vars PROVE TypeOK'
  OBVIOUS
<1>1. ASSUME NEW t \in Thread, Receive(t) PROVE TypeOK'
  BY <1>1, ReceiveTyped
<1>2. ASSUME NEW t \in Thread, Step(t) PROVE TypeOK'
  BY <1>2, ExecTyped, CreateAccountTyped, CreateSymbolTyped, GrantSelectAccountTyped,
     GrantSelectPositionTyped, GrantInsertPositionTyped, GrantUpdatePositionTyped,
     OrderSelectAccountTyped, OrderSelectSymbolTyped, OrderSelectPositionTyped,
     OrderInsertPositionTyped, OpenSellTyped, BuySelectAskTyped, SellSelectBidTyped,
     CommitTyped, QuerySelectOrderTyped, QuerySelectCanceledTyped, QuerySelectExecutedTyped,
     CancelSelectOrderTyped, CancelSelectExecutedTyped, TerminateTyped
     DEF Step, Raise
<1>3. CASE UNCHANGED vars
  BY <1>3, TypeParts DEF vars, control, history, EngineTyped, ControlTyped, ControlOK,
     PendingTyped, SendingOK, HistoryTyped
<1> QED BY <1>1, <1>2, <1>3 DEF Next, Stopped

\* Whatever the clients send and however the statements of the workers interleave,
\* every variable keeps its type, every worker is inside the item it handles, and
\* composed statements wait only where the code sends them.
THEOREM TypeCorrect == Spec => []TypeOK
BY InitTyped, NextTyped, PTL DEF Spec

-----------------------------------------------------------------------------
(* Every match is within what its two orders asked for, and no statement   *)
(* ever violates a foreign key.                                            *)
(*                                                                         *)
(* TradesAreFair is not inductive: the matching loop compares limits and   *)
(* signs of a row another worker may have changed, and of the item it is   *)
(* handling.  What makes it hold is that no order ever changes sides       *)
(* (OrdersKeepSides), however stale the rows behind an UPDATE.             *)

\* What OrdersKeepSides says of worker t.
KeepsSides(t) == UpdatesOnSide(t) /\ InsertsLast(t) /\ MatchingOwn(t)

\* Neither worker u nor what it has to send changes.
SameWorker(u) ==
  pc'[u] = pc[u] /\ todo'[u] = todo[u] /\ local'[u] = local[u] /\ pending'[u] = pending[u]
OnlyWorker(t) == \A u \in Thread \ {t} : SameWorker(u)

SameRows   == db'.transactions = db.transactions
RowsKept   == KeepsRows(db'.transactions, db.transactions)

\* A worker that does nothing keeps its side while rows keep what was ordered.
LEMMA OthersKeepSides ==
  ASSUME TypeOK, NEW u \in Thread, KeepsSides(u), SameWorker(u), RowsKept, alive' => alive
  PROVE  KeepsSides(u)'
<1>0. db.transactions \in Seq(Order) /\ db'.transactions \in Seq(Order)
  BY TypeParts DEF EngineTyped, IsDatabase, RowsKept, KeepsRows
<1>1. \A i \in DOMAIN db.transactions :
        /\ i \in DOMAIN db'.transactions
        /\ db'.transactions[i].account = db.transactions[i].account
        /\ db'.transactions[i].symbol = db.transactions[i].symbol
        /\ db'.transactions[i].limit = db.transactions[i].limit
        /\ db'.transactions[i].amount = db.transactions[i].amount
  BY <1>0, LenProperties DEF RowsKept, KeepsRows
<1>2. UpdatesOnSide(u)'
  BY <1>1 DEF KeepsSides, UpdatesOnSide, SameWorker
<1>3. InsertsLast(u)'
  BY DEF KeepsSides, InsertsLast, SameWorker, ItemOf
<1>4. MatchingOwn(u)'
  BY <1>1 DEF KeepsSides, MatchingOwn, Inserting, OwnRow, SameWorker, ItemOf
<1> QED BY <1>2, <1>3, <1>4 DEF KeepsSides

\* A match made before stays fair while rows keep what was ordered.
LEMMA StaysFair ==
  ASSUME NEW rows \in Seq(Order), NEW then, KeepsRows(then, rows), NEW k, Fair(rows, k)
  PROVE  Fair(then, k)
<1>1. \A i \in DOMAIN rows : /\ i \in DOMAIN then
                             /\ then[i].symbol = rows[i].symbol
                             /\ then[i].limit = rows[i].limit
                             /\ then[i].amount = rows[i].amount
  BY LenProperties DEF KeepsRows
<1> QED BY <1>1 DEF Fair

\* Rows that do not change keep what was ordered.
LEMMA SameRowsKept == ASSUME TypeOK, SameRows PROVE RowsKept
<1>1. db.transactions \in Seq(Order)
  BY TypeParts DEF EngineTyped, IsDatabase
<1> QED BY <1>1, LenProperties DEF SameRows, RowsKept, KeepsRows

\* The inductive invariant.
TradeInv == TypeOK /\ OrdersKeepSides /\ TradesAreFair

\* When no row changes, it is enough to look at the worker that moves.
LEMMA OneWorkerSides ==
  ASSUME TradeInv, NEW t \in Thread, OnlyWorker(t), SameRows, alive' => alive, KeepsSides(t)'
  PROVE  OrdersKeepSides'
<1>0. RowsKept
  BY SameRowsKept DEF TradeInv
<1>1. \A u \in Thread : KeepsSides(u)'
  <2> SUFFICES ASSUME NEW u \in Thread, u # t PROVE KeepsSides(u)'
    OBVIOUS
  <2>1. KeepsSides(u)
    BY DEF TradeInv, OrdersKeepSides, KeepsSides
  <2> QED BY <1>0, <2>1, OthersKeepSides DEF TradeInv, OnlyWorker
<1>2. RowsOnSide'
  BY DEF TradeInv, OrdersKeepSides, RowsOnSide, SameRows
<1> QED BY <1>1, <1>2 DEF OrdersKeepSides, KeepsSides

\* The matches made before stay fair.
LEMMA StayFair ==
  ASSUME TradeInv, RowsKept
  PROVE  \A n \in DOMAIN trades : Fair(db'.transactions, trades[n])
<1>1. db.transactions \in Seq(Order)
  BY TypeParts DEF TradeInv, EngineTyped, IsDatabase
<1> QED BY <1>1, StaysFair DEF TradeInv, TradesAreFair, RowsKept

\* When no row changes and no match is decided either, matches stay fair too.
LEMMA OneWorker ==
  ASSUME TradeInv, NEW t \in Thread, OnlyWorker(t), SameRows, UNCHANGED trades,
         alive' => alive, KeepsSides(t)'
  PROVE  OrdersKeepSides' /\ TradesAreFair'
<1>1. RowsKept
  BY SameRowsKept DEF TradeInv
<1>2. \A n \in DOMAIN trades : Fair(db'.transactions, trades[n])
  BY <1>1, StayFair
<1> QED BY <1>2, OneWorkerSides DEF TradesAreFair

\* A worker out of the loop with nothing to send.
LEMMA AsideKeepsSides ==
  ASSUME NEW t \in Thread, pending'[t] = << >>, pc'[t] # "match"
  PROVE  KeepsSides(t)'
BY DEF KeepsSides, UpdatesOnSide, InsertsLast, MatchingOwn

\* A worker that moves out of the loop with nothing to send keeps the invariant.
LEMMA Aside ==
  ASSUME TradeInv, NEW t \in Thread, OnlyWorker(t), SameRows, UNCHANGED <<alive, trades>>,
         pending'[t] = << >>, pc'[t] # "match"
  PROVE  OrdersKeepSides' /\ TradesAreFair'
BY OneWorker, AsideKeepsSides

\* How an item ends and goes on, for one worker.
LEMMA FinishAside ==
  ASSUME TypeOK, NEW t \in Thread, pc[t] # "idle", NEW result, Finish(t, result), UNCHANGED pending
  PROVE  OnlyWorker(t) /\ pc'[t] # "match"
<1>0. ControlTyped
  BY TypeParts
<1>1. todo[t] # << >> /\ todo[t] \in Seq(RequestItem)
  BY <1>0, ItemAt DEF ControlTyped
<1>2. Tail(todo[t]) \in Seq(RequestItem)
  BY <1>1, HeadTailProperties
<1>3. pc'[t] = StartOf(Tail(todo[t]))
  BY <1>0 DEF Finish, ControlTyped
<1>4. pc'[t] # "match"
  BY <1>2, <1>3, StartTyped DEF Starts
<1> QED BY <1>0, <1>4 DEF Finish, ControlTyped, OnlyWorker, SameWorker

\* How an item goes on, for one worker.
LEMMA ContinueAside ==
  ASSUME TypeOK, NEW t \in Thread, NEW label, NEW locals, Continue(t, label, locals),
         \A u \in Thread \ {t} : pending'[u] = pending[u]
  PROVE  OnlyWorker(t) /\ pc'[t] = label /\ todo'[t] = todo[t] /\ local'[t] = locals
<1>0. ControlTyped
  BY TypeParts
<1> QED BY <1>0 DEF Continue, ControlTyped, OnlyWorker, SameWorker

-----------------------------------------------------------------------------
(* The actions that neither change a row nor decide a match.               *)

\* An escaping exception leaves the rows, and what was on its way is lost.
LEMMA TerminateSides ==
  ASSUME TradeInv, Terminate
  PROVE  OrdersKeepSides' /\ TradesAreFair'
<1>1. /\ UNCHANGED <<db, pc, todo, local, trades>> /\ ~alive'
      /\ pending' = [u \in Thread |-> << >>]
  BY DEF Terminate, control, history
<1>2. RowsOnSide' /\ TradesAreFair'
  BY <1>1 DEF TradeInv, OrdersKeepSides, RowsOnSide, TradesAreFair, Fair
<1>3. ASSUME NEW u \in Thread PROVE UpdatesOnSide(u)' /\ InsertsLast(u)' /\ MatchingOwn(u)'
  <2>1. MatchingOwn(u)
    BY DEF TradeInv, OrdersKeepSides
  <2> QED BY <1>1, <2>1 DEF UpdatesOnSide, InsertsLast, MatchingOwn, ItemOf
<1> QED BY <1>2, <1>3 DEF OrdersKeepSides

\* A request taken starts outside the loop.
LEMMA ReceiveSides ==
  ASSUME TradeInv, NEW t \in Thread, Receive(t)
  PROVE  OrdersKeepSides' /\ TradesAreFair'
<1>0. ControlTyped /\ PendingTyped
  BY TypeParts DEF TradeInv
<1>1. PICK doc \in Document : /\ todo' = [todo EXCEPT ![t] = doc]
                              /\ pc' = [pc EXCEPT ![t] = StartOf(doc)]
  BY DEF Receive
<1>2. doc \in Seq(RequestItem)
  BY DocumentAssumption
<1>3. pc'[t] = StartOf(doc)
  BY <1>0, <1>1 DEF ControlTyped
<1>4. pc'[t] # "match"
  BY <1>2, <1>3, StartTyped DEF Starts
<1>5. OnlyWorker(t)
  BY <1>0, <1>1 DEF OnlyWorker, SameWorker, Receive, ControlTyped
<1> QED BY <1>4, <1>5, Aside DEF Receive, At, SameRows, history

\* Noting an account's result stays in create_symbol or ends its item.
LEMMA NoteAside ==
  ASSUME TypeOK, NEW t \in Thread, pc[t] # "idle", NEW msg, Note(t, msg), UNCHANGED pending
  PROVE  OnlyWorker(t) /\ pc'[t] # "match"
<1>1. CASE \E result : Finish(t, result)
  BY <1>1, FinishAside
<1>2. CASE \E locals : Continue(t, "grant", locals)
  BY <1>2, ContinueAside
<1> QED BY <1>1, <1>2 DEF Note

\* create_account and create_symbol neither match nor touch a row.
LEMMA CreateSides ==
  ASSUME TradeInv, NEW t \in Thread,
         \/ CreateAccount(t) \/ CreateSymbol(t) \/ GrantSelectAccount(t)
         \/ GrantSelectPosition(t) \/ GrantInsertPosition(t) \/ GrantUpdatePosition(t)
  PROVE  OrdersKeepSides' /\ TradesAreFair'
<1>0. IsDatabase(db)
  BY TypeParts DEF TradeInv, EngineTyped
<1>1. SameRows /\ UNCHANGED <<alive, trades, pending>> /\ pending[t] = << >> /\ pc[t] # "idle"
  BY <1>0 DEF CreateAccount, CreateSymbol, GrantSelectAccount, GrantSelectPosition,
     GrantInsertPosition, GrantUpdatePosition, Apply, UpdatePosition, SameRows, IsDatabase,
     history, At
<1>2. OnlyWorker(t) /\ pc'[t] # "match"
  <2>1. CASE \E result : Finish(t, result)
    BY <1>1, <2>1, FinishAside DEF TradeInv
  <2>2. CASE \E msg : Note(t, msg)
    BY <1>1, <2>2, NoteAside DEF TradeInv
  <2>3. CASE \E label \in Granting : \E locals : Continue(t, label, locals)
    BY <1>1, <2>3, ContinueAside DEF TradeInv, Granting
  <2> QED
    BY <2>1, <2>2, <2>3 DEF CreateAccount, CreateSymbol, GrantSelectAccount,
       GrantSelectPosition, GrantInsertPosition, GrantUpdatePosition, Granting
<1> QED BY <1>1, <1>2, Aside

\* The statements of trans_order before the order is opened, and the answers to
\* requests that change nothing.
LEMMA ReadSides ==
  ASSUME TradeInv, NEW t \in Thread,
         \/ OrderSelectAccount(t) \/ OrderSelectSymbol(t) \/ Commit(t)
         \/ QuerySelectOrder(t) \/ QuerySelectExecuted(t) \/ CancelSelectExecuted(t)
  PROVE  OrdersKeepSides' /\ TradesAreFair'
<1>1. SameRows /\ UNCHANGED <<alive, trades, pending>> /\ pending[t] = << >> /\ pc[t] # "idle"
  BY DEF OrderSelectAccount, OrderSelectSymbol, Commit, QuerySelectOrder, QuerySelectExecuted,
     CancelSelectExecuted, SameRows, history, At
<1>2. OnlyWorker(t) /\ pc'[t] # "match"
  <2>1. CASE \E result : Finish(t, result)
    BY <1>1, <2>1, FinishAside DEF TradeInv
  <2>2. CASE \E label \in {"orderSymbol", "orderPosition", "queryCanceled", "queryExecuted"} :
                \E locals : Continue(t, label, locals)
    BY <1>1, <2>2, ContinueAside DEF TradeInv
  <2> QED
    BY <2>1, <2>2 DEF OrderSelectAccount, OrderSelectSymbol, Commit, QuerySelectOrder,
       QuerySelectExecuted, CancelSelectExecuted
<1> QED BY <1>1, <1>2, Aside

\* A query's second SELECT goes on to the third, or its exception escapes.
LEMMA QuerySelectCanceledSides ==
  ASSUME TradeInv, NEW t \in Thread, QuerySelectCanceled(t)
  PROVE  OrdersKeepSides' /\ TradesAreFair'
<1>1. CASE Terminate
  BY <1>1, TerminateSides
<1>2. ASSUME NEW locals, Continue(t, "queryExecuted", locals),
             UNCHANGED <<db, alive, pending, history>>
      PROVE  OrdersKeepSides' /\ TradesAreFair'
  <2>1. OnlyWorker(t) /\ pc'[t] # "match"
    BY <1>2, ContinueAside DEF TradeInv
  <2> QED BY <1>2, <2>1, Aside DEF QuerySelectCanceled, At, SameRows, history
<1> QED BY <1>1, <1>2 DEF QuerySelectCanceled

-----------------------------------------------------------------------------
(* Opening and canceling.                                                  *)

\* What an order sets aside.
Charge == {st \in Statement : st.op \in {"updateBalance", "updatePosition"}}

\* The order's row is the last statement sent before its worker matches it.
LEMMA PlaceSides ==
  ASSUME TradeInv, NEW t \in Thread, pc[t] \in LabelsOf["order"], SameRows,
         UNCHANGED <<alive, trades>>,
         NEW charge \in Charge,
         pending' = [pending EXCEPT ![t] = << charge, InsertTransaction(NewOrder(ItemOf(t))) >>],
         Continue(t, "match", [local[t] EXCEPT !.remaining = ItemOf(t).amount])
  PROVE  OrdersKeepSides' /\ TradesAreFair'
<1> DEFINE sts == << charge, InsertTransaction(NewOrder(ItemOf(t))) >>
<1>0. PendingTyped
  BY TypeParts DEF TradeInv
<1>1. pending'[t] = sts /\ \A u \in Thread \ {t} : pending'[u] = pending[u]
  BY <1>0 DEF PendingTyped
<1>2. /\ OnlyWorker(t) /\ pc'[t] = "match" /\ todo'[t] = todo[t]
      /\ local'[t] = [local[t] EXCEPT !.remaining = ItemOf(t).amount]
  BY <1>1, ContinueAside DEF TradeInv
<1>3. ItemOf(t).amount \in Int /\ local'[t].remaining = ItemOf(t).amount
  BY <1>2, OrderTyped DEF TradeInv, Local
<1>4. /\ DOMAIN sts = 1..2 /\ Len(sts) = 2
      /\ sts[1] = charge
      /\ sts[2].op = "insertTransaction"
      /\ sts[2].row = NewOrder(ItemOf(t))
  BY DEF InsertTransaction
<1> HIDE DEF sts
<1>5. UpdatesOnSide(t)'
  BY <1>1, <1>4 DEF UpdatesOnSide, Charge
<1>6. InsertsLast(t)'
  <2>1. \A k \in DOMAIN sts : sts[k].op = "insertTransaction" => k = 2
    BY <1>4 DEF Charge
  <2>2. ItemOf(t)' = ItemOf(t)
    BY <1>2 DEF ItemOf
  <2>3. NewOrder(ItemOf(t))' = NewOrder(ItemOf(t))
    BY <2>2 DEF NewOrder
  <2> QED BY <1>1, <1>2, <1>4, <2>1, <2>3 DEF InsertsLast
<1>7. MatchingOwn(t)'
  <2>1. Inserting(t)'
    BY <1>1, <1>4 DEF Inserting
  <2>2. OnSide(local'[t].remaining, ItemOf(t)'.amount)
    BY <1>2, <1>3 DEF OnSide, ItemOf
  <2> QED BY <2>1, <2>2 DEF MatchingOwn
<1>8. KeepsSides(t)'
  BY <1>5, <1>6, <1>7 DEF KeepsSides
<1> QED BY <1>2, <1>8, OneWorker

\* A buy opened waits for its row, a sell goes on to read its holding.
LEMMA OpenOrderSides ==
  ASSUME TradeInv, NEW t \in Thread, pc[t] \in LabelsOf["order"], pending[t] = << >>,
         SameRows, UNCHANGED <<alive, trades>>, OpenOrder(t)
  PROVE  OrdersKeepSides' /\ TradesAreFair'
<1> DEFINE item == ItemOf(t)
           cost == item.amount * item.limit
<1>0. pc[t] # "idle"
  BY DEF LabelsOf
<1>1. CASE Finish(t, Answer("Insufficient balance!")) /\ UNCHANGED pending
  BY <1>0, <1>1, FinishAside, Aside DEF TradeInv
<1>2. CASE /\ pending' = [pending EXCEPT ![t] = << UpdateBalance(item.account, -cost),
                                                  InsertTransaction(NewOrder(item)) >>]
           /\ Continue(t, "match", [local[t] EXCEPT !.remaining = item.amount])
  <2>1. UpdateBalance(item.account, -cost) \in Charge
    BY OrderTyped DEF TradeInv, UpdateBalance, Statement, Charge
  <2> QED BY <1>2, <2>1, PlaceSides
<1>3. CASE Continue(t, "holding", local[t]) /\ UNCHANGED pending
  BY <1>3, ContinueAside, Aside DEF TradeInv
<1> QED BY <1>1, <1>2, <1>3 DEF OpenOrder, OpenBuy

\* The statements that may open an order.
LEMMA OpenSides ==
  ASSUME TradeInv, NEW t \in Thread,
         OrderSelectPosition(t) \/ OrderInsertPosition(t) \/ OpenSell(t)
  PROVE  OrdersKeepSides' /\ TradesAreFair'
<1>0. pc[t] \in LabelsOf["order"] /\ pending[t] = << >> /\ pc[t] # "idle"
  BY DEF OrderSelectPosition, OrderInsertPosition, OpenSell, At, LabelsOf
<1>1. IsDatabase(db)
  BY TypeParts DEF TradeInv, EngineTyped
<1>2. CASE OrderSelectPosition(t)
  <2>1. SameRows /\ UNCHANGED <<alive, trades>>
    BY <1>2 DEF OrderSelectPosition, SameRows, history
  <2>2. CASE OpenOrder(t)
    BY <1>0, <2>1, <2>2, OpenOrderSides
  <2>3. CASE Continue(t, "orderInsert", local[t]) /\ UNCHANGED pending
    BY <1>0, <2>1, <2>3, ContinueAside, Aside DEF TradeInv
  <2> QED BY <1>2, <2>2, <2>3 DEF OrderSelectPosition
<1>3. CASE OrderInsertPosition(t)
  <2>1. CASE Terminate
    BY <2>1, TerminateSides
  <2>2. CASE /\ db' = [db EXCEPT !.positions = Insert(@, OrderPosition(t), 0)]
             /\ OpenOrder(t)
             /\ UNCHANGED <<alive, history>>
    <3>1. SameRows /\ UNCHANGED <<alive, trades>>
      BY <1>1, <2>2 DEF SameRows, history, IsDatabase
    <3> QED BY <1>0, <2>2, <3>1, OpenOrderSides
  <2> QED BY <1>3, <2>1, <2>2 DEF OrderInsertPosition
<1>4. CASE OpenSell(t)
  <2> DEFINE item == ItemOf(t)
  <2>1. SameRows /\ UNCHANGED <<alive, trades>>
    BY <1>4 DEF OpenSell, SameRows, history
  <2>2. CASE Finish(t, Answer("Insufficient Shares!")) /\ UNCHANGED pending
    BY <1>0, <2>1, <2>2, FinishAside, Aside DEF TradeInv
  <2>3. CASE /\ pending' = [pending EXCEPT ![t] =
                  << UpdatePosition(item.account, item.symbol, item.amount),
                     InsertTransaction(NewOrder(item)) >>]
             /\ Continue(t, "match", [local[t] EXCEPT !.remaining = item.amount])
    <3>1. UpdatePosition(item.account, item.symbol, item.amount) \in Charge
      BY <1>0, OrderTyped DEF TradeInv, UpdatePosition, Statement, Charge
    <3> QED BY <1>0, <2>1, <2>3, <3>1, PlaceSides
  <2> QED BY <1>4, <2>2, <2>3 DEF OpenSell
<1> QED BY <1>2, <1>3, <1>4

\* What a cancellation composes changes a status and no shares of a row.
LEMMA CancelSelectOrderSides ==
  ASSUME TradeInv, NEW t \in Thread, CancelSelectOrder(t)
  PROVE  OrdersKeepSides' /\ TradesAreFair'
<1> DEFINE i == ItemOf(t).id
           row == db.transactions[i]
<1>0. PendingTyped
  BY TypeParts DEF TradeInv
<1>1. pc[t] = "cancel" /\ pending[t] = << >> /\ SameRows /\ UNCHANGED <<alive, trades>>
  BY DEF CancelSelectOrder, At, SameRows, history
<1>2. CASE (\E result : Finish(t, result)) /\ UNCHANGED pending
  BY <1>1, <1>2, FinishAside, Aside DEF TradeInv
<1>3. ASSUME NEW locals, Continue(t, "cancelExecuted", locals),
             pending' = [pending EXCEPT ![t] = CancelStatements(i, row)]
      PROVE  OrdersKeepSides' /\ TradesAreFair'
  <2>1. pending'[t] = CancelStatements(i, row) /\ \A u \in Thread \ {t} : pending'[u] = pending[u]
    BY <1>0, <1>3 DEF PendingTyped
  <2>2. OnlyWorker(t) /\ pc'[t] = "cancelExecuted"
    BY <1>3, <2>1, ContinueAside DEF TradeInv
  <2>3. \A k \in DOMAIN CancelStatements(i, row) :
          CancelStatements(i, row)[k].op \in {"updateCanceled", "insertCanceled",
                                              "updateBalance", "updatePosition"}
    <3> DEFINE NoSides(st) == st.op \in {"updateCanceled", "insertCanceled",
                                      "updateBalance", "updatePosition"}
    <3>1. \A x, y, z : NoSides(x) /\ NoSides(y) /\ NoSides(z)
            => \A k \in DOMAIN << x, y, z >> : NoSides(<< x, y, z >>[k])
      OBVIOUS
    <3>2. /\ NoSides(UpdateCanceled(i))
          /\ NoSides(InsertCanceled(i, row.shares))
          /\ NoSides(UpdateBalance(row.account, row.shares * row.limit))
          /\ NoSides(UpdatePosition(row.account, row.symbol, -row.shares))
      BY DEF UpdateCanceled, InsertCanceled, UpdateBalance, UpdatePosition
    <3> HIDE DEF NoSides
    <3>3. \A k \in DOMAIN CancelStatements(i, row) : NoSides(CancelStatements(i, row)[k])
      BY <3>1, <3>2 DEF CancelStatements
    <3> QED BY <3>3 DEF NoSides
  <2>4. KeepsSides(t)'
    BY <2>1, <2>2, <2>3 DEF KeepsSides, UpdatesOnSide, InsertsLast, MatchingOwn
  <2> QED BY <1>1, <2>2, <2>4, OneWorker
<1> QED BY <1>2, <1>3 DEF CancelSelectOrder

-----------------------------------------------------------------------------
(* A match.                                                                *)

\* The statements that open no order and take none to the other side.
OnItsSide(rows) ==
  {st \in Statement :
     /\ st.op # "insertTransaction"
     /\ st.op \in {"updateShares", "updateExecuted"} =>
          st.id \in DOMAIN rows /\ OnSide(st.shares, rows[st.id].amount)}

\* The statements on the two orders of a match leave both on their sides.
LEMMA FillOnItsSide ==
  ASSUME NEW rows \in Seq(Order), NEW r \in DOMAIN rows, NEW id \in DOMAIN rows,
         NEW row, row = rows[r], NEW left \in Int, NEW signed \in Int,
         OnSide(row.shares + signed, row.amount),
         OnSide(left - signed, rows[id].amount)
  PROVE  Fill(r, row, id, left, signed) \in Seq(OnItsSide(rows))
<1>1. row \in Order /\ r \in Nat /\ id \in Nat
  BY ElementOfSeq
<1>2. row.shares \in Int /\ row.limit \in Int
  BY <1>1 DEF Order
<1>3. Shrink(r, row.shares + signed, signed = left) \in OnItsSide(rows)
  BY <1>1, <1>2 DEF Shrink, UpdateShares, UpdateExecuted, Statement, OnItsSide
<1>4. (IF signed = left THEN UpdateExecuted(id, 0) ELSE UpdateShares(id, left - signed))
        \in OnItsSide(rows)
  <2>1. OnSide(0, rows[id].amount)
    BY DEF OnSide
  <2> QED BY <1>1, <2>1 DEF UpdateShares, UpdateExecuted, Statement, OnItsSide
<1>5. \A i \in Nat, n \in Int : InsertExecuted(i, row.limit, n) \in OnItsSide(rows)
  BY <1>2 DEF InsertExecuted, Execution, Statement, OnItsSide
<1>6. /\ InsertExecuted(r, row.limit, -signed) \in OnItsSide(rows)
      /\ InsertExecuted(id, row.limit, signed) \in OnItsSide(rows)
  BY <1>1, <1>5
<1>7. \A a, b, c, d \in OnItsSide(rows) : << a, b, c, d >> \in Seq(OnItsSide(rows))
  OBVIOUS
<1> QED BY <1>3, <1>4, <1>6, <1>7 DEF Fill

\* The statements that settle a match touch no row of TRANSACTIONS.
LEMMA SettleOnItsSide ==
  ASSUME NEW rows, NEW item \in OrderItem, NEW row \in Order, NEW executed \in Int
  PROVE  /\ SettleBuy(item, row, executed) \in Seq(OnItsSide(rows))
         /\ SettleSell(item, row, executed) \in Seq(OnItsSide(rows))
<1>1. /\ item.account \in Account /\ item.symbol \in Symbol
      /\ row.account \in Account
      /\ executed * (item.limit - row.limit) \in Int
      /\ executed * row.limit \in Int
      /\ -(executed * row.limit) \in Int
  BY DEF OrderItem, Order
<1>2. \A a \in Account, n \in Int : UpdateBalance(a, n) \in OnItsSide(rows)
  BY DEF UpdateBalance, Statement, OnItsSide
<1>3. \A a \in Account : UpdatePosition(a, item.symbol, executed) \in OnItsSide(rows)
  BY <1>1 DEF UpdatePosition, Statement, OnItsSide
<1>4. \A a, b, c \in OnItsSide(rows) : << a, b, c >> \in Seq(OnItsSide(rows))
  OBVIOUS
<1>5. SettleBuy(item, row, executed) \in Seq(OnItsSide(rows))
  BY <1>1, <1>2, <1>3, <1>4 DEF SettleBuy
<1>6. SettleSell(item, row, executed) \in Seq(OnItsSide(rows))
  BY <1>1, <1>2, <1>3, <1>4 DEF SettleSell
<1> QED BY <1>5, <1>6

TradeOf(t, r, executed) == [maker |-> r, taker |-> local[t].id, shares |-> executed,
                            price |-> db.transactions[r].limit]

\* A match on the two orders' own sides, and within their limits.
LEMMA MatchedSides ==
  ASSUME TradeInv, NEW t \in Thread, SameRows, UNCHANGED alive, OwnRow(t),
         NEW sts \in Seq(OnItsSide(db.transactions)), pending' = [pending EXCEPT ![t] = sts],
         NEW r, NEW executed, NEW remaining, OnSide(remaining, ItemOf(t).amount),
         Fair(db.transactions, TradeOf(t, r, executed)),
         Matched(t, r, executed, remaining)
  PROVE  OrdersKeepSides' /\ TradesAreFair'
<1>0. PendingTyped /\ HistoryTyped /\ ControlTyped
  BY TypeParts DEF TradeInv
<1>1. pending'[t] = sts /\ \A u \in Thread \ {t} : pending'[u] = pending[u]
  BY <1>0 DEF PendingTyped
<1>2. PICK label \in {"match", "commit"} :
        Continue(t, label, [local[t] EXCEPT !.remaining = remaining])
  BY DEF Matched
<1>3. /\ OnlyWorker(t) /\ pc'[t] = label /\ todo'[t] = todo[t]
      /\ local'[t] = [local[t] EXCEPT !.remaining = remaining]
  BY <1>1, <1>2, ContinueAside DEF TradeInv
<1>4. local'[t].remaining = remaining /\ local'[t].id = local[t].id
  BY <1>0, <1>3 DEF ControlTyped, Local
<1>5. \A k \in DOMAIN sts : sts[k] \in OnItsSide(db.transactions)
  OBVIOUS
<1>6. UpdatesOnSide(t)' /\ InsertsLast(t)'
  BY <1>1, <1>5 DEF UpdatesOnSide, InsertsLast, OnItsSide, SameRows
<1>7. MatchingOwn(t)'
  <2>1. ItemOf(t)' = ItemOf(t)
    BY <1>3 DEF ItemOf
  <2>2. OwnRow(t)'
    BY <1>4, <2>1 DEF OwnRow, SameRows
  <2> QED BY <1>4, <2>1, <2>2 DEF MatchingOwn
<1>8. OrdersKeepSides'
  BY <1>3, <1>6, <1>7, OneWorkerSides DEF KeepsSides
<1>9. TradesAreFair'
  <2>1. RowsKept
    BY SameRowsKept DEF TradeInv
  <2>2. \A n \in DOMAIN trades : Fair(db'.transactions, trades[n])
    BY <2>1, StayFair
  <2>3. Fair(db'.transactions, TradeOf(t, r, executed))
    BY DEF SameRows
  <2>4. trades \in Seq(Trade) /\ trades' = Append(trades, TradeOf(t, r, executed))
    BY <1>0 DEF HistoryTyped, Matched, TradeOf
  <2>5. /\ DOMAIN trades = 1..Len(trades)
        /\ DOMAIN trades' = 1..(Len(trades) + 1)
        /\ \A n \in 1..Len(trades) : trades'[n] = trades[n]
        /\ trades'[Len(trades) + 1] = TradeOf(t, r, executed)
    BY <2>4
  <2> QED BY <2>2, <2>3, <2>5 DEF TradesAreFair
<1> QED BY <1>8, <1>9

\* In the loop, with everything sent.
LEMMA AtMatch ==
  ASSUME TradeInv, NEW t \in Thread, At(t, "match")
  PROVE  /\ OnSide(local[t].remaining, ItemOf(t).amount)
         /\ OwnRow(t)
         /\ local[t].remaining \in Int
         /\ ItemOf(t) \in OrderItem
         /\ db.transactions \in Seq(Order)
         /\ \A i \in DOMAIN db.transactions :
              /\ db.transactions[i] \in Order
              /\ OnSide(db.transactions[i].shares, db.transactions[i].amount)
<1>1. pc[t] \in LabelsOf["order"] /\ pc[t] = "match" /\ pending[t] = << >> /\ alive
  BY DEF At, LabelsOf
<1>2. MatchingOwn(t) /\ ~Inserting(t)
  BY <1>1 DEF TradeInv, OrdersKeepSides, Inserting
<1>3. local[t].remaining \in Int /\ ItemOf(t) \in OrderItem
  BY <1>1, OrderTyped DEF TradeInv, Local
<1>4. db.transactions \in Seq(Order)
  BY TypeParts DEF TradeInv, EngineTyped, IsDatabase
<1>5. \A i \in DOMAIN db.transactions : db.transactions[i] \in Order
  BY <1>4, ElementOfSeq
<1> QED BY <1>1, <1>2, <1>3, <1>4, <1>5 DEF MatchingOwn, TradeInv, OrdersKeepSides, RowsOnSide

\* Leaving the loop without a match keeps the invariant.
LEMMA NoMatchSides ==
  ASSUME TradeInv, NEW t \in Thread, SameRows, UNCHANGED alive, pending[t] = << >>, NoMatch(t)
  PROVE  OrdersKeepSides' /\ TradesAreFair'
<1>1. OnlyWorker(t) /\ pc'[t] = "commit"
  BY ContinueAside DEF TradeInv, NoMatch
<1> QED BY <1>1, Aside DEF NoMatch

\* A buy matches no more than it wants, of a sell within its limit.
LEMMA BuySelectAskSides ==
  ASSUME TradeInv, NEW t \in Thread, BuySelectAsk(t)
  PROVE  OrdersKeepSides' /\ TradesAreFair'
<1> DEFINE item == ItemOf(t)
           left == local[t].remaining
           rows == db.transactions
<1>1. At(t, "match") /\ SameRows /\ UNCHANGED alive /\ pending[t] = << >> /\ item.amount > 0
  BY DEF BuySelectAsk, At, SameRows
<1>2. CASE NoMatch(t)
  BY <1>1, <1>2, NoMatchSides
<1>3. ASSUME NEW r \in Asks(db, item.symbol), NEW row, row = rows[r],
             NEW executed, executed = LesserOf(left, -row.shares),
             Crosses(item, row),
             pending' = [pending EXCEPT ![t] =
                           Fill(r, row, local[t].id, left, executed)
                             \o SettleBuy(item, row, executed)],
             Matched(t, r, executed, left - executed)
      PROVE  OrdersKeepSides' /\ TradesAreFair'
  <2>1. /\ r \in DOMAIN rows /\ row.shares < 0 /\ row.symbol = item.symbol
        /\ row \in Order /\ OnSide(row.shares, row.amount)
    BY <1>1, <1>3, AtMatch DEF Asks
  <2>2. /\ left \in Int /\ item \in OrderItem /\ OnSide(left, item.amount)
        /\ local[t].id \in DOMAIN rows
        /\ rows[local[t].id].symbol = item.symbol
        /\ rows[local[t].id].limit = item.limit
        /\ rows[local[t].id].amount = item.amount
    BY <1>1, AtMatch DEF OwnRow
  <2>3. row.shares \in Int /\ row.amount \in Int /\ row.limit \in Int /\ row.amount < 0
    BY <2>1 DEF Order, OnSide
  <2>4. left >= 0
    BY <1>1, <2>2 DEF OnSide
  <2>5. /\ executed \in Int /\ executed >= 0
        /\ executed <= left /\ executed <= -row.shares
    <3>1. -row.shares \in Int /\ -row.shares >= 0
      BY <2>1, <2>3
    <3>2. /\ executed \in {left, -row.shares}
          /\ executed <= left /\ executed <= -row.shares
      BY <1>3, <2>2, <3>1, LesserTyped
    <3> QED BY <2>2, <2>4, <3>1, <3>2
  <2>6. OnSide(row.shares + executed, row.amount)
    BY <2>3, <2>5 DEF OnSide
  <2>7. left - executed \in Int /\ OnSide(left - executed, item.amount)
    BY <1>1, <2>2, <2>5 DEF OnSide
  <2>8. Fill(r, row, local[t].id, left, executed) \in Seq(OnItsSide(rows))
    BY <1>1, <1>3, <2>1, <2>2, <2>5, <2>6, <2>7, FillOnItsSide, AtMatch
  <2>9. SettleBuy(item, row, executed) \in Seq(OnItsSide(rows))
    BY <2>1, <2>2, <2>5, SettleOnItsSide
  <2>10. Fill(r, row, local[t].id, left, executed) \o SettleBuy(item, row, executed)
           \in Seq(OnItsSide(rows))
    BY <2>8, <2>9, ConcatProperties
  <2>11. Fair(rows, TradeOf(t, r, executed))
    <3>1. row.limit <= item.limit
      BY <1>1, <1>3 DEF Crosses
    <3> QED BY <1>1, <1>3, <2>1, <2>2, <2>3, <2>5, <3>1 DEF Fair, TradeOf
  <2>12. OwnRow(t)
    BY <1>1, AtMatch
  <2> QED BY <1>1, <1>3, <2>7, <2>10, <2>11, <2>12, MatchedSides
<1> QED BY <1>2, <1>3 DEF BuySelectAsk

\* A sell matches no more than it wants, of a buy within its limit.
LEMMA SellSelectBidSides ==
  ASSUME TradeInv, NEW t \in Thread, SellSelectBid(t)
  PROVE  OrdersKeepSides' /\ TradesAreFair'
<1> DEFINE item == ItemOf(t)
           left == local[t].remaining
           rows == db.transactions
<1>1. At(t, "match") /\ SameRows /\ UNCHANGED alive /\ pending[t] = << >> /\ item.amount <= 0
  BY DEF SellSelectBid, At, SameRows
<1>2. CASE NoMatch(t)
  BY <1>1, <1>2, NoMatchSides
<1>3. ASSUME NEW r \in Bids(db, item.symbol), NEW row, row = rows[r],
             NEW executed, executed = LesserOf(-left, row.shares),
             Crosses(item, row),
             pending' = [pending EXCEPT ![t] =
                           Fill(r, row, local[t].id, left, -executed)
                             \o SettleSell(item, row, executed)],
             Matched(t, r, executed, left + executed)
      PROVE  OrdersKeepSides' /\ TradesAreFair'
  <2>1. /\ r \in DOMAIN rows /\ row.shares > 0 /\ row.symbol = item.symbol
        /\ row \in Order /\ OnSide(row.shares, row.amount)
    BY <1>1, <1>3, AtMatch DEF Bids
  <2>2. /\ left \in Int /\ item \in OrderItem /\ OnSide(left, item.amount)
        /\ local[t].id \in DOMAIN rows
        /\ rows[local[t].id].symbol = item.symbol
        /\ rows[local[t].id].limit = item.limit
        /\ rows[local[t].id].amount = item.amount
    BY <1>1, AtMatch DEF OwnRow
  <2>3. row.shares \in Int /\ row.amount \in Int /\ row.limit \in Int /\ row.amount > 0
    BY <2>1 DEF Order, OnSide
  <2>4. item.amount \in Int /\ left <= 0 /\ (item.amount = 0 => left = 0)
    BY <1>1, <2>2 DEF OnSide, OrderItem
  <2>5. /\ executed \in Int /\ executed >= 0
        /\ executed <= -left /\ executed <= row.shares
    <3>1. -left \in Int /\ -left >= 0
      BY <2>2, <2>4
    <3>2. /\ executed \in {-left, row.shares}
          /\ executed <= -left /\ executed <= row.shares
      BY <1>3, <2>3, <3>1, LesserTyped
    <3> QED BY <2>1, <2>3, <3>1, <3>2
  <2>6. -executed \in Int /\ OnSide(row.shares + (-executed), row.amount)
    BY <2>3, <2>5 DEF OnSide
  <2>7. /\ left + executed \in Int /\ OnSide(left + executed, item.amount)
        /\ OnSide(left - (-executed), item.amount)
    BY <1>1, <2>2, <2>4, <2>5 DEF OnSide
  <2>8. Fill(r, row, local[t].id, left, -executed) \in Seq(OnItsSide(rows))
    BY <1>1, <1>3, <2>1, <2>2, <2>5, <2>6, <2>7, FillOnItsSide, AtMatch
  <2>9. SettleSell(item, row, executed) \in Seq(OnItsSide(rows))
    BY <2>1, <2>2, <2>5, SettleOnItsSide
  <2>10. Fill(r, row, local[t].id, left, -executed) \o SettleSell(item, row, executed)
           \in Seq(OnItsSide(rows))
    BY <2>8, <2>9, ConcatProperties
  <2>11. Fair(rows, TradeOf(t, r, executed))
    <3>1. row.limit >= item.limit
      <4>1. ~(item.amount > 0)
        BY <1>1, <2>4
      <4> QED BY <1>3, <4>1 DEF Crosses
    <3> QED BY <1>1, <1>3, <2>1, <2>2, <2>3, <2>5, <3>1 DEF Fair, TradeOf
  <2>12. OwnRow(t)
    BY <1>1, AtMatch
  <2> QED BY <1>1, <1>3, <2>7, <2>10, <2>11, <2>12, MatchedSides
<1> QED BY <1>2, <1>3 DEF SellSelectBid

-----------------------------------------------------------------------------
(* Sending a statement.                                                    *)

\* The rows stay on their sides.
LEMMA ExecRows ==
  ASSUME TradeInv, NEW t \in Thread, Exec(t)
  PROVE  RowsKept /\ RowsOnSide'
<1> DEFINE st == Head(pending[t])
           rows == db.transactions
           then == db'.transactions
<1>0. IsDatabase(db) /\ rows \in Seq(Order)
  BY TypeParts DEF TradeInv, EngineTyped, IsDatabase
<1>1. pending[t] \in Seq(Statement) /\ pending[t] # << >>
  BY TypeParts DEF TradeInv, PendingTyped, Exec
<1>2. st \in Statement /\ st = pending[t][1] /\ 1 \in DOMAIN pending[t]
  BY <1>1, HeadTailProperties, LenProperties
<1>3. db' = Apply(st, db)
  BY DEF Exec
<1>4. /\ KeepsRows(then, rows)
      /\ st.op \in {"updateShares", "updateExecuted"} => SetsShares(then, rows, st.id, st.shares)
      /\ st.op = "insertTransaction" => then = Append(rows, st.row)
      /\ st.op \notin {"updateShares", "updateExecuted", "insertTransaction"}
           => KeepsShares(then, rows)
  BY <1>0, <1>2, <1>3, ApplyRows
<1>5. \A i \in 1..Len(rows) : OnSide(rows[i].shares, rows[i].amount)
  BY <1>0, LenProperties DEF TradeInv, OrdersKeepSides, RowsOnSide
<1>6. UpdatesOnSide(t) /\ InsertsLast(t)
  BY DEF TradeInv, OrdersKeepSides
<1>7. RowsOnSide'
  <2>1. CASE st.op \in {"updateShares", "updateExecuted"}
    <3>1. OnSide(st.shares, rows[st.id].amount)
      BY <1>2, <1>6, <2>1 DEF UpdatesOnSide
    <3>2. /\ KeepsRows(then, rows) /\ Len(then) = Len(rows)
          /\ \A j \in 1..Len(rows) : then[j].shares = IF j = st.id THEN st.shares ELSE rows[j].shares
      BY <1>4, <2>1 DEF SetsShares
    <3>3. \A j \in 1..Len(rows) : OnSide(then[j].shares, then[j].amount)
      BY <1>5, <3>1, <3>2 DEF KeepsRows
    <3> QED BY <3>2, <3>3, LenProperties DEF RowsOnSide, KeepsRows
  <2>2. CASE st.op = "insertTransaction"
    <3>1. then = Append(rows, st.row) /\ st.row = NewOrder(ItemOf(t)) /\ st.row \in Order
      BY <1>2, <1>4, <1>6, <2>2 DEF InsertsLast, Statement
    <3>2. OnSide(st.row.shares, st.row.amount)
      BY <3>1 DEF NewOrder, OnSide, Order
    <3>3. \A j \in 1..(Len(rows) + 1) : OnSide(then[j].shares, then[j].amount)
      BY <1>0, <1>5, <3>1, <3>2, AppendProperties
    <3> QED BY <1>0, <3>1, <3>3, AppendProperties, LenProperties DEF RowsOnSide
  <2>3. CASE st.op \notin {"updateShares", "updateExecuted", "insertTransaction"}
    <3>1. KeepsShares(then, rows)
      BY <1>4, <2>3
    <3>2. \A j \in 1..Len(rows) : OnSide(then[j].shares, then[j].amount)
      BY <1>5, <3>1 DEF KeepsShares, KeepsRows
    <3> QED BY <3>1, <3>2, LenProperties DEF RowsOnSide, KeepsShares, KeepsRows
  <2> QED BY <2>1, <2>2, <2>3
<1> QED BY <1>4, <1>7 DEF RowsKept

\* A statement sent keeps every worker's side of the invariant: an INSERT gives its
\* worker the order it matches, an UPDATE writes shares of the order's own side.
LEMMA ExecSides ==
  ASSUME TradeInv, NEW t \in Thread, Exec(t)
  PROVE  OrdersKeepSides' /\ TradesAreFair'
<1> DEFINE st == Head(pending[t])
           rest == Tail(pending[t])
<1>0. /\ ControlTyped /\ PendingTyped /\ db.transactions \in Seq(Order)
      /\ RowsKept /\ RowsOnSide'
  BY ExecRows, TypeParts DEF TradeInv, EngineTyped, IsDatabase
<1>1. /\ pending[t] \in Seq(Statement) /\ pending[t] # << >>
      /\ pending'[t] = rest /\ \A u \in Thread \ {t} : pending'[u] = pending[u]
  BY <1>0 DEF PendingTyped, Exec
<1>2. /\ st = pending[t][1]
      /\ Len(pending[t]) \in Nat /\ Len(rest) = Len(pending[t]) - 1
      /\ DOMAIN pending[t] = 1..Len(pending[t]) /\ 1 \in DOMAIN pending[t]
      /\ DOMAIN rest = 1..Len(rest)
      /\ \A k \in DOMAIN rest : k + 1 \in DOMAIN pending[t] /\ rest[k] = pending[t][k + 1]
  BY <1>1, HeadTailProperties, LenProperties
<1>3. UNCHANGED <<alive, pc, todo, trades>>
  BY DEF Exec, history
<1>4. \A u \in Thread : KeepsSides(u)
  BY DEF TradeInv, OrdersKeepSides, KeepsSides
<1>5. \A i \in DOMAIN db.transactions :
        /\ i \in DOMAIN db'.transactions
        /\ db'.transactions[i].account = db.transactions[i].account
        /\ db'.transactions[i].symbol = db.transactions[i].symbol
        /\ db'.transactions[i].limit = db.transactions[i].limit
        /\ db'.transactions[i].amount = db.transactions[i].amount
  BY <1>0, LenProperties DEF RowsKept, KeepsRows
<1> HIDE DEF st, rest
<1>6. KeepsSides(t)'
  <2>1. UpdatesOnSide(t)'
    BY <1>1, <1>2, <1>4, <1>5 DEF KeepsSides, UpdatesOnSide
  <2>2. InsertsLast(t)'
    <3>1. NewOrder(ItemOf(t))' = NewOrder(ItemOf(t))
      BY <1>3 DEF NewOrder, ItemOf
    <3> QED BY <1>1, <1>2, <1>3, <1>4, <3>1 DEF KeepsSides, InsertsLast
  <2>3. MatchingOwn(t)'
    <3>0. ItemOf(t)' = ItemOf(t) /\ MatchingOwn(t)
      BY <1>3, <1>4 DEF ItemOf, KeepsSides
    <3>1. CASE st.op = "insertTransaction"
      <4>1. /\ local' = [local EXCEPT ![t].id = Len(db.transactions) + 1]
            /\ db' = Apply(st, db)
        BY <3>1 DEF Exec, st
      <4>2. /\ local'[t].id = Len(db.transactions) + 1
            /\ local'[t].remaining = local[t].remaining
        BY <1>0, <4>1 DEF ControlTyped, Local
      <4>3. st.row = NewOrder(ItemOf(t)) /\ st \in Statement /\ st.row \in Order
        BY <1>1, <1>2, <1>4, <3>1, ElementOfSeq DEF KeepsSides, InsertsLast, Statement
      <4>4. db'.transactions = Append(db.transactions, st.row)
        BY <4>1, <3>1, <4>3, TypeParts, ApplyRows DEF TradeInv, EngineTyped
      <4>5. /\ Len(db.transactions) + 1 \in DOMAIN db'.transactions
            /\ db'.transactions[Len(db.transactions) + 1] = NewOrder(ItemOf(t))
        BY <1>0, <4>3, <4>4, AppendProperties, LenProperties
      <4>6. OwnRow(t)'
        BY <3>0, <4>2, <4>5 DEF OwnRow, NewOrder
      <4> QED BY <1>3, <3>0, <4>2, <4>6 DEF MatchingOwn
    <3>2. CASE st.op # "insertTransaction"
      <4>1. UNCHANGED local
        BY <3>2 DEF Exec, st
      <4>2. Inserting(t) => Inserting(t)'
        <5> SUFFICES ASSUME NEW k \in DOMAIN pending[t], pending[t][k].op = "insertTransaction"
                     PROVE  Inserting(t)'
          BY DEF Inserting
        <5>1. k # 1
          BY <1>2, <3>2
        <5>2. k - 1 \in DOMAIN rest /\ rest[k - 1] = pending[t][k]
          BY <1>2, <5>1
        <5> QED BY <1>1, <5>2 DEF Inserting
      <4>3. OwnRow(t) => OwnRow(t)'
        BY <1>5, <3>0, <4>1 DEF OwnRow
      <4> QED BY <1>3, <3>0, <4>1, <4>2, <4>3 DEF MatchingOwn
    <3> QED BY <3>1, <3>2
  <2> QED BY <2>1, <2>2, <2>3 DEF KeepsSides
<1>7. ASSUME NEW u \in Thread, u # t PROVE KeepsSides(u)'
  <2>1. SameWorker(u)
    BY <1>0, <1>1, <1>3, <1>7 DEF SameWorker, Exec, ControlTyped
  <2> QED BY <1>0, <1>3, <1>4, <2>1, OthersKeepSides DEF TradeInv
<1>8. OrdersKeepSides'
  BY <1>0, <1>6, <1>7 DEF OrdersKeepSides, KeepsSides
<1>9. TradesAreFair'
  BY <1>0, <1>3, StayFair DEF TradesAreFair
<1> QED BY <1>8, <1>9

-----------------------------------------------------------------------------

\* No order has been placed when the clients start.
LEMMA InitFair == Init => TradeInv
<1> SUFFICES ASSUME Init PROVE TradeInv
  OBVIOUS
<1>1. db.transactions = << >> /\ trades = << >>
  BY SeedAssumption DEF Init
<1>2. OrdersKeepSides
  BY <1>1 DEF Init, OrdersKeepSides, RowsOnSide, UpdatesOnSide, InsertsLast, MatchingOwn
<1>3. TradesAreFair
  BY <1>1 DEF TradesAreFair
<1> QED BY <1>2, <1>3, InitTyped DEF TradeInv

\* Every step keeps the inductive invariant.
LEMMA NextFair == TradeInv /\ [Next]_vars => TradeInv'
<1> SUFFICES ASSUME TradeInv, [Next]_vars PROVE OrdersKeepSides' /\ TradesAreFair'
  BY NextTyped DEF TradeInv
<1>1. ASSUME NEW t \in Thread, Receive(t) PROVE OrdersKeepSides' /\ TradesAreFair'
  BY <1>1, ReceiveSides
<1>2. ASSUME NEW t \in Thread, Step(t) PROVE OrdersKeepSides' /\ TradesAreFair'
  BY <1>2, ExecSides, CreateSides, ReadSides, OpenSides, BuySelectAskSides,
     SellSelectBidSides, QuerySelectCanceledSides, CancelSelectOrderSides, TerminateSides
     DEF Step, Raise
<1>3. CASE UNCHANGED vars
  BY <1>3 DEF TradeInv, OrdersKeepSides, RowsOnSide, UpdatesOnSide, InsertsLast, MatchingOwn,
     Inserting, OwnRow, ItemOf, TradesAreFair, vars, control, history
<1> QED BY <1>1, <1>2, <1>3 DEF Next, Stopped

\* Whatever stale rows the workers act on, no order changes sides: what is left of
\* a buy never goes below zero, nor of a sell above it.
THEOREM SidesKept == Spec => []OrdersKeepSides
<1>1. TradeInv => OrdersKeepSides
  BY DEF TradeInv
<1> QED BY <1>1, InitFair, NextFair, PTL DEF Spec

\* Every match ever made is between two orders on opposite sides of one symbol's
\* book, at the resting order's price and within the other's limit.
THEOREM TradesFair == Spec => []TradesAreFair
<1>1. TradeInv => TradesAreFair
  BY DEF TradeInv
<1> QED BY <1>1, InitFair, NextFair, PTL DEF Spec

-----------------------------------------------------------------------------
(* No statement violates a foreign key: the rows an INSERT names were seen *)
(* by the handler's SELECTs, and no statement ever deletes a row.          *)
(*                                                                         *)
(* ForeignKeysHold is not inductive: what the SELECTs found is only in the *)
(* place a worker has got to, and the INSERTs of rows are composed before  *)
(* they are sent.  SeenRows and SentNamesRows say that both are still so.  *)

Opening == {"orderPosition", "orderInsert", "holding"}

\* What worker t has seen in the tables and in its item it has not seen in vain.
SeenRows(t) ==
  /\ pc[t] \in Granting => ItemOf(t).symbol \in db.symbols
  /\ pc[t] \in Granting \ {"grant"} => /\ GrantOf(t).account \in DOMAIN db.accounts
                                       /\ GrantOf(t).shares >= 0
  /\ pc[t] = "grantUpdate" => Granted(t) \in DOMAIN db.positions
  /\ pc[t] \in Opening \cup {"orderSymbol"} => ItemOf(t).account \in DOMAIN db.accounts
  /\ pc[t] \in Opening => ItemOf(t).symbol \in db.symbols
  /\ pc[t] = "holding" => OrderPosition(t) \in DOMAIN db.positions /\ ItemOf(t).amount <= 0

\* The row that statement st, if it is an UPDATE of a balance or a position, is to
\* change and those it names, if it is an INSERT, are in the tables d.
NamesRows(st, d) ==
  /\ st.op = "updateBalance" => st.account \in DOMAIN d.accounts
  /\ st.op = "updatePosition" => <<st.account, st.symbol>> \in DOMAIN d.positions
  /\ st.op = "insertTransaction" =>
       <<st.row.account, st.row.symbol>> \in DOMAIN d.positions
  /\ st.op \in {"insertExecuted", "insertCanceled"} =>
       st.row.id \in DOMAIN d.transactions
SentNamesRows(t) == \A k \in DOMAIN pending[t] : NamesRows(pending[t][k], db)

KnowsRows(t) == SeenRows(t) /\ SentNamesRows(t)

KeyInv == TradeInv /\ ForeignKeysHold /\ \A t \in Thread : KnowsRows(t)

\* No row is deleted.
RowsStay ==
  /\ DOMAIN db.accounts \subseteq DOMAIN db'.accounts
  /\ db.symbols \subseteq db'.symbols
  /\ DOMAIN db.positions \subseteq DOMAIN db'.positions
  /\ DOMAIN db.transactions \subseteq DOMAIN db'.transactions

\* A worker that does nothing still knows what it knew.
LEMMA OthersKnow ==
  ASSUME NEW u \in Thread, KnowsRows(u), SameWorker(u), RowsStay
  PROVE  KnowsRows(u)'
<1>1. SeenRows(u)'
  BY DEF KnowsRows, SeenRows, SameWorker, RowsStay, ItemOf, GrantOf, Granted, OrderPosition
<1>2. SentNamesRows(u)'
  BY DEF KnowsRows, SentNamesRows, NamesRows, SameWorker, RowsStay
<1> QED BY <1>1, <1>2 DEF KnowsRows

\* It is enough to look at the worker that moves.
LEMMA OneKnows ==
  ASSUME KeyInv, NEW t \in Thread, OnlyWorker(t), RowsStay, KnowsRows(t)'
  PROVE  \A u \in Thread : KnowsRows(u)'
BY OthersKnow DEF KeyInv, OnlyWorker

\* When the tables stay, so do their keys.
LEMMA SameTablesKeys ==
  ASSUME KeyInv, UNCHANGED db
  PROVE  RowsStay /\ ForeignKeysHold'
BY DEF KeyInv, RowsStay, ForeignKeysHold

\* Where a worker need have seen nothing.
LEMMA AsideKnows ==
  ASSUME NEW t \in Thread, pending'[t] = << >>,
         pc'[t] \notin Granting \cup Opening \cup {"orderSymbol"}
  PROVE  KnowsRows(t)'
BY DEF KnowsRows, SeenRows, SentNamesRows, Opening, Granting

\* A worker that ends an item goes where it need have seen nothing.
LEMMA FinishKnows ==
  ASSUME KeyInv, NEW t \in Thread, pc[t] # "idle", pending[t] = << >>, UNCHANGED pending,
         NEW result, Finish(t, result)
  PROVE  OnlyWorker(t) /\ KnowsRows(t)'
<1>0. ControlTyped
  BY TypeParts DEF KeyInv, TradeInv
<1>1. todo[t] # << >> /\ todo[t] \in Seq(RequestItem)
  BY <1>0, ItemAt DEF ControlTyped
<1>2. Tail(todo[t]) \in Seq(RequestItem)
  BY <1>1, HeadTailProperties
<1>3. pc'[t] = StartOf(Tail(todo[t]))
  BY <1>0 DEF Finish, ControlTyped
<1>4. pc'[t] \in {"idle"} \cup Starts
  BY <1>2, <1>3, StartTyped
<1>5. KnowsRows(t)'
  BY <1>4, AsideKnows DEF Starts, Granting, Opening
<1> QED BY <1>5, FinishAside DEF KeyInv, TradeInv

\* A worker that goes on inside an item and composes nothing.
LEMMA ContinueKnows ==
  ASSUME KeyInv, NEW t \in Thread, pending[t] = << >>, UNCHANGED pending,
         NEW label, NEW locals, Continue(t, label, locals), SeenRows(t)'
  PROVE  OnlyWorker(t) /\ KnowsRows(t)'
<1>1. OnlyWorker(t)
  BY ContinueAside DEF KeyInv, TradeInv
<1>2. SentNamesRows(t)'
  BY DEF SentNamesRows
<1> QED BY <1>1, <1>2 DEF KnowsRows

\* A step of worker t that keeps the invariant.
KeepsKeys(t) == OnlyWorker(t) /\ RowsStay /\ ForeignKeysHold' /\ KnowsRows(t)'

\* What one worker's step keeps of the keys is enough for all of them.
LEMMA KeepsKeysEnough ==
  ASSUME KeyInv, NEW t \in Thread, KeepsKeys(t)
  PROVE  ForeignKeysHold' /\ \A u \in Thread : KnowsRows(u)'
BY OneKnows DEF KeepsKeys

-----------------------------------------------------------------------------
(* create_account and create_symbol.                                       *)

\* A request taken starts where nothing has been seen.
LEMMA ReceiveKeys == ASSUME KeyInv, NEW t \in Thread, Receive(t) PROVE KeepsKeys(t)
<1>0. ControlTyped /\ PendingTyped
  BY TypeParts DEF KeyInv, TradeInv
<1>1. PICK doc \in Document : /\ todo' = [todo EXCEPT ![t] = doc]
                              /\ pc' = [pc EXCEPT ![t] = StartOf(doc)]
  BY DEF Receive
<1>2. doc \in Seq(RequestItem)
  BY DocumentAssumption
<1>3. pc'[t] \in {"idle"} \cup Starts
  BY <1>0, <1>1, <1>2, StartTyped DEF ControlTyped
<1>4. OnlyWorker(t)
  BY <1>0, <1>1 DEF OnlyWorker, SameWorker, Receive, ControlTyped
<1>5. pending'[t] = << >> /\ UNCHANGED db
  BY DEF Receive, At
<1>6. KnowsRows(t)'
  BY <1>3, <1>5, AsideKnows DEF Starts, Granting, Opening
<1> QED BY <1>4, <1>5, <1>6, SameTablesKeys DEF KeepsKeys

\* What Insert does to the keys.
LEMMA InsertDomain == ASSUME NEW f, NEW k, NEW v PROVE DOMAIN Insert(f, k, v) = DOMAIN f \cup {k}
BY DEF Insert

\* An account more breaks no foreign key.
LEMMA CreateAccountKeys == ASSUME KeyInv, NEW t \in Thread, CreateAccount(t) PROVE KeepsKeys(t)
<1>1. pc[t] # "idle" /\ pending[t] = << >> /\ UNCHANGED pending
  BY DEF CreateAccount, At
<1>2. OnlyWorker(t) /\ KnowsRows(t)'
  BY <1>1, FinishKnows DEF CreateAccount
<1>3. RowsStay /\ ForeignKeysHold'
  <2>1. CASE UNCHANGED db
    BY <2>1, SameTablesKeys
  <2>2. ASSUME NEW a, NEW v, db' = [db EXCEPT !.accounts = Insert(@, a, v)]
        PROVE  RowsStay /\ ForeignKeysHold'
    <3>1. /\ DOMAIN db'.accounts = DOMAIN db.accounts \cup {a}
          /\ UNCHANGED <<db.symbols, db.positions, db.transactions, db.executed_trans,
                         db.canceled_trans>>
      BY <2>2, InsertDomain, TypeParts DEF KeyInv, TradeInv, EngineTyped, IsDatabase
    <3> QED BY <3>1 DEF KeyInv, RowsStay, ForeignKeysHold
  <2> QED BY <2>1, <2>2 DEF CreateAccount
<1> QED BY <1>2, <1>3 DEF KeepsKeys

\* The symbol is there when its accounts are looked at.
LEMMA CreateSymbolKeys == ASSUME KeyInv, NEW t \in Thread, CreateSymbol(t) PROVE KeepsKeys(t)
<1>1. pc[t] # "idle" /\ pending[t] = << >> /\ UNCHANGED pending
  BY DEF CreateSymbol, At
<1>2. /\ db'.symbols = db.symbols \cup {ItemOf(t).symbol}
      /\ UNCHANGED <<db.accounts, db.positions, db.transactions, db.executed_trans,
                     db.canceled_trans>>
  BY TypeParts DEF CreateSymbol, KeyInv, TradeInv, EngineTyped, IsDatabase
<1>3. RowsStay /\ ForeignKeysHold'
  BY <1>2 DEF KeyInv, RowsStay, ForeignKeysHold
<1>4. OnlyWorker(t) /\ KnowsRows(t)'
  <2>1. CASE Finish(t, NoResult)
    BY <1>1, <2>1, FinishKnows
  <2>2. CASE Continue(t, "grant", local[t])
    <3>1. pc'[t] = "grant" /\ todo'[t] = todo[t]
      BY <2>2, <1>1, ContinueAside DEF KeyInv, TradeInv
    <3>2. SeenRows(t)'
      BY <1>2, <3>1 DEF SeenRows, ItemOf, Opening
    <3> QED BY <1>1, <2>2, <3>2, ContinueKnows
  <2> QED BY <2>1, <2>2 DEF CreateSymbol
<1> QED BY <1>3, <1>4 DEF KeepsKeys

\* A result noted ends the item or goes on to the next account of the symbol.
LEMMA NoteKnows ==
  ASSUME KeyInv, NEW t \in Thread, pc[t] \in Granting, pending[t] = << >>, UNCHANGED pending,
         RowsStay, NEW msg, Note(t, msg)
  PROVE  OnlyWorker(t) /\ KnowsRows(t)'
<1>1. ItemOf(t).symbol \in db.symbols /\ pc[t] # "idle"
  BY DEF KeyInv, KnowsRows, SeenRows, Granting
<1>2. CASE \E result : Finish(t, result)
  BY <1>1, <1>2, FinishKnows
<1>3. ASSUME NEW locals, Continue(t, "grant", locals)
      PROVE  OnlyWorker(t) /\ KnowsRows(t)'
  <2>1. pc'[t] = "grant" /\ todo'[t] = todo[t]
    BY <1>3, ContinueAside DEF KeyInv, TradeInv
  <2>2. SeenRows(t)'
    BY <1>1, <2>1 DEF SeenRows, ItemOf, Opening, RowsStay
  <2> QED BY <1>3, <2>2, ContinueKnows
<1> QED BY <1>2, <1>3 DEF Note

\* The loop over a symbol's accounts goes on with the account and symbol it found.
LEMMA GrantSelectKeys ==
  ASSUME KeyInv, NEW t \in Thread, GrantSelectAccount(t) \/ GrantSelectPosition(t)
  PROVE  KeepsKeys(t)
<1>1. pc[t] \in {"grant", "grantPosition"} /\ pending[t] = << >> /\ UNCHANGED <<db, pending>>
  BY DEF GrantSelectAccount, GrantSelectPosition, At
<1>2. RowsStay /\ ForeignKeysHold'
  BY <1>1, SameTablesKeys
<1>3. OnlyWorker(t) /\ KnowsRows(t)'
  <2>1. CASE \E msg : Note(t, msg)
    BY <1>1, <1>2, <2>1, NoteKnows DEF Granting
  <2>2. ASSUME NEW label \in Granting, Continue(t, label, local[t]),
               GrantOf(t).account \in DOMAIN db.accounts, GrantOf(t).shares >= 0,
               label = "grantUpdate" => Granted(t) \in DOMAIN db.positions
        PROVE  OnlyWorker(t) /\ KnowsRows(t)'
    <3>1. pc'[t] = label /\ todo'[t] = todo[t] /\ local'[t] = local[t]
      BY <1>1, <2>2, ContinueAside DEF KeyInv, TradeInv
    <3>2. ItemOf(t).symbol \in db.symbols
      BY <1>1 DEF KeyInv, KnowsRows, SeenRows, Granting
    <3>3. SeenRows(t)'
      BY <1>1, <2>2, <3>1, <3>2 DEF SeenRows, ItemOf, GrantOf, Granted, Opening, Granting
    <3> QED BY <1>1, <2>2, <3>3, ContinueKnows
  <2>3. CASE GrantSelectAccount(t)
    BY <2>1, <2>2, <2>3 DEF GrantSelectAccount, Granting
  <2>4. CASE GrantSelectPosition(t)
    <3>1. GrantOf(t).account \in DOMAIN db.accounts /\ GrantOf(t).shares >= 0
      BY <2>4 DEF KeyInv, KnowsRows, SeenRows, Granting, GrantSelectPosition, At
    <3> QED BY <2>2, <2>4, <3>1 DEF GrantSelectPosition, Granting
  <2> QED BY <2>3, <2>4
<1> QED BY <1>2, <1>3 DEF KeepsKeys

\* A position inserted or updated is of an account and a symbol that are there.
LEMMA GrantWriteKeys ==
  ASSUME KeyInv, NEW t \in Thread, GrantInsertPosition(t) \/ GrantUpdatePosition(t)
  PROVE  KeepsKeys(t)
<1>1. /\ pc[t] \in {"grantInsert", "grantUpdate"} /\ pending[t] = << >> /\ UNCHANGED pending
      /\ Note(t, "Success")
  BY DEF GrantInsertPosition, GrantUpdatePosition, At
<1>2. ItemOf(t).symbol \in db.symbols /\ GrantOf(t).account \in DOMAIN db.accounts
  BY <1>1 DEF KeyInv, KnowsRows, SeenRows, Granting
<1>3. IsDatabase(db)
  BY TypeParts DEF KeyInv, TradeInv, EngineTyped
<1>4. RowsStay /\ ForeignKeysHold'
  <2>1. CASE UNCHANGED db
    BY <2>1, SameTablesKeys
  <2>2. CASE db' = [db EXCEPT !.positions = Insert(@, Granted(t), GrantOf(t).shares)]
    <3>1. /\ DOMAIN db'.positions = DOMAIN db.positions \cup {Granted(t)}
          /\ UNCHANGED <<db.accounts, db.symbols, db.transactions, db.executed_trans,
                         db.canceled_trans>>
      BY <1>3, <2>2, InsertDomain DEF IsDatabase
    <3> QED BY <1>2, <3>1 DEF KeyInv, RowsStay, ForeignKeysHold, Granted
  <2>3. CASE db' = Apply(UpdatePosition(GrantOf(t).account, ItemOf(t).symbol,
                                        GrantOf(t).shares), db)
    <3>1. /\ DOMAIN db'.positions = DOMAIN db.positions
          /\ UNCHANGED <<db.accounts, db.symbols, db.transactions, db.executed_trans,
                         db.canceled_trans>>
      BY <1>3, <2>3 DEF IsDatabase, Apply, UpdatePosition
    <3> QED BY <3>1 DEF KeyInv, RowsStay, ForeignKeysHold
  <2> QED BY <2>1, <2>2, <2>3 DEF GrantInsertPosition, GrantUpdatePosition
<1>5. OnlyWorker(t) /\ KnowsRows(t)'
  BY <1>1, <1>4, NoteKnows DEF Granting
<1> QED BY <1>4, <1>5 DEF KeepsKeys

-----------------------------------------------------------------------------
(* trans_order.                                                            *)

\* An escaping exception leaves the tables, and what was on its way is lost.
LEMMA TerminateKeys ==
  ASSUME KeyInv, Terminate
  PROVE  ForeignKeysHold' /\ \A u \in Thread : KnowsRows(u)'
<1>1. UNCHANGED <<db, pc, todo, local>> /\ pending' = [u \in Thread |-> << >>]
  BY DEF Terminate, control
<1>2. ASSUME NEW u \in Thread PROVE KnowsRows(u)'
  <2>1. SeenRows(u)
    BY DEF KeyInv, KnowsRows
  <2> QED BY <1>1, <2>1 DEF KnowsRows, SeenRows, SentNamesRows, ItemOf, GrantOf, Granted, OrderPosition
<1> QED BY <1>1, <1>2, SameTablesKeys

\* The order's account and symbol are there when it goes on.
LEMMA OrderSelectKeys ==
  ASSUME KeyInv, NEW t \in Thread, OrderSelectAccount(t) \/ OrderSelectSymbol(t)
  PROVE  KeepsKeys(t)
<1>1. /\ pc[t] \in {"order", "orderSymbol"} /\ pending[t] = << >> /\ UNCHANGED <<db, pending>>
      /\ pc[t] # "idle"
  BY DEF OrderSelectAccount, OrderSelectSymbol, At
<1>2. OnlyWorker(t) /\ KnowsRows(t)'
  <2>1. CASE \E result : Finish(t, result)
    BY <1>1, <2>1, FinishKnows
  <2>2. ASSUME NEW locals, Continue(t, "orderSymbol", locals),
               ItemOf(t).account \in DOMAIN db.accounts
        PROVE  OnlyWorker(t) /\ KnowsRows(t)'
    <3>1. pc'[t] = "orderSymbol" /\ todo'[t] = todo[t]
      BY <1>1, <2>2, ContinueAside DEF KeyInv, TradeInv
    <3>2. SeenRows(t)'
      BY <1>1, <2>2, <3>1 DEF SeenRows, ItemOf, Granting, Opening
    <3> QED BY <1>1, <2>2, <3>2, ContinueKnows
  <2>3. ASSUME Continue(t, "orderPosition", local[t]), pc[t] = "orderSymbol",
               ItemOf(t).symbol \in db.symbols
        PROVE  OnlyWorker(t) /\ KnowsRows(t)'
    <3>1. pc'[t] = "orderPosition" /\ todo'[t] = todo[t]
      BY <1>1, <2>3, ContinueAside DEF KeyInv, TradeInv
    <3>2. ItemOf(t).account \in DOMAIN db.accounts
      BY <2>3 DEF KeyInv, KnowsRows, SeenRows
    <3>3. SeenRows(t)'
      BY <1>1, <2>3, <3>1, <3>2 DEF SeenRows, ItemOf, Granting, Opening
    <3> QED BY <1>1, <2>3, <3>3, ContinueKnows
  <2> QED BY <2>1, <2>2, <2>3 DEF OrderSelectAccount, OrderSelectSymbol, At
<1> QED BY <1>1, <1>2, SameTablesKeys DEF KeepsKeys

\* A row on its way names a position that is there.
LEMMA PlaceKnows ==
  ASSUME KeyInv, NEW t \in Thread, OrderPosition(t) \in DOMAIN db'.positions,
         NEW charge \in Charge, NamesRows(charge, db'), NEW locals, Continue(t, "match", locals),
         pending' = [pending EXCEPT ![t] = << charge, InsertTransaction(NewOrder(ItemOf(t))) >>]
  PROVE  OnlyWorker(t) /\ KnowsRows(t)'
<1> DEFINE sts == << charge, InsertTransaction(NewOrder(ItemOf(t))) >>
<1>0. PendingTyped
  BY TypeParts DEF KeyInv, TradeInv
<1>1. pending'[t] = sts /\ \A u \in Thread \ {t} : pending'[u] = pending[u]
  BY <1>0 DEF PendingTyped
<1>2. OnlyWorker(t) /\ pc'[t] = "match"
  BY <1>1, ContinueAside DEF KeyInv, TradeInv
<1>3. /\ DOMAIN sts = 1..2 /\ sts[1] = charge
      /\ sts[2].op = "insertTransaction" /\ sts[2].row = NewOrder(ItemOf(t))
  BY DEF InsertTransaction
<1>4. <<sts[2].row.account, sts[2].row.symbol>> = OrderPosition(t)
  BY <1>3 DEF NewOrder, OrderPosition
<1> HIDE DEF sts
<1>5. NamesRows(sts[1], db') /\ NamesRows(sts[2], db')
  BY <1>3, <1>4 DEF NamesRows, Charge
<1>6. SentNamesRows(t)'
  BY <1>1, <1>3, <1>5 DEF SentNamesRows
<1>7. SeenRows(t)'
  BY <1>2 DEF SeenRows, Granting, Opening
<1> QED BY <1>2, <1>6, <1>7 DEF KnowsRows

\* An order with a position is opened, refused, or goes on to read its holding.
LEMMA OpenOrderKnows ==
  ASSUME KeyInv, NEW t \in Thread, pc[t] \in {"orderPosition", "orderInsert"},
         pending[t] = << >>, RowsStay, OrderPosition(t) \in DOMAIN db'.positions, OpenOrder(t)
  PROVE  OnlyWorker(t) /\ KnowsRows(t)'
<1> DEFINE item == ItemOf(t)
           cost == item.amount * item.limit
<1>0. pc[t] # "idle" /\ pc[t] \in LabelsOf["order"]
  BY DEF LabelsOf
<1>1. CASE Finish(t, Answer("Insufficient balance!")) /\ UNCHANGED pending
  BY <1>0, <1>1, FinishKnows
<1>2. CASE /\ pending' = [pending EXCEPT ![t] = << UpdateBalance(item.account, -cost),
                                                  InsertTransaction(NewOrder(item)) >>]
           /\ Continue(t, "match", [local[t] EXCEPT !.remaining = item.amount])
  <2>1. UpdateBalance(item.account, -cost) \in Charge
    BY <1>0, OrderTyped DEF KeyInv, TradeInv, UpdateBalance, Statement, Charge
  <2>2. item.account \in DOMAIN db'.accounts
    BY DEF KeyInv, KnowsRows, SeenRows, Opening, RowsStay
  <2>3. NamesRows(UpdateBalance(item.account, -cost), db')
    BY <2>2 DEF NamesRows, UpdateBalance
  <2> QED BY <1>2, <2>1, <2>3, PlaceKnows
<1>3. CASE ItemOf(t).amount <= 0 /\ Continue(t, "holding", local[t]) /\ UNCHANGED pending
  <2>1. pc'[t] = "holding" /\ todo'[t] = todo[t]
    BY <1>3, ContinueAside DEF KeyInv, TradeInv
  <2>2. ItemOf(t).account \in DOMAIN db.accounts /\ ItemOf(t).symbol \in db.symbols
    BY DEF KeyInv, KnowsRows, SeenRows, Opening
  <2>3. SeenRows(t)'
    BY <1>3, <2>1, <2>2 DEF SeenRows, ItemOf, Granting, Opening, RowsStay, OrderPosition
  <2> QED BY <1>3, <2>3, ContinueKnows
<1> QED BY <1>1, <1>2, <1>3 DEF OpenOrder, OpenBuy

\* The order's position is there, or is inserted for its account and symbol.
LEMMA OrderSelectPositionKeys ==
  ASSUME KeyInv, NEW t \in Thread, OrderSelectPosition(t) PROVE KeepsKeys(t)
<1>1. pc[t] = "orderPosition" /\ pending[t] = << >> /\ UNCHANGED db
  BY DEF OrderSelectPosition, At
<1>2. RowsStay /\ ForeignKeysHold'
  BY <1>1, SameTablesKeys
<1>3. OnlyWorker(t) /\ KnowsRows(t)'
  <2>1. CASE OrderPosition(t) \in DOMAIN db.positions /\ OpenOrder(t)
    BY <1>1, <1>2, <2>1, OpenOrderKnows
  <2>2. CASE Continue(t, "orderInsert", local[t]) /\ UNCHANGED pending
    <3>1. pc'[t] = "orderInsert" /\ todo'[t] = todo[t]
      BY <2>2, ContinueAside DEF KeyInv, TradeInv
    <3>2. ItemOf(t).account \in DOMAIN db.accounts /\ ItemOf(t).symbol \in db.symbols
      BY <1>1 DEF KeyInv, KnowsRows, SeenRows, Opening
    <3>3. SeenRows(t)'
      BY <1>1, <3>1, <3>2 DEF SeenRows, ItemOf, Granting, Opening
    <3> QED BY <1>1, <2>2, <3>3, ContinueKnows
  <2> QED BY <2>1, <2>2 DEF OrderSelectPosition
<1> QED BY <1>2, <1>3 DEF KeepsKeys

\* The position inserted is of an account and a symbol seen to be there; if it was
\* there already, the engine ends.
LEMMA OrderInsertPositionKeys ==
  ASSUME KeyInv, NEW t \in Thread, OrderInsertPosition(t)
  PROVE  Terminate \/ KeepsKeys(t)
<1>1. pc[t] = "orderInsert" /\ pending[t] = << >>
  BY DEF OrderInsertPosition, At
<1>2. SUFFICES ASSUME db' = [db EXCEPT !.positions = Insert(@, OrderPosition(t), 0)],
                      OpenOrder(t)
               PROVE  KeepsKeys(t)
  BY DEF OrderInsertPosition
<1>3. ItemOf(t).account \in DOMAIN db.accounts /\ ItemOf(t).symbol \in db.symbols
  BY <1>1 DEF KeyInv, KnowsRows, SeenRows, Opening
<1>4. /\ DOMAIN db'.positions = DOMAIN db.positions \cup {OrderPosition(t)}
      /\ UNCHANGED <<db.accounts, db.symbols, db.transactions, db.executed_trans,
                     db.canceled_trans>>
  BY <1>2, InsertDomain, TypeParts DEF KeyInv, TradeInv, EngineTyped, IsDatabase
<1>5. RowsStay /\ ForeignKeysHold'
  BY <1>3, <1>4 DEF KeyInv, RowsStay, ForeignKeysHold, OrderPosition
<1>6. OnlyWorker(t) /\ KnowsRows(t)'
  BY <1>1, <1>2, <1>4, <1>5, OpenOrderKnows
<1> QED BY <1>5, <1>6 DEF KeepsKeys

\* A sell's position is there although the holding read may be another one.
LEMMA OpenSellKeys == ASSUME KeyInv, NEW t \in Thread, OpenSell(t) PROVE KeepsKeys(t)
<1> DEFINE item == ItemOf(t)
<1>1. /\ pc[t] = "holding" /\ pc[t] # "idle" /\ pc[t] \in LabelsOf["order"]
      /\ pending[t] = << >> /\ UNCHANGED db
  BY DEF OpenSell, At, LabelsOf
<1>2. RowsStay /\ ForeignKeysHold'
  BY <1>1, SameTablesKeys
<1>3. OnlyWorker(t) /\ KnowsRows(t)'
  <2>1. CASE Finish(t, Answer("Insufficient Shares!")) /\ UNCHANGED pending
    BY <1>1, <2>1, FinishKnows
  <2>2. CASE /\ pending' = [pending EXCEPT ![t] =
                  << UpdatePosition(item.account, item.symbol, item.amount),
                     InsertTransaction(NewOrder(item)) >>]
             /\ Continue(t, "match", [local[t] EXCEPT !.remaining = item.amount])
    <3>1. UpdatePosition(item.account, item.symbol, item.amount) \in Charge
      BY <1>1, OrderTyped DEF KeyInv, TradeInv, UpdatePosition, Statement, Charge
    <3>2. OrderPosition(t) \in DOMAIN db'.positions
      BY <1>1 DEF KeyInv, KnowsRows, SeenRows
    <3>3. NamesRows(UpdatePosition(item.account, item.symbol, item.amount), db')
      BY <3>2 DEF NamesRows, UpdatePosition, OrderPosition
    <3> QED BY <2>2, <3>1, <3>2, <3>3, PlaceKnows
  <2> QED BY <2>1, <2>2 DEF OpenSell
<1> QED BY <1>2, <1>3 DEF KeepsKeys

-----------------------------------------------------------------------------
(* The matching loop, trans_query and trans_cancel.                        *)

\* Seven statements in two parts that name rows there are.
LEMMA SevenNameRows ==
  ASSUME NEW d,
         NEW a, NEW b, NEW c, NEW e, NEW x, NEW y, NEW z,
         \A st \in {a, b, c, e, x, y, z} : NamesRows(st, d)
  PROVE  LET sts == << a, b, c, e >> \o << x, y, z >>
         IN  \A k \in DOMAIN sts : NamesRows(sts[k], d)
<1> DEFINE U == {a, b, c, e, x, y, z}
           sts == << a, b, c, e >> \o << x, y, z >>
<1>1. << a, b, c, e >> \in Seq(U) /\ << x, y, z >> \in Seq(U)
  OBVIOUS
<1>2. sts \in Seq(U)
  BY <1>1, ConcatProperties
<1> HIDE DEF U, sts
<1>3. \A k \in DOMAIN sts : sts[k] \in U
  BY <1>2, ElementOfSeq, LenProperties
<1>4. \A st \in U : NamesRows(st, d)
  BY DEF U
<1> QED BY <1>3, <1>4 DEF sts

\* The statements of a match name two orders that are there, their accounts and
\* their positions.
LEMMA MatchNamesRows ==
  ASSUME NEW d, NEW r \in DOMAIN d.transactions, NEW id \in DOMAIN d.transactions,
         NEW item, NEW row, NEW left, NEW signed, NEW executed,
         \A o \in {item, row} : /\ o.account \in DOMAIN d.accounts
                               /\ <<o.account, item.symbol>> \in DOMAIN d.positions,
         NEW settle \in {SettleBuy(item, row, executed), SettleSell(item, row, executed)},
         NEW sts, sts = Fill(r, row, id, left, signed) \o settle
  PROVE  \A k \in DOMAIN sts : NamesRows(sts[k], d)
<1>1. /\ \A n : \A o \in {item, row} : NamesRows(UpdateBalance(o.account, n), d)
      /\ \A n : \A o \in {item, row} : NamesRows(UpdatePosition(o.account, item.symbol, n), d)
      /\ \A i, n : NamesRows(UpdateShares(i, n), d) /\ NamesRows(UpdateExecuted(i, n), d)
      /\ \A i \in DOMAIN d.transactions : \A price, n :
           NamesRows(InsertExecuted(i, price, n), d)
  BY DEF NamesRows, UpdateBalance, UpdatePosition, UpdateShares, UpdateExecuted, InsertExecuted
<1>2. PICK a, b, c, e : /\ Fill(r, row, id, left, signed) = << a, b, c, e >>
                        /\ \A st \in {a, b, c, e} : NamesRows(st, d)
  BY <1>1 DEF Fill, Shrink
<1>3. PICK x, y, z : settle = << x, y, z >> /\ \A st \in {x, y, z} : NamesRows(st, d)
  BY <1>1 DEF SettleBuy, SettleSell
<1> QED BY <1>2, <1>3, SevenNameRows

\* A match is of a row the SELECT returned and of the order's own.
LEMMA MatchKeys ==
  ASSUME KeyInv, NEW t \in Thread, BuySelectAsk(t) \/ SellSelectBid(t)
  PROVE  KeepsKeys(t)
<1>1. At(t, "match") /\ pending[t] = << >> /\ UNCHANGED db
  BY DEF BuySelectAsk, SellSelectBid, At
<1>2. RowsStay /\ ForeignKeysHold'
  BY <1>1, SameTablesKeys
<1>3. /\ local[t].id \in DOMAIN db.transactions
      /\ ItemOf(t).account \in DOMAIN db.accounts
      /\ <<ItemOf(t).account, ItemOf(t).symbol>> \in DOMAIN db.positions
  BY <1>1, AtMatch DEF KeyInv, OwnRow, ForeignKeysHold
<1>4. CASE NoMatch(t)
  <2>1. OnlyWorker(t) /\ pc'[t] = "commit" /\ UNCHANGED pending
    BY <1>4, ContinueAside DEF KeyInv, TradeInv, NoMatch
  <2>2. KnowsRows(t)'
    BY <1>1, <2>1, AsideKnows DEF Granting, Opening
  <2> QED BY <1>2, <2>1, <2>2 DEF KeepsKeys
<1>5. ASSUME NEW r \in DOMAIN db.transactions, NEW row, row = db.transactions[r],
             row.symbol = ItemOf(t).symbol, NEW left, NEW signed, NEW executed,
             NEW settle \in {SettleBuy(ItemOf(t), row, executed),
                             SettleSell(ItemOf(t), row, executed)},
             pending' = [pending EXCEPT ![t] =
                           Fill(r, row, local[t].id, left, signed) \o settle],
             NEW remaining, Matched(t, r, executed, remaining)
      PROVE  KeepsKeys(t)
  <2> DEFINE sts == Fill(r, row, local[t].id, left, signed) \o settle
  <2>1. pending'[t] = sts /\ \A u \in Thread \ {t} : pending'[u] = pending[u]
    BY <1>5, TypeParts DEF KeyInv, TradeInv, PendingTyped
  <2>2. OnlyWorker(t) /\ pc'[t] \in {"match", "commit"}
    BY <1>5, <2>1, ContinueAside DEF KeyInv, TradeInv, Matched
  <2>3. \A k \in DOMAIN sts : NamesRows(sts[k], db)
    <3>1. row.account \in DOMAIN db.accounts /\ <<row.account, ItemOf(t).symbol>> \in DOMAIN db.positions
      BY <1>5 DEF KeyInv, ForeignKeysHold
    <3> QED BY <1>3, <1>5, <3>1, MatchNamesRows
  <2> HIDE DEF sts
  <2>4. SentNamesRows(t)'
    BY <1>1, <2>1, <2>3 DEF SentNamesRows
  <2>5. SeenRows(t)'
    BY <2>2 DEF SeenRows, Granting, Opening
  <2> QED BY <1>2, <2>2, <2>4, <2>5 DEF KeepsKeys, KnowsRows
<1>6. CASE BuySelectAsk(t)
  BY <1>4, <1>5, <1>6 DEF BuySelectAsk, Asks
<1>7. CASE SellSelectBid(t)
  BY <1>4, <1>5, <1>7 DEF SellSelectBid, Bids
<1> QED BY <1>6, <1>7

\* The steps that only read and answer.
LEMMA ReadKeys ==
  ASSUME KeyInv, NEW t \in Thread,
         \/ Commit(t) \/ QuerySelectOrder(t) \/ QuerySelectExecuted(t) \/ CancelSelectExecuted(t)
  PROVE  KeepsKeys(t)
<1>1. pc[t] # "idle" /\ pending[t] = << >> /\ UNCHANGED <<db, pending>>
  BY DEF Commit, QuerySelectOrder, QuerySelectExecuted, CancelSelectExecuted, At
<1>2. OnlyWorker(t) /\ KnowsRows(t)'
  <2>1. CASE \E result : Finish(t, result)
    BY <1>1, <2>1, FinishKnows
  <2>2. CASE \E label \in {"queryCanceled", "queryExecuted"} : \E locals : Continue(t, label, locals)
    <3>1. OnlyWorker(t) /\ pc'[t] \in {"queryCanceled", "queryExecuted"}
      BY <1>1, <2>2, ContinueAside DEF KeyInv, TradeInv
    <3> QED BY <1>1, <3>1, AsideKnows DEF Granting, Opening
  <2> QED BY <2>1, <2>2 DEF Commit, QuerySelectOrder, QuerySelectExecuted, CancelSelectExecuted
<1> QED BY <1>1, <1>2, SameTablesKeys DEF KeepsKeys

\* A query goes on to the executions, or the engine ends.
LEMMA QuerySelectCanceledKeys ==
  ASSUME KeyInv, NEW t \in Thread, QuerySelectCanceled(t)
  PROVE  Terminate \/ KeepsKeys(t)
<1>1. SUFFICES ASSUME NEW locals, Continue(t, "queryExecuted", locals),
                      UNCHANGED <<db, alive, pending, history>>
               PROVE  KeepsKeys(t)
  BY DEF QuerySelectCanceled
<1>2. OnlyWorker(t) /\ pc'[t] = "queryExecuted" /\ pending'[t] = << >>
  BY <1>1, ContinueAside DEF KeyInv, TradeInv, QuerySelectCanceled, At
<1>3. KnowsRows(t)'
  BY <1>2, AsideKnows DEF Granting, Opening
<1> QED BY <1>1, <1>2, <1>3, SameTablesKeys DEF KeepsKeys

\* The cancellation is of an order that is there.
LEMMA CancelKeys == ASSUME KeyInv, NEW t \in Thread, CancelSelectOrder(t) PROVE KeepsKeys(t)
<1> DEFINE i == ItemOf(t).id
           row == db.transactions[i]
           sts == CancelStatements(i, row)
<1>1. pc[t] # "idle" /\ pending[t] = << >> /\ UNCHANGED db
  BY DEF CancelSelectOrder, At
<1>2. OnlyWorker(t) /\ KnowsRows(t)'
  <2>1. CASE (\E result : Finish(t, result)) /\ UNCHANGED pending
    BY <1>1, <2>1, FinishKnows
  <2>2. ASSUME i \in DOMAIN db.transactions, NEW locals, Continue(t, "cancelExecuted", locals),
               pending' = [pending EXCEPT ![t] = sts]
        PROVE  OnlyWorker(t) /\ KnowsRows(t)'
    <3>1. pending'[t] = sts /\ \A u \in Thread \ {t} : pending'[u] = pending[u]
      BY <2>2, TypeParts DEF KeyInv, TradeInv, PendingTyped
    <3>2. OnlyWorker(t) /\ pc'[t] = "cancelExecuted"
      BY <2>2, <3>1, ContinueAside DEF KeyInv, TradeInv
    <3>3. \A k \in DOMAIN sts : NamesRows(sts[k], db)
      <4>1. /\ DOMAIN sts = 1..3
            /\ NamesRows(sts[1], db) /\ NamesRows(sts[2], db) /\ NamesRows(sts[3], db)
        BY <2>2 DEF CancelStatements, NamesRows, UpdateCanceled, InsertCanceled, UpdateBalance,
           UpdatePosition, KeyInv, ForeignKeysHold
      <4> QED BY <4>1
    <3> HIDE DEF sts
    <3>4. SentNamesRows(t)'
      BY <1>1, <3>1, <3>3 DEF SentNamesRows
    <3>5. SeenRows(t)'
      BY <3>2 DEF SeenRows, Granting, Opening
    <3> QED BY <3>2, <3>4, <3>5 DEF KnowsRows
  <2> QED BY <2>1, <2>2 DEF CancelSelectOrder
<1> QED BY <1>1, <1>2, SameTablesKeys DEF KeepsKeys

-----------------------------------------------------------------------------
(* Sending a statement.                                                    *)

\* What a statement does to the tables' keys and to the rows that name them.
LEMMA ApplyKeys ==
  ASSUME NEW d, IsDatabase(d), NEW st \in Statement, NEW e, e = Apply(st, d)
  PROVE  /\ DOMAIN e.accounts = DOMAIN d.accounts
         /\ e.symbols = d.symbols
         /\ DOMAIN e.positions = DOMAIN d.positions
         /\ e.executed_trans = IF st.op = "insertExecuted" THEN Append(d.executed_trans, st.row)
                                                           ELSE d.executed_trans
         /\ e.canceled_trans = IF st.op = "insertCanceled" THEN Append(d.canceled_trans, st.row)
                                                           ELSE d.canceled_trans
BY DEF IsDatabase, Statement, Apply

\* The row an INSERT adds names rows that are there; an UPDATE changes no key.
LEMMA ExecKeys == ASSUME KeyInv, NEW t \in Thread, Exec(t) PROVE KeepsKeys(t)
<1> DEFINE st == Head(pending[t])
           rows == db.transactions
           then == db'.transactions
<1>0. /\ IsDatabase(db) /\ rows \in Seq(Order) /\ ControlTyped /\ PendingTyped
      /\ db.executed_trans \in Seq(Execution) /\ db.canceled_trans \in Seq(Cancellation)
  BY TypeParts DEF KeyInv, TradeInv, EngineTyped, IsDatabase
<1>1. /\ pending[t] \in Seq(Statement) /\ pending[t] # << >>
      /\ pending'[t] = Tail(pending[t]) /\ \A u \in Thread \ {t} : pending'[u] = pending[u]
  BY <1>0 DEF PendingTyped, Exec
<1>2. /\ st \in Statement /\ st = pending[t][1] /\ 1 \in DOMAIN pending[t]
      /\ \A k \in DOMAIN Tail(pending[t]) :
           k + 1 \in DOMAIN pending[t] /\ Tail(pending[t])[k] = pending[t][k + 1]
  BY <1>1, HeadTailProperties, LenProperties
<1>3. db' = Apply(st, db) /\ NamesRows(st, db)
  BY <1>2 DEF Exec, KeyInv, KnowsRows, SentNamesRows
<1> HIDE DEF st
<1>4. /\ DOMAIN db'.accounts = DOMAIN db.accounts
      /\ db'.symbols = db.symbols
      /\ DOMAIN db'.positions = DOMAIN db.positions
      /\ db'.executed_trans = IF st.op = "insertExecuted" THEN Append(db.executed_trans, st.row)
                                                          ELSE db.executed_trans
      /\ db'.canceled_trans = IF st.op = "insertCanceled" THEN Append(db.canceled_trans, st.row)
                                                          ELSE db.canceled_trans
  BY <1>0, <1>2, <1>3, ApplyKeys
<1>5. /\ KeepsRows(then, rows)
      /\ st.op = "insertTransaction" => then = Append(rows, st.row)
      /\ st.op # "insertTransaction" => Len(then) = Len(rows)
  BY <1>0, <1>2, <1>3, ApplyRows DEF SetsShares, KeepsShares
<1>6. RowsStay
  BY <1>0, <1>4, <1>5, LenProperties DEF RowsStay, KeepsRows
<1>7. ForeignKeysHold'
  <2>1. \A p \in DOMAIN db'.positions : p[1] \in DOMAIN db'.accounts /\ p[2] \in db'.symbols
    BY <1>4 DEF KeyInv, ForeignKeysHold
  <2>2. \A i \in DOMAIN then : <<then[i].account, then[i].symbol>> \in DOMAIN db'.positions
    <3>1. \A i \in 1..Len(rows) : <<rows[i].account, rows[i].symbol>> \in DOMAIN db.positions
      BY <1>0, LenProperties DEF KeyInv, ForeignKeysHold
    <3>2. \A i \in 1..Len(rows) : <<then[i].account, then[i].symbol>> \in DOMAIN db'.positions
      BY <1>4, <1>5, <3>1 DEF KeepsRows
    <3>3. CASE st.op = "insertTransaction"
      <4>1. st.row \in Order
        BY <1>2, <3>3 DEF Statement
      <4>2. DOMAIN then = 1..(Len(rows) + 1) /\ then[Len(rows) + 1] = st.row
        BY <1>0, <1>5, <3>3, <4>1, AppendProperties, LenProperties
      <4>3. <<st.row.account, st.row.symbol>> \in DOMAIN db'.positions
        BY <1>3, <1>4, <3>3 DEF NamesRows
      <4>4. \A i \in DOMAIN then : i \in 1..Len(rows) \/ i = Len(rows) + 1
        BY <1>0, <4>2, LenProperties
      <4> HIDE DEF rows, then
      <4> QED BY <3>2, <4>2, <4>3, <4>4
    <3>4. CASE st.op # "insertTransaction"
      <4>1. DOMAIN then = 1..Len(rows)
        BY <1>5, <3>4, LenProperties DEF KeepsRows
      <4> QED BY <3>2, <4>1
    <3> QED BY <3>3, <3>4
  <2>3. \A n \in DOMAIN db'.executed_trans : db'.executed_trans[n].id \in DOMAIN then
    <3>1. CASE st.op = "insertExecuted"
      <4>1. st.row \in Execution /\ st.row.id \in DOMAIN rows
        BY <1>2, <1>3, <3>1 DEF Statement, NamesRows
      <4> QED BY <1>0, <1>4, <1>6, <3>1, <4>1, AppendProperties, LenProperties
              DEF KeyInv, ForeignKeysHold, RowsStay
    <3>2. CASE st.op # "insertExecuted"
      BY <1>4, <1>6, <3>2 DEF KeyInv, ForeignKeysHold, RowsStay
    <3> QED BY <3>1, <3>2
  <2>4. \A n \in DOMAIN db'.canceled_trans : db'.canceled_trans[n].id \in DOMAIN then
    <3>1. CASE st.op = "insertCanceled"
      <4>1. st.row \in Cancellation /\ st.row.id \in DOMAIN rows
        BY <1>2, <1>3, <3>1 DEF Statement, NamesRows
      <4> QED BY <1>0, <1>4, <1>6, <3>1, <4>1, AppendProperties, LenProperties
              DEF KeyInv, ForeignKeysHold, RowsStay
    <3>2. CASE st.op # "insertCanceled"
      BY <1>4, <1>6, <3>2 DEF KeyInv, ForeignKeysHold, RowsStay
    <3> QED BY <3>1, <3>2
  <2> QED BY <2>1, <2>2, <2>3, <2>4 DEF ForeignKeysHold
<1>8. UNCHANGED <<pc, todo>> /\ OnlyWorker(t)
  BY <1>0, <1>1 DEF Exec, OnlyWorker, SameWorker, ControlTyped
<1>9. KnowsRows(t)'
  <2>1. SentNamesRows(t)'
    <3>1. \A k \in DOMAIN pending[t] : NamesRows(pending[t][k], db)
      BY DEF KeyInv, KnowsRows, SentNamesRows
    <3>2. \A k \in DOMAIN pending[t] : NamesRows(pending[t][k], db')
      BY <1>6, <3>1 DEF NamesRows, RowsStay
    <3> QED BY <1>1, <1>2, <3>2 DEF SentNamesRows
  <2>2. pc[t] \in {"match", "commit", "cancelExecuted"}
    BY <1>0, <1>1 DEF PendingTyped, SendingOK
  <2>3. SeenRows(t)'
    BY <1>8, <2>2 DEF SeenRows, Granting, Opening
  <2> QED BY <2>1, <2>3 DEF KnowsRows
<1> QED BY <1>6, <1>7, <1>8, <1>9 DEF KeepsKeys

-----------------------------------------------------------------------------

\* The clients start with tables whose keys hold.
LEMMA InitKeys == Init => KeyInv
<1> SUFFICES ASSUME Init PROVE KeyInv
  OBVIOUS
<1>1. ForeignKeysHold
  BY SeedAssumption DEF Init, ForeignKeysHold
<1>2. ASSUME NEW t \in Thread PROVE KnowsRows(t)
  BY DEF Init, KnowsRows, SeenRows, SentNamesRows, Granting, Opening
<1> QED BY <1>1, <1>2, InitFair DEF KeyInv

\* Every step keeps the inductive invariant.
LEMMA NextKeys == KeyInv /\ [Next]_vars => KeyInv'
<1> SUFFICES ASSUME KeyInv, [Next]_vars
             PROVE  ForeignKeysHold' /\ \A u \in Thread : KnowsRows(u)'
  BY NextFair DEF KeyInv
<1>1. ASSUME NEW t \in Thread, Receive(t) \/ Step(t)
      PROVE  ForeignKeysHold' /\ \A u \in Thread : KnowsRows(u)'
  <2>1. Terminate \/ KeepsKeys(t)
    BY <1>1, ReceiveKeys, ExecKeys, CreateAccountKeys, CreateSymbolKeys, GrantSelectKeys,
       GrantWriteKeys, OrderSelectKeys, OrderSelectPositionKeys, OrderInsertPositionKeys,
       OpenSellKeys, MatchKeys, ReadKeys, QuerySelectCanceledKeys, CancelKeys
       DEF Step, Raise
  <2> QED BY <2>1, TerminateKeys, KeepsKeysEnough
<1>2. CASE UNCHANGED vars
  BY <1>2, SameTablesKeys DEF KeyInv, KnowsRows, SeenRows, SentNamesRows, ItemOf, GrantOf,
     Granted, OrderPosition, vars
<1> QED BY <1>1, <1>2 DEF Next, Stopped

\* No statement of any handler ever violates a foreign key of the tables
\* (db_interact.cpp:42-77), so that of all the statements only the INSERT of a
\* position can fail.
THEOREM KeysHold == Spec => []ForeignKeysHold
<1>1. KeyInv => ForeignKeysHold
  BY DEF KeyInv
<1> QED BY <1>1, InitKeys, NextKeys, PTL DEF Spec

=============================================================================
