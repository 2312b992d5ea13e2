-------------------------------- MODULE Wire --------------------------------
(***************************************************************************)
(* From the text of a request to the text of its answer: parse reads the   *)
(* document child by child into the items of a command, handle_create or   *)
(* handle_transaction takes a result for each item, and parse_..._results  *)
(* writes each result as elements of the answer.                           *)
(*                                                                         *)
(* A document is a tree of nodes, an attribute a number, a word, a name or *)
(* missing.  What the statements do with an item is Exchange's matter: here *)
(* a handler may return any result it has a return statement for.          *)
(***************************************************************************)
EXTENDS Integers, Sequences, SequencesExt

CONSTANTS
  Document,    \* the documents that may arrive
  Malformed,   \* a document that is not XML
  Name,        \* the names of symbols
  Missing,     \* the value of an attribute that is not there
  Word,        \* an attribute or text that is not a number
  Unset,       \* the value of a member nothing has been assigned to
  MaxInt,      \* the largest int
  MaxLong      \* the largest long

ASSUME WidthAssumption == MaxInt \in Nat /\ MaxLong \in Nat /\ MaxInt <= MaxLong
ASSUME MalformedAssumption == Malformed \notin Document

\* A number attribute, and an element below the root or a text below that.
Attribute == Int \cup {Missing, Word}
Kid       == [id : Attribute, text : Attribute]
Child     == [tag : STRING, id : Attribute, balance : Attribute, sym : Name \cup {Missing},
              amount : Attribute, limit : Attribute, kids : Seq(Kid)]
ASSUME DocumentAssumption == Document \subseteq [tag : STRING, id : Attribute, children : Seq(Child)]

\* The texts of the results.
Message == {"", "Success", "Account balance cannot be negative!", "Account already exists!",
            "Account_ID does not exist!", "Shares cannot be negative!",
            "Account does not exist!", "Symbol does not exist!",
            "Insufficient balance!", "Insufficient Shares!",
            "Account to be queryed does not exist!", "No access to query other accounts",
            "Account to be canceled does not exist!", "No access to other accounts!",
            "Only open orders can be canceled!"}
ASSUME UnsetAssumption == Unset \notin Int \cup Name \cup Message

VARIABLES
  doc,        \* the document
  stage,      \* parsing, handling, formatting or done
  next,       \* the child, item or result the loop is at
  flag,       \* command::flag
  items,      \* command::creates or command::transactions
  results,    \* crs or trs
  response    \* the elements of the answer

vars == <<doc, stage, next, flag, items, results, response>>

-----------------------------------------------------------------------------
(* What pugixml makes of an attribute.                                     *)

Clamp(n, max) == IF n > max THEN max ELSE IF n < -max - 1 THEN -max - 1 ELSE n

AsDouble(a)  == IF a \in {Missing, Word} THEN 0 ELSE a
AsLong(a)    == Clamp(AsDouble(a), MaxLong)
AsInt(a)     == Clamp(AsDouble(a), MaxInt)
AsString(a)  == IF a = Missing THEN "" ELSE a

-----------------------------------------------------------------------------
(* parser.cpp                                                              *)

\* Every node below a symbol is a grant, be it an element of any name or text.
Grants(child) ==
  [n \in DOMAIN child.kids |-> [account |-> AsLong(child.kids[n].id),
                                shares  |-> AsDouble(child.kids[n].text)]]

CreateItems(child) ==
  CASE child.tag = "account" -> << [kind    |-> "account",
                                    account |-> AsLong(child.id),
                                    balance |-> AsDouble(child.balance)] >>
    [] child.tag = "symbol"  -> << [kind   |-> "symbol",
                                    symbol |-> AsString(child.sym),
                                    grants |-> Grants(child)] >>
    [] OTHER -> << >>

TransactionItems(child) ==
  CASE child.tag = "order" -> << [kind    |-> "order",
                                  account |-> AsLong(doc.id),
                                  symbol  |-> AsString(child.sym),
                                  amount  |-> AsDouble(child.amount),
                                  limit   |-> AsDouble(child.limit)] >>
    [] child.tag \in {"query", "cancel"} -> << [kind    |-> child.tag,
                                                account |-> AsLong(doc.id),
                                                id      |-> AsInt(child.id)] >>
    [] OTHER -> << >>

\* Any root that is not a create is taken for transactions.
Load ==
  /\ stage = "load"
  /\ flag' = IF doc = Malformed THEN 2 ELSE IF doc.tag = "create" THEN 0 ELSE 1
  /\ stage' = IF doc = Malformed THEN "done" ELSE "parse"
  /\ UNCHANGED <<doc, next, items, results, response>>

\* Mutant: the loop ends at the first child it does not know.
ParseUntilUnknown ==
  /\ stage = "parse"
  /\ next <= Len(doc.children)
  /\ LET more == IF flag = 0 THEN CreateItems(doc.children[next])
                             ELSE TransactionItems(doc.children[next])
     IN  /\ items' = items \o more
         /\ next' = IF more = << >> THEN Len(doc.children) + 1 ELSE next + 1
  /\ UNCHANGED <<doc, stage, flag, results, response>>

\* One round of the loop over the root's children.
ParseChild ==
  /\ stage = "parse"
  /\ next <= Len(doc.children)
  /\ items' = items \o (IF flag = 0 THEN CreateItems(doc.children[next])
                                    ELSE TransactionItems(doc.children[next]))
  /\ next' = next + 1
  /\ UNCHANGED <<doc, stage, flag, results, response>>

EndLoop(from, to, s) ==
  /\ stage = from
  /\ next > Len(s)
  /\ stage' = to
  /\ next' = 1

EndParse ==
  /\ EndLoop("parse", "handle", doc.children)
  /\ UNCHANGED <<doc, flag, items, results, response>>

-----------------------------------------------------------------------------
(* The results the handlers of handle_command.cpp return.                  *)

\* trans_result as it is constructed, for an item it is about.
NoResult(item) ==
  [kind |-> item.kind, msg |-> "", trans_id |-> Unset, sym_name |-> Unset,
   amount |-> Unset, limit |-> Unset, query_flag |-> Unset, open_shares |-> Unset,
   canceled_shares |-> Unset, canceled_time |-> Unset, executed |-> << >>]

AccountResults(item) ==
  LET answer(m) == [kind |-> "account", account |-> item.account, msg |-> m]
  IN  IF item.balance < 0 THEN {answer("Account balance cannot be negative!")}
      ELSE {answer("Success"), answer("Account already exists!")}

\* A note for every grant.
NotesOf(item) ==
  {list \in [DOMAIN item.grants -> {"Success", "Account_ID does not exist!",
                                     "Shares cannot be negative!"}] :
     \A n \in DOMAIN list :
       item.grants[n].shares < 0 <=> list[n] = "Shares cannot be negative!"}

SymbolResults(item) ==
  {[kind |-> "symbol", symbol |-> item.symbol, account_share_list |-> item.grants,
    result_list |-> list] : list \in NotesOf(item)}

OrderResults(item) ==
  LET ans == [NoResult(item) EXCEPT !.sym_name = item.symbol, !.amount = item.amount,
                                    !.limit = item.limit]
  IN  {[ans EXCEPT !.msg = m] : m \in {"Account does not exist!", "Symbol does not exist!",
                                       IF item.amount > 0 THEN "Insufficient balance!"
                                                          ELSE "Insufficient Shares!"}}
      \cup {[ans EXCEPT !.msg = "Success", !.trans_id = 1]}

Executed == {<< >>, << 1 >>}

QueryResults(item) ==
  LET ans == [NoResult(item) EXCEPT !.trans_id = item.id]
      ok  == {[ans EXCEPT !.msg = "Success", !.executed = e] : e \in Executed}
  IN  {[ans EXCEPT !.msg = m] : m \in {"Account to be queryed does not exist!",
                                       "No access to query other accounts"}}
      \cup {[r EXCEPT !.query_flag = 0, !.open_shares = 1] : r \in ok}
      \cup {[r EXCEPT !.query_flag = 1, !.canceled_shares = 1, !.canceled_time = 1] : r \in ok}
      \cup {[r EXCEPT !.query_flag = 2] : r \in ok}

\* Mutant: the time of the cancellation is not assigned.
CancelForgetsTime(item) ==
  {[NoResult(item) EXCEPT !.trans_id = item.id, !.msg = "Success",
                          !.canceled_shares = 1, !.executed = << >>]}

CancelResults(item) ==
  LET ans == [NoResult(item) EXCEPT !.trans_id = item.id]
  IN  {[ans EXCEPT !.msg = m] : m \in {"Account to be canceled does not exist!",
                                       "No access to other accounts!"}}
      \cup {[ans EXCEPT !.msg = "Only open orders can be canceled!", !.canceled_shares = 1]}
      \cup {[ans EXCEPT !.msg = "Success", !.canceled_shares = 1, !.canceled_time = 1,
                        !.executed = e] : e \in Executed}

ResultsOf(item) ==
  CASE item.kind = "account" -> AccountResults(item)
    [] item.kind = "symbol"  -> SymbolResults(item)
    [] item.kind = "order"   -> OrderResults(item)
    [] item.kind = "query"   -> QueryResults(item)
    [] item.kind = "cancel"  -> CancelResults(item)

\* Mutant: a result is put before those of the earlier items.
HandleInReverse ==
  /\ stage = "handle"
  /\ next <= Len(items)
  /\ \E r \in ResultsOf(items[next]) : results' = << r >> \o results
  /\ next' = next + 1
  /\ UNCHANGED <<doc, stage, flag, items, response>>

\* One round of the loop of handle_create or handle_transaction.
HandleItem ==
  /\ stage = "handle"
  /\ next <= Len(items)
  /\ \E r \in ResultsOf(items[next]) : results' = Append(results, r)
  /\ next' = next + 1
  /\ UNCHANGED <<doc, stage, flag, items, response>>

EndHandle ==
  /\ EndLoop("handle", "format", items)
  /\ UNCHANGED <<doc, flag, items, results, response>>

-----------------------------------------------------------------------------
(* The answer.                                                             *)

\* An element of the answer: its name, the attributes and text it prints, and the
\* elements below it.
Element(name, prints, below) == [name |-> name, prints |-> prints, below |-> below]

\* result_list[n], which may be past the end of the list.
Note(cr, n) == IF n \in DOMAIN cr.result_list THEN cr.result_list[n] ELSE Unset

CreateElements(cr) ==
  IF cr.kind = "account"
  THEN << IF cr.msg = "Success" THEN Element("created", << cr.account >>, << >>)
                                ELSE Element("error", << cr.account, cr.msg >>, << >>) >>
  ELSE [n \in DOMAIN cr.account_share_list |->
          IF Note(cr, n) = "Success"
          THEN Element("created", << cr.symbol, cr.account_share_list[n].account >>, << >>)
          ELSE Element("error", << cr.symbol, cr.account_share_list[n].account,
                                   Note(cr, n) >>, << >>)]

ExecutedElements(list) == [n \in DOMAIN list |-> Element("executed", << list[n] >>, << >>)]
CanceledElement(tr)    == Element("canceled", << tr.canceled_shares, tr.canceled_time >>, << >>)

\* A filled order has no element of its own, only its executions.
StatusElements(tr) ==
  CASE tr.query_flag = 0 -> << Element("open", << tr.open_shares >>, << >>) >>
    [] tr.query_flag = 1 -> << CanceledElement(tr) >>
    [] OTHER -> << >>

OrderPrinted(tr) == << tr.sym_name, tr.amount, tr.limit >>

TransElement(tr) ==
  CASE tr.kind = "order" /\ tr.msg = "Success" ->
         Element("opened", OrderPrinted(tr) \o << tr.trans_id >>, << >>)
    [] tr.kind = "order" /\ tr.msg # "Success" ->
         Element("error", OrderPrinted(tr) \o << tr.msg >>, << >>)
    [] tr.kind = "query" /\ tr.msg = "Success" ->
         Element("status", << tr.trans_id >>, StatusElements(tr) \o ExecutedElements(tr.executed))
    [] tr.kind = "cancel" /\ tr.msg = "Success" ->
         Element("canceled", << tr.trans_id >>,
                 << CanceledElement(tr) >> \o ExecutedElements(tr.executed))
    [] OTHER -> Element("error", << tr.trans_id, tr.msg >>, << >>)

\* One round of the loop of parse_create_results or parse_trans_results.
FormatResult ==
  /\ stage = "format"
  /\ next <= Len(results)
  /\ response' = response \o (IF flag = 0 THEN CreateElements(results[next])
                                          ELSE << TransElement(results[next]) >>)
  /\ next' = next + 1
  /\ UNCHANGED <<doc, stage, flag, items, results>>

EndFormat ==
  /\ EndLoop("format", "done", results)
  /\ UNCHANGED <<doc, flag, items, results, response>>

-----------------------------------------------------------------------------

Init ==
  /\ doc \in Document \cup {Malformed}
  /\ stage = "load" /\ next = 1 /\ flag = 2
  /\ items = << >> /\ results = << >> /\ response = << >>

Parse  == Load \/ ParseChild \/ EndParse
Handle == HandleItem \/ EndHandle
Format == FormatResult \/ EndFormat

Next == Parse \/ Handle \/ Format

Spec == Init /\ [][Next]_vars
=============================================================================
