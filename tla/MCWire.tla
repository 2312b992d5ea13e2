------------------------------- MODULE MCWire -------------------------------
(***************************************************************************)
(* Documents for TLC: up to three children of every kind parser.cpp knows, *)
(* and of one it does not, with numbers, words and missing attributes, and *)
(* ids past the widths.                                                    *)
(***************************************************************************)
EXTENDS WireProperties

Node(tag, id, balance, sym, amount, kids) ==
  [tag |-> tag, id |-> id, balance |-> balance, sym |-> sym,
   amount |-> amount, limit |-> amount, kids |-> kids]

\* An account below a symbol, and text, whose node has no id.
Kids == {<< >>, << [id |-> 1, text |-> 5] >>, << [id |-> 2, text |-> -5], [id |-> 1, text |-> 5] >>,
         << [id |-> Missing, text |-> Word] >>}

Accounts == {Node("account", id, b, Missing, Missing, << >>) :
               id \in {1, 9, Missing}, b \in {5, -5, Word}}
Symbols  == {Node("symbol", Missing, Missing, s, Missing, k) : s \in {"s1", Missing}, k \in Kids}
Orders   == {Node("order", Missing, Missing, s, n, << >>) : s \in {"s1", Missing}, n \in {5, -5, Word}}
Others   == {Node(tag, id, Missing, Missing, Missing, << >>) :
               tag \in {"query", "cancel", "other"}, id \in {1, 9, Word}}

Roots(tags, nodes) ==
  [tag : tags, id : {1, Word}, children : UNION {[1..n -> nodes] : n \in 0..2}]

Documents == Roots({"create"}, Accounts \cup Symbols \cup {Node("other", 1, 1, "s1", 1, << >>)})
             \cup Roots({"transactions", "other"}, Orders \cup Others)
             \cup [tag : {"transactions"}, id : {1},
                   children : [1..3 -> {Node("order", Missing, Missing, "s1", -5, << >>),
                                        Node("cancel", 1, Missing, Missing, Missing, << >>),
                                        Node("other", 1, Missing, Missing, Missing, << >>)}]]
=============================================================================
