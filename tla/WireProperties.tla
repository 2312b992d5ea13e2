--------------------------- MODULE WireProperties ---------------------------
(***************************************************************************)
(* What an answer's text has to do with its request's.                     *)
(***************************************************************************)
EXTENDS Wire

-----------------------------------------------------------------------------
(* What a document asks about, read off the tree.                          *)

CreateSubjects(child) ==
  CASE child.tag = "account" -> << << AsLong(child.id) >> >>
    [] child.tag = "symbol"  ->
         [n \in DOMAIN child.kids |-> << AsString(child.sym), AsLong(child.kids[n].id) >>]
    [] OTHER -> << >>

TransactionSubjects(child) ==
  CASE child.tag = "order" -> << << AsString(child.sym), AsDouble(child.amount), AsDouble(child.limit) >> >>
    [] child.tag \in {"query", "cancel"} -> << << AsInt(child.id) >> >>
    [] OTHER -> << >>

Subjects ==
  IF doc = Malformed THEN << >>
  ELSE FlattenSeq([n \in DOMAIN doc.children |->
                     IF doc.tag = "create" THEN CreateSubjects(doc.children[n])
                                           ELSE TransactionSubjects(doc.children[n])])

-----------------------------------------------------------------------------

\* The loops are within their sequences, and every result is one its item may have
\* (parser.cpp:43-63, handle_command.cpp:26-38, 187-204, 865-887).
TypeOK ==
  /\ doc \in Document \cup {Malformed}
  /\ stage \in {"load", "parse", "handle", "format", "done"}
  /\ flag \in 0..2
  /\ next \in Nat \ {0}
  /\ Len(results) <= Len(items)
  /\ \A n \in DOMAIN results : results[n] \in ResultsOf(items[n])

\* The answer has an element for every account, grant, order, query and
\* cancellation of the request, in the order of the request, that begins with what
\* the request named: clients have nothing else to tell the elements apart by
\* (parser.cpp:43-108, handle_command.cpp:896-995).
AnswersInOrder ==
  /\ Len(response) <= Len(Subjects)
  /\ \A n \in DOMAIN response : IsPrefix(Subjects[n], response[n].prints)
  /\ stage = "done" => Len(response) = Len(Subjects)

\* No element prints a member that no handler has assigned: which members are
\* depends on the return statement that was taken (handle_command.cpp:40-74,
\* 222-679, 707-863, 896-995; trans_result.hpp has no constructors).
OnlyAssignedPrinted ==
  \A n \in DOMAIN response :
    /\ Unset \notin ToSet(response[n].prints)
    /\ \A k \in DOMAIN response[n].below : Unset \notin ToSet(response[n].below[k].prints)
=============================================================================
