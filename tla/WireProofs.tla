----------------------------- MODULE WireProofs -----------------------------
(***************************************************************************)
(* What an answer's text has to do with its request's, for every document, *)
(* of any number of children, and every width of the numbers.              *)
(*                                                                         *)
(* What a document asks about is its children's subjects joined, what an   *)
(* answer says the elements of its results joined.  The two meet in the    *)
(* items: a child's item has its subjects, and a result of an item is      *)
(* written as an element for each (Linked).                                *)
(***************************************************************************)
EXTENDS WireProperties, SumProofs

-----------------------------------------------------------------------------
(* Sequences joined.                                                       *)

\* f[i] is the first i of the sequences of s, joined.
Joins(f, s, T) ==
  /\ f \in [0..Len(s) -> Seq(T)]
  /\ f[0] = << >>
  /\ \A i \in 1..Len(s) : f[i] = f[i - 1] \o s[i]

LEMMA Concatenated ==
  ASSUME NEW T, NEW a \in Seq(T), NEW b \in Seq(T)
  PROVE  /\ a \o b \in Seq(T) /\ Len(a \o b) = Len(a) + Len(b)
         /\ Len(a) \in Nat /\ Len(b) \in Nat /\ Len(a) <= Len(a \o b)
         /\ \A n \in 1..Len(a) : (a \o b)[n] = a[n]
         /\ \A n \in 1..Len(b) : (a \o b)[Len(a) + n] = b[n]
OBVIOUS

LEMMA NothingFirst == ASSUME NEW T, NEW b \in Seq(T) PROVE << >> \o b = b
OBVIOUS

LEMMA JoinedTyped ==
  ASSUME NEW T, NEW s \in Seq(Seq(T)), NEW f, Joins(f, s, T)
  PROVE  /\ Len(s) \in Nat /\ f[0] = << >> /\ DOMAIN f = 0..Len(s)
         /\ \A i \in 0..Len(s) : f[i] \in Seq(T) /\ Len(f[i]) \in Nat
         /\ \A i \in 1..Len(s) : /\ i - 1 \in 0..Len(s) /\ s[i] \in Seq(T)
                                  /\ f[i] = f[i - 1] \o s[i]
<1>1. Len(s) \in Nat
  OBVIOUS
<1>2. \A i \in 0..Len(s) : f[i] \in Seq(T)
  BY DEF Joins
<1>3. \A i \in 1..Len(s) : i - 1 \in 0..Len(s) /\ s[i] \in Seq(T)
  BY <1>1
<1>4. \A i \in 0..Len(s) : Len(f[i]) \in Nat
  BY <1>2
<1>5. f[0] = << >> /\ DOMAIN f = 0..Len(s) /\ \A i \in 1..Len(s) : f[i] = f[i - 1] \o s[i]
  BY DEF Joins
<1> QED BY <1>1, <1>2, <1>3, <1>4, <1>5

LEMMA JoinedNone == ASSUME NEW T PROVE \E f : Joins(f, << >>, T)
<1> DEFINE f == [i \in 0..0 |-> << >>]
<1>1. Joins(f, << >>, T)
  BY DEF Joins
<1> QED BY <1>1

\* One more sequence.
LEMMA JoinedMore ==
  ASSUME NEW T, NEW s \in Seq(Seq(T)), NEW f, Joins(f, s, T), NEW x \in Seq(T)
  PROVE  \E g : /\ Joins(g, Append(s, x), T)
                /\ \A i \in 0..Len(s) : g[i] = f[i]
                /\ g[Len(s) + 1] = f[Len(s)] \o x
<1> DEFINE n == Len(s)
           t == Append(s, x)
           g == [i \in 0..(n + 1) |-> IF i <= n THEN f[i] ELSE f[n] \o x]
<1>1. n \in Nat /\ Len(t) = n + 1 /\ t[n + 1] = x /\ \A i \in 1..n : t[i] = s[i]
  OBVIOUS
<1>2. f \in [0..n -> Seq(T)] /\ f[0] = << >> /\ \A i \in 1..n : f[i] = f[i - 1] \o s[i]
  BY DEF Joins
<1> HIDE DEF n, t
<1>3. f[n] \in Seq(T) /\ f[n] \o x \in Seq(T)
  BY <1>1, <1>2
<1>4. (\A i \in 0..n : g[i] = f[i]) /\ g[n + 1] = f[n] \o x /\ DOMAIN g = 0..(n + 1)
  BY <1>1
<1>5. g \in [0..(n + 1) -> Seq(T)]
  BY <1>1, <1>2, <1>3
<1> HIDE DEF g
<1>6. \A i \in 1..(n + 1) : g[i] = g[i - 1] \o t[i]
  <2> SUFFICES ASSUME NEW i \in 1..(n + 1) PROVE g[i] = g[i - 1] \o t[i]
    OBVIOUS
  <2>1. CASE i <= n
    <3>1. i \in 1..n /\ i \in 0..n /\ i - 1 \in 0..n
      BY <1>1, <2>1
    <3> QED BY <1>1, <1>2, <1>4, <3>1
  <2>2. CASE i = n + 1
    <3>1. i - 1 = n /\ n \in 0..n
      BY <1>1, <2>2
    <3> QED BY <1>1, <1>4, <2>2, <3>1
  <2> QED BY <1>1, <2>1, <2>2
<1>7. g[0] = << >>
  BY <1>1, <1>2, <1>4
<1>8. Joins(g, t, T)
  BY <1>1, <1>5, <1>6, <1>7 DEF Joins
<1> QED BY <1>4, <1>8 DEF n, t

\* Any sequence of sequences can be joined.
LEMMA JoinedExist ==
  ASSUME NEW T, NEW s \in Seq(Seq(T))
  PROVE  \E f : Joins(f, s, T)
<1> DEFINE S == {k \in 0..Len(s) : \E f : Joins(f, SubSeq(s, 1, k), T)}
           n == Len(s)
<1>1. n \in Nat
  OBVIOUS
<1>2. 0 \in S
  <2>1. SubSeq(s, 1, 0) = << >>
    OBVIOUS
  <2>2. \E f : Joins(f, SubSeq(s, 1, 0), T)
    BY <2>1, JoinedNone
  <2> QED BY <1>1, <2>2
<1>3. ASSUME NEW k \in 0..(n - 1), k \in S PROVE k + 1 \in S
  <2> DEFINE t == SubSeq(s, 1, k)
             x == s[k + 1]
  <2>1. t \in Seq(Seq(T)) /\ x \in Seq(T) /\ SubSeq(s, 1, k + 1) = Append(t, x)
    <3>1. k \in Nat /\ k + 1 \in 1..n /\ k \in 0..n
      BY <1>1
    <3>2. x \in Seq(T)
      BY <3>1
    <3>3. t \in Seq(Seq(T)) /\ Len(t) = k
      BY <3>1
    <3>4. SubSeq(s, 1, k + 1) = Append(t, x)
      BY <3>1
    <3> QED BY <3>2, <3>3, <3>4
  <2>2. PICK f : Joins(f, t, T)
    BY <1>3
  <2> HIDE DEF t, x
  <2>3. \E g : Joins(g, Append(t, x), T)
    BY <2>1, <2>2, JoinedMore
  <2>4. \E g : Joins(g, SubSeq(s, 1, k + 1), T)
    BY <2>1, <2>3
  <2>5. k + 1 \in 0..Len(s)
    BY <1>1
  <2> QED BY <2>4, <2>5
<1>4. n \in S
  <2>1. n \in 0..n
    BY <1>1
  <2> HIDE DEF S, n
  <2> QED BY <1>1, <1>2, <1>3, <2>1, UpTo
<1>5. SubSeq(s, 1, n) = s
  OBVIOUS
<1> QED BY <1>4, <1>5

\* What is joined before is the beginning of what is joined after.
LEMMA JoinedGrow ==
  ASSUME NEW T, NEW s \in Seq(Seq(T)), NEW f, Joins(f, s, T), NEW i \in 0..Len(s)
  PROVE  \A j \in i..Len(s) : /\ Len(f[i]) <= Len(f[j])
                              /\ \A n \in 1..Len(f[i]) : f[j][n] = f[i][n]
<1> DEFINE m == Len(s) - i
           Grown(k) == /\ Len(f[i]) <= Len(f[i + k])
                       /\ \A n \in 1..Len(f[i]) : f[i + k][n] = f[i][n]
           S == {k \in 0..m : Grown(k)}
<1>1. /\ Len(s) \in Nat /\ m \in Nat /\ i \in Nat
      /\ \A k \in 0..Len(s) : f[k] \in Seq(T) /\ Len(f[k]) \in Nat
      /\ \A k \in 1..Len(s) : f[k] = f[k - 1] \o s[k] /\ s[k] \in Seq(T)
  <2>1. Len(s) \in Nat /\ m \in Nat /\ i \in Nat
    OBVIOUS
  <2> QED BY <2>1, JoinedTyped
<1>2. 0 \in S
  BY <1>1
<1>3. ASSUME NEW k \in 0..(m - 1), k \in S PROVE k + 1 \in S
  <2>1. /\ i + k \in 0..Len(s) /\ i + k + 1 \in 1..Len(s) /\ i + (k + 1) = i + k + 1
        /\ (i + k + 1) - 1 = i + k
    BY <1>1
  <2> DEFINE a == f[i]
             b == f[i + k]
             x == s[i + k + 1]
             c == f[i + k + 1]
  <2>2. a \in Seq(T) /\ b \in Seq(T) /\ x \in Seq(T) /\ c = b \o x
    BY <1>1, <2>1
  <2>3. Len(a) <= Len(b) /\ \A n \in 1..Len(a) : b[n] = a[n]
    BY <1>3
  <2>4. Len(a) <= Len(c) /\ \A n \in 1..Len(a) : c[n] = a[n]
    <3> HIDE DEF a, b, c, x
    <3>1. /\ Len(b) \in Nat /\ Len(b) <= Len(c) /\ Len(c) \in Nat
          /\ \A n \in 1..Len(b) : c[n] = b[n]
      BY <2>2, Concatenated
    <3>2. Len(a) \in Nat
      BY <2>2
    <3>3. \A n \in 1..Len(a) : n \in 1..Len(b)
      BY <2>3, <3>1, <3>2
    <3> QED BY <2>3, <3>1, <3>2, <3>3
  <2>5. Grown(k + 1)
    BY <2>1, <2>4
  <2> QED BY <1>1, <2>5
<1>4. \A k \in 0..m : k \in S
  <2> HIDE DEF m, S
  <2> QED BY <1>1, <1>2, <1>3, UpTo
<1> SUFFICES ASSUME NEW j \in i..Len(s)
             PROVE  Len(f[i]) <= Len(f[j]) /\ \A n \in 1..Len(f[i]) : f[j][n] = f[i][n]
  OBVIOUS
<1>5. j - i \in 0..m /\ i + (j - i) = j
  BY <1>1
<1>6. Grown(j - i)
  BY <1>4, <1>5
<1> QED BY <1>5, <1>6

\* FlattenSeq joins them all.
LEMMA JoinedFlat ==
  ASSUME NEW T, NEW s \in Seq(Seq(T)), NEW f, Joins(f, s, T)
  PROVE  FlattenSeq(s) = f[Len(s)]
<1> DEFINE n == Len(s)
           IsFlat(g) == g = [i \in 1..n |-> IF i = 1 THEN s[i] ELSE g[i - 1] \o s[i]]
<1>1. /\ n \in Nat /\ f[0] = << >>
      /\ \A i \in 0..n : f[i] \in Seq(T)
      /\ \A i \in 1..n : f[i] = f[i - 1] \o s[i] /\ s[i] \in Seq(T)
  BY JoinedTyped
<1>2. CASE n = 0
  BY <1>1, <1>2 DEF FlattenSeq
<1>3. CASE n # 0
  <2> DEFINE h == CHOOSE g : IsFlat(g)
             e == [i \in 1..n |-> f[i]]
  <2>1. FlattenSeq(s) = h[n]
    BY <1>3 DEF FlattenSeq
  <2>2. IsFlat(e)
    <3>1. \A i \in 1..n : e[i] = IF i = 1 THEN s[i] ELSE e[i - 1] \o s[i]
      <4> SUFFICES ASSUME NEW i \in 1..n PROVE e[i] = IF i = 1 THEN s[i] ELSE e[i - 1] \o s[i]
        OBVIOUS
      <4>1. CASE i = 1
        <5>1. 1 \in 1..n /\ 1 - 1 = 0
          BY <4>1
        <5>2. f[1] = << >> \o s[1] /\ s[1] \in Seq(T)
          BY <1>1, <5>1
        <5> QED BY <4>1, <5>1, <5>2, NothingFirst
      <4>2. CASE i # 1
        <5>1. i - 1 \in 1..n
          BY <1>1, <4>2
        <5> QED BY <1>1, <4>2, <5>1
      <4> QED BY <4>1, <4>2
    <3>2. DOMAIN e = 1..n /\ e = [i \in 1..n |-> e[i]]
      OBVIOUS
    <3> HIDE DEF e
    <3> QED BY <3>1, <3>2
  <2>3. IsFlat(h)
    <3> HIDE DEF e, IsFlat
    <3> QED BY <2>2
  <2>4. \A i \in 1..n : h[i] = IF i = 1 THEN s[i] ELSE h[i - 1] \o s[i]
    <3> HIDE DEF h
    <3> QED BY <2>3
  <2> DEFINE Same(i) == i = 0 \/ h[i] = f[i]
             S == {i \in 0..n : Same(i)}
  <2> HIDE DEF h
  <2>5. 0 \in S
    BY <1>1
  <2>6. ASSUME NEW i \in 0..(n - 1), i \in S PROVE i + 1 \in S
    <3>1. i + 1 \in 1..n /\ (i + 1) - 1 = i /\ i \in 0..n
      BY <1>1
    <3>2. f[i + 1] = f[i] \o s[i + 1] /\ s[i + 1] \in Seq(T)
      BY <1>1, <3>1
    <3>3. CASE i = 0
      <4>0. i + 1 = 1 /\ f[1] = << >> \o s[1] /\ s[1] \in Seq(T)
        <5>1. i + 1 = 1
          BY <3>3
        <5>2. f[i] = << >>
          BY <1>1, <3>3
        <5> QED BY <3>2, <5>1, <5>2
      <4>1. f[1] = s[1]
        BY <4>0, NothingFirst
      <4>2. h[1] = s[1]
        BY <2>4, <3>1, <3>3
      <4> QED BY <3>1, <3>3, <4>1, <4>2
    <3>4. CASE i # 0
      <4>1. h[i] = f[i]
        BY <2>6, <3>4
      <4>2. h[i + 1] = h[i] \o s[i + 1]
        <5>1. i + 1 # 1
          BY <3>4
        <5> QED BY <2>4, <3>1, <5>1
      <4>3. h[i + 1] = f[i + 1]
        BY <3>2, <4>1, <4>2
      <4> QED BY <1>1, <3>1, <4>3
    <3> QED BY <3>3, <3>4
  <2>7. n \in S
    <3>1. n \in 0..n
      BY <1>1
    <3> HIDE DEF S, n
    <3> QED BY <1>1, <2>5, <2>6, <3>1, UpTo
  <2> QED BY <1>3, <2>1, <2>7
<1> QED BY <1>2, <1>3

\* The first n of the sequences of s, joined.
Joined(s, n) == FlattenSeq(SubSeq(s, 1, n))

LEMMA JoinedPart ==
  ASSUME NEW T, NEW s \in Seq(Seq(T)), NEW f, Joins(f, s, T), NEW i \in 0..Len(s)
  PROVE  Joined(s, i) = f[i]
<1> DEFINE t == SubSeq(s, 1, i)
           g == [k \in 0..i |-> f[k]]
<1>1. i \in Nat /\ \A k \in 0..i : k \in 0..Len(s)
  OBVIOUS
<1>2. t \in Seq(Seq(T)) /\ Len(t) = i /\ \A k \in 1..i : t[k] = s[k] /\ k \in 1..Len(s)
  OBVIOUS
<1> HIDE DEF t
<1>0. /\ f[0] = << >>
      /\ \A k \in 0..Len(s) : f[k] \in Seq(T)
      /\ \A k \in 1..Len(s) : f[k] = f[k - 1] \o s[k]
  BY JoinedTyped
<1>3. g \in [0..i -> Seq(T)]
  BY <1>0, <1>1
<1>4. g[0] = << >>
  <2>1. 0 \in 0..i
    BY <1>1
  <2> QED BY <1>0, <2>1
<1>5. \A k \in 1..i : k - 1 \in 0..i /\ k \in 0..i
  BY <1>1
<1>6. \A k \in 1..i : g[k] = g[k - 1] \o t[k]
  BY <1>0, <1>1, <1>2, <1>5
<1>7. g[i] = f[i]
  <2>1. i \in 0..i
    BY <1>1
  <2> QED BY <2>1
<1> HIDE DEF g
<1>8. Joins(g, t, T)
  BY <1>2, <1>3, <1>4, <1>6 DEF Joins
<1>9. FlattenSeq(t) = g[i]
  BY <1>2, <1>8, JoinedFlat
<1> QED BY <1>7, <1>9 DEF Joined, t

\* What joining the sequences one by one comes to.
LEMMA JoinedParts ==
  ASSUME NEW T, NEW s \in Seq(Seq(T))
  PROVE  /\ Len(s) \in Nat
         /\ Joined(s, 0) = << >>
         /\ Joined(s, Len(s)) = FlattenSeq(s)
         /\ \A i \in 0..Len(s) : Joined(s, i) \in Seq(T)
         /\ \A i \in 1..Len(s) : Joined(s, i) = Joined(s, i - 1) \o s[i]
         /\ \A i \in 0..Len(s) :
              /\ Len(Joined(s, i)) <= Len(FlattenSeq(s))
              /\ \A n \in 1..Len(Joined(s, i)) : FlattenSeq(s)[n] = Joined(s, i)[n]
<1>1. PICK f : Joins(f, s, T)
  BY JoinedExist
<1>2. /\ Len(s) \in Nat /\ f[0] = << >>
      /\ \A i \in 0..Len(s) : f[i] \in Seq(T)
      /\ \A i \in 1..Len(s) : i - 1 \in 0..Len(s) /\ f[i] = f[i - 1] \o s[i]
  BY <1>1, JoinedTyped
<1>3. \A i \in 0..Len(s) : Joined(s, i) = f[i]
  BY <1>1, JoinedPart
<1>4. FlattenSeq(s) = f[Len(s)]
  BY <1>1, JoinedFlat
<1>5. 0 \in 0..Len(s) /\ Len(s) \in 0..Len(s) /\ 1..Len(s) \subseteq 0..Len(s)
  BY <1>2
<1>6. \A i \in 0..Len(s) : /\ Len(f[i]) <= Len(f[Len(s)])
                            /\ \A n \in 1..Len(f[i]) : f[Len(s)][n] = f[i][n]
  <2> SUFFICES ASSUME NEW i \in 0..Len(s)
               PROVE  /\ Len(f[i]) <= Len(f[Len(s)])
                      /\ \A n \in 1..Len(f[i]) : f[Len(s)][n] = f[i][n]
    OBVIOUS
  <2>1. Len(s) \in i..Len(s)
    BY <1>2
  <2> QED BY <1>1, <2>1, JoinedGrow
<1>7. \A i \in 1..Len(s) : Joined(s, i) = Joined(s, i - 1) \o s[i]
  BY <1>2, <1>3, <1>5
<1>8. \A i \in 0..Len(s) :
        /\ Len(Joined(s, i)) <= Len(FlattenSeq(s))
        /\ \A n \in 1..Len(Joined(s, i)) : FlattenSeq(s)[n] = Joined(s, i)[n]
  BY <1>3, <1>4, <1>6
<1>9. Joined(s, 0) = << >> /\ Joined(s, Len(s)) = FlattenSeq(s)
  BY <1>2, <1>3, <1>4, <1>5
<1>10. \A i \in 0..Len(s) : Joined(s, i) \in Seq(T)
  BY <1>2, <1>3
<1> QED BY ONLY <1>2, <1>7, <1>8, <1>9, <1>10

LEMMA FlatMore ==
  ASSUME NEW T, NEW s \in Seq(Seq(T)), NEW x \in Seq(T)
  PROVE  FlattenSeq(Append(s, x)) = FlattenSeq(s) \o x
<1> DEFINE t == Append(s, x)
           n == Len(s)
<1>1. /\ t \in Seq(Seq(T)) /\ n \in Nat /\ Len(t) = n + 1 /\ t[n + 1] = x
      /\ n + 1 \in 1..Len(t) /\ (n + 1) - 1 = n
  OBVIOUS
<1>2. SubSeq(t, 1, n) = s
  OBVIOUS
<1> HIDE DEF t, n
<1>3. Joined(t, n + 1) = FlattenSeq(t) /\ Joined(t, n + 1) = Joined(t, n) \o x
  BY <1>1, JoinedParts
<1> QED BY <1>2, <1>3 DEF Joined, t

-----------------------------------------------------------------------------
(* Items.                                                                  *)

Value == Int \cup Name \cup Message

Text == Name \cup {""}

GrantItem   == [account : Int, shares : Int]
AccountItem == [kind : {"account"}, account : Int, balance : Int]
SymbolItem  == [kind : {"symbol"}, symbol : Text, grants : Seq(GrantItem)]
OrderItem   == [kind : {"order"}, account : Int, symbol : Text, amount : Int, limit : Int]
IdItem      == [kind : {"query", "cancel"}, account : Int, id : Int]

CreateItem      == AccountItem \cup SymbolItem
TransactionItem == OrderItem \cup IdItem

ItemOf(f) == IF f = 0 THEN CreateItem ELSE TransactionItem

\* What an item asks about, in the words of its child.
SubjectsOf(item) ==
  CASE item.kind = "account" -> << << item.account >> >>
    [] item.kind = "symbol"  ->
         [n \in DOMAIN item.grants |-> << item.symbol, item.grants[n].account >>]
    [] item.kind = "order"   -> << << item.symbol, item.amount, item.limit >> >>
    [] OTHER -> << << item.id >> >>

LEMMA Numbers ==
  ASSUME NEW a \in Attribute
  PROVE  AsDouble(a) \in Int /\ AsLong(a) \in Int /\ AsInt(a) \in Int
<1>1. AsDouble(a) \in Int
  BY DEF AsDouble, Attribute
<1>2. \A n \in Int, max \in Nat : Clamp(n, max) \in Int
  BY DEF Clamp
<1> QED BY <1>1, <1>2, WidthAssumption DEF AsLong, AsInt

LEMMA Names == ASSUME NEW a \in Name \cup {Missing} PROVE AsString(a) \in Text
BY DEF AsString, Text

LEMMA TextValues == Text \subseteq Value
BY DEF Text, Value, Message

LEMMA ChildParts ==
  ASSUME NEW child \in Child
  PROVE  /\ child.id \in Attribute /\ child.balance \in Attribute
         /\ child.amount \in Attribute /\ child.limit \in Attribute
         /\ child.sym \in Name \cup {Missing} /\ child.kids \in Seq(Kid)
BY DEF Child

LEMMA GrantsTyped ==
  ASSUME NEW child \in Child
  PROVE  /\ Grants(child) \in Seq(GrantItem) /\ DOMAIN Grants(child) = DOMAIN child.kids
         /\ \A n \in DOMAIN child.kids : Grants(child)[n].account = AsLong(child.kids[n].id)
<1>1. child.kids \in Seq(Kid) /\ Len(child.kids) \in Nat /\ DOMAIN child.kids = 1..Len(child.kids)
  BY ChildParts
<1>2. \A n \in DOMAIN child.kids :
        [account |-> AsLong(child.kids[n].id), shares |-> AsDouble(child.kids[n].text)] \in GrantItem
  <2> SUFFICES ASSUME NEW n \in DOMAIN child.kids
               PROVE  [account |-> AsLong(child.kids[n].id), shares |-> AsDouble(child.kids[n].text)]
                        \in GrantItem
    OBVIOUS
  <2>1. child.kids[n] \in Kid
    BY <1>1
  <2>2. child.kids[n].id \in Attribute /\ child.kids[n].text \in Attribute
    BY <2>1 DEF Kid
  <2> QED BY <2>2, Numbers DEF GrantItem
<1> QED BY <1>1, <1>2 DEF Grants

\* A child that is read has one item, which asks about what the child names.
ReadAs(list, subjects, S) ==
  \/ list = << >> /\ subjects = << >>
  \/ \E item \in S : list = << item >> /\ subjects = SubjectsOf(item)

LEMMA CreateRead ==
  ASSUME NEW child \in Child
  PROVE  ReadAs(CreateItems(child), CreateSubjects(child), CreateItem)
<1>1. CASE child.tag = "account"
  <2> DEFINE item == [kind |-> "account", account |-> AsLong(child.id),
                      balance |-> AsDouble(child.balance)]
  <2>1. item \in CreateItem
    BY ChildParts, Numbers DEF CreateItem, AccountItem
  <2>2. CreateItems(child) = << item >>
    BY <1>1 DEF CreateItems
  <2>3. CreateSubjects(child) = SubjectsOf(item)
    BY <1>1 DEF CreateSubjects, SubjectsOf
  <2> QED BY <2>1, <2>2, <2>3 DEF ReadAs
<1>2. CASE child.tag = "symbol"
  <2> DEFINE item == [kind |-> "symbol", symbol |-> AsString(child.sym), grants |-> Grants(child)]
  <2>1. item \in CreateItem
    BY ChildParts, Names, GrantsTyped DEF CreateItem, SymbolItem
  <2>2. CreateItems(child) = << item >>
    BY <1>2 DEF CreateItems
  <2>3. CreateSubjects(child) = SubjectsOf(item)
    <3>1. SubjectsOf(item) = [n \in DOMAIN Grants(child) |->
                                << AsString(child.sym), Grants(child)[n].account >>]
      BY DEF SubjectsOf
    <3>2. CreateSubjects(child) = [n \in DOMAIN child.kids |->
                                     << AsString(child.sym), AsLong(child.kids[n].id) >>]
      BY <1>2 DEF CreateSubjects
    <3> QED BY <3>1, <3>2, GrantsTyped
  <2> QED BY <2>1, <2>2, <2>3 DEF ReadAs
<1>3. CASE child.tag \notin {"account", "symbol"}
  BY <1>3 DEF CreateItems, CreateSubjects, ReadAs
<1> QED BY <1>1, <1>2, <1>3

LEMMA TransactionRead ==
  ASSUME doc.id \in Attribute, NEW child \in Child
  PROVE  ReadAs(TransactionItems(child), TransactionSubjects(child), TransactionItem)
<1>1. CASE child.tag = "order"
  <2> DEFINE item == [kind |-> "order", account |-> AsLong(doc.id), symbol |-> AsString(child.sym),
                      amount |-> AsDouble(child.amount), limit |-> AsDouble(child.limit)]
  <2>1. item \in TransactionItem
    BY ChildParts, Numbers, Names DEF TransactionItem, OrderItem
  <2>2. TransactionItems(child) = << item >>
    BY <1>1 DEF TransactionItems
  <2>3. TransactionSubjects(child) = SubjectsOf(item)
    BY <1>1 DEF TransactionSubjects, SubjectsOf
  <2> QED BY <2>1, <2>2, <2>3 DEF ReadAs
<1>2. CASE child.tag \in {"query", "cancel"}
  <2> DEFINE item == [kind |-> child.tag, account |-> AsLong(doc.id), id |-> AsInt(child.id)]
  <2>1. item \in TransactionItem
    BY <1>2, ChildParts, Numbers DEF TransactionItem, IdItem
  <2>2. TransactionItems(child) = << item >>
    BY <1>2 DEF TransactionItems
  <2>3. TransactionSubjects(child) = SubjectsOf(item)
    BY <1>2 DEF TransactionSubjects, SubjectsOf
  <2> QED BY <2>1, <2>2, <2>3 DEF ReadAs
<1>3. CASE child.tag \notin {"order", "query", "cancel"}
  BY <1>3 DEF TransactionItems, TransactionSubjects, ReadAs
<1> QED BY <1>1, <1>2, <1>3

LEMMA SubjectsTyped ==
  ASSUME NEW item \in CreateItem \cup TransactionItem
  PROVE  SubjectsOf(item) \in Seq(Seq(Value))
<1>1. CASE item \in AccountItem
  <2>1. item.kind = "account" /\ item.account \in Value
    BY <1>1 DEF AccountItem, Value
  <2>2. SubjectsOf(item) = << << item.account >> >>
    BY <2>1 DEF SubjectsOf
  <2> QED BY <2>1, <2>2
<1>2. CASE item \in SymbolItem
  <2>1. /\ item.kind = "symbol" /\ item.symbol \in Value
        /\ item.grants \in Seq(GrantItem) /\ Len(item.grants) \in Nat
        /\ DOMAIN item.grants = 1..Len(item.grants)
    BY <1>2, TextValues DEF SymbolItem
  <2>2. \A n \in DOMAIN item.grants : item.grants[n].account \in Value
    <3>1. \A n \in DOMAIN item.grants : item.grants[n] \in GrantItem
      BY <2>1
    <3> QED BY <3>1 DEF GrantItem, Value
  <2>3. \A n \in DOMAIN item.grants : << item.symbol, item.grants[n].account >> \in Seq(Value)
    BY <2>1, <2>2
  <2> QED BY <2>1, <2>3 DEF SubjectsOf
<1>3. CASE item \in OrderItem
  <2>1. /\ item.kind = "order" /\ item.symbol \in Value
        /\ item.amount \in Value /\ item.limit \in Value
    BY <1>3, TextValues DEF OrderItem, Value
  <2>2. SubjectsOf(item) = << << item.symbol, item.amount, item.limit >> >>
    BY <2>1 DEF SubjectsOf
  <2> QED BY <2>1, <2>2
<1>4. CASE item \in IdItem
  <2>1. item.kind \in {"query", "cancel"} /\ item.id \in Value
    BY <1>4 DEF IdItem, Value
  <2>2. SubjectsOf(item) = << << item.id >> >>
    BY <2>1 DEF SubjectsOf
  <2> QED BY <2>1, <2>2
<1> QED BY <1>1, <1>2, <1>3, <1>4 DEF CreateItem, TransactionItem

-----------------------------------------------------------------------------
(* Answers.                                                                *)

ElementName == {"created", "error", "opened", "status", "canceled", "open", "executed"}

\* An element of the answer, and one below it: every value it prints was assigned.
Leaf    == [name : ElementName, prints : Seq(Value), below : {<< >>}]
Printed == [name : ElementName, prints : Seq(Value), below : Seq(Leaf)]

\* An element for every subject, in the same order, that begins with it.
Answers(elements, subjects) ==
  /\ Len(elements) = Len(subjects)
  /\ \A n \in DOMAIN elements : IsPrefix(subjects[n], elements[n].prints)

\* The elements say what an item asks about.
Written(elements, item) == elements \in Seq(Printed) /\ Answers(elements, SubjectsOf(item))

LEMMA Begins ==
  ASSUME NEW s \in Seq(Value), NEW t \in Seq(Value), Len(s) <= Len(t),
         \A n \in 1..Len(s) : t[n] = s[n]
  PROVE  IsPrefix(s, t)
<1>1. Len(s) \in Nat /\ Len(t) \in Nat
  OBVIOUS
<1>2. SubSeq(s, 1, Len(s)) = SubSeq(t, 1, Len(s))
  OBVIOUS
<1> QED BY <1>2 DEF IsPrefix

\* Answers follow each other as what they answer does.
LEMMA AnswersFollow ==
  ASSUME NEW e \in Seq(Printed), NEW s \in Seq(Seq(Value)), Answers(e, s),
         NEW d \in Seq(Printed), NEW r \in Seq(Seq(Value)), Answers(d, r)
  PROVE  e \o d \in Seq(Printed) /\ Answers(e \o d, s \o r)
<1>1. /\ Len(e) \in Nat /\ Len(d) \in Nat /\ DOMAIN e = 1..Len(e) /\ DOMAIN d = 1..Len(d)
      /\ Len(e) = Len(s) /\ Len(d) = Len(r)
  BY DEF Answers
<1>2. /\ e \o d \in Seq(Printed) /\ DOMAIN (e \o d) = 1..(Len(e) + Len(d))
      /\ Len(e \o d) = Len(e) + Len(d) /\ Len(s \o r) = Len(s) + Len(r)
  OBVIOUS
<1>3. \A n \in 1..Len(e) : (e \o d)[n] = e[n] /\ (s \o r)[n] = s[n]
  BY <1>1
<1>4. \A n \in 1..Len(d) : (e \o d)[Len(e) + n] = d[n] /\ (s \o r)[Len(e) + n] = r[n]
  BY <1>1
<1>5. \A n \in 1..(Len(e) + Len(d)) : IsPrefix((s \o r)[n], (e \o d)[n].prints)
  <2> SUFFICES ASSUME NEW n \in 1..(Len(e) + Len(d))
               PROVE  IsPrefix((s \o r)[n], (e \o d)[n].prints)
    OBVIOUS
  <2>1. CASE n <= Len(e)
    <3>1. n \in 1..Len(e)
      BY <1>1, <2>1
    <3>2. (e \o d)[n] = e[n] /\ (s \o r)[n] = s[n] /\ IsPrefix(s[n], e[n].prints)
      BY <1>1, <1>3, <3>1 DEF Answers
    <3> QED BY <3>2
  <2>2. CASE n > Len(e)
    <3> DEFINE k == n - Len(e)
    <3>1. k \in 1..Len(d) /\ Len(e) + k = n
      BY <1>1, <2>2
    <3>2. (e \o d)[n] = d[k] /\ (s \o r)[n] = r[k] /\ IsPrefix(r[k], d[k].prints)
      BY <1>1, <1>4, <3>1 DEF Answers
    <3> QED BY <3>2
  <2> QED BY <1>1, <2>1, <2>2
<1> QED BY <1>1, <1>2, <1>5 DEF Answers

\* One element for one subject.
LEMMA OneWritten ==
  ASSUME NEW item, NEW s \in Seq(Value), NEW e \in Printed,
         SubjectsOf(item) = << s >>, Len(s) <= Len(e.prints),
         \A n \in 1..Len(s) : e.prints[n] = s[n]
  PROVE  Written(<< e >>, item)
<1>1. e.prints \in Seq(Value)
  BY DEF Printed
<1>2. IsPrefix(s, e.prints)
  BY <1>1, Begins
<1>3. Answers(<< e >>, << s >>)
  BY <1>2 DEF Answers
<1> QED BY <1>3 DEF Written

LEMMA ElementTyped ==
  ASSUME NEW name \in ElementName, NEW prints \in Seq(Value)
  PROVE  /\ Element(name, prints, << >>) \in Leaf
         /\ \A below \in Seq(Leaf) : Element(name, prints, below) \in Printed
         /\ Element(name, prints, << >>) \in Printed
<1>1. Element(name, prints, << >>) \in Leaf
  BY DEF Element, Leaf
<1>2. \A below \in Seq(Leaf) : Element(name, prints, below) \in Printed
  BY DEF Element, Printed
<1>3. << >> \in Seq(Leaf)
  OBVIOUS
<1> QED BY <1>1, <1>2, <1>3

LEMMA Texts == Message \subseteq Value /\ Int \subseteq Value
BY DEF Value

LEMMA AccountWritten ==
  ASSUME NEW item \in AccountItem, NEW r \in AccountResults(item)
  PROVE  Written(CreateElements(r), item)
<1>1. item.kind = "account" /\ item.account \in Value
  BY DEF AccountItem, Value
<1>2. r.kind = "account" /\ r.account = item.account /\ r.msg \in Value
  <2>1. PICK m \in Message : r = [kind |-> "account", account |-> item.account, msg |-> m]
    BY DEF AccountResults, Message
  <2> QED BY <2>1, Texts
<1>3. SubjectsOf(item) = << << item.account >> >>
  BY <1>1 DEF SubjectsOf
<1> DEFINE done  == Element("created", << r.account >>, << >>)
           error == Element("error", << r.account, r.msg >>, << >>)
<1>4. done \in Printed /\ error \in Printed
  <2>1. << r.account >> \in Seq(Value) /\ << r.account, r.msg >> \in Seq(Value)
    BY <1>1, <1>2
  <2> QED BY <2>1, ElementTyped DEF ElementName
<1>5. CreateElements(r) = << done >> \/ CreateElements(r) = << error >>
  BY <1>2 DEF CreateElements
<1>6. done.prints = << item.account >> /\ error.prints = << item.account, r.msg >>
  BY <1>2 DEF Element
<1> HIDE DEF done, error
<1>7. << item.account >> \in Seq(Value)
  BY <1>1
<1>8. Written(<< done >>, item)
  BY <1>3, <1>4, <1>6, <1>7, OneWritten
<1>9. Written(<< error >>, item)
  BY <1>3, <1>4, <1>6, <1>7, OneWritten
<1> QED BY <1>5, <1>8, <1>9

LEMMA SymbolWritten ==
  ASSUME NEW item \in SymbolItem, NEW r \in SymbolResults(item)
  PROVE  Written(CreateElements(r), item)
<1> DEFINE n == Len(item.grants)
<1>1. /\ item.kind = "symbol" /\ item.symbol \in Value
      /\ n \in Nat /\ DOMAIN item.grants = 1..n
      /\ \A k \in 1..n : item.grants[k].account \in Value
  <2>1. item.kind = "symbol" /\ item.symbol \in Value /\ item.grants \in Seq(GrantItem)
    BY TextValues DEF SymbolItem
  <2>2. n \in Nat /\ DOMAIN item.grants = 1..n /\ \A k \in 1..n : item.grants[k] \in GrantItem
    BY <2>1
  <2> QED BY <2>1, <2>2 DEF GrantItem, Value
<1> HIDE DEF n
<1>2. PICK list \in NotesOf(item) :
        r = [kind |-> "symbol", symbol |-> item.symbol, account_share_list |-> item.grants,
             result_list |-> list]
  BY DEF SymbolResults
<1>3. /\ r.kind = "symbol" /\ r.symbol = item.symbol /\ r.account_share_list = item.grants
      /\ \A k \in 1..n : Note(r, k) \in Value
  <2>1. /\ r.kind = "symbol" /\ r.symbol = item.symbol /\ r.account_share_list = item.grants
        /\ r.result_list = list
    BY <1>2
  <2>2. DOMAIN list = 1..n /\ \A k \in 1..n : list[k] \in Message
    BY <1>1 DEF NotesOf, Message
  <2> QED BY <2>1, <2>2, Texts DEF Note
<1> DEFINE done(k)  == Element("created", << item.symbol, item.grants[k].account >>, << >>)
           error(k) == Element("error", << item.symbol, item.grants[k].account, Note(r, k) >>, << >>)
           e == CreateElements(r)
<1>4. e = [k \in 1..n |-> IF Note(r, k) = "Success" THEN done(k) ELSE error(k)]
  BY <1>1, <1>3 DEF CreateElements
<1>5. SubjectsOf(item) = [k \in 1..n |-> << item.symbol, item.grants[k].account >>]
  BY <1>1 DEF SubjectsOf
<1>6. \A k \in 1..n : /\ << item.symbol, item.grants[k].account >> \in Seq(Value)
                      /\ << item.symbol, item.grants[k].account, Note(r, k) >> \in Seq(Value)
  BY <1>1, <1>3
<1>7. \A k \in 1..n : /\ done(k) \in Printed /\ error(k) \in Printed
                      /\ IsPrefix(<< item.symbol, item.grants[k].account >>, done(k).prints)
                      /\ IsPrefix(<< item.symbol, item.grants[k].account >>, error(k).prints)
  <2> SUFFICES ASSUME NEW k \in 1..n
               PROVE  /\ done(k) \in Printed /\ error(k) \in Printed
                      /\ IsPrefix(<< item.symbol, item.grants[k].account >>, done(k).prints)
                      /\ IsPrefix(<< item.symbol, item.grants[k].account >>, error(k).prints)
    OBVIOUS
  <2> DEFINE s == << item.symbol, item.grants[k].account >>
             u == << item.symbol, item.grants[k].account, Note(r, k) >>
  <2>1. s \in Seq(Value) /\ u \in Seq(Value)
    BY <1>6
  <2>2. done(k) \in Printed /\ error(k) \in Printed
    <3> HIDE DEF s, u
    <3>1. Element("created", s, << >>) \in Printed /\ Element("error", u, << >>) \in Printed
      BY <2>1, ElementTyped DEF ElementName
    <3> QED BY <3>1 DEF s, u
  <2>3. IsPrefix(s, s) /\ IsPrefix(s, u)
    BY DEF IsPrefix
  <2> QED BY <2>2, <2>3 DEF Element
<1>8. /\ Len(e) = n /\ DOMAIN e = 1..n /\ e \in Seq(Printed)
      /\ \A k \in 1..n : e[k] = done(k) \/ e[k] = error(k)
  <2> HIDE DEF done, error, e
  <2>1. \A k \in 1..n : e[k] \in Printed /\ (e[k] = done(k) \/ e[k] = error(k))
    BY <1>4, <1>7
  <2> QED BY <1>1, <1>4, <2>1
<1>9. Len(SubjectsOf(item)) = n
  BY <1>1, <1>5
<1> HIDE DEF done, error, e
<1>10. \A k \in 1..n : IsPrefix(SubjectsOf(item)[k], e[k].prints)
  BY <1>5, <1>7, <1>8
<1> QED BY <1>8, <1>9, <1>10 DEF Written, Answers, e

LEMMA OneMore ==
  ASSUME NEW s \in Seq(Value), NEW p \in Seq(Value), NEW q \in Seq(Value),
         Len(s) = 3, Len(p) = 4, Len(q) = 1, \A n \in 1..3 : p[n] = s[n], p[4] = q[1]
  PROVE  s \o q = p
<1> DEFINE c == s \o q
<1>1. /\ c \in Seq(Value) /\ Len(c) = Len(s) + Len(q)
      /\ \A n \in 1..Len(s) : c[n] = s[n]
      /\ \A n \in 1..Len(q) : c[Len(s) + n] = q[n]
  BY ONLY s \in Seq(Value), q \in Seq(Value), Concatenated
<1> HIDE DEF c
<1>2. c[3 + 1] = q[1]
  <2>1. 1 \in 1..Len(q)
    OBVIOUS
  <2> QED BY <1>1, <2>1
<1>3. \A n \in 1..4 : c[n] = p[n]
  <2>1. \A n \in 1..4 : n \in 1..3 \/ n = 4
    OBVIOUS
  <2>2. c[4] = p[4]
    BY <1>2
  <2> QED BY <1>1, <2>1, <2>2
<1>4. c = p
  BY <1>1, <1>3
<1> QED BY <1>4 DEF c

LEMMA OrderWritten ==
  ASSUME NEW item \in OrderItem, NEW r \in OrderResults(item)
  PROVE  Written(<< TransElement(r) >>, item)
<1>1. /\ item.kind = "order" /\ item.symbol \in Value
      /\ item.amount \in Value /\ item.limit \in Value
  BY TextValues, Texts DEF OrderItem
<1>2. /\ r.kind = "order" /\ r.sym_name = item.symbol /\ r.amount = item.amount
      /\ r.limit = item.limit /\ r.msg \in Message /\ (r.msg = "Success" => r.trans_id = 1)
  BY <1>1 DEF OrderResults, NoResult, Message
<1> DEFINE s == << item.symbol, item.amount, item.limit >>
           last == IF r.msg = "Success" THEN r.trans_id ELSE r.msg
           p == << item.symbol, item.amount, item.limit, last >>
           e == TransElement(r)
<1>3. last \in Value
  BY <1>2, Texts
<1> HIDE DEF last
<1>4. s \in Seq(Value) /\ p \in Seq(Value) /\ OrderPrinted(r) = s /\ s \o << last >> = p
  <2>1. OrderPrinted(r) = s
    BY <1>2 DEF OrderPrinted
  <2>2. s \in Seq(Value) /\ p \in Seq(Value)
    BY <1>1, <1>3
  <2>3. s \o << last >> = p
    <3> DEFINE q == << last >>
    <3>1. q \in Seq(Value) /\ Len(q) = 1 /\ Len(s) = 3 /\ Len(p) = 4
      BY <1>3
    <3>2. (\A n \in 1..3 : p[n] = s[n]) /\ p[4] = q[1]
      OBVIOUS
    <3> HIDE DEF s, p, q
    <3>3. s \o q = p
      BY <2>2, <3>1, <3>2, OneMore
    <3> QED BY <3>3 DEF q
  <2> QED BY <2>1, <2>2, <2>3
<1>5. e = Element("opened", p, << >>) \/ e = Element("error", p, << >>)
  BY <1>2, <1>4 DEF TransElement, last
<1>6. Len(s) <= Len(p) /\ \A n \in 1..Len(s) : p[n] = s[n]
  OBVIOUS
<1>7. SubjectsOf(item) = << s >>
  BY <1>1 DEF SubjectsOf
<1> HIDE DEF s, p, e
<1>8. e \in Printed /\ e.prints = p
  BY <1>4, <1>5, ElementTyped DEF ElementName, Element
<1>9. Written(<< e >>, item)
  BY <1>4, <1>6, <1>7, <1>8, OneWritten
<1> QED BY <1>9 DEF e

LEMMA ExecutedTyped ==
  ASSUME NEW list \in Executed
  PROVE  ExecutedElements(list) \in Seq(Leaf)
<1>1. \A n \in DOMAIN list : list[n] = 1
  BY DEF Executed
<1>2. << 1 >> \in Seq(Value)
  BY Texts
<1>3. Element("executed", << 1 >>, << >>) \in Leaf
  BY <1>2, ElementTyped DEF ElementName
<1>4. list \in Seq(Int)
  <2>1. CASE list = << >>
    BY <2>1
  <2>2. CASE list = << 1 >>
    BY <2>2
  <2> QED BY <2>1, <2>2 DEF Executed
<1>5. Len(list) \in Nat /\ DOMAIN list = 1..Len(list)
  BY <1>4
<1>6. \A n \in 1..Len(list) : Element("executed", << list[n] >>, << >>) \in Leaf
  BY <1>1, <1>3, <1>5
<1> QED BY <1>5, <1>6 DEF ExecutedElements

\* The element of a query or a cancellation begins with the order's number.
LEMMA IdWritten ==
  ASSUME NEW item \in IdItem, NEW r, NEW below \in Seq(Leaf), NEW name \in ElementName,
         r.trans_id = item.id, r.msg \in Message
  PROVE  /\ Written(<< Element(name, << r.trans_id >>, below) >>, item)
         /\ Written(<< Element("error", << r.trans_id, r.msg >>, << >>) >>, item)
<1> DEFINE s == << item.id >>
           p == << item.id, r.msg >>
<1>1. item.kind \in {"query", "cancel"} /\ item.id \in Value
  BY Texts DEF IdItem
<1>2. SubjectsOf(item) = << s >>
  BY <1>1 DEF SubjectsOf
<1>3. s \in Seq(Value) /\ p \in Seq(Value)
  BY <1>1, Texts
<1>4. /\ Len(s) <= Len(s) /\ Len(s) <= Len(p)
      /\ \A n \in 1..Len(s) : p[n] = s[n]
  OBVIOUS
<1> HIDE DEF s, p
<1>5. Element(name, s, below) \in Printed /\ Element("error", p, << >>) \in Printed
  BY <1>3, ElementTyped DEF ElementName
<1>6. Element(name, s, below).prints = s /\ Element("error", p, << >>).prints = p
  BY DEF Element
<1>7. Written(<< Element(name, s, below) >>, item)
  BY <1>2, <1>3, <1>4, <1>5, <1>6, OneWritten
<1>8. Written(<< Element("error", p, << >>) >>, item)
  BY <1>2, <1>3, <1>4, <1>5, <1>6, OneWritten
<1> QED BY <1>7, <1>8 DEF s, p

LEMMA QueryWritten ==
  ASSUME NEW item \in IdItem, item.kind = "query", NEW r \in QueryResults(item)
  PROVE  Written(<< TransElement(r) >>, item)
<1>1. /\ r.kind = "query" /\ r.trans_id = item.id /\ r.msg \in Message
      /\ r.msg = "Success" =>
           /\ r.executed \in Executed
           /\ \/ r.query_flag = 0 /\ r.open_shares = 1
              \/ r.query_flag = 1 /\ r.canceled_shares = 1 /\ r.canceled_time = 1
              \/ r.query_flag = 2
  <2> DEFINE ans   == [NoResult(item) EXCEPT !.trans_id = item.id]
             error(m) == [ans EXCEPT !.msg = m]
             ok(e)    == [ans EXCEPT !.msg = "Success", !.executed = e]
             open(q)     == [q EXCEPT !.query_flag = 0, !.open_shares = 1]
             canceled(q) == [q EXCEPT !.query_flag = 1, !.canceled_shares = 1, !.canceled_time = 1]
             filled(q)   == [q EXCEPT !.query_flag = 2]
             Errors == {"Account to be queryed does not exist!", "No access to query other accounts"}
  <2>1. \/ \E m \in Errors : r = error(m)
        \/ \E e \in Executed : r \in {open(ok(e)), canceled(ok(e)), filled(ok(e))}
    <3>1. QueryResults(item) = {error(m) : m \in Errors}
            \cup {open(q) : q \in {ok(e) : e \in Executed}}
            \cup {canceled(q) : q \in {ok(e) : e \in Executed}}
            \cup {filled(q) : q \in {ok(e) : e \in Executed}}
      BY Zenon DEF QueryResults
    <3> HIDE DEF ans, error, ok, open, canceled, filled, Errors
    <3> QED BY <3>1
  <2>2. ASSUME NEW m \in Errors, r = error(m)
        PROVE  r.kind = "query" /\ r.trans_id = item.id /\ r.msg = m /\ m # "Success"
               /\ m \in Message
    BY <2>2 DEF NoResult, Message
  <2>3. ASSUME NEW e \in Executed, r = open(ok(e))
        PROVE  /\ r.kind = "query" /\ r.trans_id = item.id /\ r.msg = "Success"
               /\ r.executed = e /\ r.query_flag = 0 /\ r.open_shares = 1
    BY <2>3 DEF NoResult
  <2>4. ASSUME NEW e \in Executed, r = canceled(ok(e))
        PROVE  /\ r.kind = "query" /\ r.trans_id = item.id /\ r.msg = "Success"
               /\ r.executed = e /\ r.query_flag = 1 /\ r.canceled_shares = 1
               /\ r.canceled_time = 1
    BY <2>4 DEF NoResult
  <2>5. ASSUME NEW e \in Executed, r = filled(ok(e))
        PROVE  /\ r.kind = "query" /\ r.trans_id = item.id /\ r.msg = "Success"
               /\ r.executed = e /\ r.query_flag = 2
    BY <2>5 DEF NoResult
  <2> HIDE DEF ans, error, ok, open, canceled, filled, Errors
  <2>6. "Success" \in Message
    BY DEF Message
  <2> QED BY <2>1, <2>2, <2>3, <2>4, <2>5, <2>6
<1>2. CASE r.msg = "Success"
  <2> DEFINE below == StatusElements(r) \o ExecutedElements(r.executed)
  <2>1. StatusElements(r) \in Seq(Leaf)
    <3>1. << 1 >> \in Seq(Value) /\ << 1, 1 >> \in Seq(Value)
      BY Texts
    <3>2. Element("open", << 1 >>, << >>) \in Leaf /\ Element("canceled", << 1, 1 >>, << >>) \in Leaf
      BY <3>1, ElementTyped DEF ElementName
    <3> QED BY <1>1, <1>2, <3>2 DEF StatusElements, CanceledElement
  <2>2. below \in Seq(Leaf)
    <3>1. ExecutedElements(r.executed) \in Seq(Leaf)
      BY <1>1, <1>2, ExecutedTyped
    <3> HIDE DEF below
    <3> QED BY <2>1, <3>1 DEF below
  <2>3. TransElement(r) = Element("status", << r.trans_id >>, below)
    BY <1>1, <1>2 DEF TransElement
  <2> HIDE DEF below
  <2>4. Written(<< Element("status", << r.trans_id >>, below) >>, item)
    BY <1>1, <2>2, IdWritten DEF ElementName
  <2> QED BY <2>3, <2>4
<1>3. CASE r.msg # "Success"
  <2>1. TransElement(r) = Element("error", << r.trans_id, r.msg >>, << >>)
    BY <1>1, <1>3 DEF TransElement
  <2>2. << >> \in Seq(Leaf) /\ "error" \in ElementName
    BY DEF ElementName
  <2>3. Written(<< Element("error", << r.trans_id, r.msg >>, << >>) >>, item)
    BY <1>1, <2>2, IdWritten
  <2> QED BY <2>1, <2>3
<1> QED BY <1>2, <1>3

LEMMA CancelWritten ==
  ASSUME NEW item \in IdItem, item.kind = "cancel", NEW r \in CancelResults(item)
  PROVE  Written(<< TransElement(r) >>, item)
<1>1. /\ r.kind = "cancel" /\ r.trans_id = item.id /\ r.msg \in Message
      /\ r.msg = "Success" =>
           r.executed \in Executed /\ r.canceled_shares = 1 /\ r.canceled_time = 1
  BY DEF CancelResults, NoResult, Message
<1>2. CASE r.msg = "Success"
  <2> DEFINE below == << CanceledElement(r) >> \o ExecutedElements(r.executed)
  <2>1. << CanceledElement(r) >> \in Seq(Leaf)
    <3>1. << 1, 1 >> \in Seq(Value)
      BY Texts
    <3>2. Element("canceled", << 1, 1 >>, << >>) \in Leaf
      BY <3>1, ElementTyped DEF ElementName
    <3> QED BY <1>1, <1>2, <3>2 DEF CanceledElement
  <2>2. below \in Seq(Leaf)
    <3>1. ExecutedElements(r.executed) \in Seq(Leaf)
      BY <1>1, <1>2, ExecutedTyped
    <3> HIDE DEF below
    <3> QED BY <2>1, <3>1 DEF below
  <2>3. TransElement(r) = Element("canceled", << r.trans_id >>, below)
    BY <1>1, <1>2 DEF TransElement
  <2> HIDE DEF below
  <2>4. Written(<< Element("canceled", << r.trans_id >>, below) >>, item)
    BY <1>1, <2>2, IdWritten DEF ElementName
  <2> QED BY <2>3, <2>4
<1>3. CASE r.msg # "Success"
  <2>1. TransElement(r) = Element("error", << r.trans_id, r.msg >>, << >>)
    BY <1>1, <1>3 DEF TransElement
  <2>2. << >> \in Seq(Leaf) /\ "error" \in ElementName
    BY DEF ElementName
  <2>3. Written(<< Element("error", << r.trans_id, r.msg >>, << >>) >>, item)
    BY <1>1, <2>2, IdWritten
  <2> QED BY <2>1, <2>3
<1> QED BY <1>2, <1>3

\* The elements parse_create_results or parse_trans_results writes for a result.
ElementsOf(f, r) == IF f = 0 THEN CreateElements(r) ELSE << TransElement(r) >>

LEMMA ResultWritten ==
  ASSUME NEW f \in {0, 1}, NEW item \in ItemOf(f), NEW r \in ResultsOf(item)
  PROVE  Written(ElementsOf(f, r), item)
<1>1. CASE f = 0
  <2>1. item \in CreateItem
    BY <1>1 DEF ItemOf
  <2>2. CASE item \in AccountItem
    <3>1. r \in AccountResults(item)
      BY <2>2 DEF AccountItem, ResultsOf
    <3> QED BY <1>1, <2>2, <3>1, AccountWritten DEF ElementsOf
  <2>3. CASE item \in SymbolItem
    <3>1. r \in SymbolResults(item)
      BY <2>3 DEF SymbolItem, ResultsOf
    <3> QED BY <1>1, <2>3, <3>1, SymbolWritten DEF ElementsOf
  <2> QED BY <2>1, <2>2, <2>3 DEF CreateItem
<1>2. CASE f = 1
  <2>1. item \in TransactionItem
    BY <1>2 DEF ItemOf
  <2>2. CASE item \in OrderItem
    <3>1. r \in OrderResults(item)
      BY <2>2 DEF OrderItem, ResultsOf
    <3> QED BY <1>2, <2>2, <3>1, OrderWritten DEF ElementsOf
  <2>3. CASE item \in IdItem
    <3>1. CASE item.kind = "query"
      <4>1. r \in QueryResults(item)
        BY <3>1 DEF ResultsOf
      <4> QED BY <1>2, <2>3, <3>1, <4>1, QueryWritten DEF ElementsOf
    <3>2. CASE item.kind = "cancel"
      <4>1. r \in CancelResults(item)
        BY <3>2 DEF ResultsOf
      <4> QED BY <1>2, <2>3, <3>2, <4>1, CancelWritten DEF ElementsOf
    <3> QED BY <2>3, <3>1, <3>2 DEF IdItem
  <2> QED BY <2>1, <2>2, <2>3 DEF TransactionItem
<1> QED BY <1>1, <1>2

-----------------------------------------------------------------------------
(* The invariant.                                                          *)

\* What each child asks about, and what the items read so far do.
Asked == [n \in DOMAIN doc.children |->
            IF doc.tag = "create" THEN CreateSubjects(doc.children[n])
                                  ELSE TransactionSubjects(doc.children[n])]
ItemsAsk == [n \in DOMAIN items |-> SubjectsOf(items[n])]

AnyResult == UNION {ResultsOf(item) : item \in CreateItem \cup TransactionItem}

Typed ==
  /\ doc \in Document \cup {Malformed}
  /\ stage \in {"load", "parse", "handle", "format", "done"}
  /\ flag \in 0..2 /\ next \in Nat \ {0}
  /\ results \in Seq(AnyResult) /\ response \in Seq(Printed)

\* Nothing comes of a document that is not parsed, and items of the flag's kind of
\* one that is.
Parsed ==
  IF stage = "load" \/ doc = Malformed
  THEN /\ stage \in {"load", "done"} /\ next = 1
       /\ items = << >> /\ results = << >> /\ response = << >>
  ELSE /\ flag = (IF doc.tag = "create" THEN 0 ELSE 1)
       /\ items \in Seq(ItemOf(flag))

\* Each loop has done what it is past, and no later one has begun.
Positions ==
  /\ stage = "parse" =>
       next <= Len(doc.children) + 1 /\ results = << >> /\ response = << >>
  /\ stage = "handle" =>
       next <= Len(items) + 1 /\ Len(results) = next - 1 /\ response = << >>
  /\ stage = "format" => next <= Len(items) + 1 /\ Len(results) = Len(items)

Handled ==
  /\ Len(results) <= Len(items)
  /\ \A n \in DOMAIN results : results[n] \in ResultsOf(items[n])

\* The items ask what the children read ask, and the elements answer the items.
Linked ==
  doc # Malformed =>
    /\ stage = "parse" => FlattenSeq(ItemsAsk) = Joined(Asked, next - 1)
    /\ stage \in {"handle", "format", "done"} => FlattenSeq(ItemsAsk) = FlattenSeq(Asked)
    /\ stage = "format" => Answers(response, Joined(ItemsAsk, next - 1))
    /\ stage = "done" => Answers(response, FlattenSeq(ItemsAsk))

Inv == Typed /\ Parsed /\ Positions /\ Handled /\ Linked

LEMMA ChildRead ==
  ASSUME doc \in Document, NEW child \in Child, NEW f \in {0, 1}
  PROVE  ReadAs(IF f = 0 THEN CreateItems(child) ELSE TransactionItems(child),
                IF f = 0 THEN CreateSubjects(child) ELSE TransactionSubjects(child), ItemOf(f))
<1>1. doc.id \in Attribute
  BY DocumentAssumption
<1>2. CASE f = 0
  BY <1>2, CreateRead DEF ItemOf
<1>3. CASE f = 1
  BY <1>1, <1>3, TransactionRead DEF ItemOf
<1> QED BY <1>2, <1>3

LEMMA AskedTyped ==
  ASSUME doc \in Document
  PROVE  /\ Asked \in Seq(Seq(Seq(Value))) /\ Len(Asked) = Len(doc.children)
         /\ doc.children \in Seq(Child) /\ Len(doc.children) \in Nat
<1>1. /\ doc.children \in Seq(Child) /\ Len(doc.children) \in Nat
      /\ DOMAIN doc.children = 1..Len(doc.children)
  BY DocumentAssumption
<1>2. ASSUME NEW n \in 1..Len(doc.children)
      PROVE  /\ CreateSubjects(doc.children[n]) \in Seq(Seq(Value))
             /\ TransactionSubjects(doc.children[n]) \in Seq(Seq(Value))
  <2> DEFINE child == doc.children[n]
  <2>1. child \in Child
    BY <1>1
  <2> HIDE DEF child
  <2>2. << >> \in Seq(Seq(Value))
    OBVIOUS
  <2>3. CreateSubjects(child) \in Seq(Seq(Value))
    BY <2>1, <2>2, CreateRead, SubjectsTyped DEF ReadAs
  <2>4. doc.id \in Attribute
    BY DocumentAssumption
  <2>5. TransactionSubjects(child) \in Seq(Seq(Value))
    BY <2>1, <2>2, <2>4, TransactionRead, SubjectsTyped DEF ReadAs
  <2> QED BY <2>3, <2>5 DEF child
<1>3. \A n \in 1..Len(doc.children) : Asked[n] \in Seq(Seq(Value))
  BY <1>1, <1>2 DEF Asked
<1>4. DOMAIN Asked = 1..Len(doc.children) /\ Asked = [n \in 1..Len(doc.children) |-> Asked[n]]
  BY <1>1 DEF Asked
<1>5. Asked \in Seq(Seq(Seq(Value))) /\ Len(Asked) = Len(doc.children)
  <2> HIDE DEF Asked
  <2> QED BY <1>1, <1>3, <1>4
<1> QED BY <1>1, <1>5

LEMMA ItemsTyped ==
  ASSUME NEW f \in {0, 1}, items \in Seq(ItemOf(f))
  PROVE  /\ ItemsAsk \in Seq(Seq(Seq(Value))) /\ Len(ItemsAsk) = Len(items)
         /\ Len(items) \in Nat /\ DOMAIN items = 1..Len(items)
         /\ \A n \in 1..Len(items) : ItemsAsk[n] = SubjectsOf(items[n])
<1>1. /\ Len(items) \in Nat /\ DOMAIN items = 1..Len(items)
      /\ \A n \in 1..Len(items) : items[n] \in ItemOf(f)
  OBVIOUS
<1>2. ItemOf(f) \subseteq CreateItem \cup TransactionItem
  BY DEF ItemOf
<1>3. \A n \in 1..Len(items) : SubjectsOf(items[n]) \in Seq(Seq(Value))
  BY <1>1, <1>2, SubjectsTyped
<1> QED BY <1>1, <1>3 DEF ItemsAsk

\* Only a document that is parsed has loops, and its flag tells its items' kind.
LEMMA Looping ==
  ASSUME Inv, stage \in {"parse", "handle", "format"}
  PROVE  /\ doc \in Document /\ doc # Malformed /\ flag \in {0, 1}
         /\ flag = 0 <=> doc.tag = "create"
         /\ items \in Seq(ItemOf(flag))
<1>1. doc # Malformed /\ flag = (IF doc.tag = "create" THEN 0 ELSE 1) /\ items \in Seq(ItemOf(flag))
  BY DEF Inv, Parsed
<1> QED BY <1>1 DEF Inv, Typed

LEMMA InitInv == Init => Inv
<1> SUFFICES ASSUME Init PROVE Inv
  OBVIOUS
<1>1. Typed /\ Parsed
  BY DEF Init, Typed, Parsed
<1>2. Positions /\ Handled /\ Linked
  BY DEF Init, Positions, Handled, Linked
<1> QED BY <1>1, <1>2 DEF Inv

LEMMA LoadKeeps == ASSUME Inv, Load PROVE Inv'
<1>1. /\ doc' = doc /\ next' = 1 /\ items' = << >> /\ results' = << >> /\ response' = << >>
      /\ stage = "load" /\ doc \in Document \cup {Malformed}
  BY DEF Inv, Typed, Parsed, Load
<1>2. CASE doc = Malformed
  <2>1. stage' = "done" /\ flag' = 2
    BY <1>2 DEF Load
  <2>2. Typed' /\ Parsed'
    BY <1>1, <1>2, <2>1 DEF Typed, Parsed
  <2>3. Positions' /\ Handled' /\ Linked'
    BY <1>1, <1>2, <2>1 DEF Positions, Handled, Linked
  <2> QED BY <2>2, <2>3 DEF Inv
<1>3. CASE doc # Malformed
  <2>1. stage' = "parse" /\ flag' = (IF doc.tag = "create" THEN 0 ELSE 1)
    BY <1>3 DEF Load
  <2>2. Typed' /\ Parsed'
    BY <1>1, <1>3, <2>1 DEF Typed, Parsed
  <2>3. Len(doc.children) \in Nat /\ Asked \in Seq(Seq(Seq(Value))) /\ Asked' = Asked
    BY <1>1, <1>3, AskedTyped DEF Asked
  <2>4. Positions' /\ Handled'
    BY <1>1, <2>1, <2>3 DEF Positions, Handled
  <2>5. Linked'
    <3>1. ItemsAsk' = << >>
      BY <1>1 DEF ItemsAsk
    <3>2. FlattenSeq(<< >>) = << >>
      BY DEF FlattenSeq
    <3>3. Joined(Asked, 0) = << >>
      BY <2>3, JoinedParts
    <3>4. Joined(Asked', next' - 1) = << >>
      BY <1>1, <2>3, <3>3
    <3> QED BY <2>1, <3>1, <3>2, <3>4 DEF Linked
  <2> QED BY <2>2, <2>4, <2>5 DEF Inv
<1> QED BY <1>2, <1>3

LEMMA ParseChildKeeps == ASSUME Inv, ParseChild PROVE Inv'
<1> DEFINE child == doc.children[next]
           more  == IF flag = 0 THEN CreateItems(child) ELSE TransactionItems(child)
           asks  == IF flag = 0 THEN CreateSubjects(child) ELSE TransactionSubjects(child)
<1>1. /\ doc' = doc /\ stage' = stage /\ flag' = flag /\ results' = results
      /\ response' = response /\ next' = next + 1 /\ items' = items \o more
      /\ stage = "parse" /\ next <= Len(doc.children)
  BY DEF ParseChild
<1>2. /\ doc \in Document /\ doc # Malformed /\ flag \in {0, 1}
      /\ flag = 0 <=> doc.tag = "create"
      /\ items \in Seq(ItemOf(flag))
  BY <1>1, Looping
<1>3. /\ next \in Nat \ {0} /\ next \in 1..Len(doc.children) /\ next + 1 <= Len(doc.children) + 1
      /\ Asked \in Seq(Seq(Seq(Value))) /\ Len(Asked) = Len(doc.children)
      /\ child \in Child /\ Len(doc.children) \in Nat
  <2>1. next \in Nat \ {0}
    BY DEF Inv, Typed
  <2>2. /\ Asked \in Seq(Seq(Seq(Value))) /\ Len(Asked) = Len(doc.children)
        /\ doc.children \in Seq(Child) /\ Len(doc.children) \in Nat
    BY <1>2, AskedTyped
  <2> QED BY <1>1, <2>1, <2>2
<1>4. ReadAs(more, asks, ItemOf(flag))
  BY <1>2, <1>3, ChildRead
<1>5. Asked[next] = asks /\ Asked' = Asked
  <2>1. next \in DOMAIN doc.children
    BY <1>2, <1>3, AskedTyped
  <2> QED BY <1>1, <1>2, <2>1 DEF Asked
<1> HIDE DEF more, asks, child
<1>6. /\ ItemsAsk \in Seq(Seq(Seq(Value))) /\ Len(ItemsAsk) = Len(items)
      /\ Len(items) \in Nat /\ DOMAIN items = 1..Len(items)
      /\ \A n \in 1..Len(items) : ItemsAsk[n] = SubjectsOf(items[n])
  BY <1>2, ItemsTyped
<1>7. FlattenSeq(ItemsAsk) = Joined(Asked, next - 1)
  BY <1>1, <1>2 DEF Inv, Linked
<1>8. Joined(Asked, next) = Joined(Asked, next - 1) \o asks
  BY <1>3, <1>5, JoinedParts
<1>9. items' \in Seq(ItemOf(flag)) /\ FlattenSeq(ItemsAsk') = Joined(Asked, next)
  <2>1. CASE more = << >> /\ asks = << >>
    <3>1. items' = items
      BY <1>1, <1>2, <2>1
    <3>2. ItemsAsk' = ItemsAsk
      BY <3>1 DEF ItemsAsk
    <3>3. Joined(Asked, next) = Joined(Asked, next - 1)
      <4>1. next - 1 \in 0..Len(Asked)
        BY <1>3
      <4>2. Joined(Asked, next - 1) \in Seq(Seq(Value))
        BY <1>3, <4>1, JoinedParts
      <4> QED BY <1>8, <2>1, <4>2
    <3> QED BY <1>2, <1>7, <3>1, <3>2, <3>3
  <2>2. CASE \E item \in ItemOf(flag) : more = << item >> /\ asks = SubjectsOf(item)
    <3>1. PICK item \in ItemOf(flag) : more = << item >> /\ asks = SubjectsOf(item)
      BY <2>2
    <3>2. items' = Append(items, item)
      BY <1>1, <1>2, <3>1
    <3>3. /\ items' \in Seq(ItemOf(flag)) /\ DOMAIN items' = 1..(Len(items) + 1)
          /\ items'[Len(items) + 1] = item /\ \A n \in 1..Len(items) : items'[n] = items[n]
      BY <1>2, <1>6, <3>2
    <3>5. asks \in Seq(Seq(Value))
      BY <1>2, <3>1, SubjectsTyped DEF ItemOf
    <3>4. ItemsAsk' = Append(ItemsAsk, asks)
      <4>1. ItemsAsk' = [n \in 1..(Len(items) + 1) |-> SubjectsOf(items'[n])]
        BY <3>3 DEF ItemsAsk
      <4>2. SubjectsOf(items'[Len(items) + 1]) = asks
        BY <3>1, <3>3
      <4>3. \A n \in 1..Len(items) : SubjectsOf(items'[n]) = ItemsAsk[n]
        BY <1>6, <3>3
      <4> DEFINE a == Append(ItemsAsk, asks)
      <4>4. /\ a \in Seq(Seq(Seq(Value))) /\ Len(a) = Len(items) + 1
            /\ a[Len(items) + 1] = asks /\ \A n \in 1..Len(items) : a[n] = ItemsAsk[n]
        BY <1>6, <3>5
      <4> HIDE DEF a
      <4>5. \A n \in 1..(Len(items) + 1) : SubjectsOf(items'[n]) = a[n]
        <5>1. \A n \in 1..(Len(items) + 1) : n \in 1..Len(items) \/ n = Len(items) + 1
          BY <1>6
        <5>2. \A n \in 1..Len(items) : SubjectsOf(items'[n]) = a[n]
          BY <4>3, <4>4
        <5> QED BY <4>2, <4>4, <5>1, <5>2
      <4>6. a = [n \in 1..(Len(items) + 1) |-> a[n]]
        BY <4>4
      <4>7. ItemsAsk' = a
        BY <4>1, <4>5, <4>6
      <4> QED BY <4>7 DEF a
    <3>6. FlattenSeq(Append(ItemsAsk, asks)) = FlattenSeq(ItemsAsk) \o asks
      BY <1>6, <3>5, FlatMore
    <3> QED BY <1>7, <1>8, <3>3, <3>4, <3>6
  <2> QED BY <1>4, <2>1, <2>2 DEF ReadAs
<1>10. Typed' /\ Parsed'
  <2>1. Typed'
    BY <1>1, <1>3 DEF Inv, Typed
  <2>2. Parsed'
    BY <1>1, <1>2, <1>9 DEF Inv, Parsed
  <2> QED BY <2>1, <2>2
<1>11. Positions'
  BY <1>1, <1>3 DEF Inv, Positions
<1>12. Handled'
  <2>1. results' = << >> /\ Len(items') \in Nat
    BY <1>1, <1>9 DEF Inv, Positions
  <2> QED BY <2>1 DEF Handled
<1>13. Linked'
  <2>1. Joined(Asked', next' - 1) = Joined(Asked, next)
    <3>1. next' - 1 = next
      BY <1>1, <1>3
    <3> QED BY <1>5, <3>1
  <2> QED BY <1>1, <1>9, <2>1 DEF Linked
<1> QED BY <1>10, <1>11, <1>12, <1>13 DEF Inv

\* The loops that end leave all but the stage and the position alone.
LEMMA LoopEnds ==
  ASSUME Inv, EndParse \/ EndHandle \/ EndFormat
  PROVE  Inv'
<1>1. /\ doc' = doc /\ flag' = flag /\ items' = items /\ results' = results
      /\ response' = response /\ next' = 1
      /\ stage \in {"parse", "handle", "format"}
  BY DEF EndParse, EndHandle, EndFormat, EndLoop
<1>2. /\ doc \in Document /\ doc # Malformed /\ flag \in {0, 1}
      /\ items \in Seq(ItemOf(flag)) /\ next \in Nat \ {0}
  BY <1>1, Looping DEF Inv, Typed
<1>3. /\ ItemsAsk \in Seq(Seq(Seq(Value))) /\ Len(ItemsAsk) = Len(items)
      /\ Len(items) \in Nat /\ Len(results) \in Nat
  BY <1>2, ItemsTyped DEF Inv, Typed
<1>4. /\ Asked \in Seq(Seq(Seq(Value))) /\ Len(Asked) = Len(doc.children)
      /\ Len(doc.children) \in Nat
  BY <1>2, AskedTyped
<1>5. Asked' = Asked /\ ItemsAsk' = ItemsAsk
  BY <1>1 DEF Asked, ItemsAsk
<1>6. stage' \in {"handle", "format", "done"}
  BY DEF EndParse, EndHandle, EndFormat, EndLoop
<1>7. Typed' /\ Parsed' /\ Handled'
  <2>1. Typed'
    BY <1>1, <1>2, <1>6 DEF Inv, Typed
  <2>2. Parsed'
    BY <1>1, <1>2, <1>6 DEF Inv, Parsed
  <2>3. Handled'
    BY <1>1 DEF Inv, Handled
  <2> QED BY <2>1, <2>2, <2>3
<1>8. Positions' /\ Linked'
  <2>1. CASE EndParse
    <3>1. stage = "parse" /\ stage' = "handle" /\ next > Len(doc.children)
      BY <2>1 DEF EndParse, EndLoop
    <3>2. next = Len(doc.children) + 1 /\ results = << >> /\ response = << >>
      BY <1>2, <1>4, <3>1 DEF Inv, Positions
    <3>3. Positions'
      BY <1>1, <1>3, <3>1, <3>2 DEF Positions
    <3>4. FlattenSeq(ItemsAsk) = Joined(Asked, Len(Asked))
      <4>1. next - 1 = Len(Asked)
        BY <1>4, <3>2
      <4> QED BY <1>2, <3>1, <4>1 DEF Inv, Linked
    <3>5. FlattenSeq(ItemsAsk) = FlattenSeq(Asked)
      BY <1>4, <3>4, JoinedParts
    <3> QED BY <1>5, <3>1, <3>3, <3>5 DEF Linked
  <2>2. CASE EndHandle
    <3>1. stage = "handle" /\ stage' = "format" /\ next > Len(items)
      BY <2>2 DEF EndHandle, EndLoop
    <3>2. Len(results) = Len(items) /\ response = << >>
      BY <1>2, <1>3, <3>1 DEF Inv, Positions
    <3>3. Positions'
      BY <1>1, <1>3, <3>1, <3>2 DEF Positions
    <3>4. Joined(ItemsAsk', next' - 1) = << >>
      <4>1. next' - 1 = 0
        BY <1>1
      <4> QED BY <1>3, <1>5, <4>1, JoinedParts
    <3>5. Answers(<< >>, << >>)
      BY DEF Answers
    <3>6. FlattenSeq(ItemsAsk) = FlattenSeq(Asked)
      BY <1>2, <3>1 DEF Inv, Linked
    <3> QED BY <1>1, <1>5, <3>1, <3>2, <3>3, <3>4, <3>5, <3>6 DEF Linked
  <2>3. CASE EndFormat
    <3>1. stage = "format" /\ stage' = "done" /\ next > Len(results)
      BY <2>3 DEF EndFormat, EndLoop
    <3>2. next = Len(items) + 1
      BY <1>2, <1>3, <3>1 DEF Inv, Positions
    <3>3. Positions'
      BY <3>1 DEF Positions
    <3>4. Answers(response, Joined(ItemsAsk, Len(ItemsAsk)))
      <4>1. next - 1 = Len(ItemsAsk)
        BY <1>3, <3>2
      <4> QED BY <1>2, <3>1, <4>1 DEF Inv, Linked
    <3>5. Answers(response, FlattenSeq(ItemsAsk))
      BY <1>3, <3>4, JoinedParts
    <3>6. FlattenSeq(ItemsAsk) = FlattenSeq(Asked)
      BY <1>2, <3>1 DEF Inv, Linked
    <3> QED BY <1>1, <1>5, <3>1, <3>3, <3>5, <3>6 DEF Linked
  <2> QED BY <2>1, <2>2, <2>3
<1> QED BY <1>7, <1>8 DEF Inv

LEMMA HandleItemKeeps == ASSUME Inv, HandleItem PROVE Inv'
<1>1. /\ doc' = doc /\ stage' = stage /\ flag' = flag /\ items' = items
      /\ response' = response /\ next' = next + 1
      /\ stage = "handle" /\ next <= Len(items)
  BY DEF HandleItem
<1>2. PICK r \in ResultsOf(items[next]) : results' = Append(results, r)
  BY DEF HandleItem
<1>3. /\ doc \in Document /\ doc # Malformed /\ flag \in {0, 1}
      /\ items \in Seq(ItemOf(flag)) /\ next \in Nat \ {0}
  BY <1>1, Looping DEF Inv, Typed
<1>4. /\ Len(items) \in Nat /\ DOMAIN items = 1..Len(items) /\ next \in 1..Len(items)
      /\ items[next] \in CreateItem \cup TransactionItem
  <2>1. Len(items) \in Nat /\ DOMAIN items = 1..Len(items) /\ next \in 1..Len(items)
    BY <1>1, <1>3
  <2>2. items[next] \in ItemOf(flag)
    BY <1>3, <2>1
  <2> QED BY <2>1, <2>2 DEF ItemOf
<1>5. /\ results \in Seq(AnyResult) /\ Len(results) = next - 1 /\ response = << >>
      /\ \A n \in DOMAIN results : results[n] \in ResultsOf(items[n])
  BY <1>1 DEF Inv, Typed, Positions, Handled
<1>6. r \in AnyResult
  BY <1>4 DEF AnyResult
<1>7. /\ results' \in Seq(AnyResult) /\ Len(results') = next /\ DOMAIN results' = 1..next
      /\ results'[next] = r
      /\ \A n \in 1..(next - 1) : n \in DOMAIN results /\ results'[n] = results[n]
  BY <1>2, <1>3, <1>5, <1>6
<1>8. Typed' /\ Parsed'
  <2>1. Typed'
    BY <1>1, <1>3, <1>7 DEF Inv, Typed
  <2>2. Parsed'
    BY <1>1, <1>3 DEF Inv, Parsed
  <2> QED BY <2>1, <2>2
<1>9. Positions'
  BY <1>1, <1>3, <1>4, <1>5, <1>7 DEF Positions
<1>10. Handled'
  <2>1. \A n \in 1..next : results'[n] \in ResultsOf(items[n])
    <3> SUFFICES ASSUME NEW n \in 1..next PROVE results'[n] \in ResultsOf(items[n])
      OBVIOUS
    <3>1. CASE n = next
      BY <1>7, <3>1
    <3>2. CASE n # next
      <4>1. n \in 1..(next - 1)
        BY <1>3, <3>2
      <4> QED BY <1>5, <1>7, <4>1
    <3> QED BY <3>1, <3>2
  <2> QED BY <1>1, <1>4, <1>7, <2>1 DEF Handled
<1>11. Linked'
  <2>1. Asked' = Asked /\ ItemsAsk' = ItemsAsk
    BY <1>1 DEF Asked, ItemsAsk
  <2>2. FlattenSeq(ItemsAsk) = FlattenSeq(Asked)
    BY <1>1, <1>3 DEF Inv, Linked
  <2> QED BY <1>1, <2>1, <2>2 DEF Linked
<1> QED BY <1>8, <1>9, <1>10, <1>11 DEF Inv

LEMMA FormatResultKeeps == ASSUME Inv, FormatResult PROVE Inv'
<1> DEFINE more == ElementsOf(flag, results[next])
<1>1. /\ doc' = doc /\ stage' = stage /\ flag' = flag /\ items' = items
      /\ results' = results /\ next' = next + 1 /\ response' = response \o more
      /\ stage = "format" /\ next <= Len(results)
  BY DEF FormatResult, ElementsOf
<1>2. /\ doc \in Document /\ doc # Malformed /\ flag \in {0, 1}
      /\ items \in Seq(ItemOf(flag)) /\ next \in Nat \ {0}
  BY <1>1, Looping DEF Inv, Typed
<1>3. /\ ItemsAsk \in Seq(Seq(Seq(Value))) /\ Len(ItemsAsk) = Len(items)
      /\ Len(items) \in Nat /\ \A n \in 1..Len(items) : ItemsAsk[n] = SubjectsOf(items[n])
  BY <1>2, ItemsTyped
<1>4. /\ Len(results) = Len(items) /\ next \in 1..Len(items) /\ next - 1 \in 0..Len(items)
      /\ items[next] \in ItemOf(flag) /\ results[next] \in ResultsOf(items[next])
  <2>1. Len(results) = Len(items) /\ results \in Seq(AnyResult)
    BY <1>1 DEF Inv, Typed, Positions
  <2>2. next \in 1..Len(items) /\ next - 1 \in 0..Len(items) /\ next \in DOMAIN results
    BY <1>1, <1>2, <1>3, <2>1
  <2>3. items[next] \in ItemOf(flag)
    BY <1>2, <2>2
  <2>4. results[next] \in ResultsOf(items[next])
    BY <2>2 DEF Inv, Handled
  <2> QED BY <2>1, <2>2, <2>3, <2>4
<1>5. Written(more, items[next])
  BY <1>2, <1>4, ResultWritten
<1> HIDE DEF more
<1>6. /\ response \in Seq(Printed) /\ Answers(response, Joined(ItemsAsk, next - 1))
      /\ Joined(ItemsAsk, next - 1) \in Seq(Seq(Value))
      /\ Joined(ItemsAsk, next) = Joined(ItemsAsk, next - 1) \o SubjectsOf(items[next])
  <2>1. response \in Seq(Printed) /\ Answers(response, Joined(ItemsAsk, next - 1))
    BY <1>1, <1>2 DEF Inv, Typed, Linked
  <2>2. /\ Joined(ItemsAsk, next - 1) \in Seq(Seq(Value))
        /\ Joined(ItemsAsk, next) = Joined(ItemsAsk, next - 1) \o ItemsAsk[next]
    BY <1>3, <1>4, JoinedParts
  <2> QED BY <1>3, <1>4, <2>1, <2>2
<1>7. SubjectsOf(items[next]) \in Seq(Seq(Value))
  BY <1>2, <1>4, SubjectsTyped DEF ItemOf
<1>8. response' \in Seq(Printed) /\ Answers(response', Joined(ItemsAsk, next))
  <2>1. more \in Seq(Printed) /\ Answers(more, SubjectsOf(items[next]))
    BY <1>5 DEF Written
  <2> QED BY <1>1, <1>6, <1>7, <2>1, AnswersFollow
<1>9. Typed' /\ Parsed' /\ Handled'
  <2>1. Typed'
    BY <1>1, <1>2, <1>8 DEF Inv, Typed
  <2>2. Parsed'
    BY <1>1, <1>2 DEF Inv, Parsed
  <2>3. Handled'
    BY <1>1 DEF Inv, Handled
  <2> QED BY <2>1, <2>2, <2>3
<1>10. Positions'
  BY <1>1, <1>2, <1>3, <1>4 DEF Positions
<1>11. Linked'
  <2>1. Asked' = Asked /\ ItemsAsk' = ItemsAsk
    BY <1>1 DEF Asked, ItemsAsk
  <2>2. FlattenSeq(ItemsAsk) = FlattenSeq(Asked)
    BY <1>1, <1>2 DEF Inv, Linked
  <2>3. Answers(response', Joined(ItemsAsk', next' - 1))
    <3>1. next' - 1 = next
      BY <1>1, <1>2
    <3> QED BY <1>8, <2>1, <3>1
  <2> QED BY <1>1, <2>1, <2>2, <2>3 DEF Linked
<1> QED BY <1>9, <1>10, <1>11 DEF Inv

LEMMA StutterKeeps == ASSUME Inv, UNCHANGED vars PROVE Inv'
<1>1. /\ doc' = doc /\ stage' = stage /\ next' = next /\ flag' = flag /\ items' = items
      /\ results' = results /\ response' = response
  BY DEF vars
<1>2. Asked' = Asked /\ ItemsAsk' = ItemsAsk
  BY <1>1 DEF Asked, ItemsAsk
<1>3. Typed' /\ Parsed'
  BY <1>1 DEF Inv, Typed, Parsed
<1>4. Positions' /\ Handled'
  BY <1>1 DEF Inv, Positions, Handled
<1>5. Linked'
  BY <1>1, <1>2 DEF Inv, Linked
<1> QED BY <1>3, <1>4, <1>5 DEF Inv

LEMMA NextInv == Inv /\ [Next]_vars => Inv'
<1> SUFFICES ASSUME Inv, [Next]_vars PROVE Inv'
  OBVIOUS
<1>1. CASE Load
  BY <1>1, LoadKeeps
<1>2. CASE ParseChild
  BY <1>2, ParseChildKeeps
<1>3. CASE EndParse
  BY <1>3, LoopEnds
<1>4. CASE HandleItem
  BY <1>4, HandleItemKeeps
<1>5. CASE EndHandle
  BY <1>5, LoopEnds
<1>6. CASE FormatResult
  BY <1>6, FormatResultKeeps
<1>7. CASE EndFormat
  BY <1>7, LoopEnds
<1>8. CASE UNCHANGED vars
  BY <1>8, StutterKeeps
<1> QED BY <1>1, <1>2, <1>3, <1>4, <1>5, <1>6, <1>7, <1>8 DEF Next, Parse, Handle, Format

-----------------------------------------------------------------------------
(* What the invariant says of an answer.                                   *)

LEMMA InvTypes == Inv => TypeOK
BY DEF Inv, Typed, Handled, TypeOK

LEMMA InvAssigned == Inv => OnlyAssignedPrinted
<1> SUFFICES ASSUME Inv, NEW n \in DOMAIN response
             PROVE  /\ Unset \notin ToSet(response[n].prints)
                    /\ \A k \in DOMAIN response[n].below :
                         Unset \notin ToSet(response[n].below[k].prints)
  BY DEF OnlyAssignedPrinted
<1>1. Unset \notin Value
  BY UnsetAssumption DEF Value
<1>2. \A s \in Seq(Value) : Unset \notin ToSet(s)
  BY <1>1 DEF ToSet
<1>3. response[n] \in Printed
  BY DEF Inv, Typed
<1>4. response[n].prints \in Seq(Value) /\ response[n].below \in Seq(Leaf)
  BY <1>3 DEF Printed
<1>5. \A k \in DOMAIN response[n].below : response[n].below[k].prints \in Seq(Value)
  <2>1. \A k \in DOMAIN response[n].below : response[n].below[k] \in Leaf
    BY <1>4
  <2> QED BY <2>1 DEF Leaf
<1> QED BY <1>2, <1>4, <1>5

LEMMA InvAnswers == Inv => AnswersInOrder
<1> SUFFICES ASSUME Inv PROVE AnswersInOrder
  OBVIOUS
<1>1. CASE doc = Malformed
  <2>1. response = << >> /\ Subjects = << >>
    BY <1>1 DEF Inv, Parsed, Subjects
  <2> QED BY <2>1 DEF AnswersInOrder
<1>2. CASE doc # Malformed
  <2>1. doc \in Document /\ Subjects = FlattenSeq(Asked)
    BY <1>2 DEF Inv, Typed, Subjects, Asked
  <2>2. Asked \in Seq(Seq(Seq(Value)))
    BY <2>1, AskedTyped
  <2>3. Subjects \in Seq(Seq(Value)) /\ Len(Subjects) \in Nat
    <3>1. /\ Len(Asked) \in Nat /\ Joined(Asked, Len(Asked)) = FlattenSeq(Asked)
          /\ \A i \in 0..Len(Asked) : Joined(Asked, i) \in Seq(Seq(Value))
      BY ONLY <2>2, JoinedParts
    <3>2. FlattenSeq(Asked) \in Seq(Seq(Value))
      <4>1. Len(Asked) \in 0..Len(Asked)
        BY <3>1
      <4> QED BY <3>1, <4>1
    <3> QED BY <2>1, <3>2
  <2>4. CASE stage \in {"load", "parse", "handle"}
    <3>1. response = << >>
      BY <1>2, <2>4 DEF Inv, Parsed, Positions
    <3> QED BY <2>3, <2>4, <3>1 DEF AnswersInOrder
  <2>5. CASE stage = "format"
    <3>1. /\ flag \in {0, 1} /\ items \in Seq(ItemOf(flag)) /\ next \in Nat \ {0}
          /\ next <= Len(items) + 1
      BY <2>5, Looping DEF Inv, Typed, Positions
    <3>2. ItemsAsk \in Seq(Seq(Seq(Value))) /\ Len(ItemsAsk) = Len(items) /\ Len(items) \in Nat
      BY <3>1, ItemsTyped
    <3>3. next - 1 \in 0..Len(ItemsAsk)
      BY <3>1, <3>2
    <3> DEFINE part == Joined(ItemsAsk, next - 1)
    <3>4. Answers(response, part) /\ FlattenSeq(ItemsAsk) = Subjects
      BY <1>2, <2>1, <2>5 DEF Inv, Linked
    <3>5. /\ part \in Seq(Seq(Value)) /\ Len(part) <= Len(Subjects)
          /\ \A n \in 1..Len(part) : Subjects[n] = part[n]
      BY <3>2, <3>3, <3>4, JoinedParts
    <3>6. response \in Seq(Printed)
      BY DEF Inv, Typed
    <3> HIDE DEF part
    <3>7. Len(response) = Len(part) /\ DOMAIN response = 1..Len(part)
      BY <3>4, <3>6 DEF Answers
    <3> QED BY <2>5, <3>4, <3>5, <3>7 DEF AnswersInOrder, Answers
  <2>6. CASE stage = "done"
    <3>1. Answers(response, Subjects)
      BY <1>2, <2>1, <2>6 DEF Inv, Linked
    <3> QED BY <2>3, <3>1 DEF AnswersInOrder, Answers
  <2> QED BY <2>4, <2>5, <2>6 DEF Inv, Typed
<1> QED BY <1>1, <1>2

\* The loops stay within the document, the items and the results, and every result
\* is one a handler returns for its item.
THEOREM LoopsStay == Spec => []TypeOK
<1> QED BY InitInv, NextInv, InvTypes, PTL DEF Spec

\* An answer's elements begin with what the request named, one for each and in its
\* order, and when it is done none is missing: whatever the document's children are.
THEOREM AnswersOrdered == Spec => []AnswersInOrder
<1> QED BY InitInv, NextInv, InvAnswers, PTL DEF Spec

\* No answer prints a member of a result that no handler has assigned.
THEOREM PrintsAssigned == Spec => []OnlyAssignedPrinted
<1> QED BY InitInv, NextInv, InvAssigned, PTL DEF Spec

=============================================================================
