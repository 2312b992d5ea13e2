--------------------------- MODULE RoundingProofs ---------------------------
(***************************************************************************)
(* What the books keep of their promises although every statement rounds,  *)
(* for every base and width of the numbers, every set of accounts, amounts *)
(* and limits, and any number of requests.                                 *)
(*                                                                         *)
(* A match prints different doubles into the position, the two rows and    *)
(* the executions.  They agree because only the amount an order was placed *)
(* with has a fraction of a decimal: what is taken from it until it is     *)
(* filled has none, so that remaining_shares keeps the fraction and each   *)
(* print of it rounds the same way (Shifted).  A fraction of one half is   *)
(* the exception: it rounds to even, which is one way in one print and may *)
(* be the other in the other, one decimal away (ShiftedNear).              *)
(***************************************************************************)
EXTENDS RoundingProperties, SumProofs

-----------------------------------------------------------------------------
(* Numbers of six decimals.                                                *)

LEMMA UnitPositive == Unit \in Nat \ {0}
BY SizeAssumption

LEMMA Divided ==
  ASSUME NEW v \in Int, NEW s \in Nat \ {0}
  PROVE  v \div s \in Int /\ v % s \in 0..(s - 1) /\ v = s * (v \div s) + (v % s)
OBVIOUS

LEMMA Remainder ==
  ASSUME NEW n \in Int, NEW s \in Nat \ {0}, NEW r \in 0..(s - 1)
  PROVE  (s * n + r) % s = r
OBVIOUS

LEMMA Multiple ==
  ASSUME NEW v \in Int
  PROVE  SixDecimals(v) <=> \E n \in Int : v = Unit * n
<1>1. v \div Unit \in Int /\ v % Unit \in 0..(Unit - 1) /\ v = Unit * (v \div Unit) + (v % Unit)
  BY UnitPositive, Divided
<1>2. ASSUME NEW n \in Int, v = Unit * n PROVE v % Unit = 0
  <2>1. 0 \in 0..(Unit - 1) /\ v = Unit * n + 0
    BY <1>2, UnitPositive
  <2> QED BY <2>1, UnitPositive, Remainder
<1>3. ASSUME v % Unit = 0 PROVE v = Unit * (v \div Unit)
  BY <1>1, <1>3, UnitPositive
<1> QED BY <1>1, <1>2, <1>3 DEF SixDecimals

\* Sums and differences of such numbers are such numbers.
LEMMA SumDecimal ==
  ASSUME NEW u, NEW v, SixDecimals(u), SixDecimals(v)
  PROVE  SixDecimals(u + v) /\ SixDecimals(u - v) /\ SixDecimals(-u)
<1>1. u \in Int /\ v \in Int
  BY DEF SixDecimals
<1>2. PICK m \in Int, n \in Int : u = Unit * m /\ v = Unit * n
  BY <1>1, Multiple
<1>3. /\ u + v = Unit * (m + n) /\ m + n \in Int
      /\ u - v = Unit * (m - n) /\ m - n \in Int
      /\ -u = Unit * (-m) /\ -m \in Int
  BY <1>2, UnitPositive
<1>4. u + v \in Int /\ u - v \in Int /\ -u \in Int
  BY <1>1
<1> QED BY <1>3, <1>4, Multiple

LEMMA ZeroDecimal == SixDecimals(0)
BY UnitPositive, Multiple, 0 = Unit * 0

\* Two such numbers are equal or at least a sixth decimal apart.
LEMMA Apart ==
  ASSUME NEW u, NEW v, SixDecimals(u), SixDecimals(v), u - v < Unit, v - u < Unit
  PROVE  u = v
<1>1. u \in Int /\ v \in Int
  BY DEF SixDecimals
<1>2. PICK m \in Int : u - v = Unit * m
  BY <1>1, SumDecimal, Multiple
<1>3. m = 0
  BY <1>1, <1>2, UnitPositive
<1> QED BY <1>1, <1>2, <1>3, UnitPositive

\* What is added to a number of six decimals is half way where the sum is.
LEMMA SameFraction ==
  ASSUME NEW u, SixDecimals(u), NEW v \in Int
  PROVE  HalfWay(u + v) <=> HalfWay(v)
<1>1. PICK n \in Int : u = Unit * n
  BY Multiple DEF SixDecimals
<1>2. v \div Unit \in Int /\ v % Unit \in 0..(Unit - 1) /\ v = Unit * (v \div Unit) + (v % Unit)
  BY UnitPositive, Divided
<1>3. /\ u + v = Unit * (n + (v \div Unit)) + (v % Unit)
      /\ n + (v \div Unit) \in Int
  BY <1>1, <1>2, UnitPositive
<1>4. (u + v) % Unit = v % Unit
  BY <1>2, <1>3, UnitPositive, Remainder
<1> QED BY <1>4 DEF HalfWay

-----------------------------------------------------------------------------
(* Printing.                                                               *)

\* The two multiples of Unit next to a number, and which of them is printed.
LEMMA Quotient ==
  ASSUME NEW n \in Int, NEW s \in Nat \ {0}, NEW r \in 0..(s - 1)
  PROVE  (s * n + r) \div s = n
OBVIOUS

LEMMA Printed ==
  ASSUME NEW v \in Int, NEW n \in Int, NEW r \in 0..(Unit - 1), v = Unit * n + r
  PROVE  Decimals(v) = IF 2 * r < Unit \/ (2 * r = Unit /\ n % 2 = 0)
                       THEN Unit * n ELSE Unit * (n + 1)
<1>1. v \div Unit = n /\ v % Unit = r
  BY UnitPositive, Quotient, Remainder
<1> QED BY <1>1 DEF Decimals, Nearest

\* A print has six decimals and is at most half of a sixth decimal away.
LEMMA Near ==
  ASSUME NEW v \in Int
  PROVE  /\ SixDecimals(Decimals(v)) /\ Decimals(v) \in Int
         /\ 2 * (Decimals(v) - v) <= Unit /\ 2 * (v - Decimals(v)) <= Unit
<1> DEFINE n == v \div Unit
           r == v % Unit
<1>1. n \in Int /\ r \in 0..(Unit - 1) /\ v = Unit * n + r
  BY UnitPositive, Divided
<1> HIDE DEF n, r
<1>2. Unit * n \in Int /\ Unit * (n + 1) = Unit * n + Unit /\ n + 1 \in Int
  BY <1>1, UnitPositive
<1>3. SixDecimals(Unit * n) /\ SixDecimals(Unit * (n + 1))
  <2>1. SixDecimals(Unit * n)
    BY ONLY <1>1, <1>2, Multiple
  <2>2. Unit * (n + 1) \in Int
    BY <1>1, UnitPositive
  <2> QED BY ONLY <1>2, <2>1, <2>2, Multiple
<1>4. CASE 2 * r < Unit \/ (2 * r = Unit /\ n % 2 = 0)
  <2>1. Decimals(v) = Unit * n
    BY <1>1, <1>4, Printed
  <2> QED BY <1>1, <1>2, <1>3, <1>4, <2>1, UnitPositive
<1>5. CASE ~(2 * r < Unit \/ (2 * r = Unit /\ n % 2 = 0))
  <2>1. Decimals(v) = Unit * (n + 1)
    BY <1>1, <1>5, Printed
  <2>2. 2 * r >= Unit
    BY <1>1, <1>5, UnitPositive
  <2> QED BY <1>1, <1>2, <1>3, <2>1, <2>2, UnitPositive
<1> QED BY <1>4, <1>5

\* It is nearer than that unless the number is half way.
LEMMA Nearer ==
  ASSUME NEW v \in Int, ~HalfWay(v)
  PROVE  2 * (Decimals(v) - v) < Unit /\ 2 * (v - Decimals(v)) < Unit
<1> DEFINE d == Decimals(v)
<1>1. d \in Int /\ SixDecimals(d) /\ 2 * (d - v) <= Unit /\ 2 * (v - d) <= Unit
  BY Near
<1> HIDE DEF d
<1>2. PICK n \in Int : d = Unit * n
  BY <1>1, Multiple
<1>3. 2 * (d - v) # Unit
  <2> SUFFICES ASSUME 2 * (d - v) = Unit PROVE FALSE
    OBVIOUS
  <2>1. d - v \in 0..(Unit - 1) /\ v = Unit * (n - 1) + (d - v) /\ n - 1 \in Int
    BY <1>1, <1>2, UnitPositive
  <2>2. v % Unit = d - v
    BY <1>2, <2>1, UnitPositive, Remainder
  <2> QED BY <2>2 DEF HalfWay
<1>4. 2 * (v - d) # Unit
  <2> SUFFICES ASSUME 2 * (v - d) = Unit PROVE FALSE
    OBVIOUS
  <2>1. v - d \in 0..(Unit - 1) /\ v = Unit * n + (v - d)
    BY <1>1, <1>2, UnitPositive
  <2>2. v % Unit = v - d
    BY <1>2, <2>1, UnitPositive, Remainder
  <2> QED BY <2>2 DEF HalfWay
<1> QED BY <1>1, <1>3, <1>4, UnitPositive DEF d

\* Six decimals more are six decimals more in print.
LEMMA Shifted ==
  ASSUME NEW u, SixDecimals(u), NEW v \in Int, ~HalfWay(v)
  PROVE  Decimals(u + v) = u + Decimals(v)
<1>1. u \in Int /\ u + v \in Int
  BY DEF SixDecimals
<1>2. /\ SixDecimals(Decimals(u + v)) /\ Decimals(u + v) \in Int
      /\ 2 * (Decimals(u + v) - (u + v)) <= Unit /\ 2 * ((u + v) - Decimals(u + v)) <= Unit
  BY <1>1, Near
<1>3. SixDecimals(Decimals(v)) /\ Decimals(v) \in Int
  BY Near
<1>4. 2 * (Decimals(v) - v) < Unit /\ 2 * (v - Decimals(v)) < Unit
  BY Nearer
<1>5. SixDecimals(u + Decimals(v))
  BY <1>3, SumDecimal
<1>6. /\ Decimals(u + v) - (u + Decimals(v)) < Unit
      /\ (u + Decimals(v)) - Decimals(u + v) < Unit
  BY <1>1, <1>2, <1>3, <1>4, UnitPositive
<1> QED BY <1>2, <1>5, <1>6, Apart

\* If the number is half way, they are six decimals more or one beside.
LEMMA ShiftedNear ==
  ASSUME NEW u, SixDecimals(u), NEW v \in Int
  PROVE  Decimals(u + v) - (u + Decimals(v)) \in {-Unit, 0, Unit}
<1>1. u \in Int /\ u + v \in Int
  BY DEF SixDecimals
<1> DEFINE d == Decimals(u + v) - (u + Decimals(v))
<1>2. /\ SixDecimals(Decimals(u + v)) /\ Decimals(u + v) \in Int
      /\ 2 * (Decimals(u + v) - (u + v)) <= Unit /\ 2 * ((u + v) - Decimals(u + v)) <= Unit
  BY <1>1, Near
<1>3. /\ SixDecimals(Decimals(v)) /\ Decimals(v) \in Int
      /\ 2 * (Decimals(v) - v) <= Unit /\ 2 * (v - Decimals(v)) <= Unit
  BY Near
<1>4. SixDecimals(u + Decimals(v))
  BY <1>3, SumDecimal
<1>5. SixDecimals(d)
  BY <1>2, <1>4, SumDecimal
<1>6. d \in Int /\ d <= Unit /\ -d <= Unit
  BY <1>1, <1>2, <1>3, UnitPositive
<1> HIDE DEF d
<1>7. PICK m \in Int : d = Unit * m
  BY <1>5, <1>6, Multiple
<1>8. m \in {-1, 0, 1}
  BY <1>6, <1>7, UnitPositive
<1>9. d \in {-Unit, 0, Unit}
  BY <1>7, <1>8, UnitPositive
<1> QED BY <1>9 DEF d

LEMMA Exact == ASSUME NEW u, SixDecimals(u) PROVE Decimals(u) = u
<1>1. u \in Int
  BY DEF SixDecimals
<1>2. SixDecimals(Decimals(u)) /\ Decimals(u) \in Int
      /\ 2 * (Decimals(u) - u) <= Unit /\ 2 * (u - Decimals(u)) <= Unit
  BY <1>1, Near
<1>3. Decimals(u) - u < Unit /\ u - Decimals(u) < Unit
  BY <1>1, <1>2, UnitPositive
<1> QED BY <1>2, <1>3, Apart

\* A print keeps the sign, or is 0.
LEMMA SignKept ==
  ASSUME NEW v \in Int
  PROVE  /\ v >= 0 => Decimals(v) >= 0
         /\ v <= 0 => Decimals(v) <= 0
<1> DEFINE d == Decimals(v)
<1>1. d \in Int /\ SixDecimals(d) /\ 2 * (d - v) <= Unit /\ 2 * (v - d) <= Unit
  BY Near
<1> HIDE DEF d
<1>2. PICK n \in Int : d = Unit * n
  BY <1>1, Multiple
<1>3. ASSUME v >= 0 PROVE d >= 0
  <2>1. d > -Unit
    BY <1>1, <1>3, UnitPositive
  <2>2. n > -1
    BY <1>2, <2>1, UnitPositive
  <2> QED BY <1>2, <2>2, UnitPositive
<1>4. ASSUME v <= 0 PROVE d <= 0
  <2>1. d < Unit
    BY <1>1, <1>4, UnitPositive
  <2>2. n < 1
    BY <1>2, <2>1, UnitPositive
  <2> QED BY <1>2, <2>2, UnitPositive
<1> QED BY <1>3, <1>4 DEF d

\* The print of the opposite is the opposite print.
LEMMA Opposite == ASSUME NEW v \in Int PROVE Decimals(-v) = -Decimals(v)
<1>1. -v \in Int
  OBVIOUS
<1>2. CASE ~HalfWay(v)
  <2>1. /\ SixDecimals(Decimals(v)) /\ Decimals(v) \in Int
        /\ 2 * (Decimals(v) - v) < Unit /\ 2 * (v - Decimals(v)) < Unit
    BY <1>2, Near, Nearer
  <2>2. /\ SixDecimals(Decimals(-v)) /\ Decimals(-v) \in Int
        /\ 2 * (Decimals(-v) - (-v)) <= Unit /\ 2 * ((-v) - Decimals(-v)) <= Unit
    BY <1>1, Near
  <2>3. SixDecimals(-Decimals(v))
    BY <2>1, SumDecimal
  <2>4. Decimals(-v) - (-Decimals(v)) < Unit /\ (-Decimals(v)) - Decimals(-v) < Unit
    BY <2>1, <2>2, UnitPositive
  <2> QED BY <2>2, <2>3, <2>4, Apart
<1>3. CASE HalfWay(v)
  <2> DEFINE n == v \div Unit
             r == v % Unit
  <2>1. n \in Int /\ r \in 0..(Unit - 1) /\ v = Unit * n + r /\ 2 * r = Unit
    BY <1>3, UnitPositive, Divided DEF HalfWay
  <2> HIDE DEF n, r
  <2>2. -v = Unit * (-n - 1) + r /\ -n - 1 \in Int
    BY <2>1, UnitPositive
  <2>3. (-n - 1) % 2 = 0 <=> n % 2 # 0
    BY <2>1
  <2>7. 2 * r = Unit /\ ~(2 * r < Unit)
    BY <2>1, UnitPositive
  <2>4. Decimals(v) = IF n % 2 = 0 THEN Unit * n ELSE Unit * (n + 1)
    <3>1. Decimals(v) = IF 2 * r < Unit \/ (2 * r = Unit /\ n % 2 = 0)
                        THEN Unit * n ELSE Unit * (n + 1)
      BY ONLY <2>1, Printed, v \in Int
    <3> QED BY ONLY <2>7, <3>1
  <2>5. Decimals(-v) = IF n % 2 # 0 THEN Unit * (-n - 1) ELSE Unit * (-n - 1 + 1)
    <3> DEFINE m == -n - 1
    <3>1. m \in Int /\ -v \in Int /\ -v = Unit * m + r /\ r \in 0..(Unit - 1)
      BY <1>1, <2>1, <2>2
    <3>2. m % 2 = 0 <=> n % 2 # 0
      BY <2>3
    <3> HIDE DEF m
    <3>3. Decimals(-v) = IF 2 * r < Unit \/ (2 * r = Unit /\ m % 2 = 0)
                         THEN Unit * m ELSE Unit * (m + 1)
      BY ONLY <3>1, Printed
    <3>4. Decimals(-v) = IF n % 2 # 0 THEN Unit * m ELSE Unit * (m + 1)
      BY ONLY <2>7, <3>2, <3>3
    <3> QED BY <3>4 DEF m
  <2>6. -(Unit * n) = Unit * (-n - 1 + 1) /\ -(Unit * (n + 1)) = Unit * (-n - 1)
    BY <2>1, UnitPositive
  <2> QED BY <2>4, <2>5, <2>6
<1> QED BY <1>2, <1>3

\* What covers a number covers its print.
LEMMA Covered ==
  ASSUME NEW u, SixDecimals(u), NEW v \in Int, v <= u
  PROVE  Decimals(v) <= u
<1>1. u \in Int
  BY DEF SixDecimals
<1>2. SixDecimals(Decimals(v)) /\ Decimals(v) \in Int /\ 2 * (Decimals(v) - v) <= Unit
  BY Near
<1> SUFFICES ASSUME Decimals(v) > u PROVE FALSE
  BY <1>1, <1>2
<1>3. Decimals(v) - u < Unit /\ u - Decimals(v) < Unit
  BY <1>1, <1>2, UnitPositive
<1> QED BY <1>1, <1>2, <1>3, Apart

\* operator<< prints shares as shares.
LEMMA SignificantShares == ASSUME NEW v \in Granted PROVE Significant(v) \in Nat
<1> DEFINE P == {p \in {Ten^k : k \in 0..Width} : v < p * Ten^Digits /\ -v < p * Ten^Digits}
<1>1. P \subseteq Nat \ {0}
  BY PowerAssumption
<1>2. Ten^Width \in P
  <2>1. Width \in 0..Width
    BY SizeAssumption
  <2>2. Ten^Width \in Nat \ {0} /\ Ten^Digits \in Nat \ {0}
    BY <2>1, PowerAssumption
  <2>3. v \in Nat /\ v < Ten^Width /\ -v < Ten^Width
    BY SizeAssumption, NumberAssumption
  <2>4. Ten^Width <= Ten^Width * Ten^Digits /\ Ten^Width * Ten^Digits \in Nat
    <3>1. \A p, d \in Nat \ {0} : p <= p * d /\ p * d \in Nat
      OBVIOUS
    <3> QED BY <2>2, <3>1
  <2> QED BY <2>1, <2>2, <2>3, <2>4
<1> HIDE DEF P
<1>3. \E x \in P : \A y \in P : x <= y
  BY <1>1, <1>2, SmallestNumber
<1>4. Min(P) \in Nat \ {0}
  BY <1>1, <1>3 DEF Min
<1>5. Significant(v) = Nearest(v, Min(P))
  BY DEF Significant, P
<1>6. v \in Nat
  BY NumberAssumption
<1>7. \A s \in Nat \ {0} : Nearest(v, s) \in Nat
  <2> SUFFICES ASSUME NEW s \in Nat \ {0} PROVE Nearest(v, s) \in Nat
    OBVIOUS
  <2>1. v \div s \in Nat
    BY <1>6
  <2>2. s * (v \div s) \in Nat /\ s * ((v \div s) + 1) \in Nat
    BY <2>1
  <2> QED BY <2>2 DEF Nearest
<1> QED BY <1>4, <1>5, <1>7

-----------------------------------------------------------------------------
(* The inductive invariant.                                                *)

Number == Int \cup {None}
Row    == [account : Account, limit : Limit, shares : Int, open : BOOLEAN]

TablesTyped ==
  /\ balance \in [Account -> Number] /\ position \in [Account -> Number]
  /\ orders \in Seq(Row)

\* An account that has ordered has a balance and a position.
OwnersHold ==
  \A k \in DOMAIN orders : /\ balance[orders[k].account] # None
                           /\ position[orders[k].account] # None

\* The row of the order in the loop says what to_string makes of remaining_shares.
TakerPrinted ==
  taker # None =>
    /\ taker \in [row : DOMAIN orders, remaining : Int]
    /\ orders[taker.row].open
    /\ orders[taker.row].shares = Decimals(taker.remaining)

Inv == TypeOK /\ TablesTyped /\ OwnersHold /\ TakerPrinted

LEMMA Initially == Init => Inv
<1> SUFFICES ASSUME Init PROVE Inv
  OBVIOUS
<1>1. TablesTyped
  BY DEF Init, TablesTyped, Number
<1>2. TypeOK
  BY SizeAssumption DEF Init, TypeOK
<1> QED BY <1>1, <1>2 DEF Init, Inv, OwnersHold, TakerPrinted

LEMMA RowParts ==
  ASSUME Inv, NEW k \in DOMAIN orders
  PROVE  /\ orders[k] \in Row /\ orders[k].account \in Account /\ orders[k].limit \in Int
         /\ orders[k].shares \in Int /\ SixDecimals(orders[k].shares)
         /\ orders[k].open \in BOOLEAN
         /\ balance[orders[k].account] \in Int /\ SixDecimals(balance[orders[k].account])
         /\ position[orders[k].account] \in Int
<1>1. orders[k] \in Row
  BY DEF Inv, TablesTyped
<1>2. orders[k].account \in Account /\ orders[k].limit \in Limit /\ orders[k].shares \in Int
  BY <1>1 DEF Row
<1>3. orders[k].open \in BOOLEAN /\ SixDecimals(orders[k].shares)
  BY DEF Inv, TypeOK
<1>4. balance[orders[k].account] # None /\ position[orders[k].account] # None
  BY DEF Inv, OwnersHold
<1> QED BY <1>1, <1>2, <1>3, <1>4, NumberAssumption DEF Inv, TypeOK, TablesTyped, Number

\* UPDATE ... SET column = column + n.
LEMMA Added ==
  ASSUME NEW table \in [Account -> Number], NEW a \in Account, table[a] \in Int, NEW n \in Int
  PROVE  /\ Add(table, a, n) \in [Account -> Number]
         /\ Add(table, a, n)[a] = table[a] + n
         /\ \A x \in Account : x # a => Add(table, a, n)[x] = table[x]
         /\ \A x \in Account : table[x] # None => Add(table, a, n)[x] # None
<1>1. table[a] + n \in Int
  OBVIOUS
<1> QED BY <1>1, NumberAssumption DEF Add, Number

\* A balance stays one of six decimals when a print is added to it.
LEMMA BalanceAdded ==
  ASSUME NEW table \in [Account -> Number],
         \A x \in Account : table[x] = None \/ SixDecimals(table[x]),
         NEW a \in Account, table[a] # None, NEW n, SixDecimals(n)
  PROVE  /\ Add(table, a, n) \in [Account -> Number]
         /\ Add(table, a, n)[a] = table[a] + n
         /\ \A x \in Account : Add(table, a, n)[x] = None \/ SixDecimals(Add(table, a, n)[x])
         /\ \A x \in Account : table[x] # None => Add(table, a, n)[x] # None
<1>1. SixDecimals(table[a]) /\ table[a] \in Int /\ n \in Int
  BY DEF SixDecimals
<1>2. SixDecimals(table[a] + n)
  BY <1>1, SumDecimal
<1>3. /\ Add(table, a, n) \in [Account -> Number]
      /\ Add(table, a, n)[a] = table[a] + n
      /\ \A x \in Account : x # a => Add(table, a, n)[x] = table[x]
      /\ \A x \in Account : table[x] # None => Add(table, a, n)[x] # None
  BY <1>1, Added
<1>4. \A x \in Account : Add(table, a, n)[x] = None \/ SixDecimals(Add(table, a, n)[x])
  BY <1>2, <1>3
<1> QED BY <1>3, <1>4

\* A request that leaves the orders alone leaves what is known of them alone.
LEMMA SameOrders ==
  ASSUME Inv, UNCHANGED <<orders, taker>>,
         TypeOK', balance' \in [Account -> Number], position' \in [Account -> Number],
         \A a \in Account : /\ balance[a] # None => balance'[a] # None
                            /\ position[a] # None => position'[a] # None
  PROVE  Inv'
<1>1. TablesTyped'
  BY DEF Inv, TablesTyped
<1>2. OwnersHold'
  BY RowParts DEF Inv, OwnersHold
<1>3. TakerPrinted'
  BY DEF Inv, TakerPrinted
<1> QED BY <1>1, <1>2, <1>3 DEF Inv

LEMMA CreateKeeps ==
  ASSUME Inv, NEW a \in Account, NEW n \in Deposit, CreateAccount(a, n) PROVE Inv'
<1>1. n \in Int
  BY NumberAssumption
<1>2. Decimals(n) \in Int /\ SixDecimals(Decimals(n)) /\ Decimals(n) # None
  BY <1>1, Near, NumberAssumption
<1>3. balance' \in [Account -> Number] /\ \A x \in Account : balance[x] # None => balance'[x] # None
  BY <1>2 DEF CreateAccount, Inv, TablesTyped, Number
<1>4. requests' \in 0..MaxRequests
  BY SizeAssumption DEF CreateAccount, Begin, Inv, TypeOK
<1>5. TypeOK'
  BY <1>2, <1>4 DEF CreateAccount, Inv, TypeOK, TablesTyped
<1>6. UNCHANGED <<position, orders, taker>>
  BY DEF CreateAccount
<1> QED BY <1>3, <1>5, <1>6, SameOrders DEF Inv, TablesTyped

\* What a grant stores.
Stored(a, n) == IF position[a] = None THEN Significant(n) ELSE Decimals(n)

LEMMA StoredShares == ASSUME NEW a, NEW n \in Granted PROVE Stored(a, n) \in Nat
<1>1. n \in Int /\ n >= 0
  BY NumberAssumption
<1>2. Decimals(n) \in Int /\ Decimals(n) >= 0
  BY <1>1, Near, SignKept
<1>3. Significant(n) \in Nat
  BY SignificantShares
<1> QED BY <1>2, <1>3 DEF Stored

\* Of the positions only that of a changes, to what it had and n.
Moved(a, n) ==
  /\ position' \in [Account -> Number]
  /\ position'[a] = Holding(a) + n /\ position'[a] # None
  /\ \A x \in Account : x # a => position'[x] = position[x]

LEMMA GrantMoves ==
  ASSUME Inv, NEW a \in Account, NEW n \in Granted, Grant(a, n)
  PROVE  Moved(a, Stored(a, n)) /\ granted' = granted + Stored(a, n)
<1>1. Stored(a, n) \in Int
  BY StoredShares
<1>2. position \in [Account -> Number]
  BY DEF Inv, TablesTyped
<1>3. position' = [position EXCEPT ![a] = IF @ = None THEN Stored(a, n) ELSE @ + Stored(a, n)]
  BY DEF Grant, Stored
<1>4. Holding(a) \in Int
  BY <1>2, NumberAssumption DEF Holding, Number
<1>5. position'[a] = Holding(a) + Stored(a, n)
  BY <1>1, <1>2, <1>3 DEF Holding
<1> QED BY <1>1, <1>2, <1>3, <1>4, <1>5, NumberAssumption DEF Moved, Number, Grant, Stored

LEMMA GrantKeeps ==
  ASSUME Inv, NEW a \in Account, NEW n \in Granted, Grant(a, n) PROVE Inv'
<1>1. Moved(a, Stored(a, n)) /\ granted' = granted + Stored(a, n) /\ Stored(a, n) \in Int
  BY GrantMoves, StoredShares
<1>2. requests' \in 0..MaxRequests
  BY SizeAssumption DEF Grant, Begin, Inv, TypeOK
<1>3. \A x \in Account : position'[x] = None \/ position'[x] \in Int
  BY <1>1, NumberAssumption DEF Moved, Number
<1>4. UNCHANGED <<balance, orders, taker>>
  BY DEF Grant
<1>5. granted' \in Int
  BY <1>1 DEF Inv, TypeOK
<1>6. TypeOK'
  BY <1>2, <1>3, <1>4, <1>5 DEF Inv, TypeOK
<1> QED BY <1>1, <1>4, <1>6, SameOrders DEF Inv, TablesTyped, Moved

\* A new order is the last one, and its row says what it was placed with.
LEMMA Entered ==
  ASSUME Inv, NEW a \in Account, NEW n \in Amount, NEW l \in Limit, Enter(a, n, l)
  PROVE  /\ orders' \in Seq(Row) /\ DOMAIN orders' = 1..(Len(orders) + 1)
         /\ DOMAIN orders = 1..Len(orders) /\ Len(orders) \in Nat
         /\ orders'[Len(orders) + 1] = NewOrder(a, n, l) /\ NewOrder(a, n, l) \in Row
         /\ \A k \in DOMAIN orders : orders'[k] = orders[k]
         /\ n \in Int /\ SixDecimals(Decimals(n)) /\ Decimals(n) \in Int
<1>1. n \in Int
  BY NumberAssumption
<1>2. SixDecimals(Decimals(n)) /\ Decimals(n) \in Int
  BY <1>1, Near
<1>3. NewOrder(a, n, l) \in Row
  BY <1>2 DEF NewOrder, Row
<1>4. orders \in Seq(Row) /\ orders' = Append(orders, NewOrder(a, n, l))
  BY DEF Inv, TablesTyped, Enter
<1> QED BY <1>1, <1>2, <1>3, <1>4

LEMMA EnterKeeps ==
  ASSUME Inv, NEW a \in Account, NEW n \in Amount, NEW l \in Limit, Begin, Enter(a, n, l),
         balance' \in [Account -> Number],
         \A x \in Account : balance'[x] = None \/ SixDecimals(balance'[x]),
         \A x \in Account : balance[x] # None => balance'[x] # None,
         balance[a] # None, NEW d, Moved(a, d)
  PROVE  Inv'
<1> DEFINE i == Len(orders) + 1
<1>1. /\ orders' \in Seq(Row) /\ DOMAIN orders' = 1..i
      /\ DOMAIN orders = 1..Len(orders) /\ Len(orders) \in Nat
      /\ orders'[i] = NewOrder(a, n, l) /\ NewOrder(a, n, l) \in Row
      /\ \A k \in DOMAIN orders : orders'[k] = orders[k]
      /\ n \in Int /\ SixDecimals(Decimals(n)) /\ Decimals(n) \in Int
  BY Entered
<1>2. taker' = [row |-> i, remaining |-> n] /\ granted' = granted
  BY DEF Enter
<1>3. i \in DOMAIN orders' /\ \A k \in DOMAIN orders' : k \in DOMAIN orders \/ k = i
  BY <1>1
<1>4. requests' \in 0..MaxRequests
  BY SizeAssumption DEF Begin, Inv, TypeOK
<1>5. /\ orders'[i].account = a /\ orders'[i].limit = l /\ orders'[i].open = TRUE
      /\ orders'[i].shares = Decimals(n)
  BY <1>1 DEF NewOrder
<1> HIDE DEF i
<1>6. \A x \in Account : position'[x] = None \/ position'[x] \in Int
  BY NumberAssumption DEF Moved, Number
<1>7. \A k \in DOMAIN orders' :
        /\ orders'[k].account \in Account /\ orders'[k].limit \in Limit
        /\ SixDecimals(orders'[k].shares) /\ orders'[k].open \in BOOLEAN
  <2> SUFFICES ASSUME NEW k \in DOMAIN orders'
               PROVE  /\ orders'[k].account \in Account /\ orders'[k].limit \in Limit
                      /\ SixDecimals(orders'[k].shares) /\ orders'[k].open \in BOOLEAN
    OBVIOUS
  <2>1. CASE k = i
    BY <1>1, <1>5, <2>1
  <2>2. CASE k \in DOMAIN orders
    BY <1>1, <2>2 DEF Inv, TypeOK
  <2> QED BY <1>3, <2>1, <2>2
<1>8. TypeOK'
  BY <1>1, <1>2, <1>3, <1>4, <1>6, <1>7 DEF Inv, TypeOK
<1>9. OwnersHold'
  <2> SUFFICES ASSUME NEW k \in DOMAIN orders'
               PROVE  balance'[orders'[k].account] # None /\ position'[orders'[k].account] # None
    BY DEF OwnersHold
  <2>1. CASE k = i
    BY <1>5, <2>1 DEF Moved
  <2>2. CASE k \in DOMAIN orders
    BY <1>1, <2>2, RowParts DEF Inv, OwnersHold, Moved
  <2> QED BY <1>3, <2>1, <2>2
<1>10. TakerPrinted'
  BY <1>1, <1>2, <1>3, <1>5 DEF TakerPrinted
<1>11. TablesTyped'
  BY <1>1 DEF TablesTyped, Moved
<1> QED BY <1>8, <1>9, <1>10, <1>11 DEF Inv

LEMMA HoldingInt == ASSUME Inv, NEW a \in Account PROVE Holding(a) \in Int
BY NumberAssumption DEF Inv, TablesTyped, Holding, Number

\* A buy moves no shares, a sell the print of its amount.
LEMMA BuyMoves ==
  ASSUME Inv, NEW a \in Account, NEW n, NEW l, PlaceBuy(a, n, l) PROVE Moved(a, 0)
<1>1. position' = [position EXCEPT ![a] = Holding(a)] /\ position \in [Account -> Number]
  BY DEF PlaceBuy, Inv, TablesTyped
<1>2. Holding(a) \in Int
  BY HoldingInt
<1> QED BY <1>1, <1>2, NumberAssumption DEF Moved, Number

LEMMA SellMoves ==
  ASSUME Inv, NEW a \in Account, NEW n \in Amount, NEW l, PlaceSell(a, n, l)
  PROVE  Moved(a, Decimals(n))
<1>1. /\ position' = [position EXCEPT ![a] = Holding(a) + Decimals(n)]
      /\ position \in [Account -> Number]
  BY DEF PlaceSell, Inv, TablesTyped
<1>2. Holding(a) \in Int /\ Decimals(n) \in Int
  BY HoldingInt, Near, NumberAssumption
<1> QED BY <1>1, <1>2, NumberAssumption DEF Moved, Number

LEMMA BuyKeeps ==
  ASSUME Inv, NEW a \in Account, NEW n \in Amount, NEW l \in Limit, PlaceBuy(a, n, l)
  PROVE  Inv'
<1>1. n \in Int /\ l \in Int
  BY NumberAssumption
<1>2. n * l \in Int
  BY <1>1
<1>3. SixDecimals(-Decimals(n * l))
  BY <1>2, Near, SumDecimal
<1>4. /\ balance \in [Account -> Number] /\ balance[a] # None
      /\ \A x \in Account : balance[x] = None \/ SixDecimals(balance[x])
      /\ balance' = Add(balance, a, -Decimals(n * l))
  BY DEF PlaceBuy, Inv, TablesTyped, TypeOK
<1>5. /\ balance' \in [Account -> Number]
      /\ \A x \in Account : balance'[x] = None \/ SixDecimals(balance'[x])
      /\ \A x \in Account : balance[x] # None => balance'[x] # None
  BY <1>3, <1>4, BalanceAdded
<1>6. Begin /\ Enter(a, n, l) /\ Moved(a, 0)
  BY BuyMoves DEF PlaceBuy
<1> QED BY <1>4, <1>5, <1>6, EnterKeeps

LEMMA SellKeeps ==
  ASSUME Inv, NEW a \in Account, NEW n \in Amount, NEW l \in Limit, PlaceSell(a, n, l)
  PROVE  Inv'
<1>1. /\ balance' \in [Account -> Number] /\ balance[a] # None
      /\ \A x \in Account : balance'[x] = None \/ SixDecimals(balance'[x])
      /\ \A x \in Account : balance[x] # None => balance'[x] # None
  BY DEF PlaceSell, Inv, TablesTyped, TypeOK
<1>2. Begin /\ Enter(a, n, l) /\ Moved(a, Decimals(n))
  BY SellMoves DEF PlaceSell
<1> QED BY <1>1, <1>2, EnterKeeps

\* A refused order leaves a position, of no shares if there was none.
LEMMA RefuseMoves ==
  ASSUME Inv, NEW a \in Account, NEW n, NEW l, Refuse(a, n, l) PROVE Moved(a, 0)
<1>1. position' = [position EXCEPT ![a] = Holding(a)] /\ position \in [Account -> Number]
  BY DEF Refuse, Inv, TablesTyped
<1>2. Holding(a) \in Int
  BY HoldingInt
<1> QED BY <1>1, <1>2, NumberAssumption DEF Moved, Number

LEMMA RefuseKeeps ==
  ASSUME Inv, NEW a \in Account, NEW n \in Amount, NEW l \in Limit, Refuse(a, n, l)
  PROVE  Inv'
<1>1. Moved(a, 0)
  BY RefuseMoves
<1>2. requests' \in 0..MaxRequests
  BY SizeAssumption DEF Refuse, Begin, Inv, TypeOK
<1>3. \A x \in Account : position'[x] = None \/ position'[x] \in Int
  BY <1>1, NumberAssumption DEF Moved, Number
<1>4. UNCHANGED <<balance, orders, taker, granted>>
  BY DEF Refuse
<1>5. TypeOK'
  BY <1>2, <1>3, <1>4 DEF Inv, TypeOK
<1> QED BY <1>1, <1>4, <1>5, SameOrders DEF Inv, TablesTyped, Moved

-----------------------------------------------------------------------------
(* A match.                                                                *)

\* The shares of a match with order k, and whether they are all the taker wants.
Matched(k) == LesserOf(Magnitude(taker.remaining), Magnitude(orders[k].shares))
UsesUp(k)  == Magnitude(taker.remaining) = Matched(k)

Buyer(k) == IF Side = 1 THEN Own.account ELSE orders[k].account
After(k) == taker.remaining - Side * Matched(k)

\* Order k rests on the other side, and the match takes no more than there is.
MatchShape(k) ==
  /\ taker # None /\ taker.row \in DOMAIN orders /\ k # taker.row
  /\ orders[k].open /\ orders[taker.row].open
  /\ Matched(k) \in Nat /\ taker.remaining \in Int
  /\ orders[taker.row].shares = Decimals(taker.remaining)
  /\ \/ /\ Side = 1 /\ taker.remaining > 0 /\ orders[k].shares < 0
        /\ orders[k].shares + Matched(k) <= 0
        /\ taker.remaining - Matched(k) >= 0
        /\ UsesUp(k) => Matched(k) = taker.remaining
        /\ ~UsesUp(k) => Matched(k) = -orders[k].shares
     \/ /\ Side = -1 /\ taker.remaining <= 0 /\ orders[k].shares > 0
        /\ orders[k].shares - Matched(k) >= 0
        /\ taker.remaining + Matched(k) <= 0
        /\ UsesUp(k) => Matched(k) = -taker.remaining
        /\ ~UsesUp(k) => Matched(k) = orders[k].shares

LEMMA Shaped == ASSUME Inv, NEW k \in DOMAIN orders, Match(k) PROVE MatchShape(k)
<1>1. taker # None /\ k \in Facing
  BY DEF Match
<1>2. /\ taker.row \in DOMAIN orders /\ taker.remaining \in Int
      /\ orders[taker.row].open
      /\ orders[taker.row].shares = Decimals(taker.remaining)
  BY <1>1 DEF Inv, TakerPrinted
<1>3. orders[k].open /\ orders[k].shares * Side < 0 /\ orders[k].shares \in Int
  BY <1>1, RowParts DEF Facing
<1>4. \/ Side = 1 /\ taker.remaining > 0 /\ orders[k].shares < 0
      \/ Side = -1 /\ taker.remaining <= 0 /\ orders[k].shares > 0
  BY <1>2, <1>3 DEF Side
<1>5. k # taker.row
  <2>1. /\ taker.remaining >= 0 => Decimals(taker.remaining) >= 0
        /\ taker.remaining <= 0 => Decimals(taker.remaining) <= 0
        /\ Decimals(taker.remaining) \in Int
    BY <1>2, SignKept, Near
  <2> QED BY <1>2, <1>3, <1>4, <2>1
<1> QED BY <1>1, <1>2, <1>3, <1>4, <1>5 DEF MatchShape, Matched, UsesUp, Magnitude, LesserOf

\* The two rows a match writes.
MatchRows(k) ==
  /\ orders' \in Seq(Row) /\ DOMAIN orders' = DOMAIN orders
  /\ \A j \in DOMAIN orders : /\ orders'[j].account = orders[j].account
                              /\ orders'[j].limit = orders[j].limit
                              /\ j \notin {k, taker.row} => orders'[j] = orders[j]
  /\ orders'[k].shares = Decimals(orders[k].shares + Side * Matched(k))
  /\ orders'[k].open = UsesUp(k)
  /\ orders'[taker.row].shares = IF UsesUp(k) THEN 0 ELSE Decimals(After(k))
  /\ orders'[taker.row].open = ~UsesUp(k)

LEMMA RowsMatched ==
  ASSUME Inv, NEW k \in DOMAIN orders, Match(k), MatchShape(k) PROVE MatchRows(k)
<1> DEFINE i == taker.row
           m == Decimals(orders[k].shares + Side * Matched(k))
           n == IF UsesUp(k) THEN 0 ELSE Decimals(After(k))
           u == UsesUp(k)
<1>1. orders' = [orders EXCEPT ![k].shares = m, ![k].open = u, ![i].shares = n, ![i].open = ~u]
  BY DEF Match, Matched, UsesUp, After
<1>2. orders \in Seq(Row) /\ i \in DOMAIN orders /\ k # i
  BY DEF Inv, TablesTyped, MatchShape
<1>3. Matched(k) \in Int /\ Side \in Int /\ orders[k].shares \in Int /\ taker.remaining \in Int
  BY RowParts DEF MatchShape
<1>4. orders[k].shares + Side * Matched(k) \in Int /\ After(k) \in Int
  BY <1>3 DEF After
<1>5. m \in Int /\ n \in Int /\ u \in BOOLEAN
  BY <1>4, Near DEF UsesUp
<1> HIDE DEF m, n, u, i
<1>6. \A j \in DOMAIN orders : orders[j] \in Row
  BY <1>2
<1>7. DOMAIN orders' = DOMAIN orders
  BY <1>1, <1>2
<1>8. orders'[k] = [orders[k] EXCEPT !.shares = m, !.open = u]
  BY <1>1, <1>2
<1>9. orders'[i] = [orders[i] EXCEPT !.shares = n, !.open = ~u]
  BY <1>1, <1>2
<1>10. \A j \in DOMAIN orders : j \notin {k, i} => orders'[j] = orders[j]
  BY <1>1, <1>2
<1>11. orders'[k] \in Row /\ orders'[i] \in Row
  BY <1>2, <1>5, <1>6, <1>8, <1>9 DEF Row
<1>12. /\ orders'[k].account = orders[k].account /\ orders'[k].limit = orders[k].limit
       /\ orders'[k].shares = m /\ orders'[k].open = u
  BY <1>6, <1>8 DEF Row
<1>13. /\ orders'[i].account = orders[i].account /\ orders'[i].limit = orders[i].limit
       /\ orders'[i].shares = n /\ orders'[i].open = ~u
  BY <1>2, <1>6, <1>9 DEF Row
<1>14. orders' \in Seq(Row)
  <2>1. \A j \in DOMAIN orders : orders'[j] \in Row
    BY <1>2, <1>6, <1>10, <1>11
  <2>2. Len(orders) \in Nat /\ DOMAIN orders = 1..Len(orders)
    BY <1>2
  <2>3. orders' = [j \in 1..Len(orders) |-> orders'[j]]
    BY <1>1, <1>2, <2>2
  <2>4. \A j \in 1..Len(orders) : orders'[j] \in Row
    BY <2>1, <2>2
  <2> QED BY <2>2, <2>3, <2>4
<1> QED BY <1>2, <1>7, <1>10, <1>12, <1>13, <1>14 DEF MatchRows, m, n, u, i

\* The buyer gets the print of what is matched.
LEMMA MatchMoves ==
  ASSUME Inv, NEW k \in DOMAIN orders, Match(k), MatchShape(k)
  PROVE  Buyer(k) \in Account /\ Moved(Buyer(k), Decimals(Matched(k)))
<1>1. position' = Add(position, Buyer(k), Decimals(Matched(k)))
  BY DEF Match, Matched, Buyer
<1>2. Buyer(k) \in Account /\ position[Buyer(k)] \in Int
  BY RowParts DEF Buyer, Own, MatchShape
<1>3. Decimals(Matched(k)) \in Int
  BY Near DEF MatchShape
<1>4. position \in [Account -> Number]
  BY DEF Inv, TablesTyped
<1>5. /\ position' \in [Account -> Number]
      /\ position'[Buyer(k)] = position[Buyer(k)] + Decimals(Matched(k))
      /\ \A x \in Account : x # Buyer(k) => position'[x] = position[x]
      /\ \A x \in Account : position[x] # None => position'[x] # None
  BY <1>1, <1>2, <1>3, <1>4, Added
<1>6. position[Buyer(k)] # None
  BY <1>2, NumberAssumption
<1> QED BY <1>2, <1>5, <1>6 DEF Moved, Holding

LEMMA MatchBalance ==
  ASSUME Inv, NEW k \in DOMAIN orders, Match(k), MatchShape(k)
  PROVE  /\ balance' \in [Account -> Number]
         /\ \A x \in Account : balance'[x] = None \/ SixDecimals(balance'[x])
         /\ \A x \in Account : balance[x] # None => balance'[x] # None
<1> DEFINE e == Matched(k)
           price == orders[k].limit
           up   == Decimals(e * (Own.limit - price))
           paid == Decimals(e * price)
           o == Own.account
           m == orders[k].account
<1>1. /\ Side = 1 => balance' = Add(Add(balance, o, up), m, paid)
      /\ Side # 1 => balance' = Add(Add(balance, o, paid), m, -paid)
  BY DEF Match, Settle, Matched
<1>2. /\ o \in Account /\ balance[o] # None /\ Own.limit \in Int
      /\ m \in Account /\ balance[m] # None /\ price \in Int
  BY RowParts, NumberAssumption DEF Own, MatchShape
<1>3. e * (Own.limit - price) \in Int /\ e * price \in Int
  BY <1>2 DEF MatchShape
<1>4. SixDecimals(up) /\ SixDecimals(paid) /\ SixDecimals(-paid)
  BY <1>3, Near, SumDecimal
<1>5. balance \in [Account -> Number] /\ \A x \in Account : balance[x] = None \/ SixDecimals(balance[x])
  BY DEF Inv, TablesTyped, TypeOK
<1> HIDE DEF e, price, up, paid, o, m
<1>6. ASSUME NEW p, SixDecimals(p), NEW q, SixDecimals(q), balance' = Add(Add(balance, o, p), m, q)
      PROVE  /\ balance' \in [Account -> Number]
             /\ \A x \in Account : balance'[x] = None \/ SixDecimals(balance'[x])
             /\ \A x \in Account : balance[x] # None => balance'[x] # None
  <2> DEFINE b == Add(balance, o, p)
  <2>1. /\ b \in [Account -> Number]
        /\ \A x \in Account : b[x] = None \/ SixDecimals(b[x])
        /\ \A x \in Account : balance[x] # None => b[x] # None
    BY <1>2, <1>5, <1>6, BalanceAdded
  <2>2. b[m] # None /\ balance' = Add(b, m, q)
    BY <1>2, <1>6, <2>1
  <2> HIDE DEF b
  <2>3. /\ Add(b, m, q) \in [Account -> Number]
        /\ \A x \in Account : Add(b, m, q)[x] = None \/ SixDecimals(Add(b, m, q)[x])
        /\ \A x \in Account : b[x] # None => Add(b, m, q)[x] # None
    BY <1>2, <1>6, <2>1, <2>2, BalanceAdded
  <2> QED BY <2>1, <2>2, <2>3
<1>7. CASE Side = 1
  BY <1>1, <1>4, <1>6, <1>7
<1>8. CASE Side # 1
  BY <1>1, <1>4, <1>6, <1>8
<1> QED BY <1>7, <1>8

\* What the taker still wants has the fraction it was placed with.
LEMMA FractionKept ==
  ASSUME Inv, NEW k \in DOMAIN orders, MatchShape(k), ~UsesUp(k)
  PROVE  After(k) \in Int /\ (HalfWay(After(k)) <=> HalfWay(taker.remaining))
<1>1. orders[k].shares \in Int /\ SixDecimals(orders[k].shares)
  BY RowParts
<1>2. /\ taker.remaining \in Int
      /\ After(k) = orders[k].shares + taker.remaining
  BY <1>1 DEF MatchShape, After
<1> QED BY <1>1, <1>2, SameFraction

LEMMA MatchKeeps ==
  ASSUME Inv, NEW k \in DOMAIN orders, Match(k) PROVE Inv'
<1>1. MatchShape(k) /\ MatchRows(k)
  BY Shaped, RowsMatched
<1>2. /\ balance' \in [Account -> Number]
      /\ \A x \in Account : balance'[x] = None \/ SixDecimals(balance'[x])
      /\ \A x \in Account : balance[x] # None => balance'[x] # None
  BY <1>1, MatchBalance
<1>3. Moved(Buyer(k), Decimals(Matched(k))) /\ Buyer(k) \in Account
  BY <1>1, MatchMoves
<1>4. /\ UNCHANGED <<requests, granted>>
      /\ taker' = IF UsesUp(k) THEN None ELSE [taker EXCEPT !.remaining = After(k)]
  BY DEF Match, UsesUp, Matched, After
<1>5. ~UsesUp(k) => After(k) \in Int
  BY <1>1, FractionKept
<1>6. taker.row \in DOMAIN orders /\ taker \in [row : DOMAIN orders, remaining : Int] /\ k # taker.row
  BY <1>1 DEF MatchShape, Inv, TakerPrinted
<1>7. TablesTyped'
  BY <1>1, <1>2, <1>3 DEF TablesTyped, MatchRows, Moved
<1>8. OwnersHold'
  <2> SUFFICES ASSUME NEW j \in DOMAIN orders
               PROVE  balance'[orders[j].account] # None /\ position'[orders[j].account] # None
    BY <1>1 DEF OwnersHold, MatchRows
  <2> QED BY <1>2, <1>3, RowParts DEF Inv, OwnersHold, Moved
<1>9. TakerPrinted'
  <2>1. CASE UsesUp(k)
    BY <1>4, <2>1 DEF TakerPrinted
  <2>2. CASE ~UsesUp(k)
    <3>1. /\ taker' \in [row : DOMAIN orders, remaining : Int]
          /\ taker'.row = taker.row /\ taker'.remaining = After(k)
      BY <1>4, <1>5, <1>6, <2>2
    <3>2. orders'[taker.row].open /\ orders'[taker.row].shares = Decimals(After(k))
      BY <1>1, <2>2 DEF MatchRows
    <3> QED BY <1>1, <1>5, <2>2, <3>1, <3>2 DEF TakerPrinted, MatchRows
  <2> QED BY <2>1, <2>2
<1>10. TypeOK'
  <2>1. \A j \in DOMAIN orders : SixDecimals(orders'[j].shares)
    <3>1. orders[k].shares + Side * Matched(k) \in Int
      BY <1>1, RowParts DEF MatchShape
    <3>2. SixDecimals(orders'[k].shares)
      BY <1>1, <3>1, Near DEF MatchRows
    <3>3. SixDecimals(orders'[taker.row].shares)
      BY <1>1, <1>5, Near, ZeroDecimal DEF MatchRows
    <3>4. \A j \in DOMAIN orders : j \notin {k, taker.row} => SixDecimals(orders'[j].shares)
      BY <1>1, RowParts DEF MatchRows
    <3> QED BY <3>2, <3>3, <3>4
  <2>2. \A j \in DOMAIN orders : /\ orders'[j].account \in Account /\ orders'[j].limit \in Limit
                                /\ orders'[j].open \in BOOLEAN
    <3>1. \A j \in DOMAIN orders : orders'[j] \in Row
      BY <1>1 DEF MatchRows
    <3> QED BY <3>1 DEF Row
  <2>3. \A x \in Account : position'[x] = None \/ position'[x] \in Int
    BY <1>3, NumberAssumption DEF Moved, Number
  <2>4. taker' = None \/ (taker'.row \in DOMAIN orders' /\ taker'.remaining \in Int)
    BY <1>1, <1>4, <1>5, <1>6 DEF MatchRows
  <2>5. DOMAIN orders' = DOMAIN orders
    BY <1>1 DEF MatchRows
  <2>6. requests' \in 0..MaxRequests /\ granted' \in Int
    BY <1>4 DEF Inv, TypeOK
  <2> QED BY <1>2, <2>1, <2>2, <2>3, <2>4, <2>5, <2>6 DEF TypeOK
<1> QED BY <1>7, <1>8, <1>9, <1>10 DEF Inv

-----------------------------------------------------------------------------
(* The other steps.                                                        *)

LEMMA RestKeeps == ASSUME Inv, Rest PROVE Inv'
<1>1. TypeOK'
  BY DEF Inv, TypeOK, Rest
<1>2. TablesTyped' /\ OwnersHold'
  BY DEF Inv, TablesTyped, OwnersHold, Rest
<1>3. TakerPrinted'
  BY DEF TakerPrinted, Rest
<1> QED BY <1>1, <1>2, <1>3 DEF Inv

\* What a cancellation gives back in shares.
Returned(k) == IF orders[k].shares > 0 THEN 0 ELSE -orders[k].shares

LEMMA CancelMoves ==
  ASSUME Inv, NEW k \in DOMAIN orders, Cancel(k)
  PROVE  /\ Moved(orders[k].account, Returned(k)) /\ Returned(k) \in Nat
         /\ orders[k].account \in Account
<1>1. /\ orders[k].account \in Account /\ position[orders[k].account] \in Int
      /\ orders[k].shares \in Int /\ SixDecimals(orders[k].shares)
  BY RowParts
<1>2. position \in [Account -> Number] /\ position[orders[k].account] # None
  BY <1>1, NumberAssumption DEF Inv, TablesTyped
<1>3. CASE orders[k].shares > 0
  BY <1>1, <1>2, <1>3 DEF Cancel, Moved, Returned, Holding
<1>4. CASE ~(orders[k].shares > 0)
  <2>1. position' = Add(position, orders[k].account, -orders[k].shares)
    BY <1>1, <1>4, Exact DEF Cancel
  <2>2. -orders[k].shares \in Nat
    BY <1>1, <1>4
  <2>3. /\ position' \in [Account -> Number]
        /\ position'[orders[k].account] = position[orders[k].account] + (-orders[k].shares)
        /\ \A x \in Account : x # orders[k].account => position'[x] = position[x]
        /\ \A x \in Account : position[x] # None => position'[x] # None
    BY <1>1, <1>2, <2>1, <2>2, Added
  <2> QED BY <1>1, <1>2, <1>4, <2>2, <2>3 DEF Moved, Returned, Holding
<1> QED BY <1>3, <1>4

LEMMA CancelRows ==
  ASSUME Inv, NEW k \in DOMAIN orders, Cancel(k)
  PROVE  /\ orders' \in Seq(Row) /\ DOMAIN orders' = DOMAIN orders
         /\ \A j \in DOMAIN orders : j # k => orders'[j] = orders[j]
         /\ \A j \in DOMAIN orders : /\ orders'[j].account = orders[j].account
                                     /\ orders'[j].limit = orders[j].limit
                                     /\ orders'[j].shares = orders[j].shares
         /\ orders'[k].open = FALSE
<1>1. orders' = [orders EXCEPT ![k].open = FALSE] /\ orders \in Seq(Row)
  BY DEF Cancel, Inv, TablesTyped
<1>2. \A j \in DOMAIN orders : orders[j] \in Row
  BY <1>1
<1>3. DOMAIN orders' = DOMAIN orders /\ \A j \in DOMAIN orders : j # k => orders'[j] = orders[j]
  BY <1>1
<1>4. orders'[k] = [orders[k] EXCEPT !.open = FALSE]
  BY <1>1
<1>5. /\ orders'[k] \in Row /\ orders'[k].open = FALSE /\ orders'[k].account = orders[k].account
      /\ orders'[k].limit = orders[k].limit /\ orders'[k].shares = orders[k].shares
  BY <1>2, <1>4 DEF Row
<1>6. orders' \in Seq(Row)
  <2>1. \A j \in DOMAIN orders : orders'[j] \in Row
    BY <1>2, <1>3, <1>5
  <2>2. Len(orders) \in Nat /\ DOMAIN orders = 1..Len(orders)
    BY <1>1
  <2>3. orders' = [j \in 1..Len(orders) |-> orders'[j]]
    BY <1>1, <2>2
  <2>4. \A j \in 1..Len(orders) : orders'[j] \in Row
    BY <2>1, <2>2
  <2> QED BY <2>2, <2>3, <2>4
<1> QED BY <1>3, <1>5, <1>6

LEMMA CancelKeeps ==
  ASSUME Inv, NEW k \in DOMAIN orders, Cancel(k) PROVE Inv'
<1>1. /\ Moved(orders[k].account, Returned(k)) /\ Returned(k) \in Nat
      /\ orders[k].account \in Account
  BY CancelMoves
<1>2. /\ orders' \in Seq(Row) /\ DOMAIN orders' = DOMAIN orders
      /\ \A j \in DOMAIN orders : j # k => orders'[j] = orders[j]
      /\ \A j \in DOMAIN orders : /\ orders'[j].account = orders[j].account
                                  /\ orders'[j].limit = orders[j].limit
                                  /\ orders'[j].shares = orders[j].shares
      /\ orders'[k].open = FALSE
  BY CancelRows
<1>3. /\ balance' \in [Account -> Number]
      /\ \A x \in Account : balance'[x] = None \/ SixDecimals(balance'[x])
      /\ \A x \in Account : balance[x] # None => balance'[x] # None
  <2>1. /\ balance \in [Account -> Number]
        /\ \A x \in Account : balance[x] = None \/ SixDecimals(balance[x])
    BY DEF Inv, TablesTyped, TypeOK
  <2>2. CASE orders[k].shares > 0
    <3>1. orders[k].shares * orders[k].limit \in Int
      BY RowParts
    <3>2. SixDecimals(Decimals(orders[k].shares * orders[k].limit))
      BY <3>1, Near
    <3>3. balance' = Add(balance, orders[k].account, Decimals(orders[k].shares * orders[k].limit))
      BY <2>2 DEF Cancel
    <3>4. balance[orders[k].account] # None
      BY DEF Inv, OwnersHold
    <3> QED BY <1>1, <2>1, <3>2, <3>3, <3>4, BalanceAdded
  <2>3. CASE ~(orders[k].shares > 0)
    BY <2>1, <2>3 DEF Cancel
  <2> QED BY <2>2, <2>3
<1>4. UNCHANGED <<taker, granted>> /\ taker = None /\ requests' \in 0..MaxRequests
  BY SizeAssumption DEF Cancel, Begin, Inv, TypeOK
<1>5. TypeOK'
  <2>1. \A x \in Account : position'[x] = None \/ position'[x] \in Int
    BY <1>1, NumberAssumption DEF Moved, Number
  <2>2. \A j \in DOMAIN orders : orders'[j].open \in BOOLEAN
    BY <1>2, RowParts
  <2> QED BY <1>2, <1>3, <1>4, <2>1, <2>2 DEF Inv, TypeOK
<1>6. TablesTyped'
  BY <1>1, <1>2, <1>3 DEF TablesTyped, Moved
<1>7. OwnersHold'
  <2> SUFFICES ASSUME NEW j \in DOMAIN orders
               PROVE  balance'[orders[j].account] # None /\ position'[orders[j].account] # None
    BY <1>2 DEF OwnersHold
  <2> QED BY <1>1, <1>3, RowParts DEF Inv, OwnersHold, Moved
<1>8. TakerPrinted'
  BY <1>4 DEF TakerPrinted
<1> QED BY <1>5, <1>6, <1>7, <1>8 DEF Inv

LEMMA Kept == Inv /\ [Next]_vars => Inv'
<1> SUFFICES ASSUME Inv, [Next]_vars PROVE Inv'
  OBVIOUS
<1>1. ASSUME NEW a \in Account, NEW n \in Deposit, CreateAccount(a, n) PROVE Inv'
  BY <1>1, CreateKeeps
<1>2. ASSUME NEW a \in Account, NEW n \in Granted, Grant(a, n) PROVE Inv'
  BY <1>2, GrantKeeps
<1>3. ASSUME NEW a \in Account, Place(a) PROVE Inv'
  BY <1>3, BuyKeeps, SellKeeps, RefuseKeeps DEF Place
<1>4. ASSUME NEW k \in DOMAIN orders, Match(k) PROVE Inv'
  BY <1>4, MatchKeeps
<1>5. ASSUME NEW k \in DOMAIN orders, Cancel(k) PROVE Inv'
  BY <1>5, CancelKeeps
<1>6. CASE Rest
  BY <1>6, RestKeeps
<1>7. CASE UNCHANGED vars
  BY <1>7 DEF vars, Inv, TypeOK, TablesTyped, OwnersHold, TakerPrinted
<1> QED BY <1>1, <1>2, <1>3, <1>4, <1>5, <1>6, <1>7 DEF Next

LEMMA Always == Spec => []Inv
BY Initially, Kept, PTL DEF Spec

\* Balances and the rows of orders never hold more than six decimals, whatever is
\* created, granted, ordered, matched and canceled; positions are numbers, and the
\* order in the loop has a row.
THEOREM DecimalsStay == Spec => []TypeOK
<1>1. Inv => TypeOK
  BY DEF Inv
<1> QED BY <1>1, Always, PTL

-----------------------------------------------------------------------------
(* What an account may owe.                                                *)

LEMMA HoldingMoved ==
  ASSUME NEW a \in Account, NEW n, Moved(a, n)
  PROVE  Holding(a)' = Holding(a) + n /\ \A x \in Account : x # a => Holding(x)' = Holding(x)
BY DEF Moved, Holding

LEMMA OwesLess ==
  ASSUME Inv, OwesAtMostHalf, NEW a \in Account, NEW n \in Nat, Moved(a, n)
  PROVE  OwesAtMostHalf'
<1>1. \A x \in Account : Holding(x) \in Int /\ 2 * Holding(x) >= -Unit
  BY HoldingInt DEF OwesAtMostHalf
<1>2. \A x \in Account : 2 * (Holding(x)') >= -Unit
  BY <1>1, HoldingMoved, UnitPositive
<1> QED BY <1>2 DEF OwesAtMostHalf

LEMMA OwesSold ==
  ASSUME Inv, OwesAtMostHalf, NEW a \in Account, NEW n \in Amount, NEW l, PlaceSell(a, n, l)
  PROVE  OwesAtMostHalf'
<1>1. Moved(a, Decimals(n)) /\ Holding(a) >= -n
  BY SellMoves DEF PlaceSell
<1>2. \A x \in Account : Holding(x) \in Int /\ 2 * Holding(x) >= -Unit
  BY HoldingInt DEF OwesAtMostHalf
<1>3. n \in Int
  BY NumberAssumption
<1>4. Decimals(n) \in Int /\ 2 * (n - Decimals(n)) <= Unit
  BY <1>3, Near
<1>5. 2 * (Holding(a)') >= -Unit
  BY <1>1, <1>2, <1>3, <1>4, HoldingMoved, UnitPositive
<1>6. \A x \in Account : 2 * (Holding(x)') >= -Unit
  BY <1>1, <1>2, <1>5, HoldingMoved
<1> QED BY <1>6 DEF OwesAtMostHalf

LEMMA OwesKept == Inv /\ OwesAtMostHalf /\ [Next]_vars => OwesAtMostHalf'
<1> SUFFICES ASSUME Inv, OwesAtMostHalf, [Next]_vars PROVE OwesAtMostHalf'
  OBVIOUS
<1>1. ASSUME NEW a \in Account, NEW n \in Deposit, CreateAccount(a, n) PROVE OwesAtMostHalf'
  BY <1>1 DEF CreateAccount, OwesAtMostHalf, Holding
<1>2. ASSUME NEW a \in Account, NEW n \in Granted, Grant(a, n) PROVE OwesAtMostHalf'
  BY <1>2, GrantMoves, StoredShares, OwesLess
<1>3. ASSUME NEW a \in Account, NEW n \in Amount, NEW l \in Limit, PlaceBuy(a, n, l)
      PROVE  OwesAtMostHalf'
  <2>1. 0 \in Nat
    OBVIOUS
  <2> QED BY <1>3, <2>1, BuyMoves, OwesLess
<1>4. ASSUME NEW a \in Account, NEW n \in Amount, NEW l \in Limit, PlaceSell(a, n, l)
      PROVE  OwesAtMostHalf'
  BY <1>4, OwesSold
<1>5. ASSUME NEW k \in DOMAIN orders, Match(k) PROVE OwesAtMostHalf'
  <2>1. MatchShape(k)
    BY <1>5, Shaped
  <2>2. Moved(Buyer(k), Decimals(Matched(k))) /\ Buyer(k) \in Account
    BY <1>5, <2>1, MatchMoves
  <2>3. Decimals(Matched(k)) \in Nat
    BY <2>1, Near, SignKept DEF MatchShape
  <2> QED BY <2>2, <2>3, OwesLess
<1>6. ASSUME NEW k \in DOMAIN orders, Cancel(k) PROVE OwesAtMostHalf'
  BY <1>6, CancelMoves, OwesLess
<1>9. ASSUME NEW a \in Account, NEW n \in Amount, NEW l \in Limit, Refuse(a, n, l)
      PROVE  OwesAtMostHalf'
  <2>1. 0 \in Nat
    OBVIOUS
  <2> QED BY <1>9, <2>1, RefuseMoves, OwesLess
<1>7. CASE Rest
  BY <1>7 DEF Rest, OwesAtMostHalf, Holding
<1>8. CASE UNCHANGED vars
  BY <1>8 DEF vars, OwesAtMostHalf, Holding
<1> QED BY <1>1, <1>2, <1>3, <1>4, <1>5, <1>6, <1>7, <1>8, <1>9 DEF Next, Place

\* No account ever owes more than half of a sixth decimal of shares: the check of a sell
\* reads the double, the UPDATE its nearest six decimals (handle_command.cpp:473, 481).
THEOREM OwesLittle == Spec => []OwesAtMostHalf
<1>1. Init => OwesAtMostHalf
  BY UnitPositive DEF Init, OwesAtMostHalf, Holding
<1> QED BY <1>1, OwesKept, Always, PTL DEF Spec

-----------------------------------------------------------------------------
(* What placing an order costs.                                            *)

LEMMA BuyCovered ==
  ASSUME Inv, NEW a \in Account, NEW n \in Amount, NEW l \in Limit, PlaceBuy(a, n, l)
  PROVE  balance'[a] >= 0 /\ \A x \in Account : x # a => balance'[x] = balance[x]
<1>1. n \in Int /\ l \in Int
  BY NumberAssumption
<1>2. n * l \in Int
  BY <1>1
<1>3. /\ balance \in [Account -> Number] /\ balance[a] # None /\ balance[a] >= n * l
      /\ balance' = Add(balance, a, -Decimals(n * l))
  BY DEF PlaceBuy, Inv, TablesTyped
<1>4. SixDecimals(balance[a]) /\ balance[a] \in Int
  BY <1>3 DEF Inv, TypeOK, SixDecimals
<1> DEFINE cost == n * l
<1> HIDE DEF cost
<1>5. Decimals(cost) <= balance[a] /\ Decimals(cost) \in Int
  BY <1>2, <1>3, <1>4, Covered, Near DEF cost
<1>6. -Decimals(cost) \in Int
  BY <1>5
<1>7. /\ balance'[a] = balance[a] + (-Decimals(cost))
      /\ \A x \in Account : x # a => balance'[x] = balance[x]
  BY <1>3, <1>4, <1>6, Added DEF cost
<1> QED BY <1>4, <1>5, <1>7

\* An order never takes a balance that was not below zero below zero: the check compares
\* the exact cost, the charge is its print, and a balance of six decimals that covers the
\* one covers the other (handle_command.cpp:264, 271).
THEOREM CreditKept == Spec => PlacingKeepsCredit
<1> DEFINE Credit == \A a \in Account : Place(a) => (balance[a] >= 0 => balance'[a] >= 0)
<1>1. Inv /\ [Next]_vars => [Credit]_vars
  <2> SUFFICES ASSUME Inv, NEW a \in Account, Place(a), balance[a] >= 0 PROVE balance'[a] >= 0
    OBVIOUS
  <2>1. PICK n \in Amount, l \in Limit :
          PlaceBuy(a, n, l) \/ PlaceSell(a, n, l) \/ Refuse(a, n, l)
    BY DEF Place
  <2>2. CASE PlaceBuy(a, n, l)
    BY <2>2, BuyCovered
  <2>3. CASE PlaceSell(a, n, l)
    BY <2>3 DEF PlaceSell
  <2>4. CASE Refuse(a, n, l)
    BY <2>4 DEF Refuse
  <2> QED BY <2>1, <2>2, <2>3, <2>4
<1> QED BY <1>1, Always, PTL DEF Spec, PlacingKeepsCredit

-----------------------------------------------------------------------------
(* All shares.                                                             *)

LEMMA HeldSummable == ASSUME Inv PROVE Summable(Held) /\ DOMAIN Held = Account
BY HoldingInt, NumberAssumption DEF Held, Summable

LEMMA HeldMoved ==
  ASSUME Inv, NEW a \in Account, NEW n \in Int, Moved(a, n)
  PROVE  SumFunction(Held)' = SumFunction(Held) + n
<1>1. Summable(Held) /\ DOMAIN Held = Account /\ DOMAIN Held' = Account
  BY HeldSummable DEF Held
<1>2. Holding(a)' = Holding(a) + n /\ \A x \in Account : x # a => Holding(x)' = Holding(x)
  BY HoldingMoved
<1>3. Held'[a] = Held[a] + n /\ Held[a] \in Int /\ \A x \in Account : x # a => Held'[x] = Held[x]
  BY <1>2, HoldingInt DEF Held
<1>4. SumFunction(Held') = SumFunction(Held) - Held[a] + Held'[a]
  BY <1>1, <1>3, TotalChange
<1>5. SumFunction(Held) \in Int
  BY <1>1, TotalInt
<1> QED BY <1>3, <1>4, <1>5

LEMMA OfferedSummable == ASSUME Inv PROVE Summable(Offered) /\ DOMAIN Offered = DOMAIN orders
<1>1. orders \in Seq(Row) /\ Len(orders) \in Nat /\ DOMAIN orders = 1..Len(orders)
  BY DEF Inv, TablesTyped
<1>2. IsFiniteSet(DOMAIN orders)
  BY <1>1, FS_Interval
<1>3. \A k \in DOMAIN orders : Offered[k] \in Int
  BY RowParts DEF Offered
<1> QED BY <1>2, <1>3 DEF Summable, Offered

\* The row of one order changes.
LEMMA OfferedChanged ==
  ASSUME Inv, NEW k \in DOMAIN orders, DOMAIN orders' = DOMAIN orders,
         \A j \in DOMAIN orders : j # k => Offered'[j] = Offered[j],
         Offered'[k] \in Int
  PROVE  SumFunction(Offered)' = SumFunction(Offered) - Offered[k] + Offered'[k]
<1>1. Summable(Offered) /\ DOMAIN Offered = DOMAIN orders /\ DOMAIN Offered' = DOMAIN orders
  BY OfferedSummable DEF Offered
<1> QED BY <1>1, TotalChange

\* What is held and what is set aside change by opposite amounts, but for n.
Drifts(n) ==
  SumFunction(Held)' + SumFunction(Offered)' = SumFunction(Held) + SumFunction(Offered) + n

LEMMA SumsInt == ASSUME Inv PROVE SumFunction(Held) \in Int /\ SumFunction(Offered) \in Int
BY HeldSummable, OfferedSummable, TotalInt

\* A sell sets aside what it takes, a buy nothing.
LEMMA PlaceExchanges ==
  ASSUME Inv, NEW a \in Account, NEW n \in Amount, NEW l \in Limit,
         Enter(a, n, l), NEW d, Moved(a, d),
         (n > 0 /\ d = 0) \/ (n <= 0 /\ d = Decimals(n))
  PROVE  Drifts(0)
<1> DEFINE i == Len(orders) + 1
<1>1. /\ DOMAIN orders' = 1..i
      /\ DOMAIN orders = 1..Len(orders) /\ Len(orders) \in Nat
      /\ orders'[i] = NewOrder(a, n, l)
      /\ \A k \in DOMAIN orders : orders'[k] = orders[k]
      /\ n \in Int /\ Decimals(n) \in Int
  BY Entered
<1>2. /\ i \notin DOMAIN orders /\ DOMAIN orders' = DOMAIN orders \cup {i}
      /\ orders'[i].open = TRUE /\ orders'[i].shares = Decimals(n)
  BY <1>1 DEF NewOrder
<1> HIDE DEF i
<1>3. DOMAIN Offered = DOMAIN orders /\ DOMAIN Offered' = DOMAIN orders \cup {i} /\ Summable(Offered)
  BY <1>2, OfferedSummable DEF Offered
<1>4. \A k \in DOMAIN orders : Offered'[k] = Offered[k]
  BY <1>1, <1>2 DEF Offered
<1>5. (n >= 0 => Decimals(n) >= 0) /\ (n <= 0 => Decimals(n) <= 0)
  BY <1>1, SignKept
<1>6. Offered'[i] = -d /\ d \in Int
  <2>1. i \in DOMAIN orders' /\ Decimals(n) \in Int
    BY <1>1, <1>2
  <2>2. Offered'[i] = IF Decimals(n) < 0 THEN -Decimals(n) ELSE 0
    BY <1>2, <2>1 DEF Offered
  <2> QED BY <1>1, <1>5, <2>1, <2>2
<1>7. SumFunction(Offered') = SumFunction(Offered) + Offered'[i]
  BY <1>2, <1>3, <1>4, <1>6, TotalMore
<1>8. SumFunction(Held)' = SumFunction(Held) + d
  BY <1>6, HeldMoved
<1> QED BY <1>6, <1>7, <1>8, SumsInt DEF Drifts

\* The buyer gets the print that leaves the row of the seller, be it the one that rests
\* or the one in the loop; the prints are a decimal apart at most, and then only if the
\* taker's remaining_shares is half way.
Drift == {-Unit, 0, Unit}

LEMMA MatchDrifts ==
  ASSUME Inv, NEW k \in DOMAIN orders, Match(k)
  PROVE  \E n \in Drift : Drifts(n) /\ (~HalfWay(taker.remaining) => n = 0)
<1> DEFINE i == taker.row
           e == Matched(k)
<1>1. MatchShape(k) /\ MatchRows(k)
  BY Shaped, RowsMatched
<1>2. SumFunction(Held)' = SumFunction(Held) + Decimals(e) /\ Decimals(e) \in Int
  <2>1. Decimals(e) \in Int
    BY <1>1, Near DEF MatchShape
  <2> QED BY <1>1, <2>1, MatchMoves, HeldMoved
<1>3. /\ i \in DOMAIN orders /\ i # k /\ DOMAIN orders' = DOMAIN orders
      /\ \A j \in DOMAIN orders : j \notin {k, i} => Offered'[j] = Offered[j]
  BY <1>1 DEF MatchShape, MatchRows, Offered
<1>4. /\ orders[k].shares \in Int /\ SixDecimals(orders[k].shares)
      /\ e \in Int /\ taker.remaining \in Int
  BY <1>1, RowParts DEF MatchShape
<1>5. CASE Side = 1
  <2>1. /\ taker.remaining > 0 /\ orders[k].shares < 0 /\ orders[k].shares + e <= 0
        /\ taker.remaining - e >= 0
        /\ UsesUp(k) => e = taker.remaining
        /\ ~UsesUp(k) => e = -orders[k].shares
    BY <1>1, <1>5 DEF MatchShape
  <2> DEFINE d == Decimals(orders[k].shares + e) - (orders[k].shares + Decimals(e))
  <2>2. d \in Drift /\ (~HalfWay(taker.remaining) => d = 0) /\ (~UsesUp(k) => d = 0)
    <3>1. CASE UsesUp(k)
      <4>1. d \in {-Unit, 0, Unit}
        BY <1>4, ShiftedNear
      <4>2. ~HalfWay(e) => Decimals(orders[k].shares + e) = orders[k].shares + Decimals(e)
        BY <1>4, Shifted
      <4>3. orders[k].shares + Decimals(e) \in Int
        BY <1>2, <1>4
      <4> QED BY <2>1, <3>1, <4>1, <4>2, <4>3 DEF Drift
    <3>2. CASE ~UsesUp(k)
      <4>1. SixDecimals(e)
        BY <1>4, <2>1, <3>2, SumDecimal
      <4>2. SixDecimals(orders[k].shares + e)
        BY <1>4, <4>1, SumDecimal
      <4>3. d = 0
        BY <1>4, <4>1, <4>2, Exact
      <4> QED BY <3>2, <4>3 DEF Drift
    <3> QED BY <3>1, <3>2
  <2>3. Decimals(orders[k].shares + e) <= 0 /\ Decimals(orders[k].shares + e) \in Int
    <3>1. orders[k].shares + e \in Int
      BY <1>4
    <3> QED BY <2>1, <3>1, SignKept, Near
  <2>4. orders'[k].shares = orders[k].shares + Decimals(e) + d /\ orders'[k].shares <= 0
    <3>1. orders'[k].shares = Decimals(orders[k].shares + Side * e)
      BY <1>1 DEF MatchRows
    <3>2. Side * e = e
      BY <1>4, <1>5
    <3> QED BY <1>2, <1>4, <2>3, <3>1, <3>2
  <2> HIDE DEF d
  <2>9. d \in Int
    BY <2>2, UnitPositive DEF Drift
  <2>5. ~UsesUp(k) => orders'[k].shares = 0
    <3>1. ASSUME ~UsesUp(k) PROVE Decimals(e) = -orders[k].shares
      BY <1>4, <2>1, <3>1, SumDecimal, Exact
    <3> QED BY <1>4, <2>2, <2>4, <3>1
  <2>6. Offered[k] = -orders[k].shares /\ Offered'[k] = -orders'[k].shares
    <3>1. Offered[k] = -orders[k].shares
      BY <1>1, <2>1 DEF Offered, MatchShape
    <3>2. orders'[k].open = UsesUp(k)
      BY <1>1 DEF MatchRows
    <3> QED BY <1>2, <1>3, <1>4, <2>4, <2>5, <2>9, <3>1, <3>2 DEF Offered
  <2>7. Offered'[i] = Offered[i]
    <3>1. Offered[i] = 0
      <4>1. Decimals(taker.remaining) >= 0 /\ Decimals(taker.remaining) \in Int
        BY <1>4, <2>1, SignKept, Near
      <4> QED BY <1>1, <1>3, <4>1 DEF Offered, MatchShape
    <3>2. Offered'[i] = 0
      <4>1. After(k) \in Int /\ After(k) >= 0
        BY <1>4, <1>5, <2>1 DEF After
      <4>2. Decimals(After(k)) \in Int /\ Decimals(After(k)) >= 0
        BY <4>1, SignKept, Near
      <4> QED BY <1>1, <1>3, <4>2 DEF Offered, MatchRows
    <3> QED BY <3>1, <3>2
  <2>8. SumFunction(Offered)' = SumFunction(Offered) - Offered[k] + Offered'[k]
    BY <1>2, <1>3, <1>4, <2>4, <2>6, <2>7, <2>9, OfferedChanged
  <2>10. Drifts(-d)
    BY <1>2, <1>4, <2>4, <2>6, <2>8, <2>9, SumsInt DEF Drifts
  <2>11. -d \in Drift /\ (~HalfWay(taker.remaining) => -d = 0)
    BY <2>2, UnitPositive DEF Drift
  <2> QED BY <2>10, <2>11
<1>6. CASE Side # 1
  <2>1. /\ Side = -1 /\ taker.remaining <= 0 /\ orders[k].shares > 0
        /\ orders[k].shares - e >= 0 /\ taker.remaining + e <= 0
        /\ UsesUp(k) => e = -taker.remaining
        /\ ~UsesUp(k) => e = orders[k].shares
    BY <1>1, <1>6 DEF MatchShape
  <2>2. After(k) = taker.remaining + e
    BY <1>4, <2>1 DEF After
  <2>3. Decimals(taker.remaining) <= 0 /\ Decimals(taker.remaining) \in Int
    BY <1>4, <2>1, SignKept, Near
  <2>4. Offered[i] = -Decimals(taker.remaining)
    BY <1>1, <1>3, <2>3 DEF Offered, MatchShape
  <2> DEFINE d == Decimals(e + taker.remaining) - (e + Decimals(taker.remaining))
             n == IF UsesUp(k) THEN 0 ELSE -d
  <2>9. \/ d \in Drift /\ d \in Int /\ (~UsesUp(k) /\ ~HalfWay(taker.remaining) => d = 0)
        \/ UsesUp(k)
    <3>1. CASE ~UsesUp(k)
      <4>1. SixDecimals(e)
        BY <1>4, <2>1, <3>1
      <4>2. d \in {-Unit, 0, Unit}
        BY <1>4, <4>1, ShiftedNear
      <4>3. ~HalfWay(taker.remaining) => Decimals(e + taker.remaining) = e + Decimals(taker.remaining)
        BY <1>4, <4>1, Shifted
      <4>4. d \in Int /\ e + Decimals(taker.remaining) \in Int
        BY <1>4, <2>3, <4>2, UnitPositive
      <4> QED BY <4>2, <4>3, <4>4 DEF Drift
    <3> QED BY <3>1
  <2>10. n \in Drift /\ n \in Int /\ (~HalfWay(taker.remaining) => n = 0)
    BY <2>9, UnitPositive DEF Drift
  <2>5. Offered'[i] = Offered[i] - Decimals(e) + n
    <3>1. CASE UsesUp(k)
      <4>1. Decimals(e) = -Decimals(taker.remaining)
        BY <1>4, <2>1, <3>1, Opposite
      <4>2. Offered'[i] = 0
        BY <1>1, <1>3, <3>1 DEF Offered, MatchRows
      <4> QED BY <2>3, <2>4, <3>1, <4>1, <4>2
    <3>2. CASE ~UsesUp(k)
      <4>1. e = orders[k].shares /\ Decimals(e) = e
        BY <1>4, <2>1, <3>2, Exact
      <4>3. e + taker.remaining = After(k)
        BY <1>4, <2>2
      <4>4. Decimals(After(k)) <= 0 /\ Decimals(After(k)) \in Int
        <5>1. After(k) \in Int /\ After(k) <= 0
          BY <1>4, <2>1, <2>2
        <5> QED BY <5>1, SignKept, Near
      <4>5. Offered'[i] = -Decimals(After(k))
        <5>1. orders'[i].shares = Decimals(After(k)) /\ orders'[i].open = TRUE
          BY <1>1, <3>2 DEF MatchRows
        <5>2. Offered'[i] = IF Decimals(After(k)) < 0 THEN -Decimals(After(k)) ELSE 0
          BY <1>3, <5>1 DEF Offered
        <5> QED BY <4>4, <5>2
      <4> QED BY <1>4, <2>3, <2>4, <3>2, <4>1, <4>3, <4>4, <4>5
    <3> QED BY <3>1, <3>2
  <2> HIDE DEF n, d
  <2>6. Offered'[k] = Offered[k]
    <3>1. Offered[k] = 0
      BY <1>1, <1>4, <2>1 DEF Offered
    <3>2. orders[k].shares - e \in Int /\ orders'[k].shares = Decimals(orders[k].shares - e)
      <4>1. orders[k].shares + Side * e = orders[k].shares - e /\ orders[k].shares - e \in Int
        BY <1>4, <2>1
      <4> QED BY <1>1, <4>1 DEF MatchRows
    <3>3. orders'[k].shares \in Int /\ orders'[k].shares >= 0
      BY <2>1, <3>2, SignKept, Near
    <3>4. Offered'[k] = 0
      BY <1>3, <3>3 DEF Offered
    <3> QED BY <3>1, <3>4
  <2>7. SumFunction(Offered)' = SumFunction(Offered) - Offered[i] + Offered'[i]
    BY <1>2, <1>3, <2>3, <2>4, <2>5, <2>6, <2>10, OfferedChanged
  <2>8. Drifts(n)
    BY <1>2, <2>3, <2>4, <2>5, <2>7, <2>10, SumsInt DEF Drifts
  <2> QED BY <2>8, <2>10
<1> QED BY <1>5, <1>6

\* A cancellation gives back what the sell had set aside.
LEMMA CancelExchanges ==
  ASSUME Inv, NEW k \in DOMAIN orders, Cancel(k) PROVE Drifts(0)
<1>1. /\ Moved(orders[k].account, Returned(k)) /\ Returned(k) \in Int
      /\ orders[k].account \in Account
  BY CancelMoves
<1>2. /\ DOMAIN orders' = DOMAIN orders /\ orders'[k].open = FALSE
      /\ \A j \in DOMAIN orders : j # k => orders'[j] = orders[j]
  BY CancelRows
<1>3. orders[k].open /\ orders[k].shares \in Int
  BY RowParts DEF Cancel
<1>4. /\ \A j \in DOMAIN orders : j # k => Offered'[j] = Offered[j]
      /\ Offered[k] = Returned(k) /\ Offered'[k] = 0
  BY <1>2, <1>3 DEF Offered, Returned
<1>5. SumFunction(Offered)' = SumFunction(Offered) - Offered[k] + Offered'[k]
  BY <1>2, <1>4, OfferedChanged
<1>6. SumFunction(Held)' = SumFunction(Held) + Returned(k)
  BY <1>1, HeldMoved
<1> QED BY <1>1, <1>4, <1>5, <1>6, SumsInt DEF Drifts

\* Only a match of an order half way makes or loses shares.
LEMMA SurplusStep ==
  ASSUME Inv, [Next]_vars
  PROVE  \/ Surplus' = Surplus
         \/ /\ taker # None /\ HalfWay(taker.remaining)
            /\ Surplus' - Surplus \in {-Unit, Unit}
<1>1. Surplus \in Int /\ granted \in Int
  BY SumsInt DEF Surplus, Inv, TypeOK
<1>2. ASSUME NEW n \in Int, Drifts(n), granted' = granted PROVE Surplus' = Surplus + n
  <2> DEFINE s == SumFunction(Held) + SumFunction(Offered)
             t == SumFunction(Held)' + SumFunction(Offered)'
  <2>1. s \in Int
    BY SumsInt
  <2>2. t = s + n
    BY <1>2 DEF Drifts
  <2>3. Surplus = s - granted /\ Surplus' = t - granted
    BY <1>2 DEF Surplus
  <2> HIDE DEF s, t
  <2> QED BY <1>1, <2>1, <2>2, <2>3
<1>3. ASSUME Drifts(0), granted' = granted PROVE Surplus' = Surplus
  <2>1. Surplus' = Surplus + 0
    BY <1>2, <1>3
  <2> QED BY <1>1, <2>1
<1>4. ASSUME NEW a \in Account, NEW n \in Deposit, CreateAccount(a, n) PROVE Surplus' = Surplus
  <2>1. UNCHANGED <<position, orders, granted>>
    BY <1>4 DEF CreateAccount
  <2>2. Held' = Held /\ Offered' = Offered
    BY <2>1 DEF Held, Offered, Holding
  <2> QED BY <2>1, <2>2 DEF Surplus
<1>5. ASSUME NEW a \in Account, NEW n \in Granted, Grant(a, n) PROVE Surplus' = Surplus
  <2>1. Moved(a, Stored(a, n)) /\ granted' = granted + Stored(a, n) /\ Stored(a, n) \in Int
    BY <1>5, GrantMoves, StoredShares
  <2>2. Offered' = Offered
    BY <1>5 DEF Grant, Offered
  <2>3. SumFunction(Held)' = SumFunction(Held) + Stored(a, n)
    BY <2>1, HeldMoved
  <2> QED BY <1>1, <2>1, <2>2, <2>3, SumsInt DEF Surplus
<1>6. ASSUME NEW a \in Account, NEW n \in Amount, NEW l \in Limit, PlaceBuy(a, n, l)
      PROVE  Surplus' = Surplus
  BY <1>3, <1>6, BuyMoves, PlaceExchanges DEF PlaceBuy, Enter
<1>7. ASSUME NEW a \in Account, NEW n \in Amount, NEW l \in Limit, PlaceSell(a, n, l)
      PROVE  Surplus' = Surplus
  BY <1>3, <1>7, SellMoves, PlaceExchanges DEF PlaceSell, Enter
<1>8. ASSUME NEW a \in Account, NEW n \in Amount, NEW l \in Limit, Refuse(a, n, l)
      PROVE  Surplus' = Surplus
  <2>1. SumFunction(Held)' = SumFunction(Held) + 0
    BY <1>8, RefuseMoves, HeldMoved
  <2>2. granted' = granted /\ Offered' = Offered
    BY <1>8 DEF Refuse, Offered
  <2> QED BY <1>1, <2>1, <2>2, SumsInt DEF Surplus
<1>9. ASSUME NEW k \in DOMAIN orders, Cancel(k) PROVE Surplus' = Surplus
  BY <1>3, <1>9, CancelExchanges DEF Cancel
<1>10. ASSUME NEW k \in DOMAIN orders, Match(k)
       PROVE  \/ Surplus' = Surplus
              \/ /\ taker # None /\ HalfWay(taker.remaining)
                 /\ Surplus' - Surplus \in {-Unit, Unit}
  <2>1. PICK n \in Drift : Drifts(n) /\ (~HalfWay(taker.remaining) => n = 0)
    BY <1>10, MatchDrifts
  <2>2. n \in Int
    BY UnitPositive DEF Drift
  <2>3. Surplus' = Surplus + n
    BY <1>2, <1>10, <2>1, <2>2 DEF Match
  <2>4. taker # None
    BY <1>10 DEF Match
  <2>5. CASE n = 0
    BY <1>1, <2>3, <2>5
  <2>6. CASE n # 0
    <3>1. HalfWay(taker.remaining) /\ n \in {-Unit, Unit}
      BY <2>1, <2>6 DEF Drift
    <3>2. Surplus' - Surplus = n
      BY <1>1, <2>2, <2>3
    <3> QED BY <2>4, <3>1, <3>2
  <2> QED BY <2>5, <2>6
<1>11. CASE Rest \/ UNCHANGED vars
  <2>1. UNCHANGED <<position, orders, granted>>
    BY <1>11 DEF Rest, vars
  <2>2. Held' = Held /\ Offered' = Offered
    BY <2>1 DEF Held, Offered, Holding
  <2> QED BY <2>1, <2>2 DEF Surplus
<1> QED BY <1>4, <1>5, <1>6, <1>7, <1>8, <1>9, <1>10, <1>11 DEF Next, Place

\* A match prints executed_shares, remaining_shares and target_shares + executed_shares
\* separately: all have the fraction the taker was placed with, or none, and trading
\* neither makes nor loses shares, to the last decimal, unless that fraction is one half
\* of a decimal; then a match may make or lose one decimal.
THEOREM DecimalsAgree == Spec => TradingKeepsShares
<1>1. Inv /\ [Next]_vars =>
        [\/ Surplus' = Surplus
         \/ /\ taker # None /\ HalfWay(taker.remaining)
            /\ Surplus' - Surplus \in {-Unit, Unit}]_vars
  BY SurplusStep
<1> QED BY <1>1, Always, PTL DEF Spec, TradingKeepsShares

\* No order half way is in the loop.
NoHalf == taker # None => ~HalfWay(taker.remaining)

\* If nobody orders an amount that is half way between two prints, what is held and set
\* aside is, to the last decimal, what grants have stored: the double in the loop keeps
\* the fraction of the order's amount (handle_command.cpp:451, 661).
THEOREM SharesExact ==
  ASSUME \A n \in Amount : ~HalfWay(n)
  PROVE  Spec => [](Surplus = 0)
<1>1. Init => NoHalf /\ Surplus = 0
  <2> SUFFICES ASSUME Init PROVE NoHalf /\ Surplus = 0
    OBVIOUS
  <2>1. DOMAIN Offered = {} /\ \A a \in DOMAIN Held : Held[a] = 0
    BY DEF Init, Offered, Held, Holding
  <2>2. SumFunction(Offered) = 0 /\ SumFunction(Held) = 0
    BY <2>1, NumberAssumption, TotalNone, TotalZero DEF Held
  <2> QED BY <2>2 DEF Surplus, Init, NoHalf
<1>2. Inv /\ NoHalf /\ [Next]_vars => NoHalf'
  <2> SUFFICES ASSUME Inv, NoHalf, [Next]_vars, taker' # None PROVE ~HalfWay(taker'.remaining)
    BY DEF NoHalf
  <2>1. CASE taker' = taker
    BY <2>1 DEF NoHalf
  <2>2. ASSUME NEW a \in Account, NEW n \in Amount, NEW l \in Limit, Enter(a, n, l)
        PROVE  ~HalfWay(taker'.remaining)
    BY <2>2 DEF Enter
  <2>3. ASSUME NEW k \in DOMAIN orders, Match(k) PROVE ~HalfWay(taker'.remaining)
    <3>1. MatchShape(k) /\ taker # None
      BY <2>3, Shaped DEF Match
    <3>2. taker' = IF UsesUp(k) THEN None ELSE [taker EXCEPT !.remaining = After(k)]
      BY <2>3 DEF Match, UsesUp, Matched, After
    <3>3. ~UsesUp(k) /\ taker'.remaining = After(k)
      <4>1. taker \in [row : DOMAIN orders, remaining : Int]
        BY <3>1 DEF Inv, TakerPrinted
      <4> QED BY <3>2, <4>1
    <3> QED BY <3>1, <3>3, FractionKept DEF NoHalf
  <2> QED BY <2>1, <2>2, <2>3
       DEF Next, Place, CreateAccount, Grant, PlaceBuy, PlaceSell, Refuse, Cancel, Rest, vars
<1>3. Inv /\ NoHalf /\ Surplus = 0 /\ [Next]_vars => (Surplus = 0)'
  BY SurplusStep DEF NoHalf
<1> QED BY <1>1, <1>2, <1>3, Always, PTL DEF Spec
=============================================================================
