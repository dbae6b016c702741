------------------------- MODULE OrderServiceProofs -------------------------
(***************************************************************************)
(* Theorems about OrderService, for any set of requests and commands, and  *)
(* about the arithmetic of OrderModel, for any width of the integers and   *)
(* any number of items.                                                    *)
(***************************************************************************)
EXTENDS OrderService, WellFoundedInduction, TLAPS

(* A set of numbers has a least one: induction in the form it is used here. *)
LEMMA LeastNat ==
    ASSUME NEW T \in SUBSET Nat, T # {}
    PROVE  \E x \in T : \A y \in T : x <= y
<1>1. \E x \in T : \A y \in T : ~ (<<y, x>> \in OpToRel(<, Nat))
  BY WFMin, NatLessThanWellFounded
<1>2. ASSUME NEW x \in Nat, NEW y \in Nat, x < y PROVE <<x, y>> \in OpToRel(<, Nat)
  BY <1>2 DEF OpToRel
<1>3. \E x \in T : \A y \in T : ~ (y < x)
  BY <1>1, <1>2, Zenon
<1> QED BY <1>3

(* A loop over 1 .. n has a run: values that follow from one another by its *)
(* body g, which takes the value so far and the number of the round.       *)
LEMMA LoopRuns ==
    ASSUME NEW n \in Nat, NEW g \in [Int \X (1 .. n) -> Int]
    PROVE  \E f \in [0 .. n -> Int] : f[0] = 0 /\ \A k \in 1 .. n : f[k] = g[<<f[k - 1], k>>]
<1> DEFINE Runs(m) == \E f \in [0 .. m -> Int] :
                         f[0] = 0 /\ \A k \in 1 .. m : f[k] = g[<<f[k - 1], k>>]
           T == {m \in Nat : m <= n /\ ~Runs(m)}
<1> SUFFICES ASSUME ~Runs(n) PROVE FALSE
  OBVIOUS
<1> HIDE DEF Runs
<1>0. n \in T
  OBVIOUS
<1>1. PICK m \in T : \A y \in T : m <= y
  BY <1>0, LeastNat
<1>2. Runs(0)
  <2> DEFINE f == [k \in 0 .. 0 |-> 0]
  <2>1. f \in [0 .. 0 -> Int] /\ f[0] = 0 /\ \A k \in 1 .. 0 : f[k] = g[<<f[k - 1], k>>]
    OBVIOUS
  <2> QED BY <2>1 DEF Runs
<1>3. m \in Nat /\ m <= n /\ m # 0 /\ ~Runs(m)
  BY <1>1, <1>2
<1>4. m - 1 \in Nat /\ m - 1 <= n /\ ~(m <= m - 1)
  BY <1>3
<1>5. Runs(m - 1)
  BY <1>1, <1>4
<1>6. PICK f \in [0 .. m - 1 -> Int] :
         f[0] = 0 /\ \A k \in 1 .. m - 1 : f[k] = g[<<f[k - 1], k>>]
  BY <1>5 DEF Runs
<1> DEFINE h == [k \in 0 .. m |-> IF k = m THEN g[<<f[m - 1], m>>] ELSE f[k]]
<1>7. m - 1 \in 0 .. m - 1 /\ m \in 1 .. n /\ f[m - 1] \in Int
  BY <1>3, <1>6
<1>8. g[<<f[m - 1], m>>] \in Int
  BY <1>7
<1>9. h \in [0 .. m -> Int]
  BY <1>3, <1>6, <1>8
<1>10. h[0] = 0
  BY <1>3, <1>6
<1>11. ASSUME NEW k \in 1 .. m PROVE h[k] = g[<<h[k - 1], k>>]
  <2>1. k - 1 \in 0 .. m /\ k - 1 # m /\ h[k - 1] = f[k - 1]
    BY <1>3
  <2>2. CASE k = m
    BY <1>3, <2>1, <2>2
  <2>3. CASE k # m
    <3>1. k \in 1 .. m - 1
      BY <1>3, <2>3
    <3>2. h[k] = f[k]
      BY <1>3, <2>3
    <3> QED BY <1>6, <2>1, <3>1, <3>2
  <2> QED BY <2>2, <2>3
<1>12. Runs(m)
  <2> HIDE DEF h
  <2> QED BY <1>9, <1>10, <1>11 DEF Runs
<1> QED BY <1>3, <1>12

(* Quantities and prices are numbers.                                      *)
LEMMA ItemNumbers ==
    ASSUME NEW items \in Seq(Item)
    PROVE  /\ Len(items) \in Nat
           /\ \A k \in 1 .. Len(items) :
                 items[k].quantity \in Int /\ items[k].unit_price_minor \in Int
<1>1. Len(items) \in Nat /\ \A k \in 1 .. Len(items) : items[k] \in Item
  OBVIOUS
<1> QED BY <1>1, OrderModelAssumption DEF Item, Int64

(* A product of positive numbers is positive.                              *)
LEMMA Positive ==
    ASSUME NEW a \in Nat \ {0}, NEW b \in Nat \ {0}
    PROVE  a * b \in Nat /\ a * b >= 1
OBVIOUS

(* Machine arithmetic stays within the integers.                           *)
LEMMA AddLineType ==
    ASSUME NEW total \in Int, NEW q \in Int, NEW p \in Int
    PROVE  AddLine(total, q, p) \in Int
<1>1. ASSUME NEW x \in Int PROVE Wrap(x) \in Int
  BY OrderModelAssumption DEF Wrap
<1>2. q * p \in Int
  OBVIOUS
<1>3. Wrap(q * p) \in Int
  BY <1>1, <1>2
<1>4. Wrap(total + Wrap(q * p)) \in Int
  BY <1>1, <1>3
<1> QED BY <1>4 DEF AddLine, Refused

(* The loop of validate: its values from round to round.                   *)
Rounds(items, t) ==
    /\ t[0] = 0
    /\ \A k \in 1 .. Len(items) :
          t[k] = IF t[k - 1] = Refused \/ Unacceptable(items, k) THEN Refused
                 ELSE AddLine(t[k - 1], items[k].quantity, items[k].unit_price_minor)

(* TotalOf is the last of them.                                            *)
LEMMA TotalOfRounds ==
    ASSUME NEW items \in Seq(Item)
    PROVE  \E t : Rounds(items, t) /\ TotalOf(items) = t[Len(items)]
<1> DEFINE n == Len(items)
           Body(t) == [k \in 0 .. n |->
                         IF k = 0 THEN 0
                         ELSE IF t[k - 1] = Refused \/ Unacceptable(items, k) THEN Refused
                         ELSE AddLine(t[k - 1], items[k].quantity, items[k].unit_price_minor)]
           total == CHOOSE t : t = Body(t)
           g == [x \in Int \X (1 .. n) |->
                   IF x[1] = Refused \/ Unacceptable(items, x[2]) THEN Refused
                   ELSE AddLine(x[1], items[x[2]].quantity, items[x[2]].unit_price_minor)]
<1>1. TotalOf(items) = total[n]
  BY DEF TotalOf
<1>2. n \in Nat /\ \A k \in 1 .. n : items[k].quantity \in Int /\ items[k].unit_price_minor \in Int
  BY ItemNumbers
<1>3. g \in [Int \X (1 .. n) -> Int]
  <2> SUFFICES ASSUME NEW x \in Int \X (1 .. n)
               PROVE  (IF x[1] = Refused \/ Unacceptable(items, x[2]) THEN Refused
                       ELSE AddLine(x[1], items[x[2]].quantity, items[x[2]].unit_price_minor)) \in Int
    OBVIOUS
  <2>1. x[1] \in Int /\ items[x[2]].quantity \in Int /\ items[x[2]].unit_price_minor \in Int
    BY <1>2
  <2>2. AddLine(x[1], items[x[2]].quantity, items[x[2]].unit_price_minor) \in Int
    BY <2>1, AddLineType
  <2> QED BY <2>2 DEF Refused
<1>4. PICK f \in [0 .. n -> Int] : f[0] = 0 /\ \A k \in 1 .. n : f[k] = g[<<f[k - 1], k>>]
  <2> HIDE DEF g, n
  <2> QED BY <1>2, <1>3, LoopRuns
<1>5. \A k \in 1 .. n :
         f[k] = IF f[k - 1] = Refused \/ Unacceptable(items, k) THEN Refused
                ELSE AddLine(f[k - 1], items[k].quantity, items[k].unit_price_minor)
  <2> SUFFICES ASSUME NEW k \in 1 .. n
               PROVE  f[k] = IF f[k - 1] = Refused \/ Unacceptable(items, k) THEN Refused
                             ELSE AddLine(f[k - 1], items[k].quantity, items[k].unit_price_minor)
    OBVIOUS
  <2>1. f[k - 1] \in Int
    BY <1>2, <1>4
  <2>2. f[k] = g[<<f[k - 1], k>>]
    BY <1>4
  <2> QED BY <2>1, <2>2
<1>6. f = Body(f)
  <2>1. \A k \in 0 .. n : f[k] = Body(f)[k]
    BY <1>2, <1>4, <1>5
  <2>2. f = [k \in 0 .. n |-> f[k]] /\ Body(f) = [k \in 0 .. n |-> Body(f)[k]]
    BY <1>4
  <2> QED BY <2>1, <2>2
<1>7. total = Body(total)
  <2> HIDE DEF Body
  <2> QED BY <1>6
<1>8. total[0] = 0 /\ \A k \in 1 .. n :
         total[k] = IF total[k - 1] = Refused \/ Unacceptable(items, k) THEN Refused
                    ELSE AddLine(total[k - 1], items[k].quantity, items[k].unit_price_minor)
  <2> HIDE DEF total
  <2>1. \A k \in 0 .. n : total[k] = Body(total)[k]
    BY <1>7
  <2> QED BY <1>2, <2>1
<1>9. Rounds(items, total)
  <2> HIDE DEF total
  <2> QED BY <1>8 DEF Rounds
<1> QED BY <1>1, <1>9

(* The guard of the product, which divides instead of multiplying.         *)
LEMMA DivBound ==
    ASSUME NEW m \in Nat, NEW q \in Nat \ {0}, NEW p \in Nat
    PROVE  p > m \div q <=> p * q > m
OBVIOUS

(* The overflow guards of validate are exact for one item: AddLine refuses *)
(* if and only if the exact sum does not fit an int64, and returns the     *)
(* exact sum otherwise.                                                    *)
THEOREM AddLineExact ==
    ASSUME NEW total \in 0 .. MaxInt64, NEW q \in 1 .. MaxInt64, NEW p \in 1 .. MaxInt64
    PROVE  AddLine(total, q, p) = IF total + q * p > MaxInt64 THEN Refused ELSE total + q * p
<1> USE OrderModelAssumption
<1>1. p > MaxInt64 \div q <=> q * p > MaxInt64
  BY DivBound
<1>2. q * p \in Nat
  OBVIOUS
<1>3. ASSUME NEW x \in Nat, x <= MaxInt64 PROVE Wrap(x) = x
  BY <1>3 DEF Wrap
<1>4. CASE q * p > MaxInt64
  BY <1>1, <1>2, <1>4 DEF AddLine
<1>5. CASE q * p <= MaxInt64
  <2>1. Wrap(q * p) = q * p
    BY <1>2, <1>3, <1>5
  <2>2. Wrap(MaxInt64 - q * p) = MaxInt64 - q * p
    BY <1>2, <1>3, <1>5
  <2>3. CASE total + q * p > MaxInt64
    BY <1>1, <1>2, <1>5, <2>1, <2>2, <2>3 DEF AddLine
  <2>4. CASE total + q * p <= MaxInt64
    <3>1. Wrap(total + q * p) = total + q * p
      BY <1>2, <1>3, <2>4
    <3> QED BY <1>1, <1>2, <1>5, <2>1, <2>2, <2>4, <3>1 DEF AddLine
  <2> QED BY <1>2, <2>3, <2>4
<1> QED BY <1>2, <1>4, <1>5

(* The same loop in unbounded arithmetic.                                  *)
ExactRounds(items, x) ==
    /\ x[0] = 0
    /\ \A k \in 1 .. Len(items) :
          x[k] = x[k - 1] + items[k].quantity * items[k].unit_price_minor

(* ExactTotal is the last of its values.                                   *)
LEMMA ExactTotalRounds ==
    ASSUME NEW items \in Seq(Item)
    PROVE  \E x : ExactRounds(items, x) /\ ExactTotal(items) = x[Len(items)]
<1> DEFINE n == Len(items)
           Body(x) == [k \in 0 .. n |->
                         IF k = 0 THEN 0
                         ELSE x[k - 1] + items[k].quantity * items[k].unit_price_minor]
           total == CHOOSE x : x = Body(x)
           g == [y \in Int \X (1 .. n) |->
                   y[1] + items[y[2]].quantity * items[y[2]].unit_price_minor]
<1>1. ExactTotal(items) = total[n]
  BY DEF ExactTotal
<1>2. n \in Nat /\ \A k \in 1 .. n : items[k].quantity \in Int /\ items[k].unit_price_minor \in Int
  BY ItemNumbers
<1>3. g \in [Int \X (1 .. n) -> Int]
  <2> SUFFICES ASSUME NEW y \in Int \X (1 .. n)
               PROVE  y[1] + items[y[2]].quantity * items[y[2]].unit_price_minor \in Int
    OBVIOUS
  <2> QED BY <1>2
<1>4. PICK f \in [0 .. n -> Int] : f[0] = 0 /\ \A k \in 1 .. n : f[k] = g[<<f[k - 1], k>>]
  <2> HIDE DEF g, n
  <2> QED BY <1>2, <1>3, LoopRuns
<1>5. ASSUME NEW k \in 1 .. n
      PROVE  f[k] = f[k - 1] + items[k].quantity * items[k].unit_price_minor
  <2>1. f[k - 1] \in Int
    BY <1>2, <1>4
  <2>2. f[k] = g[<<f[k - 1], k>>]
    BY <1>4
  <2> QED BY <2>1, <2>2
<1>6. f = Body(f)
  <2>1. \A k \in 0 .. n : f[k] = Body(f)[k]
    BY <1>2, <1>4, <1>5
  <2>2. f = [k \in 0 .. n |-> f[k]] /\ Body(f) = [k \in 0 .. n |-> Body(f)[k]]
    BY <1>4
  <2> QED BY <2>1, <2>2
<1>7. total = Body(total)
  <2> HIDE DEF Body
  <2> QED BY <1>6
<1>8. ExactRounds(items, total)
  <2> HIDE DEF total
  <2>1. \A k \in 0 .. n : total[k] = Body(total)[k]
    BY <1>7
  <2> QED BY <1>2, <2>1 DEF ExactRounds
<1> QED BY <1>1, <1>8

Acceptable(items, k) == \A j \in 1 .. k : ~Unacceptable(items, j)

(* After k rounds both loops have the same value, or the machine's loop    *)
(* has refused an item or a sum that does not fit.                         *)
Agree(items, t, x, k) ==
    /\ x[k] \in Int
    /\ t[k] # Refused =>
          /\ t[k] = x[k] /\ x[k] \in 0 .. MaxInt64 /\ (k > 0 => x[k] > 0)
          /\ Acceptable(items, k)
    /\ t[k] = Refused /\ Acceptable(items, k) => x[k] > MaxInt64

(* One round.                                                              *)
LEMMA RoundAgrees ==
    ASSUME NEW items \in Seq(Item), NEW t, NEW x, Rounds(items, t), ExactRounds(items, x),
           NEW k \in 1 .. Len(items), Agree(items, t, x, k - 1)
    PROVE  Agree(items, t, x, k)
<1> DEFINE q == items[k].quantity
           p == items[k].unit_price_minor
<1>1. /\ t[k] = IF t[k - 1] = Refused \/ Unacceptable(items, k) THEN Refused
                ELSE AddLine(t[k - 1], q, p)
      /\ x[k] = x[k - 1] + q * p
  BY DEF Rounds, ExactRounds
<1>2. /\ q \in Int64 /\ p \in Int64 /\ MaxInt64 \in Nat /\ k \in Nat
      /\ q \in Int /\ p \in Int
  <2>1. items[k] \in Item
    OBVIOUS
  <2>2. q \in Int64 /\ p \in Int64
    BY <2>1 DEF Item
  <2>3. q \in Int /\ p \in Int /\ Len(items) \in Nat
    BY ItemNumbers
  <2>4. MaxInt64 \in Nat
    BY OrderModelAssumption
  <2> HIDE DEF q, p
  <2> QED BY <2>2, <2>3, <2>4
<1>3. x[k - 1] \in Int
  BY DEF Agree
<1>4. x[k] \in Int
  <2> HIDE DEF q, p
  <2>1. q * p \in Int
    BY <1>2
  <2> QED BY <1>1, <1>3, <2>1
<1>5. Acceptable(items, k) <=> Acceptable(items, k - 1) /\ ~Unacceptable(items, k)
  <2>1. \A j \in 1 .. k : j \in 1 .. k - 1 \/ j = k
    BY <1>2
  <2>2. \A j \in 1 .. k - 1 : j \in 1 .. k
    BY <1>2
  <2>3. k \in 1 .. k
    BY <1>2
  <2> QED BY <2>1, <2>2, <2>3, Zenon DEF Acceptable
<1>6. CASE Unacceptable(items, k)
  BY <1>1, <1>4, <1>5, <1>6 DEF Agree
<1>7. ASSUME ~Unacceptable(items, k) PROVE q \in 1 .. MaxInt64 /\ p \in 1 .. MaxInt64 /\ q * p >= 1 /\ q * p \in Nat
  <2>1. q > 0 /\ p > 0
    BY <1>2, <1>7 DEF Unacceptable
  <2> HIDE DEF q, p
  <2>2. q \in 1 .. MaxInt64 /\ p \in 1 .. MaxInt64
    BY <1>2, <2>1 DEF Int64
  <2> QED BY <2>2, <1>2, Positive
<1>8. CASE ~Unacceptable(items, k) /\ t[k - 1] = Refused
  <2>1. t[k] = Refused
    BY <1>1, <1>8
  <2>2. Acceptable(items, k) => x[k - 1] > MaxInt64
    BY <1>5, <1>8 DEF Agree
  <2> HIDE DEF q, p
  <2>3. Acceptable(items, k) => x[k] > MaxInt64
    BY <1>1, <1>2, <1>3, <1>7, <1>8, <2>2
  <2> QED BY <1>4, <2>1, <2>3 DEF Agree
<1>9. CASE ~Unacceptable(items, k) /\ t[k - 1] # Refused
  <2>1. t[k - 1] = x[k - 1] /\ x[k - 1] \in 0 .. MaxInt64 /\ Acceptable(items, k)
    BY <1>5, <1>9 DEF Agree
  <2>2. t[k] = AddLine(x[k - 1], q, p)
    BY <1>1, <1>9, <2>1
  <2> HIDE DEF q, p
  <2>3. t[k] = IF x[k] > MaxInt64 THEN Refused ELSE x[k]
    BY <1>1, <1>7, <1>9, <2>1, <2>2, AddLineExact
  <2>4. x[k] > 0
    BY <1>1, <1>7, <1>9, <2>1, <1>2
  <2> QED BY <1>2, <1>4, <2>1, <2>3, <2>4 DEF Agree, Refused
<1> QED BY <1>6, <1>8, <1>9

(* The loop of validate is exact for every list of items: it accepts just  *)
(* the lists of acceptable items whose sum in unbounded arithmetic fits an *)
(* int64, and returns that sum, whatever wraps around on the way.          *)
THEOREM TotalOfExact ==
    ASSUME NEW items \in Seq(Item)
    PROVE  /\ TotalOf(items) # Refused =>
                 /\ TotalOf(items) = ExactTotal(items)
                 /\ ExactTotal(items) \in 0 .. MaxInt64
                 /\ items # << >> => ExactTotal(items) > 0
                 /\ Acceptable(items, Len(items))
           /\ TotalOf(items) = Refused /\ Acceptable(items, Len(items)) =>
                 ExactTotal(items) > MaxInt64
<1> DEFINE n == Len(items)
<1>1. n \in Nat /\ (items # << >> => n > 0)
  OBVIOUS
<1>2. PICK t : Rounds(items, t) /\ TotalOf(items) = t[n]
  BY TotalOfRounds
<1>3. PICK x : ExactRounds(items, x) /\ ExactTotal(items) = x[n]
  BY ExactTotalRounds
<1> DEFINE T == {m \in Nat : m <= n /\ ~Agree(items, t, x, m)}
<1>4. Agree(items, t, x, n)
  <2> SUFFICES ASSUME ~Agree(items, t, x, n) PROVE FALSE
    OBVIOUS
  <2>1. n \in T
    BY <1>1
  <2>2. PICK m \in T : \A y \in T : m <= y
    <3>1. T \in SUBSET Nat /\ T # {}
      BY <2>1
    <3> HIDE DEF T
    <3> QED BY <3>1, LeastNat
  <2>3. Agree(items, t, x, 0)
    BY <1>2, <1>3, OrderModelAssumption DEF Agree, Rounds, ExactRounds, Acceptable, Refused
  <2>4. m \in Nat /\ m <= n /\ m # 0 /\ ~Agree(items, t, x, m)
    BY <2>2, <2>3
  <2>5. m - 1 \in Nat /\ m - 1 <= n /\ ~(m <= m - 1) /\ m \in 1 .. n
    BY <1>1, <2>4
  <2>6. Agree(items, t, x, m - 1)
    BY <2>2, <2>5
  <2> QED BY <1>2, <1>3, <2>4, <2>5, <2>6, RoundAgrees
<1> HIDE DEF n
<1> QED BY <1>1, <1>2, <1>3, <1>4 DEF Agree, n

-----------------------------------------------------------------------------
(* The part of TypeOK that does not depend on the arithmetic of items.     *)
ServiceType ==
    /\ stage \in [Request -> {"none", "tx", "cut"} \cup Answers]
    /\ command \in [Request -> Commands \cup {NoCommand}]
    /\ inDoubt \subseteq Request
    /\ get \in [at : {"idle", "found", "200", "404", "500"}, order : Request,
                items : SUBSET (Request \X Int)]

(* Requests that have sent no COMMIT, and never will if they are answered. *)
Quiet(r) == stage[r] \in {"none", "tx", "400", "422"}

(* Nothing of a quiet request is in the tables or on its way there.        *)
QuietLeavesNothing ==
    \A r \in Request : Quiet(r) => r \notin inDoubt /\ \A k : Row(r, k) \notin rows

(* An order that Get has found stays there with all its rows.              *)
FoundStays ==
    /\ get.at \in {"found", "200"} => Rows(get.order) \subseteq rows
    /\ get.at = "200" => get.items = ItemRows(get.order)

AnsweredStored == \A r \in Request : stage[r] = "201" => Rows(r) \subseteq rows

ServiceInv == ServiceType /\ QuietLeavesNothing /\ OrderWhole /\ AnsweredStored /\ FoundStays

(* The rows of an order: the order itself and the items are among them,    *)
(* and no row belongs to two orders.                                       *)
LEMMA RowFacts ==
    ASSUME ServiceType, NEW r \in Request
    PROVE  /\ Row(r, 1) \in Rows(r)
           /\ ItemRows(r) \subseteq Rows(r)
           /\ ItemRows(r) \subseteq Request \X Int
           /\ \A x \in Rows(r) : \E k : x = Row(r, k)
           /\ \A q \in Request : \A k : Row(q, k) \in Rows(r) => q = r
<1>1. Len(command[r].items) \in Nat
  BY OrderServiceAssumption DEF ServiceType, NoCommand, Command
<1>2. Statements(r) \in Nat /\ Statements(r) >= 2
  BY <1>1 DEF Statements
<1> HIDE DEF Statements
<1> QED BY <1>2 DEF Rows, ItemRows, Row

(* The tables start empty.                                                 *)
LEMMA ServiceInit == Init => ServiceInv
<1> SUFFICES ASSUME Init PROVE ServiceInv
  OBVIOUS
<1>1. ServiceType
  BY OrderServiceAssumption DEF Init, ServiceType, NoGet, Answers
<1>2. QuietLeavesNothing /\ OrderWhole /\ AnsweredStored /\ FoundStays
  BY DEF Init, QuietLeavesNothing, OrderWhole, AnsweredStored, FoundStays, NoGet
<1> QED BY <1>1, <1>2 DEF ServiceInv

(* A step that leaves commands alone and adds all rows of some requests    *)
(* that are not quiet afterwards, or none, keeps what is said of rows.     *)
LEMMA RowsKept ==
    ASSUME ServiceInv, ServiceType', UNCHANGED command, NEW r \in Request,
           rows' \in {rows, rows \cup Rows(r)},
           rows' # rows => ~Quiet(r)',
           \A q \in Request : Quiet(q)' => Quiet(q) /\ q \notin inDoubt'
    PROVE  QuietLeavesNothing' /\ OrderWhole'
<1>1. \A q \in Request : Rows(q)' = Rows(q)
  BY DEF Rows, Statements
<1>2. ASSUME NEW q \in Request PROVE q # r => rows' \cap Rows(q) = rows \cap Rows(q)
  BY RowFacts DEF ServiceInv
<1>3. OrderWhole'
  <2> SUFFICES ASSUME NEW q \in Request PROVE rows' \cap Rows(q) \in {{}, Rows(q)}
    BY <1>1 DEF OrderWhole
  <2>1. rows \cap Rows(q) \in {{}, Rows(q)}
    BY DEF ServiceInv, OrderWhole
  <2>2. CASE q = r
    BY <2>1, <2>2
  <2>3. CASE q # r
    BY <1>2, <2>1, <2>3
  <2> QED BY <2>2, <2>3
<1>4. QuietLeavesNothing'
  <2> SUFFICES ASSUME NEW q \in Request, Quiet(q)', NEW k PROVE q \notin inDoubt' /\ Row(q, k) \notin rows'
    BY DEF QuietLeavesNothing, Row
  <2>1. Row(q, k) \notin rows /\ q \notin inDoubt'
    BY DEF ServiceInv, QuietLeavesNothing
  <2> QED BY <2>1, RowFacts DEF ServiceInv
<1> QED BY <1>3, <1>4

(* Every step of the service keeps the types.                              *)
LEMMA ServiceTypeStep == ServiceInv /\ [Next]_vars => ServiceType'
<1> SUFFICES ASSUME ServiceInv, [Next]_vars PROVE ServiceType'
  OBVIOUS
<1>0. ServiceType
  BY DEF ServiceInv
<1>1. ASSUME NEW r \in Request, ReceiveMalformed(r) PROVE ServiceType'
  BY <1>0, <1>1 DEF ServiceType, ReceiveMalformed, Answers
<1>2. ASSUME NEW r \in Request, NEW c \in Commands, NEW header \in Headers, Receive(r, c, header)
      PROVE  ServiceType'
  <2>1. /\ command' = [command EXCEPT ![r] = c]
        /\ \E a \in {"422", "500", "tx"} : stage' = [stage EXCEPT ![r] = a]
        /\ UNCHANGED <<inDoubt, get>>
    BY <1>2 DEF Receive
  <2> QED BY <1>0, <2>1 DEF ServiceType, Answers
<1>3. ASSUME NEW r \in Request, Execute(r) \/ ExecuteFails(r) \/ Commit(r) \/ CommitFails(r)
      PROVE  ServiceType'
  BY <1>0, <1>3 DEF ServiceType, Execute, ExecuteFails, Commit, CommitFails, CommitLost, Answers
<1>4. ASSUME NEW r \in Request, Resolve(r) PROVE ServiceType'
  BY <1>0, <1>4 DEF ServiceType, Resolve
<1>5. ASSUME NEW r \in Request, GetOrder(r) \/ GetFails(r) PROVE ServiceType'
  BY <1>0, <1>5 DEF ServiceType, GetOrder, GetFails
<1>6. CASE GetItems
  <2>1. ItemRows(get.order) \subseteq Request \X Int
    BY <1>0, RowFacts DEF ServiceType
  <2> QED BY <1>0, <1>6, <2>1 DEF ServiceType, GetItems
<1>7. CASE Close \/ Drained
  BY <1>0, <1>7 DEF ServiceType, Close, Drained
<1>8. CASE Die
  BY <1>0, <1>8 DEF ServiceType, Die
<1>9. CASE UNCHANGED vars
  BY <1>0, <1>9 DEF ServiceType, vars
<1> QED BY <1>1, <1>2, <1>3, <1>4, <1>5, <1>6, <1>7, <1>8, <1>9 DEF Next, Create, Get

(* Every step of the service keeps the invariant.                          *)
LEMMA ServiceStep == ServiceInv /\ [Next]_vars => ServiceInv'
<1> SUFFICES ASSUME ServiceInv, [Next]_vars PROVE ServiceInv'
  OBVIOUS
<1>0. ServiceType' /\ ServiceType
  BY ServiceTypeStep DEF ServiceInv
<1>1. ASSUME UNCHANGED command
      PROVE  \A q \in Request : Rows(q)' = Rows(q) /\ ItemRows(q)' = ItemRows(q)
  BY <1>1 DEF Rows, ItemRows, Statements
<1>2. ASSUME UNCHANGED <<command, get>>, rows \subseteq rows' PROVE FoundStays'
  BY <1>0, <1>1, <1>2 DEF ServiceInv, FoundStays, ServiceType
<1>3. ASSUME UNCHANGED command, rows \subseteq rows', \A q \in Request : stage'[q] = "201" => stage[q] = "201"
      PROVE  AnsweredStored'
  BY <1>1, <1>3 DEF ServiceInv, AnsweredStored
<1>4. ASSUME NEW r \in Request, ReceiveMalformed(r) \/ Execute(r) \/ ExecuteFails(r) \/ CommitFails(r)
      PROVE  ServiceInv'
  <2>1. /\ UNCHANGED <<command, get, rows>>
        /\ \A q \in Request : Quiet(q)' => Quiet(q) /\ q \notin inDoubt'
        /\ \A q \in Request : stage'[q] = "201" => stage[q] = "201"
    BY <1>0, <1>4 DEF ReceiveMalformed, Execute, ExecuteFails, CommitFails, CommitLost, InTx, Quiet,
                      ServiceType, ServiceInv, QuietLeavesNothing
  <2> QED BY <1>0, <1>2, <1>3, <1>4, <2>1, RowsKept DEF ServiceInv
<1>5. ASSUME NEW r \in Request, NEW c \in Commands, NEW header \in Headers, Receive(r, c, header)
      PROVE  ServiceInv'
  <2>1. /\ stage[r] = "none"
        /\ command' = [command EXCEPT ![r] = c]
        /\ \E a \in {"422", "500", "tx"} : stage' = [stage EXCEPT ![r] = a]
        /\ UNCHANGED <<inDoubt, get, rows>>
    BY <1>5 DEF Receive
  <2>2. \A k : Row(r, k) \notin rows
    BY <2>1 DEF ServiceInv, QuietLeavesNothing, Quiet
  <2>3. \A q \in Request : q # r => Rows(q)' = Rows(q) /\ ItemRows(q)' = ItemRows(q)
    BY <1>0, <2>1 DEF Rows, ItemRows, Statements, ServiceType
  <2>4. QuietLeavesNothing'
    BY <1>0, <2>1 DEF ServiceInv, QuietLeavesNothing, Quiet, ServiceType, Row
  <2>5. OrderWhole'
    <3>1. \A x \in Rows(r)' : x \notin rows
      BY <2>2 DEF Rows, Row
    <3> QED BY <2>1, <2>3, <3>1 DEF ServiceInv, OrderWhole
  <2>6. AnsweredStored'
    BY <1>0, <2>1, <2>3 DEF ServiceInv, AnsweredStored, ServiceType
  <2>7. FoundStays'
    <3>1. get.at \in {"found", "200"} => get.order # r
      BY <1>0, <2>2, RowFacts DEF ServiceInv, FoundStays
    <3> QED BY <1>0, <2>1, <2>3, <3>1 DEF ServiceInv, FoundStays, ServiceType
  <2> QED BY <1>0, <2>4, <2>5, <2>6, <2>7 DEF ServiceInv
<1>6. ASSUME NEW r \in Request, Commit(r) PROVE ServiceInv'
  <2>1. /\ stage[r] = "tx" /\ stage' = [stage EXCEPT ![r] = "201"]
        /\ rows' = rows \cup Rows(r)
        /\ UNCHANGED <<command, get, inDoubt>>
    BY <1>6 DEF Commit, InTx
  <2>2. QuietLeavesNothing' /\ OrderWhole'
    <3>1. ~Quiet(r)' /\ \A q \in Request : Quiet(q)' => Quiet(q) /\ q \notin inDoubt'
      BY <1>0, <2>1 DEF Quiet, ServiceType, ServiceInv, QuietLeavesNothing
    <3> QED BY <1>0, <2>1, <3>1, RowsKept
  <2>3. AnsweredStored'
    BY <1>0, <1>1, <2>1 DEF ServiceInv, AnsweredStored, ServiceType
  <2> QED BY <1>0, <1>2, <2>1, <2>2, <2>3 DEF ServiceInv
<1>7. ASSUME NEW r \in Request, Resolve(r) PROVE ServiceInv'
  <2>1. /\ r \in inDoubt /\ rows' \in {rows, rows \cup Rows(r)}
        /\ inDoubt' = inDoubt \ {r}
        /\ UNCHANGED <<command, get, stage>>
    BY <1>7 DEF Resolve
  <2>2. ~Quiet(r)' /\ \A q \in Request : Quiet(q)' => Quiet(q) /\ q \notin inDoubt'
    BY <2>1 DEF Quiet, ServiceInv, QuietLeavesNothing
  <2>3. QuietLeavesNothing' /\ OrderWhole'
    BY <1>0, <2>1, <2>2, RowsKept
  <2> QED BY <1>0, <1>2, <1>3, <2>1, <2>3 DEF ServiceInv
<1>8. ASSUME UNCHANGED <<command, stage, rows, inDoubt>>, FoundStays' PROVE ServiceInv'
  BY <1>0, <1>1, <1>8 DEF ServiceInv, QuietLeavesNothing, Quiet, OrderWhole, AnsweredStored
<1>9. ASSUME NEW r \in Request, GetOrder(r) \/ GetFails(r) PROVE ServiceInv'
  <2>1. /\ UNCHANGED <<command, stage, rows, inDoubt>>
        /\ get'.order = r /\ get'.at # "200"
        /\ get'.at = "found" => Row(r, 1) \in rows
    BY <1>9 DEF GetOrder, GetFails
  <2>2. Row(r, 1) \in rows => Rows(r) \subseteq rows
    BY <1>0, RowFacts DEF ServiceInv, OrderWhole
  <2> QED BY <1>1, <1>8, <2>1, <2>2 DEF FoundStays
<1>10. CASE GetItems
  <2>1. /\ UNCHANGED <<command, stage, rows, inDoubt>>
        /\ get.at = "found"
        /\ get' = [get EXCEPT !.at = "200", !.items = rows \cap ItemRows(get.order)]
    BY <1>10 DEF GetItems
  <2>2. PICK r \in Request : r = get.order
    BY <1>0 DEF ServiceType
  <2>3. get'.order = r /\ get'.items = rows \cap ItemRows(r)
    BY <1>0, <2>1, <2>2 DEF ServiceType
  <2>4. Rows(r) \subseteq rows /\ ItemRows(r) \subseteq Rows(r)
    BY <1>0, <2>1, <2>2, RowFacts DEF ServiceInv, FoundStays
  <2> QED BY <1>1, <1>8, <2>1, <2>3, <2>4 DEF FoundStays
<1>11. CASE Die
  <2>1. /\ UNCHANGED <<command, rows>>
        /\ get' = [get EXCEPT !.at = IF @ = "found" THEN "idle" ELSE @]
        /\ \A q \in Request : stage'[q] = IF stage[q] = "tx" THEN "cut" ELSE stage[q]
        /\ \A q \in inDoubt' : q \in inDoubt \/ stage[q] = "tx"
    BY <1>11 DEF Die, InTx
  <2>2. \A q \in Request : Quiet(q)' => Quiet(q) /\ q \notin inDoubt'
    BY <2>1 DEF Quiet, ServiceInv, QuietLeavesNothing
  <2>3. QuietLeavesNothing' /\ OrderWhole'
    BY <1>0, <2>1, <2>2, RowsKept, OrderServiceAssumption
  <2>4. FoundStays'
    BY <1>0, <1>1, <2>1 DEF ServiceInv, FoundStays, ServiceType
  <2> QED BY <1>0, <1>3, <2>1, <2>3, <2>4 DEF ServiceInv
<1>12. CASE Close \/ Drained \/ UNCHANGED vars
  BY <1>2, <1>8, <1>12 DEF Close, Drained, vars
<1> QED BY <1>4, <1>5, <1>6, <1>7, <1>9, <1>10, <1>11, <1>12 DEF Next, Create, Get

(* Rows of an order appear together, and only those of requests that have  *)
(* sent a COMMIT.                                                          *)
THEOREM ServiceInvariance == Spec => []ServiceInv
BY ServiceInit, ServiceStep, PTL DEF Spec

(* Order, items and event are in the tables together or not at all,        *)
(* however the transaction of CreateWithEvent and its process end.         *)
THEOREM OrdersWhole == Spec => []OrderWhole
<1>1. ServiceInv => OrderWhole
  BY DEF ServiceInv
<1> QED BY <1>1, ServiceInvariance, PTL

(* 201 means stored, and a request that was refused leaves nothing behind. *)
THEOREM AnswersTrue == Spec => []CreatedIsStored
<1>1. ServiceInv => CreatedIsStored
  BY DEF ServiceInv, CreatedIsStored, QuietLeavesNothing, Quiet, AnsweredStored
<1> QED BY <1>1, ServiceInvariance, PTL

(* The two statements of Get never show an order without an item of it.    *)
THEOREM ReadsWhole == Spec => []ReadIsWhole
<1>1. ServiceInv => ReadIsWhole
  BY DEF ServiceInv, ReadIsWhole, FoundStays
<1> QED BY <1>1, ServiceInvariance, PTL

-----------------------------------------------------------------------------
(* A request whose command passed validate, with the event built from that *)
(* command and accepted by Envelope.Validate.                              *)
Passed(r) ==
    /\ validate(command[r]) # Refused
    /\ EnvelopeValid(event[r])
    /\ \E header \in Headers : event[r] = Created(command[r], RequestID(header))

(* The rest of TypeOK: the rows are those of requests, and a transaction   *)
(* has executed no more statements than it has.                            *)
TableType ==
    /\ server \in {"serving", "closing", "drained", "dead"}
    /\ DOMAIN event = Request /\ event = [r \in Request |-> event[r]]
    /\ done \in [Request -> Nat]
    /\ \A r \in Request : done[r] <= Statements(r) /\ (stage[r] = "none" => done[r] = 0)
    /\ rows \subseteq UNION {Rows(r) : r \in Request}

(* Only what passed is executed, committed or in doubt, and only what did  *)
(* not is answered with 422.                                               *)
OnlyPassed ==
    \A r \in Request :
        /\ stage[r] = "tx" \/ r \in inDoubt \/ Rows(r) \cap rows # {} => Passed(r)
        /\ stage[r] = "422" => validate(command[r]) = Refused

AcceptInv == TableType /\ OnlyPassed

(* The number of statements of a transaction.                              *)
LEMMA StatementsType ==
    ASSUME ServiceType, NEW r \in Request PROVE Statements(r) \in Nat
<1>1. Len(command[r].items) \in Nat
  BY OrderServiceAssumption DEF ServiceType, NoCommand, Command
<1> QED BY <1>1 DEF Statements

(* Nothing has been asked for.                                             *)
LEMMA AcceptInit == Init => AcceptInv
<1> SUFFICES ASSUME Init PROVE AcceptInv
  OBVIOUS
<1>1. ServiceType
  BY ServiceInit DEF ServiceInv
<1>2. \A r \in Request : Statements(r) \in Nat
  BY <1>1, StatementsType
<1>3. TableType
  <2> HIDE DEF Statements
  <2> QED BY <1>2 DEF Init, TableType
<1>4. OnlyPassed
  BY DEF Init, OnlyPassed
<1> QED BY <1>3, <1>4 DEF AcceptInv

(* A step that changes neither commands nor events, and gives nothing a    *)
(* COMMIT or a row that did not have a transaction or a COMMIT before.     *)
LEMMA PassedKept ==
    ASSUME OnlyPassed, UNCHANGED <<command, event>>,
           \A r \in Request :
              /\ stage'[r] = "tx" \/ r \in inDoubt' \/ Rows(r) \cap rows' # {} =>
                    stage[r] = "tx" \/ r \in inDoubt \/ Rows(r) \cap rows # {}
              /\ stage'[r] = "422" => stage[r] = "422"
    PROVE  OnlyPassed'
<1>1. \A r \in Request : Rows(r)' = Rows(r) /\ Passed(r)' = Passed(r)
  BY DEF Rows, Statements, Row, Passed
<1> QED BY <1>1 DEF OnlyPassed

(* The same for the types: one transaction may have executed a statement,  *)
(* and the rows of one request may have been added.                        *)
LEMMA TableKept ==
    ASSUME TableType, ServiceType, UNCHANGED <<command, event>>, NEW r \in Request,
           server' \in {"serving", "closing", "drained", "dead"},
           done' \in {done, [done EXCEPT ![r] = @ + 1]},
           done' # done => done[r] < Statements(r) /\ stage'[r] # "none",
           \A q \in Request : stage'[q] = "none" => stage[q] = "none",
           rows' \in {rows, rows \cup Rows(r)}
    PROVE  TableType'
<1>1. \A q \in Request : Rows(q)' = Rows(q) /\ Statements(q)' = Statements(q)
  BY DEF Rows, Statements, Row
<1>2. \A q \in Request : Statements(q) \in Nat
  BY StatementsType
<1> HIDE DEF Statements
<1>3. done' \in [Request -> Nat]
  BY DEF TableType
<1>4. \A q \in Request : done'[q] <= Statements(q) /\ (stage'[q] = "none" => done'[q] = 0)
  BY <1>2 DEF TableType
<1>5. rows' \subseteq UNION {Rows(q) : q \in Request}
  BY DEF TableType
<1>6. rows' \subseteq UNION {Rows(q)' : q \in Request}
  <2>1. \A x \in rows' : \E q \in Request : x \in Rows(q)'
    BY <1>1, <1>5
  <2> QED BY <2>1
<1> QED BY <1>1, <1>3, <1>4, <1>6 DEF TableType

(* Service.Create up to BeginTx.                                           *)
LEMMA ReceiveAccepts ==
    ASSUME ServiceInv, ServiceType', AcceptInv, NEW r \in Request,
           NEW c \in Commands, NEW header \in Headers, Receive(r, c, header)
    PROVE  AcceptInv'
<1>0. ServiceType /\ TableType /\ OnlyPassed
  BY DEF ServiceInv, AcceptInv
<1>1. /\ stage[r] = "none"
      /\ command' = [command EXCEPT ![r] = c]
      /\ event' = [event EXCEPT ![r] = Created(c, RequestID(header))]
      /\ stage' = [stage EXCEPT ![r] =
                     IF validate(c) = Refused THEN "422"
                     ELSE IF ~EnvelopeValid(Created(c, RequestID(header))) THEN "500" ELSE "tx"]
      /\ UNCHANGED <<server, done, rows, inDoubt>>
  BY DEF Receive
<1>2. r \notin inDoubt /\ \A k : Row(r, k) \notin rows
  BY <1>1 DEF ServiceInv, QuietLeavesNothing, Quiet
<1>3. ASSUME NEW q \in Request, q # r
      PROVE  /\ command'[q] = command[q] /\ event'[q] = event[q] /\ stage'[q] = stage[q]
             /\ Rows(q)' = Rows(q) /\ Statements(q)' = Statements(q)
             /\ Passed(q)' = Passed(q)
  <2>1. command'[q] = command[q] /\ event'[q] = event[q] /\ stage'[q] = stage[q]
    BY <1>0, <1>1, <1>3 DEF ServiceType, TableType
  <2> QED BY <2>1 DEF Rows, Statements, Row, Passed
<1>4. /\ command'[r] = c /\ event'[r] = Created(c, RequestID(header))
      /\ stage'[r] = IF validate(c) = Refused THEN "422"
                     ELSE IF ~EnvelopeValid(Created(c, RequestID(header))) THEN "500" ELSE "tx"
  BY <1>0, <1>1 DEF ServiceType, TableType
<1>5. Rows(r) \cap rows = {} /\ Rows(r)' \cap rows = {}
  BY <1>2 DEF Rows, Row
<1>6. OnlyPassed'
  <2> SUFFICES ASSUME NEW q \in Request
               PROVE  /\ stage'[q] = "tx" \/ q \in inDoubt' \/ Rows(q)' \cap rows' # {} => Passed(q)'
                      /\ stage'[q] = "422" => validate(command'[q]) = Refused
    BY DEF OnlyPassed
  <2>1. CASE q # r
    BY <1>0, <1>1, <1>3, <2>1 DEF OnlyPassed
  <2>2. CASE q = r
    BY <1>1, <1>2, <1>4, <1>5, <2>2 DEF Passed
  <2> QED BY <2>1, <2>2
<1>7. TableType'
  <2>1. \A q \in Request : Statements(q)' \in Nat
    <3>1. ASSUME NEW q \in Request PROVE Len(command'[q].items) \in Nat
      BY OrderServiceAssumption DEF ServiceType, NoCommand, Command
    <3> QED BY <3>1 DEF Statements
  <2>2. done[r] = 0
    BY <1>0, <1>1 DEF TableType
  <2>3. \A q \in Request : done'[q] <= Statements(q)' /\ (stage'[q] = "none" => done'[q] = 0)
    <3> SUFFICES ASSUME NEW q \in Request
                 PROVE  done'[q] <= Statements(q)' /\ (stage'[q] = "none" => done'[q] = 0)
      OBVIOUS
    <3>1. CASE q # r
      BY <1>0, <1>1, <1>3, <3>1 DEF TableType
    <3>2. CASE q = r
      <4> HIDE DEF Statements
      <4> QED BY <1>1, <2>1, <2>2, <3>2
    <3> QED BY <3>1, <3>2
  <2>4. \A x \in rows' : \E q \in Request : x \in Rows(q)'
    <3> SUFFICES ASSUME NEW x \in rows PROVE \E q \in Request : x \in Rows(q)'
      BY <1>1
    <3>1. PICK q \in Request : x \in Rows(q)
      BY <1>0 DEF TableType
    <3> QED BY <1>3, <1>5, <3>1
  <2>5. DOMAIN event' = Request /\ event' = [q \in Request |-> event'[q]]
    BY <1>0, <1>1 DEF TableType
  <2> QED BY <1>0, <1>1, <2>3, <2>4, <2>5 DEF TableType
<1> QED BY <1>6, <1>7 DEF AcceptInv

(* Every step of the service keeps it.                                     *)
LEMMA AcceptStep == ServiceInv /\ ServiceInv' /\ AcceptInv /\ [Next]_vars => AcceptInv'
<1> SUFFICES ASSUME ServiceInv, ServiceInv', AcceptInv, [Next]_vars PROVE AcceptInv'
  OBVIOUS
<1>0. ServiceType /\ ServiceType' /\ TableType /\ OnlyPassed
  BY DEF ServiceInv, AcceptInv
<1>1. ASSUME NEW r \in Request,
             ReceiveMalformed(r) \/ Execute(r) \/ ExecuteFails(r) \/ CommitFails(r)
      PROVE  AcceptInv'
  <2>1. UNCHANGED <<server, command, event, rows>>
    BY <1>1 DEF ReceiveMalformed, Execute, ExecuteFails, CommitFails, CommitLost
  <2>2. \A q \in Request :
           /\ stage'[q] = "tx" \/ q \in inDoubt' => stage[q] = "tx" \/ q \in inDoubt
           /\ stage'[q] = "422" => stage[q] = "422"
           /\ stage'[q] = "none" => stage[q] = "none"
    BY <1>0, <1>1 DEF ReceiveMalformed, Execute, ExecuteFails, CommitFails, CommitLost, InTx,
                      ServiceType
  <2>3. /\ done' \in {done, [done EXCEPT ![r] = @ + 1]}
        /\ done' # done => done[r] < Statements(r) /\ stage'[r] # "none"
    BY <1>1 DEF ReceiveMalformed, Execute, ExecuteFails, CommitFails, CommitLost, InTx
  <2>4. TableType'
    <3>1. server' \in {"serving", "closing", "drained", "dead"}
      BY <1>0, <2>1 DEF TableType
    <3> QED BY <1>0, <2>1, <2>2, <2>3, <3>1, TableKept
  <2> QED BY <1>0, <2>1, <2>2, <2>4, PassedKept DEF AcceptInv
<1>2. ASSUME NEW r \in Request, Commit(r) \/ Resolve(r) PROVE AcceptInv'
  <2>1. /\ UNCHANGED <<server, command, event, done>>
        /\ rows' \in {rows, rows \cup Rows(r)}
        /\ stage[r] = "tx" \/ r \in inDoubt
        /\ inDoubt' \subseteq inDoubt
    BY <1>2 DEF Commit, Resolve, InTx
  <2>2. \A q \in Request :
           stage'[q] \in {"tx", "422", "none"} => stage[q] = stage'[q]
    BY <1>0, <1>2 DEF Commit, Resolve, ServiceType
  <2>3. \A q \in Request : q # r => Rows(q) \cap rows' = Rows(q) \cap rows
    BY <1>0, <2>1, RowFacts
  <2>4. server' \in {"serving", "closing", "drained", "dead"}
    BY <1>0, <2>1 DEF TableType
  <2>5. TableType'
    BY <1>0, <2>1, <2>2, <2>4, TableKept
  <2>6. OnlyPassed'
    BY <1>0, <2>1, <2>2, <2>3, PassedKept
  <2> QED BY <2>5, <2>6 DEF AcceptInv
<1>3. ASSUME NEW r \in Request, NEW c \in Commands, NEW header \in Headers, Receive(r, c, header)
      PROVE  AcceptInv'
  BY <1>0, <1>3, ReceiveAccepts
<1>4. ASSUME UNCHANGED <<command, event, done, rows>>,
             server' \in {"serving", "closing", "drained", "dead"},
             \A q \in Request :
                /\ stage'[q] = "tx" \/ q \in inDoubt' => stage[q] = "tx" \/ q \in inDoubt
                /\ stage'[q] = "422" => stage[q] = "422"
                /\ stage'[q] = "none" => stage[q] = "none"
      PROVE  AcceptInv'
  <2>1. PICK r \in Request : TRUE
    BY OrderServiceAssumption
  <2>2. TableType'
    BY <1>0, <1>4, <2>1, TableKept
  <2> QED BY <1>0, <1>4, <2>2, PassedKept DEF AcceptInv
<1>5. CASE Get \/ Close \/ Drained \/ UNCHANGED vars
  <2>1. UNCHANGED <<command, event, done, rows, stage, inDoubt>>
    BY <1>5 DEF Get, GetItems, GetOrder, GetFails, Close, Drained, vars
  <2>2. server' \in {"serving", "closing", "drained", "dead"}
    BY <1>0, <1>5 DEF Get, GetItems, GetOrder, GetFails, Close, Drained, vars, TableType
  <2> QED BY <1>4, <2>1, <2>2
<1>6. CASE Die
  <2>1. /\ UNCHANGED <<command, event, done, rows>> /\ server' = "dead"
        /\ \A q \in Request : stage'[q] = IF stage[q] = "tx" THEN "cut" ELSE stage[q]
        /\ \A q \in inDoubt' : q \in inDoubt \/ stage[q] = "tx"
    BY <1>6 DEF Die, InTx
  <2> QED BY <1>4, <2>1
<1> QED BY <1>1, <1>2, <1>3, <1>5, <1>6 DEF Next, Create

(* Only what passed validate and Envelope.Validate gets into the tables.   *)
THEOREM OnlyPassedStored == Spec => []AcceptInv
BY AcceptInit, AcceptStep, ServiceInvariance, PTL DEF Spec

(* What passed: a positive exact total.                                    *)
LEMMA PassedTotal ==
    ASSUME NEW c \in Command, validate(c) # Refused
    PROVE  /\ validate(c) = ExactTotal(c.items)
           /\ ExactTotal(c.items) \in 1 .. MaxInt64
<1>1. c.items \in Seq(Item)
  BY DEF Command
<1>2. c.items # << >> /\ validate(c) = TotalOf(c.items)
  BY DEF validate
<1>3. /\ validate(c) = ExactTotal(c.items)
      /\ ExactTotal(c.items) \in 0 .. MaxInt64 /\ ExactTotal(c.items) > 0
  BY <1>1, <1>2, TotalOfExact
<1>4. MaxInt64 \in Nat
  BY OrderModelAssumption
<1> HIDE DEF ExactTotal
<1> QED BY <1>3, <1>4

(* What a request asks for has the types of CreateCommand.                 *)
LEMMA CommandType == ASSUME ServiceType, NEW r \in Request PROVE command[r] \in Command
<1>1. NoCommand \in Command
  BY DEF NoCommand, Command
<1> QED BY <1>1, OrderServiceAssumption DEF ServiceType

(* The types of the service's state: a transaction's order has a positive  *)
(* total that fits an int64, and the tables hold rows of requests only.    *)
THEOREM TypeCorrect == Spec => []TypeOK
<1>1. ServiceInv /\ AcceptInv => TypeOK
  <2> SUFFICES ASSUME ServiceInv, AcceptInv PROVE TypeOK
    OBVIOUS
  <2>0. ServiceType /\ TableType /\ OnlyPassed
    BY DEF ServiceInv, AcceptInv
  <2>1. ASSUME NEW r \in Request PROVE done[r] \in 0 .. Statements(r)
    <3>1. Statements(r) \in Nat
      BY <2>0, StatementsType
    <3> HIDE DEF Statements
    <3> QED BY <2>0, <3>1 DEF TableType
  <2>2. ASSUME NEW r \in Request, stage[r] = "tx" PROVE event[r].total \in 1 .. MaxInt64
    <3>1. Passed(r)
      BY <2>0, <2>2 DEF OnlyPassed
    <3>2. validate(command[r]) # Refused /\ event[r].total = validate(command[r])
      BY <3>1 DEF Passed, Created
    <3> QED BY <2>0, <3>2, CommandType, PassedTotal
  <2> QED BY <2>0, <2>1, <2>2 DEF TypeOK, ServiceType, TableType
<1> QED BY <1>1, ServiceInvariance, OnlyPassedStored, PTL

(* The overflow guards of validate are exact for every command a client    *)
(* can send: a stored total is the sum in unbounded arithmetic, and a      *)
(* well-formed command is refused only if that sum does not fit.           *)
THEOREM TotalsExact == Spec => []TotalExact
<1>1. ServiceInv /\ AcceptInv => TotalExact
  <2> SUFFICES ASSUME ServiceInv, AcceptInv, NEW r \in Request
               PROVE  /\ Row(r, 1) \in rows => /\ event[r].total = ExactTotal(command[r].items)
                                               /\ ExactTotal(command[r].items) \in 1 .. MaxInt64
                      /\ stage[r] = "422" /\ WellFormed(command[r]) =>
                            ExactTotal(command[r].items) > MaxInt64
    BY DEF TotalExact
  <2>0. ServiceType /\ OnlyPassed /\ command[r] \in Command
    BY CommandType DEF ServiceInv, AcceptInv
  <2>1. ASSUME Row(r, 1) \in rows
        PROVE  /\ event[r].total = ExactTotal(command[r].items)
               /\ ExactTotal(command[r].items) \in 1 .. MaxInt64
    <3>1. Passed(r)
      BY <2>0, <2>1, RowFacts DEF OnlyPassed
    <3>2. validate(command[r]) # Refused /\ event[r].total = validate(command[r])
      BY <3>1 DEF Passed, Created
    <3> QED BY <2>0, <3>2, PassedTotal
  <2>2. ASSUME stage[r] = "422", WellFormed(command[r])
        PROVE  ExactTotal(command[r].items) > MaxInt64
    <3>1. validate(command[r]) = Refused
      BY <2>0, <2>2 DEF OnlyPassed
    <3>2. TotalOf(command[r].items) = Refused
      BY <2>2, <3>1 DEF validate, WellFormed
    <3>3. command[r].items \in Seq(Item)
      BY <2>0 DEF Command
    <3>4. Acceptable(command[r].items, Len(command[r].items))
      <4>1. DOMAIN command[r].items = 1 .. Len(command[r].items)
        BY <3>3
      <4> QED BY <2>2, <4>1 DEF WellFormed, Acceptable
    <3> QED BY <3>2, <3>3, <3>4, TotalOfExact
  <2> QED BY <2>1, <2>2
<1> QED BY <1>1, ServiceInvariance, OnlyPassedStored, PTL

(* What went into the outbox passes the checks of the publisher and of the *)
(* worker when it comes out, provided no request id that the middleware    *)
(* keeps grows past the limit when json.Marshal replaces the bytes of it   *)
(* that are no text.  Without that it need not, as a run shows.            *)
THEOREM EventsPublishable ==
    ASSUME \A header \in Headers :
               header.size <= MaxRequestID => header.size + 2 * header.raw <= MaxRequestID
    PROVE  Spec => []EventPublishable
<1>1. ASSUME NEW header \in Headers, EnvelopeValid(Created(NoCommand, RequestID(header)))
      PROVE  /\ RequestID(header) \in [size : Nat, raw : Nat]
             /\ RequestID(header).size + 2 * RequestID(header).raw \in 1 .. MaxRequestID
  <2>1. header.size \in Nat /\ header.raw \in Nat /\ header \in [size : Nat, raw : Nat]
    BY OrderServiceAssumption
  <2>2. UUIDSize \in Nat /\ UUIDSize \in 1 .. MaxRequestID /\ MaxRequestID \in Nat
    BY OrderModelAssumption
  <2>3. CASE header.size = 0 \/ header.size > MaxRequestID
    BY <2>2, <2>3 DEF RequestID
  <2>4. CASE header.size # 0 /\ header.size <= MaxRequestID
    BY <2>1, <2>2, <2>4 DEF RequestID
  <2> QED BY <2>1, <2>2, <2>3, <2>4
<1>2. ServiceInv /\ AcceptInv => EventPublishable
  <2> SUFFICES ASSUME ServiceInv, AcceptInv, NEW r \in Request, Row(r, Statements(r)) \in rows
               PROVE  EnvelopeValid(Stored(event[r])) /\ PayloadValid(Stored(event[r]))
    BY DEF EventPublishable
  <2>1. Passed(r)
    <3>1. Statements(r) \in Nat /\ Statements(r) >= 2
      <4>1. Len(command[r].items) \in Nat
        BY OrderServiceAssumption DEF ServiceInv, ServiceType, NoCommand, Command
      <4> QED BY <4>1 DEF Statements
    <3>2. Row(r, Statements(r)) \in Rows(r)
      <4> HIDE DEF Statements
      <4> QED BY <3>1 DEF Rows
    <3> QED BY <3>2 DEF AcceptInv, OnlyPassed
  <2>2. PICK header \in Headers : event[r] = Created(command[r], RequestID(header))
    BY <2>1 DEF Passed
  <2>3. EnvelopeValid(Created(NoCommand, RequestID(header)))
    BY <2>1, <2>2 DEF Passed, EnvelopeValid, Created
  <2>4. /\ Stored(event[r]).request_id.size = RequestID(header).size + 2 * RequestID(header).raw
        /\ Stored(event[r]).command = command[r]
        /\ Stored(event[r]).total = validate(command[r])
    BY <2>2 DEF Stored, Created
  <2>5. EnvelopeValid(Stored(event[r]))
    BY <1>1, <2>3, <2>4 DEF EnvelopeValid
  <2>6. PayloadValid(Stored(event[r]))
    BY <2>1, <2>4 DEF PayloadValid, Passed
  <2> QED BY <2>5, <2>6
<1> QED BY <1>2, ServiceInvariance, OnlyPassedStored, PTL
=============================================================================
