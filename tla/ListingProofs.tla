--------------------------- MODULE ListingProofs ---------------------------
(***************************************************************************)
(* Proofs about listings, for every base and width of a spelling, every    *)
(* range of coordinates, every page bound and any number of listers.       *)
(*                                                                         *)
(* The first half is about spelling: a name is the spelling of what it     *)
(* parses to, and a name that comes before another one spells a newer      *)
(* coordinate.  The second half is about pages: every name that has stayed *)
(* is in a page, among the entries that came, or behind the point where    *)
(* the backend goes on, and a disordered answer is noticed at the next     *)
(* entry that is looked at.                                                *)
(***************************************************************************)
EXTENDS Listing, WellFoundedInduction, TLAPS

-----------------------------------------------------------------------------
(* Least counterexamples. *)

Less == {pair \in Nat \X Nat : pair[1] < pair[2]}

\* The order of the naturals, as a relation, is well-founded.
LEMMA LessIsWellFounded == IsWellFoundedOn(Less, Nat)
  <1>1. OpToRel(<, Nat) = Less
    BY DEF OpToRel, Less
  <1> QED
    BY <1>1, NatLessThanWellFounded

\* A set of naturals has a least element.
LEMMA Least ==
    ASSUME NEW S, S \subseteq Nat, S # {}
    PROVE  \E x \in S : \A y \in S : x <= y
  <1>1. PICK x \in S : \A y \in S : ~(<<y, x>> \in Less)
    BY WFMin, LessIsWellFounded
  <1>2. ASSUME NEW y \in S PROVE x <= y
    <2>1. x \in Nat /\ y \in Nat /\ ~(<<y, x>> \in Less)
      BY <1>1
    <2> QED
      BY <2>1 DEF Less
  <1> QED
    BY <1>2

\* A set that holds 0 and the successor of each of its members holds 0 .. n.
LEMMA Induct ==
    ASSUME NEW n \in Nat, NEW T, 0 \in T,
           \A i \in 0 .. n - 1 : i \in T => i + 1 \in T
    PROVE  \A i \in 0 .. n : i \in T
  <1> DEFINE Bad == {i \in 0 .. n : i \notin T}
  <1> SUFFICES ASSUME Bad # {} PROVE FALSE
    OBVIOUS
  <1>1. Bad \subseteq Nat
    OBVIOUS
  <1>2. PICK i \in Bad : \A j \in Bad : i <= j
    BY <1>1, Least
  <1>3. i # 0 /\ i - 1 \in 0 .. n - 1
    BY <1>2
  <1>4. i - 1 \notin Bad
    BY <1>2, <1>3
  <1>5. (i - 1) + 1 = i
    BY <1>2
  <1> QED
    BY <1>2, <1>3, <1>4, <1>5

-----------------------------------------------------------------------------
(* Arithmetic of digits. *)

\* The constants are numbers.
LEMMA Constants ==
    /\ Base \in Nat /\ Base > 1
    /\ Width \in Nat /\ Width > 0
    /\ Top \in Nat /\ Top > 0
    /\ Shifted(Top, Width) = 0
  BY ListingAssumption

\* Division by the base.
LEMMA Euclid ==
    ASSUME NEW m \in Nat
    PROVE  /\ m \div Base \in Nat /\ m % Base \in 0 .. Base - 1
           /\ m = ((m \div Base) * Base) + (m % Base)
  BY Constants

\* One more digit does not change an order.
LEMMA DigitKeepsOrder ==
    ASSUME NEW u \in Nat, NEW v \in Nat, u < v,
           NEW x \in 0 .. Base - 1, NEW y \in 0 .. Base - 1
    PROVE  (u * Base) + x < (v * Base) + y
  BY Constants

\* One more digit makes a number.
LEMMA DigitType ==
    ASSUME NEW u \in Nat, NEW x \in 0 .. Base - 1
    PROVE  (u * Base) + x \in Nat
  BY Constants

\* Division by the base keeps the order.
LEMMA DivisionKeepsOrder ==
    ASSUME NEW a \in Nat, NEW b \in Nat, a <= b
    PROVE  a \div Base <= b \div Base
  <1> DEFINE u == a \div Base  v == b \div Base  x == a % Base  y == b % Base
  <1>1. /\ u \in Nat /\ v \in Nat /\ x \in 0 .. Base - 1 /\ y \in 0 .. Base - 1
        /\ a = (u * Base) + x /\ b = (v * Base) + y
    BY Euclid
  <1> HIDE DEF u, v, x, y
  <1>2. v < u => b < a
    BY <1>1, DigitKeepsOrder
  <1>3. ~(v < u)
    BY <1>2
  <1>4. u <= v
    BY <1>1, <1>3
  <1> QED
    BY <1>4 DEF u, v

-----------------------------------------------------------------------------
(* Recursive definitions. *)

IsLeft(f, n, places) ==
    f = [i \in 0 .. places |-> IF i = 0 THEN n ELSE f[i - 1] \div Base]
IsSum(f, digits, length) ==
    f = [i \in 0 .. length |-> IF i = 0 THEN 0 ELSE f[i - 1] * Base + digits[i]]

\* What is left is defined for any number of places.
LEMMA LeftExists ==
    ASSUME NEW n \in Nat, NEW places \in Nat
    PROVE  \E f : IsLeft(f, n, places)
  <1> DEFINE T == {k \in Nat : \E f : IsLeft(f, n, k)}
  <1>1. 0 \in T
    <2> DEFINE f == [i \in 0 .. 0 |-> n]
    <2>1. IsLeft(f, n, 0)
      BY DEF IsLeft
    <2> QED
      BY <2>1
  <1>2. ASSUME NEW k \in 0 .. places - 1, k \in T PROVE k + 1 \in T
    <2>1. k \in Nat /\ k + 1 \in Nat /\ (k + 1) - 1 = k
      OBVIOUS
    <2>2. PICK g : IsLeft(g, n, k)
      BY <1>2
    <2> DEFINE f == [i \in 0 .. k + 1 |-> IF i = k + 1 THEN g[k] \div Base ELSE g[i]]
    <2>3. \A i \in 0 .. k + 1 : f[i] = IF i = 0 THEN n ELSE f[i - 1] \div Base
      BY <2>1, <2>2 DEF IsLeft
    <2>4. IsLeft(f, n, k + 1)
      BY <2>3 DEF IsLeft
    <2> QED
      BY <2>1, <2>4
  <1> HIDE DEF T
  <1>3. places \in T
    BY <1>1, <1>2, Induct
  <1> QED
    BY <1>3 DEF T

\* So is the sum of digits.
LEMMA SumExists ==
    ASSUME NEW digits, NEW length \in Nat
    PROVE  \E f : IsSum(f, digits, length)
  <1> DEFINE T == {k \in Nat : \E f : IsSum(f, digits, k)}
  <1>1. 0 \in T
    <2> DEFINE f == [i \in 0 .. 0 |-> 0]
    <2>1. IsSum(f, digits, 0)
      BY DEF IsSum
    <2> QED
      BY <2>1
  <1>2. ASSUME NEW k \in 0 .. length - 1, k \in T PROVE k + 1 \in T
    <2>1. k \in Nat /\ k + 1 \in Nat /\ (k + 1) - 1 = k
      OBVIOUS
    <2>2. PICK g : IsSum(g, digits, k)
      BY <1>2
    <2> DEFINE f == [i \in 0 .. k + 1 |-> IF i = k + 1 THEN g[k] * Base + digits[k + 1] ELSE g[i]]
    <2>3. \A i \in 0 .. k + 1 : f[i] = IF i = 0 THEN 0 ELSE f[i - 1] * Base + digits[i]
      BY <2>1, <2>2 DEF IsSum
    <2>4. IsSum(f, digits, k + 1)
      BY <2>3 DEF IsSum
    <2> QED
      BY <2>1, <2>4
  <1> HIDE DEF T
  <1>3. length \in T
    BY <1>1, <1>2, Induct
  <1> QED
    BY <1>3 DEF T

\* Every prefix of what is left has the same values.
LEMMA ShiftedIs ==
    ASSUME NEW n \in Nat, NEW places \in Nat
    PROVE  \E f : /\ IsLeft(f, n, places)
                  /\ \A i \in 0 .. places : f[i] \in Nat /\ Shifted(n, i) = f[i]
  <1>1. PICK f : IsLeft(f, n, places)
    BY LeftExists
  <1>2. /\ f[0] = n
        /\ \A i \in 0 .. places - 1 : f[i + 1] = f[i] \div Base
    BY <1>1 DEF IsLeft
  <1>3. ASSUME NEW i \in 0 .. places PROVE f[i] \in Nat /\ Shifted(n, i) = f[i]
    <2>1. PICK g : IsLeft(g, n, i) /\ Shifted(n, i) = g[i]
      <3>1. \E g : IsLeft(g, n, i)
        BY LeftExists
      <3> QED
        BY <3>1 DEF IsLeft, Shifted
    <2>2. /\ g[0] = n
          /\ \A j \in 0 .. i - 1 : g[j + 1] = g[j] \div Base
      BY <2>1 DEF IsLeft
    <2> DEFINE T == {j \in 0 .. i : f[j] = g[j] /\ f[j] \in Nat}
    <2>3. 0 \in T
      BY <1>2, <2>2
    <2>4. ASSUME NEW j \in 0 .. i - 1, j \in T PROVE j + 1 \in T
      <3>1. f[j] = g[j] /\ f[j] \in Nat /\ j \in 0 .. places - 1 /\ j + 1 \in 0 .. i
        BY <2>4
      <3>2. f[j] \div Base \in Nat
        BY <3>1, Euclid
      <3> QED
        BY <1>2, <2>2, <3>1, <3>2
    <2> HIDE DEF T
    <2>5. i \in T
      BY <2>3, <2>4, Induct
    <2> QED
      BY <2>1, <2>5 DEF T
  <1> QED
    BY <1>1, <1>3

\* A number without digits taken away, and with one more of them.
LEMMA ShiftedSteps ==
    ASSUME NEW n \in Nat, NEW places \in Nat
    PROVE  /\ Shifted(n, 0) = n
           /\ Shifted(n, places) \in Nat
           /\ Shifted(n, places + 1) = Shifted(n, places) \div Base
  <1>1. PICK f : /\ IsLeft(f, n, places + 1)
                 /\ \A i \in 0 .. places + 1 : f[i] \in Nat /\ Shifted(n, i) = f[i]
    <2>1. places + 1 \in Nat
      OBVIOUS
    <2> QED
      BY <2>1, ShiftedIs
  <1>2. f[0] = n /\ f[places + 1] = f[places] \div Base
    BY <1>1 DEF IsLeft
  <1> QED
    BY <1>1, <1>2

\* Smaller numbers leave less.
LEMMA ShiftedKeepsOrder ==
    ASSUME NEW m \in Nat, NEW n \in Nat, m <= n, NEW places \in Nat
    PROVE  Shifted(m, places) <= Shifted(n, places)
  <1> DEFINE T == {i \in Nat : Shifted(m, i) <= Shifted(n, i)}
  <1>1. 0 \in T
    BY ShiftedSteps
  <1>2. ASSUME NEW i \in 0 .. places - 1, i \in T PROVE i + 1 \in T
    <2>1. i \in Nat /\ i + 1 \in Nat
      OBVIOUS
    <2>2. /\ Shifted(m, i) \in Nat /\ Shifted(m, i + 1) = Shifted(m, i) \div Base
          /\ Shifted(n, i) \in Nat /\ Shifted(n, i + 1) = Shifted(n, i) \div Base
      BY <2>1, ShiftedSteps
    <2>3. Shifted(m, i) \div Base <= Shifted(n, i) \div Base
      BY <1>2, <2>2, DivisionKeepsOrder
    <2> QED
      BY <2>1, <2>2, <2>3
  <1> HIDE DEF T
  <1>3. places \in T
    BY <1>1, <1>2, Induct
  <1> QED
    BY <1>3 DEF T

\* Digits add up to a number.
LEMMA ValueIs ==
    ASSUME NEW digits \in Seq(0 .. Base - 1)
    PROVE  \E f : /\ f[0] = 0 /\ Value(digits) = f[Len(digits)]
                  /\ \A i \in 0 .. Len(digits) : f[i] \in Nat
                  /\ \A i \in 0 .. Len(digits) - 1 : f[i + 1] = (f[i] * Base) + digits[i + 1]
  <1> DEFINE n == Len(digits)
  <1>1. n \in Nat /\ \A i \in 1 .. n : digits[i] \in 0 .. Base - 1
    BY Constants
  <1>2. PICK f : IsSum(f, digits, n) /\ Value(digits) = f[n]
    <2>1. \E f : IsSum(f, digits, n)
      BY <1>1, SumExists
    <2> QED
      BY <2>1 DEF IsSum, Value
  <1> HIDE DEF n
  <1>3. /\ f[0] = 0
        /\ \A i \in 0 .. n - 1 : f[i + 1] = (f[i] * Base) + digits[i + 1]
    BY <1>1, <1>2 DEF IsSum
  <1> DEFINE T == {i \in 0 .. n : f[i] \in Nat}
  <1>4. 0 \in T
    BY <1>1, <1>3
  <1>5. ASSUME NEW i \in 0 .. n - 1, i \in T PROVE i + 1 \in T
    <2>1. f[i] \in Nat /\ i + 1 \in 1 .. n /\ i + 1 \in 0 .. n
      BY <1>1, <1>5
    <2>2. (f[i] * Base) + digits[i + 1] \in Nat
      BY <1>1, <2>1, DigitType
    <2> QED
      BY <1>3, <2>1, <2>2
  <1> HIDE DEF T
  <1>6. \A i \in 0 .. n : i \in T
    BY <1>1, <1>4, <1>5, Induct
  <1> QED
    BY <1>2, <1>3, <1>6 DEF T, n

-----------------------------------------------------------------------------
(* Spelling and order. *)

Words == Seq(0 .. Base - 1)

\* A word is a sequence of numbers.
LEMMA WordType ==
    ASSUME NEW a \in Words
    PROVE  Len(a) \in Nat /\ \A j \in 1 .. Len(a) : a[j] \in Nat /\ a[j] \in 0 .. Base - 1
  BY Constants DEF Words

\* The digits of a number.
LEMMA DigitsType ==
    ASSUME NEW n \in Nat
    PROVE  /\ Digits(n) \in Keys /\ Len(Digits(n)) = Width
           /\ \A i \in 1 .. Width : Digits(n)[i] = Shifted(n, Width - i) % Base
  <1>1. ASSUME NEW i \in 1 .. Width PROVE Shifted(n, Width - i) % Base \in 0 .. Base - 1
    <2>1. Width - i \in Nat
      BY Constants
    <2> QED
      BY <2>1, ShiftedSteps, Euclid
  <1>2. Digits(n) \in [1 .. Width -> 0 .. Base - 1]
    BY <1>1 DEF Digits
  <1>3. Digits(n) \in Seq(0 .. Base - 1) /\ Len(Digits(n)) = Width
    BY <1>2, Constants
  <1>4. Digits(n) # <<>>
    BY <1>3, Constants
  <1> QED
    BY <1>3, <1>4 DEF Digits, Keys, NoName

\* Reading the digits of a coordinate's complement gives it back: the first of
\* them are what is left when the others are taken away.
LEMMA ValueOfDigits ==
    ASSUME NEW n \in 0 .. Top
    PROVE  Value(Digits(n)) = n
  <1> DEFINE d == Digits(n)
  <1>1. n \in Nat /\ n <= Top /\ Width \in Nat
    BY Constants
  <1>2. d \in Seq(0 .. Base - 1) /\ Len(d) = Width
        /\ \A i \in 1 .. Width : d[i] = Shifted(n, Width - i) % Base
    BY <1>1, DigitsType DEF Keys
  <1> HIDE DEF d
  <1>3. PICK f : /\ f[0] = 0 /\ Value(d) = f[Width]
                 /\ \A i \in 0 .. Width - 1 : f[i + 1] = (f[i] * Base) + d[i + 1]
    BY <1>2, ValueIs
  <1> DEFINE T == {i \in 0 .. Width : f[i] = Shifted(n, Width - i)}
  <1>4. 0 \in T
    <2>1. Shifted(n, Width) <= 0 /\ Shifted(n, Width) \in Nat
      BY <1>1, Constants, ShiftedSteps, ShiftedKeepsOrder
    <2>2. Shifted(n, Width) = 0 /\ Width - 0 = Width /\ 0 \in 0 .. Width
      BY <1>1, <2>1
    <2> QED
      BY <1>3, <2>2
  <1>5. ASSUME NEW i \in 0 .. Width - 1, i \in T PROVE i + 1 \in T
    <2> DEFINE p == Width - (i + 1)
    <2>1. p \in Nat /\ Width - i = p + 1 /\ i + 1 \in 1 .. Width /\ i + 1 \in 0 .. Width
      BY <1>1
    <2>2. Shifted(n, p) \in Nat /\ Shifted(n, p + 1) = Shifted(n, p) \div Base
      BY <1>1, <2>1, ShiftedSteps
    <2>3. f[i] = Shifted(n, p) \div Base
      BY <1>5, <2>1, <2>2
    <2>4. d[i + 1] = Shifted(n, p) % Base
      BY <1>2, <2>1
    <2>5. f[i + 1] = Shifted(n, p)
      BY <1>3, <2>2, <2>3, <2>4, Euclid
    <2> QED
      BY <2>1, <2>5
  <1> HIDE DEF T
  <1>6. Width \in T
    BY <1>1, <1>4, <1>5, Induct
  <1>7. f[Width] = Shifted(n, 0)
    BY <1>1, <1>6 DEF T
  <1> QED
    BY <1>1, <1>3, <1>7, ShiftedSteps DEF d

\* A coordinate's name parses to it.
LEMMA ParseOfSpelling ==
    ASSUME NEW n \in Coordinates
    PROVE  Spell(n) \in Keys /\ Parse(Spell(n)) = n
  <1>1. Top - n \in 0 .. Top /\ Top - n \in Nat /\ Top - (Top - n) = n
    BY Constants DEF Coordinates
  <1>2. Value(Spell(n)) = Top - n
    BY <1>1, ValueOfDigits DEF Spell
  <1>3. Spell(n) \in Keys /\ Len(Spell(n)) = Width
    BY <1>1, DigitsType DEF Spell
  <1>4. Top - n <= Top
    BY <1>1, Constants
  <1> QED
    BY <1>1, <1>2, <1>3, <1>4 DEF Parse

\* The order of names is transitive.
LEMMA BeforeTransitive ==
    ASSUME NEW a \in Words, NEW b \in Words, NEW c \in Words, Before(a, b), Before(b, c)
    PROVE  Before(a, c)
  <1>1. PICK i \in 1 .. Len(b) :
          /\ \A j \in 1 .. i - 1 : j <= Len(a) /\ a[j] = b[j]
          /\ i > Len(a) \/ a[i] < b[i]
    BY DEF Before
  <1>2. PICK k \in 1 .. Len(c) :
          /\ \A j \in 1 .. k - 1 : j <= Len(b) /\ b[j] = c[j]
          /\ k > Len(b) \/ b[k] < c[k]
    BY DEF Before
  <1>3. /\ Len(a) \in Nat /\ Len(b) \in Nat /\ Len(c) \in Nat
        /\ \A j \in 1 .. Len(a) : a[j] \in Nat
        /\ \A j \in 1 .. Len(b) : b[j] \in Nat
        /\ \A j \in 1 .. Len(c) : c[j] \in Nat
    BY WordType
  <1>4. CASE i < k
    <2>1. i \in 1 .. Len(c) /\ b[i] = c[i] /\ i <= Len(b)
      BY <1>2, <1>3, <1>4
    <2>2. \A j \in 1 .. i - 1 : j <= Len(a) /\ a[j] = c[j]
      BY <1>1, <1>2, <1>3, <1>4
    <2> QED
      BY <1>1, <2>1, <2>2 DEF Before
  <1>5. CASE i = k
    <2>1. \A j \in 1 .. k - 1 : j <= Len(a) /\ a[j] = c[j]
      BY <1>1, <1>2, <1>3, <1>5
    <2>2. k > Len(a) \/ a[k] < c[k]
      BY <1>1, <1>2, <1>3, <1>5
    <2> QED
      BY <2>1, <2>2 DEF Before
  <1>6. CASE i > k
    <2>1. \A j \in 1 .. k - 1 : j <= Len(a) /\ a[j] = c[j]
      BY <1>1, <1>2, <1>3, <1>6
    <2>2. k <= Len(a) /\ a[k] = b[k] /\ b[k] < c[k]
      BY <1>1, <1>2, <1>3, <1>6
    <2> QED
      BY <2>1, <2>2 DEF Before
  <1> QED
    BY <1>3, <1>4, <1>5, <1>6

\* No name comes before itself, or both before and after another one.
LEMMA BeforeIsStrict ==
    ASSUME NEW a \in Words, NEW b \in Words
    PROVE  ~Before(a, a) /\ ~(Before(a, b) /\ Before(b, a))
  <1>1. ~Before(a, a)
    <2>1. /\ Len(a) \in Nat /\ \A j \in 1 .. Len(a) : a[j] \in Nat
      BY WordType
    <2> QED
      BY <2>1 DEF Before
  <1> QED
    BY <1>1, BeforeTransitive

\* The empty name comes before every key.
LEMMA NoNameIsFirst ==
    ASSUME NEW a \in Keys
    PROVE  Before(NoName, a)
  <1>1. a \in Seq(0 .. Base - 1) /\ a # <<>>
    BY DEF Keys, NoName
  <1>2. Len(a) \in Nat /\ Len(a) # 0
    BY <1>1
  <1>3. 1 \in 1 .. Len(a) /\ Len(<<>>) = 0
    BY <1>2
  <1> QED
    BY <1>3 DEF Before, NoName

\* Of two names of one width the smaller one has the smaller value: from the
\* first digit that differs on, the prefixes differ in value.
LEMMA OrderOfValues ==
    ASSUME NEW a \in Words, NEW b \in Words, Len(a) = Width, Len(b) = Width, Before(a, b)
    PROVE  Value(a) < Value(b)
  <1>0. /\ Width \in Nat
        /\ \A j \in 1 .. Width : a[j] \in 0 .. Base - 1 /\ b[j] \in 0 .. Base - 1
    BY Constants, WordType
  <1>1. PICK k \in 1 .. Width :
          /\ \A j \in 1 .. k - 1 : a[j] = b[j]
          /\ a[k] < b[k]
    BY <1>0 DEF Before
  <1>2. PICK f : /\ f[0] = 0 /\ Value(a) = f[Width]
                 /\ \A i \in 0 .. Width : f[i] \in Nat
                 /\ \A i \in 0 .. Width - 1 : f[i + 1] = (f[i] * Base) + a[i + 1]
    BY ValueIs DEF Words
  <1>3. PICK g : /\ g[0] = 0 /\ Value(b) = g[Width]
                 /\ \A i \in 0 .. Width : g[i] \in Nat
                 /\ \A i \in 0 .. Width - 1 : g[i + 1] = (g[i] * Base) + b[i + 1]
    BY ValueIs DEF Words
  <1> DEFINE T == {i \in 0 .. Width : (i < k => f[i] = g[i]) /\ (i >= k => f[i] < g[i])}
  <1>4. 0 \in T
    BY <1>0, <1>2, <1>3
  <1>5. ASSUME NEW i \in 0 .. Width - 1, i \in T PROVE i + 1 \in T
    <2>1. /\ i + 1 \in 1 .. Width /\ i + 1 \in 0 .. Width /\ i \in 0 .. Width
          /\ f[i] \in Nat /\ g[i] \in Nat
          /\ f[i + 1] = (f[i] * Base) + a[i + 1] /\ g[i + 1] = (g[i] * Base) + b[i + 1]
          /\ a[i + 1] \in 0 .. Base - 1 /\ b[i + 1] \in 0 .. Base - 1
      BY <1>0, <1>2, <1>3
    <2>2. CASE i + 1 < k
      <3>1. f[i] = g[i] /\ a[i + 1] = b[i + 1]
        BY <1>1, <1>5, <2>1, <2>2
      <3> QED
        BY <2>1, <2>2, <3>1
    <2>3. CASE i + 1 = k
      <3>1. f[i] = g[i] /\ a[i + 1] < b[i + 1]
        BY <1>1, <1>5, <2>1, <2>3
      <3>2. f[i] * Base \in Nat
        BY <2>1, Constants
      <3>3. f[i + 1] < g[i + 1]
        BY <2>1, <3>1, <3>2, Constants
      <3> QED
        BY <2>1, <2>3, <3>3
    <2>4. CASE i + 1 > k
      <3>1. f[i] < g[i]
        BY <1>5, <2>1, <2>4
      <3>2. f[i + 1] < g[i + 1]
        BY <2>1, <3>1, DigitKeepsOrder
      <3> QED
        BY <2>1, <2>4, <3>2
    <2> QED
      BY <2>1, <2>2, <2>3, <2>4
  <1> HIDE DEF T
  <1>6. Width \in T
    <2>1. Width \in Nat /\ Width \in 0 .. Width
      BY <1>0
    <2>2. \A i \in 0 .. Width - 1 : i \in T => i + 1 \in T
      BY <1>5
    <2> QED
      BY <1>4, <2>1, <2>2, Induct
  <1> QED
    BY <1>0, <1>1, <1>2, <1>3, <1>6 DEF T

\* A key in front of a coordinate's name spells a newer coordinate.
LEMMA FrontIsNewer ==
    ASSUME NEW key \in Keys, Parse(key) # 0, NEW n \in Coordinates,
           key = Spell(n) \/ Before(key, Spell(n))
    PROVE  n <= Parse(key)
  <1>1. CASE key = Spell(n)
    BY <1>1, ParseOfSpelling DEF Coordinates
  <1>2. CASE Before(key, Spell(n))
    <2>1. key \in Words /\ Len(key) = Width /\ Parse(key) = Top - Value(key)
      BY DEF Parse, Keys, Words
    <2>2. Top - n \in 0 .. Top /\ Top - n \in Nat
      BY Constants DEF Coordinates
    <2>3. Spell(n) \in Words /\ Len(Spell(n)) = Width /\ Value(Spell(n)) = Top - n
      BY <2>2, DigitsType, ValueOfDigits DEF Spell, Keys, Words
    <2>4. Value(key) < Top - n
      BY <1>2, <2>1, <2>3, OrderOfValues
    <2>5. Value(key) \in Nat
      <3>1. PICK f : Value(key) = f[Len(key)] /\ \A i \in 0 .. Len(key) : f[i] \in Nat
        BY <2>1, ValueIs DEF Words
      <3> QED
        BY <2>1, <3>1, Constants
    <2> QED
      BY <2>1, <2>2, <2>4, <2>5, Constants DEF Coordinates
  <1> QED
    BY <1>1, <1>2

\* Of two different names of one width one comes before the other.
LEMMA BeforeIsTotal ==
    ASSUME NEW a \in Words, NEW b \in Words, Len(a) = Len(b), a # b
    PROVE  Before(a, b) \/ Before(b, a)
  <1>1. /\ Len(a) \in Nat
        /\ \A j \in 1 .. Len(a) : a[j] \in Nat /\ b[j] \in Nat
    BY WordType
  <1> DEFINE D == {j \in 1 .. Len(a) : a[j] # b[j]}
  <1>2. D \subseteq Nat /\ D # {}
    BY <1>1 DEF Words
  <1>3. PICK i \in D : \A j \in D : i <= j
    BY <1>2, Least
  <1>4. i \in 1 .. Len(a) /\ (a[i] < b[i] \/ b[i] < a[i])
    BY <1>1, <1>3
  <1>5. \A j \in 1 .. i - 1 : j <= Len(a) /\ a[j] = b[j]
    BY <1>1, <1>3
  <1> QED
    BY <1>4, <1>5 DEF Before

\* ReverseOrdinal and parse_key: a coordinate's key parses to it, and newer
\* coordinates have the smaller keys, whatever the base and the width.  The
\* newest coordinate is the first key of its namespace because of this.
THEOREM SpellingReversesOrder ==
    /\ \A n \in Coordinates : Parse(Spell(n)) = n
    /\ \A m, n \in Coordinates : Before(Spell(m), Spell(n)) <=> m > n
  <1>1. ASSUME NEW m \in Coordinates, NEW n \in Coordinates, Before(Spell(m), Spell(n))
        PROVE  m > n
    <2>1. Parse(Spell(m)) = m /\ Spell(m) \in Keys /\ Spell(m) \in Words
      BY ParseOfSpelling DEF Keys, Words
    <2>2. n <= m
      BY <1>1, <2>1, FrontIsNewer DEF Coordinates
    <2>3. n # m
      BY <1>1, <2>1, BeforeIsStrict
    <2> QED
      BY <2>2, <2>3 DEF Coordinates
  <1>2. ASSUME NEW m \in Coordinates, NEW n \in Coordinates, m > n
        PROVE  Before(Spell(m), Spell(n))
    <2>1. Spell(m) # Spell(n)
      BY <1>2, ParseOfSpelling DEF Coordinates
    <2>2. Top - m \in Nat /\ Top - n \in Nat
      BY Constants DEF Coordinates
    <2>3. Spell(m) \in Words /\ Spell(n) \in Words /\ Len(Spell(m)) = Len(Spell(n))
      BY <2>2, DigitsType DEF Spell, Keys, Words
    <2>4. ~Before(Spell(n), Spell(m))
      BY <1>1, <1>2 DEF Coordinates
    <2> QED
      BY <2>1, <2>3, <2>4, BeforeIsTotal
  <1> QED
    BY <1>1, <1>2, ParseOfSpelling

-----------------------------------------------------------------------------
(* The inductive invariant. *)

Results == {"none", "Retryable", "Newest", "Empty", "Scanned", "Contradiction"}

ListType ==
    [at : {"idle", "listing"}, op : {"none", "newest", "scan"}, keys_max : Nat,
     start : Words, page : Seq(Keys), stream : Seq(Seq(Nat)), position : Words,
     ended : BOOLEAN, faulted : BOOLEAN, steady : SUBSET Keys, all : Seq(Keys),
     newest : Nat, result : Results]

Elements(s) == {s[i] : i \in 1 .. Len(s)}

\* The name of a coordinate, or a stray that nobody will collect.
Foreign(name, there) == name \in there /\ name \in Strays /\ Parse(name) = 0
Known(name, there) == name \in Keys /\ (Parse(name) # 0 \/ Foreign(name, there))

\* a comes before b or is b.
Within(a, b) == a = b \/ Before(a, b)

\* The pages so far are in order.
PageInv(x, there) ==
    /\ x.result = "none"
    /\ x.op \in {"newest", "scan"}
    /\ x.op = "newest" => x.keys_max = 1 /\ x.all = <<>>
    /\ x.keys_max > 0
    /\ Ascends(x.all) /\ Ascends(x.page)
    /\ \A i \in 1 .. Len(x.all) : Within(x.all[i], x.start)
    /\ \A i \in 1 .. Len(x.page) : Before(x.start, x.page[i])
    /\ Len(x.page) <= x.keys_max
    /\ x.steady \subseteq there

\* What came follows the page, and what has stayed is somewhere.
CleanInv(x, there) ==
    /\ \A i \in 1 .. Len(x.page) : Known(x.page[i], there)
    /\ Ascends(x.stream)
    /\ \A i \in 1 .. Len(x.stream) : Known(x.stream[i], there) /\ Before(Previous(x), x.stream[i])
    /\ x.stream # <<>> => Last(x.stream) = Resume(x)
    /\ Within(Previous(x), Resume(x))
    /\ x.ended => x.stream = <<>>
    /\ \A name \in x.steady :
         \/ name \in Elements(x.all) \/ name \in Elements(x.page) \/ name \in Elements(x.stream)
         \/ ~x.ended /\ Before(Resume(x), name)

\* A disordered answer is about to be noticed.
DoomedInv(x) ==
    /\ x.stream # <<>> /\ ~x.ended
    /\ \/ ~Canonical(x.stream[1])
       \/ /\ x.page = <<>> /\ Len(x.stream) > 1
          /\ x.stream[1] \in Keys /\ x.stream[2] \in Keys
          /\ Before(x.stream[2], x.stream[1])
       \/ /\ x.page # <<>> /\ x.stream[1] \in Keys
          /\ Before(x.stream[1], Last(x.page))

ResultInv(x, there) ==
    /\ x.result = "Newest" => \A n \in Written(x.steady) : n <= x.newest
    /\ x.result = "Empty" => Written(x.steady) = {}
    /\ x.result = "Scanned" => x.steady \subseteq Elements(x.all) /\ Ascends(x.all)
    /\ x.result = "Contradiction" => x.faulted \/ \E name \in there : Foreign(name, there)

ListInv(x, there) ==
    /\ x \in ListType
    /\ x.at = "listing" => PageInv(x, there)
    /\ x.at = "listing" /\ ~x.faulted => CleanInv(x, there)
    /\ x.at = "listing" /\ x.faulted => DoomedInv(x)
    /\ ResultInv(x, there)

Invariant ==
    /\ \A name \in names : Known(name, names)
    /\ list \in [Listers -> ListType]
    /\ \A l \in Listers : ListInv(list[l], names)

-----------------------------------------------------------------------------
(* Sequences of keys. *)

\* Keys are words, and words are sequences of numbers.
LEMMA KeysAreWords ==
    ASSUME NEW a \in Keys
    PROVE  a \in Words /\ a \in Seq(Nat) /\ a # NoName /\ Canonical(a)
  <1>1. a \in Words /\ a # NoName
    BY DEF Keys, Words
  <1>2. Canonical(a)
    BY <1>1, WordType DEF Canonical
  <1>3. a \in Seq(Nat)
    BY <1>1, Constants DEF Words
  <1> QED
    BY <1>1, <1>2, <1>3

\* Known names are keys.
LEMMA KnownIsKey ==
    ASSUME NEW there, NEW name, Known(name, there)
    PROVE  name \in Keys /\ name \in Words
  BY KeysAreWords DEF Known

\* The order of names, with equality.
LEMMA WithinTransitive ==
    ASSUME NEW a \in Words, NEW b \in Words, NEW c \in Words, Within(a, b)
    PROVE  /\ Before(b, c) => Before(a, c)
           /\ Within(b, c) => Within(a, c)
  BY BeforeTransitive DEF Within

\* The empty sequence.
LEMMA EmptyLength ==
    ASSUME NEW S, NEW s \in Seq(S)
    PROVE  s = <<>> <=> Len(s) = 0
  OBVIOUS

\* An answer of the backend.
LEMMA AnswerType ==
    ASSUME NEW rest, NEW entries \in Answers(rest)
    PROVE  /\ entries \in Seq(rest) /\ Len(entries) \in Nat /\ Ascends(entries)
           /\ \A i \in 1 .. Len(entries) : entries[i] \in rest
           /\ \A name \in rest : \/ name \in Elements(entries)
                                 \/ entries # <<>> /\ Before(Last(entries), name)
  <1>1. PICK n \in 0 .. BackendMax : entries \in [1 .. n -> rest]
    BY DEF Answers
  <1>2. n \in Nat
    BY <1>1, ListingAssumption
  <1>3. entries \in Seq(rest) /\ Len(entries) = n
    BY <1>1, <1>2
  <1>4. Range(entries) = Elements(entries)
    BY <1>1, <1>3 DEF Range, Elements
  <1> QED
    BY <1>2, <1>3, <1>4 DEF Answers

\* One more key behind a page.
LEMMA AppendFacts ==
    ASSUME NEW S, NEW s \in Seq(S), NEW e \in S
    PROVE  /\ Append(s, e) \in Seq(S) /\ Len(s) \in Nat /\ Len(Append(s, e)) = Len(s) + 1
           /\ Append(s, e) # <<>> /\ Last(Append(s, e)) = e
           /\ \A i \in 1 .. Len(s) : Append(s, e)[i] = s[i]
           /\ Append(s, e)[Len(s) + 1] = e
           /\ \A z : z \in Elements(Append(s, e)) <=> z = e \/ z \in Elements(s)
  <1>1. /\ Append(s, e) \in Seq(S) /\ Len(s) \in Nat /\ Len(Append(s, e)) = Len(s) + 1
        /\ \A i \in 1 .. Len(s) : Append(s, e)[i] = s[i]
        /\ Append(s, e)[Len(s) + 1] = e
    OBVIOUS
  <1> DEFINE t == Append(s, e)
  <1>2. t # <<>>
    BY <1>1
  <1> HIDE DEF t
  <1>3. \A z : z \in Elements(t) <=> z = e \/ z \in Elements(s)
    BY <1>1 DEF Elements, t
  <1> QED
    BY <1>1, <1>2, <1>3 DEF Last, t

\* The end of a page with one more key.
LEMMA AppendEnd ==
    ASSUME NEW s \in Seq(Keys), NEW e \in Keys, NEW t, t = Append(s, e)
    PROVE  t \in Seq(Keys) /\ t # <<>> /\ Last(t) = e
  <1>1. t \in Seq(Keys) /\ Len(s) \in Nat /\ Len(t) = Len(s) + 1 /\ t[Len(s) + 1] = e
    BY AppendFacts
  <1>2. t # <<>>
    BY <1>1, EmptyLength
  <1> QED
    BY <1>1, <1>2 DEF Last

\* The stream without its first entry.
LEMMA TailFacts ==
    ASSUME NEW S, NEW s \in Seq(S), s # <<>>
    PROVE  /\ Len(s) \in Nat /\ Len(s) > 0 /\ Head(s) = s[1] /\ s[1] \in S
           /\ Tail(s) \in Seq(S) /\ Len(Tail(s)) = Len(s) - 1
           /\ \A i \in 1 .. Len(s) - 1 : Tail(s)[i] = s[i + 1]
           /\ Tail(s) # <<>> => Last(Tail(s)) = Last(s) /\ Len(s) > 1
           /\ Tail(s) = <<>> => Len(s) = 1
           /\ \A z : z \in Elements(s) <=> z = s[1] \/ z \in Elements(Tail(s))
  <1>1. /\ Len(s) \in Nat /\ Len(s) > 0 /\ Head(s) = s[1] /\ s[1] \in S
        /\ Tail(s) \in Seq(S) /\ Len(Tail(s)) = Len(s) - 1
        /\ \A i \in 1 .. Len(s) - 1 : Tail(s)[i] = s[i + 1]
    OBVIOUS
  <1> DEFINE t == Tail(s)
  <1>0. t \in Seq(S) /\ Len(t) = Len(s) - 1
    BY <1>1
  <1> HIDE DEF t
  <1>2. t = <<>> <=> Len(s) = 1
    <2>1. t = <<>> <=> Len(t) = 0
      BY <1>0, EmptyLength
    <2> QED
      BY <1>0, <1>1, <2>1
  <1>3. \A z : z \in Elements(s) <=> z = s[1] \/ z \in Elements(t)
    <2>1. ASSUME NEW i \in 1 .. Len(s), i # 1 PROVE s[i] \in Elements(t)
      <3>1. i - 1 \in 1 .. Len(s) - 1 /\ t[i - 1] = s[i]
        BY <1>1, <2>1 DEF t
      <3> QED
        BY <1>1, <3>1 DEF Elements, t
    <2>2. ASSUME NEW i \in 1 .. Len(t) PROVE t[i] \in Elements(s)
      BY <1>1, <2>2 DEF Elements, t
    <2> QED
      BY <1>1, <2>1, <2>2 DEF Elements
  <1>4. Len(s) > 1 => Last(t) = Last(s)
    BY <1>1 DEF Last, t
  <1> QED
    BY <1>1, <1>2, <1>3, <1>4 DEF t

\* The first key of a page.
LEMMA HeadFacts ==
    ASSUME NEW s \in Seq(Keys), s # <<>>
    PROVE  Head(s) = s[1] /\ s[1] \in Keys /\ Len(s) > 0 /\ Len(s) \in Nat
  OBVIOUS

\* A page behind the pages before it.
LEMMA ConcatFacts ==
    ASSUME NEW s \in Seq(Keys), NEW t \in Seq(Keys), NEW c, c = s \o t
    PROVE  /\ c \in Seq(Keys) /\ Len(s) \in Nat /\ Len(t) \in Nat
           /\ Len(c) = Len(s) + Len(t)
           /\ \A i \in 1 .. Len(s) : c[i] = s[i]
           /\ \A i \in Len(s) + 1 .. Len(s) + Len(t) :
                i - Len(s) \in 1 .. Len(t) /\ c[i] = t[i - Len(s)]
           /\ \A z : z \in Elements(c) <=> z \in Elements(s) \/ z \in Elements(t)
  <1> DEFINE n == Len(s)
             m == Len(t)
             concat == s \o t
  <1>1. /\ concat \in Seq(Keys) /\ n \in Nat /\ m \in Nat
        /\ Len(concat) = n + m
        /\ \A i \in 1 .. n : concat[i] = s[i]
        /\ \A i \in n + 1 .. n + m : i - n \in 1 .. m /\ concat[i] = t[i - n]
        /\ \A i \in 1 .. m : n + i \in n + 1 .. n + m /\ concat[n + i] = t[i]
    OBVIOUS
  <1> HIDE DEF concat, n, m
  <1>3. ASSUME NEW i \in 1 .. n + m
        PROVE  concat[i] \in Elements(s) \/ concat[i] \in Elements(t)
    <2>1. i \in 1 .. n \/ i \in n + 1 .. n + m
      BY <1>1
    <2> QED
      BY <1>1, <2>1 DEF Elements, n, m
  <1>4. ASSUME NEW i \in 1 .. n PROVE s[i] \in Elements(concat)
    BY <1>1 DEF Elements
  <1>5. ASSUME NEW i \in 1 .. m PROVE t[i] \in Elements(concat)
    <2>1. n + i \in 1 .. Len(concat) /\ concat[n + i] = t[i]
      BY <1>1
    <2> QED
      BY <2>1 DEF Elements
  <1>6. \A z : z \in Elements(concat) <=> z \in Elements(s) \/ z \in Elements(t)
    BY <1>1, <1>3, <1>4, <1>5 DEF Elements, n, m
  <1>7. c = concat
    BY DEF concat
  <1> QED
    BY <1>1, <1>6, <1>7 DEF n, m

-----------------------------------------------------------------------------
(* The namespace changes, a lister moves. *)

\* A lister that only loses steady names keeps its invariant, as long as nobody
\* collects what is foreign.
LEMMA ChangeKeeps ==
    ASSUME NEW there, NEW next, NEW x, NEW T, ListInv(x, there), T \subseteq x.steady,
           T \cap there \subseteq next,
           \A name : Foreign(name, there) => Foreign(name, next)
    PROVE  ListInv([x EXCEPT !.steady = T], next)
  <1> DEFINE y == [x EXCEPT !.steady = T]
  <1>1. x \in ListType
    BY DEF ListInv
  <1>2. /\ y \in ListType /\ y.steady = T
        /\ y.at = x.at /\ y.op = x.op /\ y.keys_max = x.keys_max /\ y.start = x.start
        /\ y.page = x.page /\ y.stream = x.stream /\ y.position = x.position
        /\ y.ended = x.ended /\ y.faulted = x.faulted /\ y.all = x.all
        /\ y.newest = x.newest /\ y.result = x.result
    BY <1>1 DEF ListType
  <1> HIDE DEF y
  <1>3. \A name : Known(name, there) => Known(name, next)
    BY DEF Known
  <1>4. Previous(y) = Previous(x) /\ Resume(y) = Resume(x)
    BY <1>2 DEF Previous, Resume
  <1>5. PageInv(x, there) => PageInv(y, next)
    BY <1>2, <1>3 DEF PageInv
  <1>6. CleanInv(x, there) => CleanInv(y, next)
    BY <1>2, <1>3, <1>4 DEF CleanInv
  <1>7. DoomedInv(x) => DoomedInv(y)
    BY <1>2 DEF DoomedInv
  <1>8. Written(T) \subseteq Written(x.steady)
    BY DEF Written
  <1>9. \A name : Foreign(name, next) => name \in next
    BY DEF Foreign
  <1>10. ResultInv(x, there) => ResultInv(y, next)
    BY <1>2, <1>8, <1>9 DEF ResultInv
  <1>11. ListInv(y, next)
    BY <1>2, <1>5, <1>6, <1>7, <1>10 DEF ListInv
  <1> QED
    BY <1>11 DEF y

\* A step of one lister.
LEMMA ListerKeeps ==
    ASSUME Invariant, NEW l \in Listers, NEW STATE y, ListInv(y, names),
           list' = [list EXCEPT ![l] = y], names' = names
    PROVE  Invariant'
  <1>1. y \in ListType
    BY DEF ListInv
  <1>2. list' \in [Listers -> ListType]
    BY <1>1 DEF Invariant
  <1>3. \A m \in Listers : ListInv(list'[m], names)
    BY DEF Invariant
  <1> QED
    BY <1>2, <1>3 DEF Invariant

\* A new name is a coordinate's or foreign.
LEMMA CreateKeeps ==
    ASSUME Invariant, NEW name, Create(name),
           name \in Strays \/ \E n \in Coordinates : name = Spell(n)
    PROVE  Invariant'
  <1>1. names' = names \cup {name} /\ list' = list
    BY DEF Create
  <1>2. \A k : Foreign(k, names) => Foreign(k, names')
    BY <1>1 DEF Foreign
  <1>3. Known(name, names')
    <2>1. CASE name \in Strays
      BY <1>1, <2>1, ListingAssumption DEF Known, Foreign
    <2>2. CASE \E n \in Coordinates : name = Spell(n)
      BY <2>2, ParseOfSpelling DEF Known, Coordinates
    <2> QED
      BY <2>1, <2>2
  <1>4. \A k \in names' : Known(k, names')
    BY <1>1, <1>2, <1>3 DEF Invariant, Known
  <1>5. ASSUME NEW l \in Listers PROVE ListInv(list[l], names')
    <2> DEFINE x == list[l]
    <2>1. ListInv(x, names) /\ x \in ListType
      BY DEF Invariant
    <2>2. [x EXCEPT !.steady = x.steady] = x
      BY <2>1 DEF ListType
    <2>3. ListInv([x EXCEPT !.steady = x.steady], names')
      <3> HIDE DEF x
      <3>1. x.steady \subseteq x.steady /\ x.steady \cap names \subseteq names'
        BY <1>1
      <3> QED
        BY <1>2, <2>1, <3>1, ChangeKeeps
    <2> QED
      BY <2>2, <2>3
  <1> QED
    BY <1>1, <1>4, <1>5 DEF Invariant

\* Only names of coordinates are collected.
LEMMA CollectKeeps ==
    ASSUME Invariant, NEW n \in Coordinates, Collect(Spell(n))
    PROVE  Invariant'
  <1> DEFINE name == Spell(n)
  <1>1. /\ names' = names \ {name}
        /\ list' = [l \in Listers |-> [list[l] EXCEPT !.steady = list[l].steady \ {name}]]
    BY DEF Collect
  <1>2. Parse(name) # 0
    BY ParseOfSpelling DEF Coordinates
  <1> HIDE DEF name
  <1>3. \A k : Foreign(k, names) => Foreign(k, names')
    BY <1>1, <1>2 DEF Foreign
  <1>4. \A k \in names' : Known(k, names')
    BY <1>1, <1>3 DEF Invariant, Known
  <1>5. ASSUME NEW l \in Listers
        PROVE  ListInv(list'[l], names') /\ list'[l] \in ListType
    <2>1. /\ ListInv(list[l], names) /\ list[l].steady \ {name} \subseteq list[l].steady
          /\ (list[l].steady \ {name}) \cap names \subseteq names'
      BY <1>1 DEF Invariant
    <2>2. ListInv([list[l] EXCEPT !.steady = list[l].steady \ {name}], names')
      BY <1>3, <2>1, ChangeKeeps
    <2>3. list'[l] = [list[l] EXCEPT !.steady = list[l].steady \ {name}]
      BY <1>1
    <2>4. ListInv(list'[l], names')
      BY <2>2, <2>3
    <2> QED
      BY <2>4 DEF ListInv
  <1>6. list' \in [Listers -> ListType]
    BY <1>1, <1>5
  <1> QED
    BY <1>4, <1>5, <1>6 DEF Invariant

\* A lister begins with an empty page.
LEMMA BeginKeeps ==
    ASSUME Invariant, NEW l \in Listers, NEW op \in {"newest", "scan"}, NEW keys_max \in KeysMax,
           Begin(l, op, keys_max)
    PROVE  Invariant'
  <1> DEFINE y == [Fresh EXCEPT !.at = "listing", !.op = op, !.keys_max = keys_max,
                                !.steady = names]
  <1>1. list' = [list EXCEPT ![l] = y] /\ names' = names /\ (op = "newest" => keys_max = 1)
    BY DEF Begin
  <1>2. keys_max \in Nat /\ keys_max > 0
    BY ListingAssumption
  <1>3. names \subseteq Keys
    BY DEF Invariant, Known
  <1>4. /\ NoName \in Words /\ <<>> \in Seq(Keys) /\ <<>> \in Seq(Seq(Nat))
        /\ Len(<<>>) = 0
    BY DEF NoName, Words
  <1>5. /\ y.at = "listing" /\ y.op = op /\ y.keys_max = keys_max /\ y.start = NoName
        /\ y.page = <<>> /\ y.stream = <<>> /\ y.position = NoName /\ y.ended = FALSE
        /\ y.faulted = FALSE /\ y.steady = names /\ y.all = <<>> /\ y.newest = 0
        /\ y.result = "none"
    BY DEF Fresh
  <1>6. y \in ListType
    BY <1>2, <1>3, <1>4 DEF ListType, Fresh, Results
  <1> HIDE DEF y
  <1>7. Previous(y) = NoName /\ Resume(y) = NoName
    BY <1>5 DEF Previous, Resume
  <1>8. PageInv(y, names)
    BY <1>2, <1>1, <1>4, <1>5 DEF PageInv, Ascends
  <1>9. CleanInv(y, names)
    <2>1. \A name \in names : Before(NoName, name)
      BY <1>3, NoNameIsFirst
    <2> QED
      BY <1>4, <1>5, <1>7, <2>1 DEF CleanInv, Ascends, Within
  <1>10. ResultInv(y, names)
    BY <1>5 DEF ResultInv
  <1>11. ListInv(y, names)
    BY <1>5, <1>6, <1>8, <1>9, <1>10 DEF ListInv
  <1> QED
    BY <1>1, <1>11, ListerKeeps

\* A lister that fails concludes nothing.
LEMMA RetryableKeeps ==
    ASSUME Invariant, NEW l \in Listers, Ends(l, "Retryable"), names' = names
    PROVE  Invariant'
  <1> DEFINE x == list[l]
             y == [x EXCEPT !.at = "idle", !.result = "Retryable"]
  <1>1. x \in ListType /\ list \in [Listers -> ListType]
    BY DEF Invariant
  <1>2. list' = [list EXCEPT ![l] = y]
    BY <1>1 DEF Ends
  <1>3. y \in ListType /\ y.at = "idle" /\ y.result = "Retryable"
    BY <1>1 DEF ListType, Results
  <1> HIDE DEF x, y
  <1>4. ListInv(y, names)
    BY <1>3 DEF ListInv, ResultInv
  <1> QED
    BY <1>2, <1>4, ListerKeeps

\* A contradiction has a reason.
LEMMA ContradictionKeeps ==
    ASSUME Invariant, NEW l \in Listers, Ends(l, "Contradiction"), names' = names,
           list[l].faulted
    PROVE  Invariant'
  <1> DEFINE x == list[l]
             y == [x EXCEPT !.at = "idle", !.result = "Contradiction"]
  <1>1. x \in ListType /\ list \in [Listers -> ListType]
    BY DEF Invariant
  <1>2. list' = [list EXCEPT ![l] = y]
    BY <1>1 DEF Ends
  <1>3. y \in ListType /\ y.at = "idle" /\ y.result = "Contradiction" /\ y.faulted
    BY <1>1 DEF ListType, Results
  <1> HIDE DEF x, y
  <1>4. ListInv(y, names)
    BY <1>3 DEF ListInv, ResultInv
  <1> QED
    BY <1>2, <1>4, ListerKeeps

-----------------------------------------------------------------------------
(* The backend answers. *)

\* A lister with nothing left to look at has met no disorder.
LEMMA StillClean ==
    ASSUME NEW there, NEW x, ListInv(x, there), x.at = "listing",
           x.stream = <<>> \/ x.ended
    PROVE  ~x.faulted /\ PageInv(x, there) /\ CleanInv(x, there)
  BY DEF ListInv, DoomedInv

\* The points a listing compares with.
LEMMA PointsType ==
    ASSUME NEW x \in ListType
    PROVE  /\ Resume(x) \in Words /\ Previous(x) \in Words
           /\ Len(x.page) \in Nat /\ Len(x.all) \in Nat
           /\ x.page # <<>> => Len(x.page) > 0 /\ Last(x.page) \in Keys
           /\ \A i \in 1 .. Len(x.page) : x.page[i] \in Keys
           /\ \A i \in 1 .. Len(x.all) : x.all[i] \in Keys
  <1>1. /\ x.start \in Words /\ x.position \in Words /\ x.page \in Seq(Keys) /\ x.all \in Seq(Keys)
    BY DEF ListType
  <1>2. /\ Len(x.page) \in Nat /\ \A i \in 1 .. Len(x.page) : x.page[i] \in Keys
        /\ Len(x.all) \in Nat /\ \A i \in 1 .. Len(x.all) : x.all[i] \in Keys
    BY <1>1
  <1>3. x.page # <<>> => Len(x.page) > 0
    BY <1>1, <1>2, EmptyLength
  <1>4. x.page # <<>> => Last(x.page) \in Keys
    BY <1>2, <1>3 DEF Last
  <1> QED
    BY <1>1, <1>2, <1>3, <1>4, KeysAreWords DEF Resume, Previous

\* Before the first answer of a page the page is empty.
LEMMA FirstAnswer ==
    ASSUME NEW there, NEW x \in ListType, PageInv(x, there), CleanInv(x, there),
           x.position = NoName
    PROVE  x.page = <<>>
  <1> SUFFICES ASSUME x.page # <<>> PROVE FALSE
    OBVIOUS
  <1>1. /\ Last(x.page) \in Keys /\ Len(x.page) \in 1 .. Len(x.page) /\ x.start \in Words
    BY PointsType DEF ListType
  <1>2. Previous(x) = Last(x.page) /\ Resume(x) = x.start
    BY DEF Previous, Resume
  <1>3. Before(x.start, Last(x.page))
    BY <1>1 DEF PageInv, Last
  <1>4. Last(x.page) = x.start \/ Before(Last(x.page), x.start)
    BY <1>2 DEF CleanInv, Within
  <1>5. Last(x.page) \in Words
    BY <1>1, KeysAreWords
  <1> QED
    BY <1>1, <1>3, <1>4, <1>5, BeforeIsStrict

\* What an answer tells of every entry.
LEMMA AnswerFacts ==
    ASSUME Invariant, NEW x \in ListType, PageInv(x, names), CleanInv(x, names),
           NEW entries \in Answers({name \in names : Before(Resume(x), name)})
    PROVE  /\ entries \in Seq(Seq(Nat)) /\ Len(entries) \in Nat /\ Ascends(entries)
           /\ \A i \in 1 .. Len(entries) :
                /\ entries[i] \in Keys /\ Known(entries[i], names)
                /\ Before(Resume(x), entries[i]) /\ Before(Previous(x), entries[i])
           /\ entries # <<>> => Len(entries) > 0 /\ Last(entries) \in Keys
           /\ \A name \in names : Before(Resume(x), name) =>
                \/ name \in Elements(entries)
                \/ entries # <<>> /\ Before(Last(entries), name)
  <1> DEFINE rest == {name \in names : Before(Resume(x), name)}
  <1>1. /\ entries \in Seq(rest) /\ Len(entries) \in Nat /\ Ascends(entries)
        /\ \A i \in 1 .. Len(entries) : entries[i] \in rest
        /\ \A name \in rest : \/ name \in Elements(entries)
                              \/ entries # <<>> /\ Before(Last(entries), name)
    BY AnswerType
  <1>2. \A name \in rest : /\ name \in Keys /\ name \in Words /\ name \in Seq(Nat)
                           /\ Known(name, names)
                           /\ Before(Resume(x), name)
    BY KeysAreWords DEF Invariant, Known
  <1>3. ASSUME NEW name \in rest PROVE Before(Previous(x), name)
    <2>1. Resume(x) \in Words /\ Previous(x) \in Words /\ Within(Previous(x), Resume(x))
      BY PointsType DEF CleanInv
    <2> QED
      BY <1>2, <2>1, WithinTransitive
  <1>4. entries # <<>> => Len(entries) > 0
    BY <1>1, EmptyLength
  <1>5. entries \in Seq(Seq(Nat))
    BY <1>1, <1>2
  <1> HIDE DEF rest
  <1>6. entries # <<>> => Last(entries) \in Keys
    BY <1>1, <1>2, <1>4 DEF Last
  <1> QED
    BY <1>1, <1>2, <1>3, <1>4, <1>5, <1>6 DEF rest

\* Fields of a lister to which entries have come.
LEMMA ComesFields ==
    ASSUME NEW x \in ListType, NEW entries, NEW stream \in Seq(Seq(Nat)),
           entries # <<>> => Last(entries) \in Keys
    PROVE  LET y == Comes(x, entries, stream)
           IN  /\ y \in ListType /\ y.stream = stream /\ y.ended = (entries = <<>>)
               /\ y.position = (IF entries = <<>> THEN x.position ELSE Last(entries))
               /\ y.faulted = (x.faulted \/ stream # entries)
               /\ y.at = x.at /\ y.op = x.op /\ y.keys_max = x.keys_max /\ y.start = x.start
               /\ y.page = x.page /\ y.all = x.all /\ y.steady = x.steady
               /\ y.newest = x.newest /\ y.result = x.result
               /\ Previous(y) = Previous(x)
               /\ Resume(y) = (IF entries = <<>> THEN Resume(x) ELSE Last(entries))
  <1> DEFINE y == Comes(x, entries, stream)
             ended == entries = <<>>
             position == IF entries = <<>> THEN x.position ELSE Last(entries)
             faulted == x.faulted \/ stream # entries
  <1>1. /\ y = [x EXCEPT !.stream = stream, !.ended = ended, !.position = position,
                         !.faulted = faulted]
    BY DEF Comes
  <1>2. position \in Words /\ (entries # <<>> => position # NoName)
    BY KeysAreWords DEF ListType
  <1>3. ended \in BOOLEAN /\ faulted \in BOOLEAN
    BY DEF ListType
  <1> HIDE DEF y, ended, position, faulted
  <1>4. /\ y \in ListType /\ y.stream = stream /\ y.ended = ended
        /\ y.position = position /\ y.faulted = faulted
        /\ y.at = x.at /\ y.op = x.op /\ y.keys_max = x.keys_max /\ y.start = x.start
        /\ y.page = x.page /\ y.all = x.all /\ y.steady = x.steady
        /\ y.newest = x.newest /\ y.result = x.result
    BY <1>1, <1>2, <1>3 DEF ListType
  <1>5. Previous(y) = Previous(x)
    BY <1>4 DEF Previous
  <1>6. Resume(y) = (IF entries = <<>> THEN Resume(x) ELSE Last(entries))
    BY <1>2, <1>4 DEF Resume, position
  <1> QED
    BY <1>4, <1>5, <1>6 DEF y, ended, position, faulted

\* An answer in order: its entries come next, and what it does not hold follows
\* its last entry.
LEMMA OrderedAnswer ==
    ASSUME Invariant, NEW x, ListInv(x, names), x.at = "listing", x.stream = <<>>, ~x.ended,
           NEW entries \in Answers({name \in names : Before(Resume(x), name)})
    PROVE  ListInv(Comes(x, entries, entries), names)
  <1> DEFINE y == Comes(x, entries, entries)
  <1>1. x \in ListType /\ ~x.faulted /\ PageInv(x, names) /\ CleanInv(x, names)
        /\ ResultInv(x, names)
    BY StillClean DEF ListInv
  <1>2. /\ entries \in Seq(Seq(Nat)) /\ Len(entries) \in Nat /\ Ascends(entries)
        /\ \A i \in 1 .. Len(entries) :
             /\ entries[i] \in Keys /\ Known(entries[i], names)
             /\ Before(Resume(x), entries[i]) /\ Before(Previous(x), entries[i])
        /\ entries # <<>> => Len(entries) > 0 /\ Last(entries) \in Keys
        /\ \A name \in names : Before(Resume(x), name) =>
             \/ name \in Elements(entries)
             \/ entries # <<>> /\ Before(Last(entries), name)
    BY <1>1, AnswerFacts
  <1>3. /\ y \in ListType /\ y.stream = entries /\ y.ended = (entries = <<>>)
        /\ y.faulted = (x.faulted \/ entries # entries)
        /\ y.at = x.at /\ y.op = x.op /\ y.keys_max = x.keys_max /\ y.start = x.start
        /\ y.page = x.page /\ y.all = x.all /\ y.steady = x.steady
        /\ y.newest = x.newest /\ y.result = x.result
        /\ Previous(y) = Previous(x)
        /\ Resume(y) = (IF entries = <<>> THEN Resume(x) ELSE Last(entries))
    BY <1>1, <1>2, ComesFields
  <1> HIDE DEF y
  <1>4. PageInv(y, names)
    BY <1>1, <1>3 DEF PageInv
  <1>5. CleanInv(y, names)
    <2>1. Within(Previous(y), Resume(y))
      <3>1. CASE entries = <<>>
        BY <1>1, <1>3, <3>1 DEF CleanInv
      <3>2. CASE entries # <<>>
        <4>1. Before(Previous(x), Last(entries))
          BY <1>2, <3>2 DEF Last
        <4> QED
          BY <1>3, <3>2, <4>1 DEF Within
      <3> QED
        BY <3>1, <3>2
    <2>2. ASSUME NEW name \in x.steady
          PROVE  \/ name \in Elements(x.all) \/ name \in Elements(x.page)
                 \/ name \in Elements(entries)
                 \/ entries # <<>> /\ Before(Resume(y), name)
      <3>1. name \in names
        BY <1>1, <2>2 DEF PageInv
      <3>2. name \notin Elements(x.stream)
        BY DEF Elements
      <3>3. \/ name \in Elements(x.all) \/ name \in Elements(x.page)
            \/ Before(Resume(x), name)
        BY <1>1, <2>2, <3>2 DEF CleanInv
      <3> QED
        BY <1>2, <1>3, <3>1, <3>3
    <2>3. entries # <<>> => Last(entries) = Resume(y)
      BY <1>3
    <2> QED
      BY <1>1, <1>2, <1>3, <2>1, <2>2, <2>3 DEF CleanInv
  <1>6. ResultInv(y, names)
    BY <1>1, <1>3 DEF ResultInv, PageInv
  <1>7. ~y.faulted
    BY <1>1, <1>3
  <1>8. ListInv(y, names)
    BY <1>3, <1>4, <1>5, <1>6, <1>7 DEF ListInv
  <1> QED
    BY <1>8 DEF y

\* A disordered first answer dooms the page.
LEMMA DisorderedAnswer ==
    ASSUME Invariant, NEW x, ListInv(x, names), x.at = "listing", x.stream = <<>>, ~x.ended,
           x.position = NoName,
           NEW entries \in Answers({name \in names : Before(Resume(x), name)}),
           NEW stream, Len(entries) >= 1,
           \/ Len(entries) >= 2 /\ stream = Swapped(entries)
           \/ stream = Garbled(entries)
    PROVE  ListInv(Comes(x, entries, stream), names)
  <1> DEFINE y == Comes(x, entries, stream)
  <1>1. x \in ListType /\ ~x.faulted /\ PageInv(x, names) /\ CleanInv(x, names)
        /\ ResultInv(x, names)
    BY StillClean DEF ListInv
  <1>2. /\ entries \in Seq(Seq(Nat)) /\ Len(entries) \in Nat /\ Ascends(entries)
        /\ \A i \in 1 .. Len(entries) : entries[i] \in Keys
        /\ entries # <<>> => Last(entries) \in Keys
    BY <1>1, AnswerFacts
  <1>3. x.page = <<>>
    BY <1>1, FirstAnswer
  <1>4. /\ stream \in Seq(Seq(Nat)) /\ Len(stream) = Len(entries) /\ stream # entries
        /\ entries # <<>> /\ stream # <<>>
        /\ \/ ~Canonical(stream[1])
           \/ /\ Len(stream) > 1 /\ stream[1] \in Keys /\ stream[2] \in Keys
              /\ Before(stream[2], stream[1])
    <2>1. CASE Len(entries) >= 2 /\ stream = Swapped(entries)
      <3>1. /\ stream \in Seq(Seq(Nat)) /\ Len(stream) = Len(entries)
            /\ stream[1] = entries[2] /\ stream[2] = entries[1]
        BY <1>2, <2>1 DEF Swapped
      <3>2. Before(entries[1], entries[2]) /\ entries[1] \in Keys /\ entries[2] \in Keys
        BY <1>2, <2>1 DEF Ascends
      <3>3. entries[1] # entries[2]
        BY <3>2, KeysAreWords, BeforeIsStrict
      <3> QED
        BY <1>2, <2>1, <3>1, <3>2, <3>3, EmptyLength
    <2>2. CASE stream = Garbled(entries)
      <3>1. Uncanonical \in Seq(Nat) /\ ~Canonical(Uncanonical)
        BY Constants DEF Uncanonical, Canonical
      <3>2. /\ stream \in Seq(Seq(Nat)) /\ Len(stream) = Len(entries)
            /\ stream[1] = Uncanonical
        BY <1>2, <2>2, <3>1 DEF Garbled
      <3>3. Canonical(entries[1])
        BY <1>2, KeysAreWords
      <3> QED
        BY <1>2, <3>1, <3>2, <3>3, EmptyLength
    <2> QED
      BY <2>1, <2>2
  <1>5. /\ y \in ListType /\ y.stream = stream /\ y.ended = (entries = <<>>)
        /\ y.faulted = (x.faulted \/ stream # entries)
        /\ y.at = x.at /\ y.op = x.op /\ y.keys_max = x.keys_max /\ y.start = x.start
        /\ y.page = x.page /\ y.all = x.all /\ y.steady = x.steady
        /\ y.newest = x.newest /\ y.result = x.result
    BY <1>1, <1>2, <1>4, ComesFields
  <1> HIDE DEF y
  <1>6. PageInv(y, names)
    BY <1>1, <1>5 DEF PageInv
  <1>7. DoomedInv(y)
    BY <1>3, <1>4, <1>5 DEF DoomedInv
  <1>8. ResultInv(y, names)
    BY <1>1, <1>5 DEF ResultInv, PageInv
  <1>9. y.faulted
    BY <1>4, <1>5
  <1>10. ListInv(y, names)
    BY <1>5, <1>6, <1>7, <1>8, <1>9 DEF ListInv
  <1> QED
    BY <1>10 DEF y

\* The backend answers or fails.
LEMMA FetchKeeps ==
    ASSUME Invariant, NEW l \in Listers, Fetch(l)
    PROVE  Invariant'
  <1> DEFINE x == list[l]
             rest == {name \in names : Before(Resume(x), name)}
             came(entries, stream) == list' = [list EXCEPT ![l] = Comes(x, entries, stream)]
  <1>1. x \in ListType /\ list \in [Listers -> ListType] /\ ListInv(x, names)
    BY DEF Invariant
  <1>3. /\ x.at = "listing" /\ x.stream = <<>> /\ ~x.ended /\ names' = names
        /\ \/ \E entries \in Answers(rest) :
                \/ came(entries, entries)
                \/ x.position = NoName /\ Len(entries) >= 2 /\ came(entries, Swapped(entries))
                \/ x.position = NoName /\ Len(entries) >= 1 /\ came(entries, Garbled(entries))
           \/ Ends(l, "Retryable")
    BY DEF Fetch
  <1> HIDE DEF x
  <1>4. ASSUME NEW entries \in Answers(rest), came(entries, entries) PROVE Invariant'
    <2>1. ListInv(Comes(x, entries, entries), names)
      BY <1>1, <1>3, OrderedAnswer
    <2> QED
      BY <1>3, <1>4, <2>1, ListerKeeps DEF x
  <1>5. ASSUME NEW entries \in Answers(rest), x.position = NoName, Len(entries) >= 2,
               came(entries, Swapped(entries))
        PROVE  Invariant'
    <2>1. Len(entries) >= 1
      BY <1>5, AnswerType
    <2>2. ListInv(Comes(x, entries, Swapped(entries)), names)
      BY <1>1, <1>3, <1>5, <2>1, DisorderedAnswer
    <2> QED
      BY <1>3, <1>5, <2>2, ListerKeeps DEF x
  <1>6. ASSUME NEW entries \in Answers(rest), x.position = NoName, Len(entries) >= 1,
               came(entries, Garbled(entries))
        PROVE  Invariant'
    <2>1. ListInv(Comes(x, entries, Garbled(entries)), names)
      BY <1>1, <1>3, <1>6, DisorderedAnswer
    <2> QED
      BY <1>3, <1>6, <2>1, ListerKeeps DEF x
  <1> QED
    BY <1>3, <1>4, <1>5, <1>6, RetryableKeeps

-----------------------------------------------------------------------------
(* A page grows. *)

Pushed(x) == [x EXCEPT !.page = Append(@, Head(x.stream)), !.stream = Tail(@)]

\* An entry that may be pushed is a key.
LEMMA ListedIsKey ==
    ASSUME NEW there, NEW x, ListInv(x, there), x.at = "listing", x.stream # <<>>,
           Canonical(Head(x.stream)), Before(Previous(x), Head(x.stream))
    PROVE  /\ x.stream[1] = Head(x.stream) /\ x.stream[1] \in Keys
           /\ x.faulted => /\ x.page = <<>> /\ Len(x.stream) > 1
                           /\ x.stream[2] \in Keys
                           /\ Before(x.stream[2], x.stream[1])
  <1>1. x \in ListType /\ x.stream \in Seq(Seq(Nat))
    BY DEF ListInv, ListType
  <1>2. Len(x.stream) \in Nat /\ Len(x.stream) > 0 /\ Head(x.stream) = x.stream[1]
    BY <1>1, TailFacts
  <1>3. CASE ~x.faulted
    <2>1. Known(x.stream[1], there)
      BY <1>2, <1>3 DEF ListInv, CleanInv
    <2> QED
      BY <1>2, <1>3, <2>1, KnownIsKey
  <1>4. CASE x.faulted
    <2>1. DoomedInv(x) /\ Canonical(x.stream[1]) /\ Before(Previous(x), x.stream[1])
      BY <1>2, <1>4 DEF ListInv
    <2>2. ASSUME x.page # <<>>, x.stream[1] \in Keys, Before(x.stream[1], Last(x.page))
          PROVE  FALSE
      <3>1. Last(x.page) \in Words /\ x.stream[1] \in Words
        BY <1>1, <2>2, PointsType, KeysAreWords
      <3>2. Before(Last(x.page), x.stream[1])
        BY <2>1, <2>2 DEF Previous
      <3> QED
        BY <2>2, <3>1, <3>2, BeforeIsStrict
    <2> QED
      BY <1>2, <2>1, <2>2 DEF DoomedInv
  <1> QED
    BY <1>3, <1>4

\* Fields of a lister that has pushed an entry.
LEMMA PushedFields ==
    ASSUME NEW x \in ListType, x.stream # <<>>, x.stream[1] = Head(x.stream),
           x.stream[1] \in Keys
    PROVE  LET y == Pushed(x)
           IN  /\ y \in ListType /\ y.page = Append(x.page, x.stream[1])
               /\ y.stream = Tail(x.stream) /\ y.ended = x.ended
               /\ y.position = x.position /\ y.faulted = x.faulted
               /\ y.at = x.at /\ y.op = x.op /\ y.keys_max = x.keys_max /\ y.start = x.start
               /\ y.all = x.all /\ y.steady = x.steady
               /\ y.newest = x.newest /\ y.result = x.result
               /\ Previous(y) = x.stream[1] /\ Resume(y) = Resume(x)
  <1> DEFINE y == Pushed(x)
             e == x.stream[1]
             page == Append(x.page, e)
             stream == Tail(x.stream)
  <1>1. x.page \in Seq(Keys) /\ x.stream \in Seq(Seq(Nat)) /\ e \in Keys
    BY DEF ListType
  <1>2. page \in Seq(Keys) /\ page # <<>> /\ Last(page) = e
    <2> HIDE DEF e
    <2>1. page = Append(x.page, e)
      OBVIOUS
    <2> HIDE DEF page
    <2> QED
      BY <1>1, <2>1, AppendEnd
  <1>3. stream \in Seq(Seq(Nat))
    BY <1>1, TailFacts
  <1>4. y = [x EXCEPT !.page = page, !.stream = stream]
    BY DEF Pushed
  <1> HIDE DEF y, e, page, stream
  <1>5. /\ y \in ListType /\ y.page = page
        /\ y.stream = stream /\ y.ended = x.ended
        /\ y.position = x.position /\ y.faulted = x.faulted
        /\ y.at = x.at /\ y.op = x.op /\ y.keys_max = x.keys_max /\ y.start = x.start
        /\ y.all = x.all /\ y.steady = x.steady
        /\ y.newest = x.newest /\ y.result = x.result
    BY <1>2, <1>3, <1>4 DEF ListType
  <1>6. Previous(y) = e /\ Resume(y) = Resume(x)
    BY <1>2, <1>5 DEF Previous, Resume
  <1> QED
    BY <1>5, <1>6 DEF y, e, page, stream

\* The page stays in order.
LEMMA PushedPage ==
    ASSUME NEW there, NEW x, ListInv(x, there), x.at = "listing", x.stream # <<>>,
           Canonical(Head(x.stream)), Before(Previous(x), Head(x.stream)),
           Len(x.page) # x.keys_max
    PROVE  PageInv(Pushed(x), there)
  <1> DEFINE y == Pushed(x)
             e == x.stream[1]
             n == Len(x.page)
  <1>1. x \in ListType /\ PageInv(x, there) /\ x.page \in Seq(Keys) /\ x.start \in Words
    BY DEF ListInv, ListType
  <1>2. e = Head(x.stream) /\ e \in Keys /\ e \in Words
    BY ListedIsKey, KeysAreWords
  <1>3. /\ y.page = Append(x.page, e)
        /\ y.op = x.op /\ y.keys_max = x.keys_max /\ y.start = x.start
        /\ y.all = x.all /\ y.steady = x.steady /\ y.result = x.result
    BY <1>1, <1>2, PushedFields
  <1> HIDE DEF y, e
  <1>4. /\ n \in Nat /\ Len(y.page) = n + 1
        /\ \A i \in 1 .. n : y.page[i] = x.page[i]
        /\ y.page[n + 1] = e
    BY <1>1, <1>2, <1>3, AppendFacts
  <1>5. \A i \in 1 .. n : x.page[i] \in Words
    BY <1>1, PointsType, KeysAreWords
  <1>6. Before(x.start, e) /\ \A i \in 1 .. n : Before(x.page[i], e)
    <2>1. CASE x.page = <<>>
      <3>1. Previous(x) = x.start /\ n = 0
        BY <2>1 DEF Previous
      <3> QED
        BY <1>2, <3>1
    <2>2. CASE x.page # <<>>
      <3>1. n > 0 /\ Previous(x) = x.page[n] /\ n \in 1 .. n
        BY <1>1, <1>4, <2>2, PointsType DEF Previous, Last
      <3>2. Before(x.page[n], e) /\ x.page[n] \in Words
        BY <1>2, <1>5, <3>1
      <3>3. Before(x.start, x.page[n])
        BY <1>1, <3>1 DEF PageInv
      <3>4. ASSUME NEW i \in 1 .. n PROVE Before(x.page[i], e)
        <4>1. i = n \/ Before(x.page[i], x.page[n])
          BY <1>1, <1>4, <3>1 DEF PageInv, Ascends
        <4> QED
          BY <1>2, <1>5, <3>2, <4>1, BeforeTransitive
      <3> QED
        BY <1>1, <1>2, <3>2, <3>3, <3>4, BeforeTransitive
    <2> QED
      BY <2>1, <2>2
  <1> HIDE DEF n
  <1>7. Ascends(y.page)
    <2>1. ASSUME NEW i \in 1 .. n + 1, NEW j \in 1 .. n + 1, i < j
          PROVE  Before(y.page[i], y.page[j])
      <3>1. CASE j = n + 1
        <4>1. i \in 1 .. n
          BY <1>4, <2>1, <3>1
        <4> QED
          BY <1>4, <1>6, <3>1, <4>1
      <3>2. CASE j # n + 1
        <4>1. i \in 1 .. n /\ j \in 1 .. n
          BY <1>4, <2>1, <3>2
        <4> QED
          BY <1>1, <1>4, <2>1, <4>1 DEF PageInv, Ascends, n
      <3> QED
        BY <3>1, <3>2
    <2> QED
      BY <1>4, <2>1 DEF Ascends
  <1>8. \A i \in 1 .. n + 1 : Before(x.start, y.page[i])
    <2>1. ASSUME NEW i \in 1 .. n + 1 PROVE Before(x.start, y.page[i])
      <3>1. CASE i = n + 1
        BY <1>4, <1>6, <3>1
      <3>2. CASE i # n + 1
        <4>1. i \in 1 .. n
          BY <1>4, <2>1, <3>2
        <4> QED
          BY <1>1, <1>4, <4>1 DEF PageInv, n
      <3> QED
        BY <3>1, <3>2
    <2> QED
      BY <2>1
  <1>9. Len(y.page) <= x.keys_max
    <2>1. n <= x.keys_max /\ n # x.keys_max /\ x.keys_max \in Nat
      BY <1>1 DEF PageInv, ListType, n
    <2> QED
      BY <1>4, <2>1
  <1>10. PageInv(y, there)
    BY <1>1, <1>3, <1>4, <1>7, <1>8, <1>9 DEF PageInv
  <1> QED
    BY <1>10 DEF y

\* What came follows the page, and what has stayed is in one of them or behind.
LEMMA PushedClean ==
    ASSUME NEW there, NEW x, ListInv(x, there), x.at = "listing", x.stream # <<>>,
           Canonical(Head(x.stream)), Before(Previous(x), Head(x.stream)), ~x.faulted
    PROVE  CleanInv(Pushed(x), there)
  <1> DEFINE y == Pushed(x)
             e == x.stream[1]
             n == Len(x.page)
             m == Len(x.stream)
  <1>1. /\ x \in ListType /\ CleanInv(x, there) /\ x.page \in Seq(Keys)
        /\ x.stream \in Seq(Seq(Nat))
    BY DEF ListInv, ListType
  <1>2. e = Head(x.stream) /\ e \in Keys /\ e \in Words
    BY ListedIsKey, KeysAreWords
  <1>3. /\ y.page = Append(x.page, e) /\ y.stream = Tail(x.stream)
        /\ y.ended = x.ended /\ y.all = x.all /\ y.steady = x.steady
        /\ Previous(y) = e /\ Resume(y) = Resume(x)
    BY <1>1, <1>2, PushedFields
  <1>4. /\ m \in Nat /\ m > 0 /\ Len(y.stream) = m - 1
        /\ \A i \in 1 .. m - 1 : y.stream[i] = x.stream[i + 1]
        /\ y.stream # <<>> => Last(y.stream) = Last(x.stream)
        /\ y.stream = <<>> => m = 1
        /\ \A z : z \in Elements(x.stream) <=> z = e \/ z \in Elements(y.stream)
    <2>1. /\ m \in Nat /\ m > 0 /\ Len(Tail(x.stream)) = m - 1
          /\ \A i \in 1 .. m - 1 : Tail(x.stream)[i] = x.stream[i + 1]
          /\ Tail(x.stream) # <<>> => Last(Tail(x.stream)) = Last(x.stream)
          /\ Tail(x.stream) = <<>> => m = 1
          /\ \A z : z \in Elements(x.stream) <=> z = e \/ z \in Elements(Tail(x.stream))
      BY <1>1, TailFacts
    <2> QED
      BY <1>3, <2>1
  <1> HIDE DEF y, e
  <1>5. /\ n \in Nat /\ Len(y.page) = n + 1
        /\ \A i \in 1 .. n : y.page[i] = x.page[i]
        /\ y.page[n + 1] = e
        /\ \A z : z \in Elements(y.page) <=> z = e \/ z \in Elements(x.page)
    BY <1>1, <1>2, <1>3, AppendFacts
  <1> HIDE DEF n, m
  <1>6. \A i \in 1 .. n + 1 : Known(y.page[i], there)
    <2>1. Known(e, there) /\ \A i \in 1 .. n : Known(x.page[i], there)
      BY <1>1, <1>4 DEF CleanInv, e, n, m
    <2>2. ASSUME NEW i \in 1 .. n + 1 PROVE i = n + 1 \/ i \in 1 .. n
      BY <1>5
    <2> QED
      BY <1>5, <2>1, <2>2
  <1>7. ASSUME NEW i \in 1 .. m - 1
        PROVE  Known(y.stream[i], there) /\ Before(e, y.stream[i])
    <2>1. /\ i + 1 \in 1 .. m /\ 1 \in 1 .. m /\ 1 < i + 1
      BY <1>4
    <2>2. Known(x.stream[i + 1], there) /\ Before(x.stream[1], x.stream[i + 1])
      BY <1>1, <2>1 DEF CleanInv, Ascends, m
    <2> QED
      BY <1>4, <2>2 DEF e
  <1>8. ASSUME NEW i \in 1 .. m - 1, NEW j \in 1 .. m - 1, i < j
        PROVE  Before(y.stream[i], y.stream[j])
    <2>1. i + 1 \in 1 .. m /\ j + 1 \in 1 .. m /\ i + 1 < j + 1
      BY <1>4, <1>8
    <2>2. Before(x.stream[i + 1], x.stream[j + 1])
      BY <1>1, <2>1 DEF CleanInv, Ascends, m
    <2> QED
      BY <1>4, <2>2
  <1>9. Within(e, Resume(x))
    <2>1. Last(x.stream) = Resume(x) /\ Last(x.stream) = x.stream[m]
      BY <1>1 DEF CleanInv, Last, m
    <2>2. m = 1 \/ Before(x.stream[1], x.stream[m])
      BY <1>1, <1>4 DEF CleanInv, Ascends, m
    <2> QED
      BY <2>1, <2>2 DEF Within, e
  <1>10. y.ended => y.stream = <<>>
    BY <1>1, <1>3 DEF CleanInv
  <1>11. y.stream # <<>> => Last(y.stream) = Resume(y)
    BY <1>1, <1>3, <1>4 DEF CleanInv
  <1>12. ASSUME NEW name \in x.steady
         PROVE  \/ name \in Elements(y.all) \/ name \in Elements(y.page)
                \/ name \in Elements(y.stream)
                \/ ~y.ended /\ Before(Resume(y), name)
    <2>1. \/ name \in Elements(x.all) \/ name \in Elements(x.page)
          \/ name \in Elements(x.stream)
          \/ ~x.ended /\ Before(Resume(x), name)
      BY <1>1, <1>12 DEF CleanInv
    <2> QED
      BY <1>3, <1>4, <1>5, <2>1
  <1>13. Ascends(y.stream)
    BY <1>4, <1>8 DEF Ascends
  <1>14. CleanInv(y, there)
    BY <1>3, <1>4, <1>5, <1>6, <1>7, <1>9, <1>10, <1>11, <1>12, <1>13 DEF CleanInv
  <1> QED
    BY <1>14 DEF y

\* A swapped entry on the page dooms the next one.
LEMMA PushedDoomed ==
    ASSUME NEW there, NEW x, ListInv(x, there), x.at = "listing", x.stream # <<>>,
           Canonical(Head(x.stream)), Before(Previous(x), Head(x.stream)), x.faulted
    PROVE  DoomedInv(Pushed(x))
  <1> DEFINE y == Pushed(x)
             e == x.stream[1]
  <1>1. x \in ListType /\ DoomedInv(x) /\ x.page \in Seq(Keys) /\ x.stream \in Seq(Seq(Nat))
    BY DEF ListInv, ListType
  <1>2. /\ e = Head(x.stream) /\ e \in Keys
        /\ Len(x.stream) > 1 /\ x.stream[2] \in Keys /\ Before(x.stream[2], e)
    BY ListedIsKey
  <1>3. /\ y.page = Append(x.page, e) /\ y.stream = Tail(x.stream) /\ y.ended = x.ended
    BY <1>1, <1>2, PushedFields
  <1>4. /\ Len(x.stream) \in Nat /\ Tail(x.stream) # <<>>
        /\ \A i \in 1 .. Len(x.stream) - 1 : Tail(x.stream)[i] = x.stream[i + 1]
    <2>1. /\ Len(x.stream) \in Nat /\ (Tail(x.stream) = <<>> => Len(x.stream) = 1)
          /\ \A i \in 1 .. Len(x.stream) - 1 : Tail(x.stream)[i] = x.stream[i + 1]
      BY <1>1, TailFacts, Zenon
    <2>2. Len(x.stream) # 1
      BY <1>2, <2>1
    <2> QED
      BY <2>1, <2>2, Zenon
  <1>5. y.stream # <<>> /\ y.stream[1] = x.stream[2]
    <2>1. 1 \in 1 .. Len(x.stream) - 1 /\ 1 + 1 = 2
      BY <1>2, <1>4
    <2> QED
      BY <1>3, <1>4, <2>1
  <1> HIDE DEF y, e
  <1>6. y.page # <<>> /\ Last(y.page) = e
    BY <1>1, <1>2, <1>3, AppendEnd
  <1>7. DoomedInv(y)
    BY <1>1, <1>2, <1>3, <1>5, <1>6 DEF DoomedInv
  <1> QED
    BY <1>7 DEF y

\* A key is pushed.
LEMMA PushedKeeps ==
    ASSUME NEW there, NEW x, ListInv(x, there), x.at = "listing", x.stream # <<>>,
           Canonical(Head(x.stream)), Before(Previous(x), Head(x.stream)),
           Len(x.page) # x.keys_max
    PROVE  ListInv(Pushed(x), there)
  <1> DEFINE y == Pushed(x)
  <1>1. x \in ListType /\ PageInv(x, there) /\ x.stream[1] = Head(x.stream) /\ x.stream[1] \in Keys
    BY ListedIsKey DEF ListInv
  <1>2. /\ y \in ListType /\ y.faulted = x.faulted /\ y.result = x.result
    BY <1>1, PushedFields
  <1>3. PageInv(y, there) /\ y.result = "none"
    BY <1>1, <1>2, PushedPage DEF PageInv
  <1>4. ~x.faulted => CleanInv(y, there)
    BY PushedClean
  <1>5. x.faulted => DoomedInv(y)
    BY PushedDoomed
  <1> HIDE DEF y
  <1>6. ListInv(y, there)
    BY <1>2, <1>3, <1>4, <1>5 DEF ListInv, ResultInv
  <1> QED
    BY <1>6 DEF y

-----------------------------------------------------------------------------
(* A page is complete. *)

\* What has stayed and is not on the pages follows them.
LEMMA RestFollows ==
    ASSUME NEW there, NEW x, ListInv(x, there), x.at = "listing", ~x.faulted,
           NEW name \in x.steady
    PROVE  \/ name \in Elements(x.all) \/ name \in Elements(x.page)
           \/ ~x.ended /\ Before(Previous(x), name)
  <1>1. x \in ListType /\ CleanInv(x, there) /\ name \in Words
    BY KeysAreWords DEF ListInv, ListType
  <1>2. CASE name \in Elements(x.stream)
    <2>1. PICK i \in 1 .. Len(x.stream) : name = x.stream[i]
      BY <1>2 DEF Elements
    <2>2. Before(Previous(x), x.stream[i])
      BY <1>1 DEF CleanInv
    <2>3. ~x.ended
      <3> SUFFICES ASSUME x.ended PROVE FALSE
        OBVIOUS
      <3>1. x.stream = <<>> /\ Len(<<>>) = 0
        BY <1>1 DEF CleanInv
      <3> QED
        BY <2>1, <3>1
    <2> QED
      BY <2>1, <2>2, <2>3
  <1>3. CASE ~x.ended /\ Before(Resume(x), name)
    <2>1. Resume(x) \in Words /\ Previous(x) \in Words /\ Within(Previous(x), Resume(x))
      BY <1>1, PointsType DEF CleanInv
    <2> QED
      BY <1>1, <1>3, <2>1, WithinTransitive
  <1> QED
    BY <1>1, <1>2, <1>3 DEF CleanInv

\* parse_key answers with a number.
LEMMA ParseType ==
    ASSUME NEW key \in Keys
    PROVE  Parse(key) \in Nat
  <1>1. key \in Words /\ Len(key) \in Nat
    BY KeysAreWords, WordType
  <1>2. PICK f : Value(key) = f[Len(key)] /\ \A i \in 0 .. Len(key) : f[i] \in Nat
    BY <1>1, ValueIs DEF Words
  <1>3. Value(key) \in Nat
    BY <1>1, <1>2
  <1> QED
    BY <1>3, Constants DEF Parse

\* What a page of one key leads to.
Concluded(x, coordinate, result) ==
    /\ x.page = <<>> => coordinate = 0 /\ result = "Empty"
    /\ x.page # <<>> => /\ coordinate = Parse(x.page[1])
                        /\ coordinate = 0 => result = "Contradiction"
                        /\ coordinate # 0 => result = "Newest"

\* The newest coordinate: the only key of the page is in front of every name that
\* has stayed, and a page stays empty only if there is none.
LEMMA NewestKeeps ==
    ASSUME NEW there, NEW x, ListInv(x, there), x.at = "listing", ~x.faulted,
           x.op = "newest", x.page = <<>> => x.ended,
           NEW coordinate, NEW result,
           Concluded(x, coordinate, result)
    PROVE  ListInv([x EXCEPT !.at = "idle", !.newest = coordinate, !.result = result], there)
  <1> DEFINE y == [x EXCEPT !.at = "idle", !.newest = coordinate, !.result = result]
             key == x.page[1]
  <1>1. /\ x \in ListType /\ PageInv(x, there) /\ CleanInv(x, there)
        /\ x.page \in Seq(Keys) /\ x.steady \subseteq Keys
    BY DEF ListInv, ListType
  <1>2. x.page # <<>> => key \in Keys /\ Len(x.page) = 1 /\ Previous(x) = key
    <2>1. ASSUME x.page # <<>>
          PROVE  key \in Keys /\ Len(x.page) > 0 /\ Len(x.page) \in Nat
      BY <1>1, <2>1, HeadFacts
    <2>2. Len(x.page) \in Nat /\ Len(x.page) <= 1
      BY <1>1, PointsType DEF PageInv
    <2>3. ASSUME x.page # <<>> PROVE Len(x.page) = 1
      <3> DEFINE n == Len(x.page)
      <3>1. n \in Nat /\ n <= 1 /\ n > 0
        BY <2>1, <2>2, <2>3
      <3> HIDE DEF n
      <3>2. n = 1
        BY <3>1
      <3> QED
        BY <3>2 DEF n
    <2> QED
      BY <2>1, <2>3 DEF Previous, Last
  <1>3. coordinate \in Nat /\ result \in Results
    BY <1>2, ParseType DEF Results, Concluded
  <1> HIDE DEF key
  <1>4. /\ y \in ListType /\ y.at = "idle" /\ y.newest = coordinate /\ y.result = result
        /\ y.steady = x.steady /\ y.faulted = x.faulted /\ y.all = x.all
    BY <1>1, <1>3 DEF ListType
  <1> HIDE DEF y
  <1>5. ASSUME NEW name \in x.steady
        PROVE  x.page # <<>> /\ (key = name \/ Before(key, name))
    <2>1. name \notin Elements(x.all)
      <3>1. x.all = <<>> /\ Len(<<>>) = 0
        BY <1>1 DEF PageInv
      <3> QED
        BY <3>1 DEF Elements
    <2>2. name \in Elements(x.page) \/ (~x.ended /\ Before(Previous(x), name))
      BY <1>5, <2>1, RestFollows
    <2>3. name \in Elements(x.page) => x.page # <<>> /\ name = x.page[1]
      <3>1. Len(<<>>) = 0
        OBVIOUS
      <3> QED
        BY <1>2, <3>1 DEF Elements
    <2> QED
      BY <1>2, <2>2, <2>3 DEF key
  <1>6. ASSUME x.page # <<>>, coordinate # 0, NEW n \in Written(x.steady)
        PROVE  n <= coordinate
    <2>1. n \in Coordinates /\ Spell(n) \in x.steady
      BY <1>6 DEF Written
    <2>2. key = Spell(n) \/ Before(key, Spell(n))
      BY <1>5, <2>1
    <2>3. coordinate = Parse(key) /\ key \in Keys
      BY <1>2, <1>6 DEF key, Concluded
    <2> QED
      BY <1>6, <2>1, <2>2, <2>3, FrontIsNewer
  <1>7. x.page = <<>> => Written(x.steady) = {}
    BY <1>5 DEF Written
  <1>8. ASSUME x.page # <<>>, coordinate = 0 PROVE \E name \in there : Foreign(name, there)
    <2>1. Known(key, there) /\ Parse(key) = 0
      BY <1>1, <1>2, <1>8 DEF CleanInv, key, Concluded
    <2> QED
      BY <2>1 DEF Known, Foreign
  <1>9. ResultInv(y, there)
    <2>1. CASE x.page = <<>>
      BY <1>4, <1>7, <2>1 DEF ResultInv, Concluded
    <2>2. CASE x.page # <<>> /\ coordinate = 0
      BY <1>4, <1>8, <2>2 DEF ResultInv, Concluded
    <2>3. CASE x.page # <<>> /\ coordinate # 0
      BY <1>4, <1>6, <2>3 DEF ResultInv, Concluded
    <2> QED
      BY <2>1, <2>2, <2>3
  <1>10. ListInv(y, there)
    BY <1>4, <1>9 DEF ListInv
  <1> QED
    BY <1>10 DEF y

Pages(x) == x.all \o x.page

\* The pages of a scan together are in order.
LEMMA PagesAscend ==
    ASSUME NEW there, NEW x \in ListType, PageInv(x, there)
    PROVE  /\ Pages(x) \in Seq(Keys) /\ Ascends(Pages(x)) /\ Len(Pages(x)) \in Nat
           /\ \A z : z \in Elements(Pages(x)) <=> z \in Elements(x.all) \/ z \in Elements(x.page)
  <1>1. /\ x.all \in Seq(Keys) /\ x.page \in Seq(Keys) /\ x.start \in Words
        /\ Pages(x) = x.all \o x.page
    BY DEF ListType, Pages
  <1>2. /\ Len(x.all) \in Nat /\ Len(x.page) \in Nat
        /\ \A i \in 1 .. Len(x.all) : x.all[i] \in Words
        /\ \A i \in 1 .. Len(x.page) : x.page[i] \in Words
    BY PointsType, KeysAreWords
  <1>3. PICK a, b, c : /\ a = x.all /\ b = x.page /\ c = Pages(x)
    OBVIOUS
  <1>4. PICK n \in Nat, m \in Nat : n = Len(a) /\ m = Len(b)
    BY <1>2, <1>3
  <1>5. /\ c \in Seq(Keys) /\ Len(c) = n + m
        /\ \A i \in 1 .. n : c[i] = a[i]
        /\ \A i \in n + 1 .. n + m : i - n \in 1 .. m /\ c[i] = b[i - n]
        /\ \A z : z \in Elements(c) <=> z \in Elements(a) \/ z \in Elements(b)
    <2>1. a \in Seq(Keys) /\ b \in Seq(Keys) /\ c = a \o b
      BY <1>1, <1>3
    <2>2. /\ c \in Seq(Keys) /\ Len(c) = Len(a) + Len(b)
          /\ \A i \in 1 .. Len(a) : c[i] = a[i]
          /\ \A i \in Len(a) + 1 .. Len(a) + Len(b) :
               i - Len(a) \in 1 .. Len(b) /\ c[i] = b[i - Len(a)]
          /\ \A z : z \in Elements(c) <=> z \in Elements(a) \/ z \in Elements(b)
      <3>1. c \in Seq(Keys)
        BY <2>1, ConcatFacts
      <3>2. Len(c) = Len(a) + Len(b)
        BY <2>1, ConcatFacts
      <3>3. \A i \in 1 .. Len(a) : c[i] = a[i]
        BY <2>1, ConcatFacts
      <3>4. \A i \in Len(a) + 1 .. Len(a) + Len(b) :
               i - Len(a) \in 1 .. Len(b) /\ c[i] = b[i - Len(a)]
        BY <2>1, ConcatFacts
      <3>5. \A z : z \in Elements(c) <=> z \in Elements(a) \/ z \in Elements(b)
        BY <2>1, ConcatFacts
      <3> QED
        BY <3>1, <3>2, <3>3, <3>4, <3>5
    <2> QED
      BY <1>4, <2>2
  <1>6. /\ \A i, j \in 1 .. n : i < j => Before(a[i], a[j])
        /\ \A i, j \in 1 .. m : i < j => Before(b[i], b[j])
        /\ \A i \in 1 .. n, j \in 1 .. m : Before(a[i], b[j])
    <2>1. /\ \A i \in 1 .. n : Within(a[i], x.start) /\ a[i] \in Words
          /\ \A i \in 1 .. m : Before(x.start, b[i]) /\ b[i] \in Words
      BY <1>2, <1>3, <1>4 DEF PageInv
    <2>2. \A i \in 1 .. n, j \in 1 .. m : Before(a[i], b[j])
      BY <1>1, <2>1, WithinTransitive
    <2> QED
      BY <1>3, <1>4, <2>2 DEF PageInv, Ascends
  <1>7. ASSUME NEW i \in 1 .. n + m, NEW j \in 1 .. n + m, i < j
        PROVE  Before(c[i], c[j])
    <2>1. CASE j <= n
      <3>1. i \in 1 .. n /\ j \in 1 .. n
        BY <1>7, <2>1
      <3> QED
        BY <1>5, <1>6, <1>7, <3>1
    <2>2. CASE i <= n /\ j > n
      <3>1. i \in 1 .. n /\ j \in n + 1 .. n + m
        BY <1>7, <2>2
      <3>2. j - n \in 1 .. m /\ c[i] = a[i] /\ c[j] = b[j - n]
        BY <1>5, <3>1
      <3> QED
        BY <1>6, <3>1, <3>2
    <2>3. CASE i > n
      <3>1. i \in n + 1 .. n + m /\ j \in n + 1 .. n + m /\ i - n < j - n
        BY <1>7, <2>3
      <3>2. i - n \in 1 .. m /\ j - n \in 1 .. m /\ c[i] = b[i - n] /\ c[j] = b[j - n]
        BY <1>5, <3>1
      <3> QED
        BY <1>6, <3>1, <3>2
    <2> QED
      BY <2>1, <2>2, <2>3
  <1>8. Ascends(c)
    BY <1>5, <1>7 DEF Ascends
  <1> QED
    BY <1>3, <1>5, <1>8

ScanMore(x) == [x EXCEPT !.all = Pages(x), !.start = Last(x.page), !.page = <<>>,
                         !.stream = <<>>, !.position = NoName, !.ended = FALSE]
ScanDone(x) == [x EXCEPT !.at = "idle", !.all = Pages(x), !.result = "Scanned"]

\* A scan goes on behind its page.
LEMMA ScanMoreKeeps ==
    ASSUME NEW there, NEW x, ListInv(x, there), x.at = "listing", ~x.faulted,
           x.op = "scan", x.page # <<>>
    PROVE  ListInv(ScanMore(x), there)
  <1> DEFINE y == ScanMore(x)
             last == Last(x.page)
             pages == Pages(x)
  <1>1. /\ x \in ListType /\ PageInv(x, there) /\ CleanInv(x, there)
        /\ x.steady \subseteq Keys /\ x.start \in Words
    BY DEF ListInv, ListType
  <1>2. /\ last \in Keys /\ last \in Words /\ Previous(x) = last
        /\ Len(x.page) \in 1 .. Len(x.page) /\ Len(x.page) \in Nat /\ Len(x.all) \in Nat
        /\ \A i \in 1 .. Len(x.page) : x.page[i] \in Words
        /\ \A i \in 1 .. Len(x.all) : x.all[i] \in Words
    BY <1>1, PointsType, KeysAreWords DEF Previous
  <1>3. /\ pages \in Seq(Keys) /\ Ascends(pages) /\ Len(pages) \in Nat
        /\ \A z : z \in Elements(pages) <=> z \in Elements(x.all) \/ z \in Elements(x.page)
    BY <1>1, PagesAscend
  <1>4. /\ NoName \in Words /\ <<>> \in Seq(Keys) /\ <<>> \in Seq(Seq(Nat)) /\ Len(<<>>) = 0
    BY DEF NoName, Words
  <1>5. Before(x.start, last) /\ \A i \in 1 .. Len(x.page) : Within(x.page[i], last)
    BY <1>1, <1>2 DEF PageInv, Ascends, Within, Last
  <1>6. y = [x EXCEPT !.all = pages, !.start = last, !.page = <<>>, !.stream = <<>>,
                      !.position = NoName, !.ended = FALSE]
    BY DEF ScanMore
  <1> HIDE DEF y, last, pages
  <1>7. /\ y \in ListType /\ y.all = pages /\ y.start = last /\ y.page = <<>>
        /\ y.stream = <<>> /\ y.position = NoName /\ y.ended = FALSE
        /\ y.at = x.at /\ y.op = x.op /\ y.keys_max = x.keys_max /\ y.faulted = x.faulted
        /\ y.steady = x.steady /\ y.newest = x.newest /\ y.result = x.result
    BY <1>1, <1>2, <1>3, <1>4, <1>6 DEF ListType
  <1>8. Previous(y) = last /\ Resume(y) = last
    BY <1>7 DEF Previous, Resume
  <1>9. ASSUME NEW i \in 1 .. Len(pages) PROVE Within(pages[i], last)
    <2>1. pages[i] \in Elements(x.all) \/ pages[i] \in Elements(x.page)
      <3>1. pages[i] \in Elements(pages)
        BY DEF Elements
      <3> QED
        BY <1>3, <3>1
    <2>2. CASE pages[i] \in Elements(x.all)
      <3>1. PICK j \in 1 .. Len(x.all) : pages[i] = x.all[j]
        BY <2>2 DEF Elements
      <3>2. Within(x.all[j], x.start) /\ x.all[j] \in Words
        BY <1>1, <1>2 DEF PageInv
      <3>3. Before(x.all[j], last)
        BY <1>1, <1>2, <1>5, <3>2, WithinTransitive
      <3> QED
        BY <3>1, <3>3 DEF Within
    <2>3. CASE pages[i] \in Elements(x.page)
      BY <1>5, <2>3 DEF Elements
    <2> QED
      BY <2>1, <2>2, <2>3
  <1>10. PageInv(y, there)
    <2>1. /\ x.result = "none" /\ x.op # "newest" /\ x.keys_max > 0 /\ x.keys_max \in Nat
          /\ x.steady \subseteq there
      BY <1>1 DEF PageInv, ListType
    <2>2. Ascends(<<>>)
      BY <1>4 DEF Ascends
    <2> QED
      BY <1>3, <1>4, <1>7, <1>9, <2>1, <2>2 DEF PageInv
  <1>11. CleanInv(y, there)
    <2>1. ASSUME NEW name \in x.steady PROVE name \in Elements(pages) \/ Before(last, name)
      BY <1>2, <1>3, RestFollows
    <2>2. Ascends(<<>>) /\ Within(last, last)
      BY <1>4 DEF Ascends, Within
    <2> QED
      BY <1>4, <1>7, <1>8, <2>1, <2>2 DEF CleanInv
  <1>12. ResultInv(y, there)
    BY <1>1, <1>7 DEF ResultInv, PageInv
  <1>13. ListInv(y, there)
    BY <1>7, <1>10, <1>11, <1>12 DEF ListInv
  <1> QED
    BY <1>13 DEF y

\* A scan at the end of its listing has every name that has stayed.
LEMMA ScanDoneKeeps ==
    ASSUME NEW there, NEW x, ListInv(x, there), x.at = "listing", ~x.faulted, x.ended
    PROVE  ListInv(ScanDone(x), there)
  <1> DEFINE y == ScanDone(x)
             pages == Pages(x)
  <1>1. x \in ListType /\ PageInv(x, there)
    BY DEF ListInv
  <1>2. /\ pages \in Seq(Keys) /\ Ascends(pages)
        /\ \A z : z \in Elements(pages) <=> z \in Elements(x.all) \/ z \in Elements(x.page)
    BY <1>1, PagesAscend
  <1>3. y = [x EXCEPT !.at = "idle", !.all = pages, !.result = "Scanned"]
    BY DEF ScanDone
  <1> HIDE DEF y, pages
  <1>4. /\ y \in ListType /\ y.at = "idle" /\ y.all = pages /\ y.result = "Scanned"
        /\ y.steady = x.steady
    BY <1>1, <1>2, <1>3 DEF ListType, Results
  <1>5. x.steady \subseteq Elements(pages)
    BY <1>2, RestFollows
  <1>6. ResultInv(y, there)
    BY <1>2, <1>4, <1>5 DEF ResultInv
  <1>7. ListInv(y, there)
    BY <1>4, <1>6 DEF ListInv
  <1> QED
    BY <1>7 DEF y

\* A page is complete at its bound or at the end of the listing.
LEMMA PageDoneKeeps ==
    ASSUME Invariant, NEW l \in Listers, NEW truncated \in BOOLEAN, PageDone(l, truncated),
           names' = names, list[l].at = "listing", ~list[l].faulted,
           truncated => list[l].page # <<>>, ~truncated => list[l].ended
    PROVE  Invariant'
  <1> DEFINE x == list[l]
  <1>1. /\ x \in ListType /\ list \in [Listers -> ListType] /\ ListInv(x, names)
        /\ x.op \in {"newest", "scan"} /\ x.page \in Seq(Keys)
    BY DEF Invariant, ListInv, PageInv, ListType
  <1>2. CASE x.op = "newest"
    <2> DEFINE coordinate == IF x.page = <<>> THEN 0 ELSE Parse(Head(x.page))
               result == IF x.page = <<>> THEN "Empty"
                         ELSE IF coordinate = 0 THEN "Contradiction" ELSE "Newest"
               y == [x EXCEPT !.at = "idle", !.newest = coordinate, !.result = result]
    <2>1. list' = [list EXCEPT ![l] = y]
      BY <1>1, <1>2 DEF PageDone, NewestRead
    <2>2. x.page # <<>> => Head(x.page) = x.page[1]
      BY <1>1, HeadFacts
    <2>3. Concluded(x, coordinate, result)
      BY <2>2 DEF Concluded
    <2> HIDE DEF x, coordinate, result
    <2>4. x.page = <<>> => x.ended
      BY DEF x
    <2>5. x.at = "listing" /\ ~x.faulted
      BY DEF x
    <2>6. ListInv(y, names)
      BY <1>1, <1>2, <2>3, <2>4, <2>5, NewestKeeps
    <2> QED
      BY <2>1, <2>6, ListerKeeps
  <1>3. CASE x.op = "scan" /\ truncated
    <2>1. list' = [list EXCEPT ![l] = ScanMore(x)]
      BY <1>1, <1>3 DEF PageDone, PageScanned, ScanMore, Pages, Continuation
    <2>2. ListInv(ScanMore(x), names)
      BY <1>1, <1>3, ScanMoreKeeps
    <2> QED
      BY <2>1, <2>2, ListerKeeps
  <1>4. CASE x.op = "scan" /\ ~truncated
    <2>1. list' = [list EXCEPT ![l] = ScanDone(x)]
      BY <1>1, <1>4 DEF PageDone, PageScanned, ScanDone, Pages
    <2>2. ListInv(ScanDone(x), names)
      BY <1>1, <1>4, ScanDoneKeeps
    <2> QED
      BY <2>1, <2>2, ListerKeeps
  <1> QED
    BY <1>1, <1>2, <1>3, <1>4

\* An entry is refused, cuts the page off or is pushed.
LEMMA ConsumeKeeps ==
    ASSUME Invariant, NEW l \in Listers, Consume(l)
    PROVE  Invariant'
  <1> DEFINE x == list[l]
             listed == Head(x.stream)
  <1>1. /\ x \in ListType /\ list \in [Listers -> ListType] /\ ListInv(x, names)
        /\ x.at = "listing" /\ x.stream # <<>> /\ names' = names
    BY DEF Invariant, Consume
  <1>2. CASE ~Canonical(listed) \/ ~Before(Previous(x), listed)
    <2>1. Ends(l, "Contradiction")
      BY <1>2 DEF Consume, OutOfOrder
    <2>2. x.faulted
      <3> SUFFICES ASSUME ~x.faulted PROVE FALSE
        OBVIOUS
      <3> HIDE DEF x
      <3>1. x.stream \in Seq(Seq(Nat))
        BY <1>1 DEF ListType
      <3>2. 1 \in 1 .. Len(x.stream) /\ listed = x.stream[1]
        BY <1>1, <3>1, TailFacts
      <3>3. Known(x.stream[1], names) /\ Before(Previous(x), x.stream[1])
        BY <1>1, <3>2 DEF ListInv, CleanInv
      <3>4. Canonical(x.stream[1])
        BY <3>3, KnownIsKey, KeysAreWords
      <3> QED
        BY <1>2, <3>2, <3>3, <3>4
    <2> QED
      BY <1>1, <2>1, <2>2, ContradictionKeeps
  <1>3. CASE Canonical(listed) /\ Before(Previous(x), listed) /\ Full(l)
    <2>1. PageDone(l, TRUE)
      BY <1>3 DEF Consume, OutOfOrder
    <2>2. x.page # <<>>
      <3>1. Len(x.page) = x.keys_max /\ x.keys_max > 0 /\ Len(<<>>) = 0
        BY <1>1, <1>3 DEF Full, ListInv, PageInv
      <3> QED
        BY <3>1
    <2>3. ~x.faulted
      BY <1>1, <1>3, <2>2, ListedIsKey
    <2> QED
      BY <1>1, <2>1, <2>2, <2>3, PageDoneKeeps
  <1>4. CASE Canonical(listed) /\ Before(Previous(x), listed) /\ ~Full(l)
    <2>1. list' = [list EXCEPT ![l] = Pushed(x)]
      BY <1>1, <1>4 DEF Consume, OutOfOrder, Pushed
    <2>2. ListInv(Pushed(x), names)
      BY <1>1, <1>4, PushedKeeps DEF Full
    <2> QED
      BY <1>1, <2>1, <2>2, ListerKeeps
  <1> QED
    BY <1>2, <1>3, <1>4

\* The listing ends.
LEMMA EndOfStreamKeeps ==
    ASSUME Invariant, NEW l \in Listers, EndOfStream(l)
    PROVE  Invariant'
  <1>1. /\ ListInv(list[l], names) /\ list[l].at = "listing" /\ list[l].ended
        /\ PageDone(l, FALSE) /\ names' = names
    BY DEF Invariant, EndOfStream
  <1>2. ~list[l].faulted
    BY <1>1, StillClean
  <1> QED
    BY <1>1, <1>2, PageDoneKeeps

\* At first nothing is listed.
LEMMA InitInvariant ==
    Init => Invariant
  <1> SUFFICES ASSUME Init PROVE Invariant
    OBVIOUS
  <1>1. /\ NoName \in Words /\ <<>> \in Seq(Keys) /\ <<>> \in Seq(Seq(Nat))
    BY DEF NoName, Words
  <1>2. /\ Fresh \in ListType /\ Fresh.at = "idle" /\ Fresh.result = "none"
    BY <1>1 DEF Fresh, ListType, Results
  <1>3. ListInv(Fresh, names)
    BY <1>2 DEF ListInv, ResultInv
  <1> QED
    BY <1>2, <1>3 DEF Init, Invariant

\* Every step keeps the invariant.
LEMMA NextInvariant ==
    Invariant /\ [Next]_vars => Invariant'
  <1> SUFFICES ASSUME Invariant, [Next]_vars PROVE Invariant'
    OBVIOUS
  <1>1. ASSUME NEW n \in Coordinates, Create(Spell(n)) PROVE Invariant'
    BY <1>1, CreateKeeps
  <1>2. ASSUME NEW n \in Coordinates, Collect(Spell(n)) PROVE Invariant'
    BY <1>2, CollectKeeps
  <1>3. ASSUME NEW stray \in Strays, Create(stray) PROVE Invariant'
    BY <1>3, CreateKeeps
  <1>4. ASSUME NEW l \in Listers, NEW op \in {"newest", "scan"}, NEW keys_max \in KeysMax,
               Begin(l, op, keys_max)
        PROVE  Invariant'
    BY <1>4, BeginKeeps
  <1>5. ASSUME NEW l \in Listers, Fetch(l) PROVE Invariant'
    BY <1>5, FetchKeeps
  <1>6. ASSUME NEW l \in Listers, Consume(l) PROVE Invariant'
    BY <1>6, ConsumeKeeps
  <1>7. ASSUME NEW l \in Listers, EndOfStream(l) PROVE Invariant'
    BY <1>7, EndOfStreamKeeps
  <1>8. CASE UNCHANGED vars
    BY <1>8 DEF vars, Invariant
  <1> QED
    BY <1>1, <1>2, <1>3, <1>4, <1>5, <1>6, <1>7, <1>8 DEF Next

-----------------------------------------------------------------------------
(* The theorems. *)

\* list_page: the pages so far and the entries that came are in order, every
\* name that has stayed since the listing began is on a page, among those
\* entries or behind the point where the backend goes on, and entries in
\* disorder are about to be refused.
THEOREM ListingInvariant == Spec => []Invariant
  <1> QED
    BY InitInvariant, NextInvariant, PTL DEF Spec

\* newest_generation and newest_surviving_batch: a page of one key leads to a
\* coordinate that is at least every coordinate that was there when the listing
\* began and has stayed, for every width of a spelling, every number of
\* coordinates and whatever is created and collected meanwhile.
THEOREM NewestAlwaysNewest == Spec => []NewestIsNewest
  <1>1. Invariant => NewestIsNewest
    BY DEF Invariant, ListInv, ResultInv, NewestIsNewest
  <1> QED
    BY <1>1, ListingInvariant, PTL

\* A scan to the end has every key that stayed, each once and in order, for
\* every page bound and every size of the backend's answers, and a listing is
\* contradicted only by a disordered answer or by a name nobody here writes.
THEOREM ScanAlwaysComplete == Spec => []ScanIsComplete
  <1>1. ASSUME Invariant, NEW l \in Listers
        PROVE  /\ list[l].result = "Scanned" =>
                    /\ list[l].steady \subseteq Range(list[l].all)
                    /\ \A i, j \in 1 .. Len(list[l].all) :
                         i < j => Before(list[l].all[i], list[l].all[j])
               /\ list[l].result = "Contradiction" => list[l].faulted \/ names \cap Strays # {}
    <2> DEFINE x == list[l]
    <2>1. x.all \in Seq(Keys) /\ ResultInv(x, names)
      BY <1>1 DEF Invariant, ListInv, ListType
    <2> HIDE DEF x
    <2>2. Elements(x.all) = Range(x.all)
      BY <2>1 DEF Elements, Range
    <2>3. x.result = "Scanned" => /\ x.steady \subseteq Range(x.all)
                                  /\ \A i, j \in 1 .. Len(x.all) :
                                       i < j => Before(x.all[i], x.all[j])
      BY <2>1, <2>2 DEF ResultInv, Ascends
    <2>4. x.result = "Contradiction" => x.faulted \/ names \cap Strays # {}
      BY <2>1 DEF ResultInv, Foreign
    <2> QED
      BY <2>3, <2>4 DEF x
  <1>2. Invariant => ScanIsComplete
    BY <1>1 DEF ScanIsComplete
  <1> QED
    BY <1>2, ListingInvariant, PTL

=============================================================================
