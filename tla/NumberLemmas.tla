---------------------------- MODULE NumberLemmas -----------------------------
(***************************************************************************)
(* Facts about numbers that the proofs share: residues, and the least      *)
(* member of a set of naturals.                                            *)
(***************************************************************************)
EXTENDS Integers, NaturalsInduction, WellFoundedInduction, TLAPS

-----------------------------------------------------------------------------
(* Residues. *)
LEMMA ModRange ==
  ASSUME NEW n \in Nat \ {0}, NEW x \in Int
  PROVE  x % n \in 0..n-1 /\ \E q \in Int : x = q * n + (x % n)
<1>1. x \div n \in Int /\ x = (x \div n) * n + (x % n) /\ x % n \in 0..n-1
  OBVIOUS
<1> QED
  BY <1>1, Zenon

(* A number is its residue and a multiple of the modulus.                  *)
LEMMA ModWitness ==
  ASSUME NEW n \in Nat \ {0}, NEW x \in Int
  PROVE  \E r \in 0..n-1, q \in Int : r = x % n /\ x = q * n + r
<1>1. PICK q \in Int : x = q * n + (x % n)
  BY ModRange, Zenon
<1>2. PICK r \in 0..n-1 : r = x % n
  BY ModRange
<1>3. x = q * n + r
  BY <1>1, <1>2
<1> QED
  BY <1>2, <1>3, Zenon

(* Different multiples are at least the modulus apart.                     *)
LEMMA MulGap ==
  ASSUME NEW n \in Nat, NEW p \in Int, NEW q \in Int, q < p
  PROVE  p * n >= q * n + n
<1>1. PICK d \in Nat : p = q + 1 + d
  <2>1. p - q - 1 \in Nat /\ p = q + 1 + (p - q - 1)
    OBVIOUS
  <2> QED
    BY <2>1
<1>2. d * n \in Nat
  OBVIOUS
<1>3. p * n = q * n + n + d * n
  BY <1>1
<1> QED
  BY <1>2, <1>3

(* The residue is the only number in range a multiple away.                *)
LEMMA ModUnique ==
  ASSUME NEW n \in Nat \ {0}, NEW x \in Int, NEW q \in Int, NEW r \in 0..n-1, x = q * n + r
  PROVE  x % n = r
<1>1. PICK p \in Int : x = p * n + (x % n)
  BY ModRange, Zenon
<1>2. x % n \in 0..n-1
  BY ModRange
<1> DEFINE m == x % n
           pn == p * n
           qn == q * n
<1>3. pn \in Int /\ qn \in Int /\ m \in 0..n-1 /\ x = pn + m /\ x = qn + r
  BY <1>1, <1>2
<1>4. p > q => pn >= qn + n
  BY MulGap
<1>5. q > p => qn >= pn + n
  BY MulGap
<1>6. p = q => pn = qn
  OBVIOUS
<1> HIDE DEF m, pn, qn
<1>7. p = q
  BY <1>3, <1>4, <1>5
<1> QED
  BY <1>3, <1>6, <1>7 DEF m

(* A number in range is its own residue.                                   *)
LEMMA ModSmall ==
  ASSUME NEW n \in Nat \ {0}, NEW r \in 0..n-1
  PROVE  r % n = r
<1>1. r = 0 * n + r
  OBVIOUS
<1> QED
  BY <1>1, ModUnique

(* A step of an index. *)
LEMMA ModAdd ==
  ASSUME NEW n \in Nat \ {0}, NEW x \in Int, NEW y \in Int
  PROVE  ((x % n) + y) % n = (x + y) % n
<1>1. PICK a \in 0..n-1, q \in Int : a = x % n /\ x = q * n + a
  BY ModWitness, Zenon
<1>2. PICK z \in Int : z = a + y
  OBVIOUS
<1>3. PICK m \in 0..n-1, p \in Int : m = z % n /\ z = p * n + m
  BY ModWitness, Zenon
<1>4. (p + q) * n = p * n + q * n
  OBVIOUS
<1>5. x + y = (p + q) * n + m /\ x + y \in Int /\ p + q \in Int
  BY <1>1, <1>2, <1>3, <1>4
<1>6. (x + y) % n = m
  BY <1>5, ModUnique, Zenon
<1> QED
  BY <1>1, <1>2, <1>3, <1>6, Zenon

(* Indices less than a round apart are apart by the residue's distance.    *)
LEMMA ModDiff ==
  ASSUME NEW n \in Nat \ {0}, NEW x \in Int, NEW y \in Int, y - x \in 0..n-1
  PROVE  ((y % n) - (x % n)) % n = y - x
<1>1. PICK a \in 0..n-1, q \in Int : a = x % n /\ x = q * n + a
  BY ModWitness, Zenon
<1>2. PICK b \in 0..n-1, p \in Int : b = y % n /\ y = p * n + b
  BY ModWitness, Zenon
<1>3. (q - p) * n = q * n - p * n
  OBVIOUS
<1>4. b - a = (q - p) * n + (y - x) /\ b - a \in Int /\ q - p \in Int
  BY <1>1, <1>2, <1>3
<1>5. (b - a) % n = y - x
  BY <1>4, ModUnique
<1> QED
  BY <1>1, <1>2, <1>5

(* Numbers less than the modulus apart have different residues.            *)
LEMMA ModApart ==
  ASSUME NEW n \in Nat \ {0}, NEW x \in Int, NEW y \in Int, y - x \in 0..n-1, x % n = y % n
  PROVE  x = y
<1>1. PICK a \in 0..n-1, q \in Int : a = x % n /\ x = q * n + a
  BY ModWitness, Zenon
<1>2. PICK b \in 0..n-1, p \in Int : b = y % n /\ y = p * n + b
  BY ModWitness
<1>3. a = b
  BY <1>1, <1>2
<1>4. p > q => p * n >= q * n + n
  BY MulGap
<1>5. q > p => q * n >= p * n + n
  BY MulGap
<1>6. p = q
  BY <1>1, <1>2, <1>3, <1>4, <1>5
<1> QED
  BY <1>1, <1>2, <1>3, <1>6

(* A modulus that n divides may be taken before n.                         *)
LEMMA ModMod ==
  ASSUME NEW n \in Nat \ {0}, NEW m \in Nat \ {0}, m % n = 0, NEW x \in Int
  PROVE  (x % m) % n = x % n
<1>1. PICK k \in Int : m = k * n
  BY ModRange
<1>2. PICK q \in Int : x = q * m + (x % m)
  BY ModRange, Zenon
<1>3. x % m \in Int
  BY ModRange
<1>4. PICK p \in Int : x % m = p * n + ((x % m) % n)
  BY <1>3, ModRange, Zenon
<1> DEFINE r == (x % m) % n
<1>5. r \in 0..n-1
  BY <1>3, ModRange
<1> HIDE DEF r
<1>6. q * m = (q * k) * n
  BY <1>1
<1>7. x = (q * k) * n + (p * n + r)
  BY <1>2, <1>4, <1>6 DEF r
<1>8. x = (q * k + p) * n + r /\ q * k + p \in Int
  BY <1>5, <1>7
<1> QED
  BY <1>5, <1>8, ModUnique, Zenon DEF r

-----------------------------------------------------------------------------
(* A set of naturals has a least member. *)
LEMMA LeastMember == ASSUME NEW S \in SUBSET Nat, S # {} PROVE \E x \in S : \A y \in S : x <= y
<1> DEFINE less == {ss \in Nat \X Nat : ss[1] < ss[2]}
<1>1. IsWellFoundedOn(less, Nat)
  BY NatLessThanWellFounded DEF OpToRel
<1>2. \A x, y \in Nat : <<y, x>> \notin less => x <= y
  <2> SUFFICES ASSUME NEW x \in Nat, NEW y \in Nat, y < x PROVE <<y, x>> \in less
    OBVIOUS
  <2>1. <<y, x>> \in Nat \X Nat /\ <<y, x>>[1] = y /\ <<y, x>>[2] = x
    OBVIOUS
  <2> QED
    BY <2>1, Zenon
<1> HIDE DEF less
<1>3. PICK x \in S : \A y \in S : ~(<<y, x>> \in less)
  BY <1>1, WFMin, Zenon
<1> QED
  BY <1>2, <1>3, Zenon
=============================================================================
