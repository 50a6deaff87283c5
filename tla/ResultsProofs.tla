---------------------------- MODULE ResultsProofs ---------------------------
(***************************************************************************)
(* Proofs about what the library computes: about Md5, for blocks, words    *)
(* and reads of any size and messages of any length, given in pieces of    *)
(* any length; and about Queries, for texts of any length.                 *)
(*                                                                         *)
(* Md5.  A power of two is the number of subsets of an interval: that is   *)
(* how it doubles, and how it is positive.  Division is used through its   *)
(* bounds.  The heart is Holds(c, m): the two words count the bits of m,   *)
(* the blocks compressed are the full blocks of m, and the buffer begins   *)
(* with what is left of it.  UpdateHolds shows that md5_update turns       *)
(* Holds(c, m) into Holds(c', m \o input); FinalisedIs, that padding and   *)
(* length complete the blocks of the padded message.                       *)
(*                                                                         *)
(* Queries.  Command lines: where fgets and the loop stop, then the buffer *)
(* place by place.  base64: the sextets of three octets, and back.  Fields *)
(* and tasks: of a line only the sets of its spaces and blanks matter; the *)
(* recursive function that finds the fields is shown to exist (Begin is    *)
(* one) and to be unique, by the least place where two of them differ.     *)
(* What a callback is handed and the time of a process are followed from   *)
(* element to element; the other answers follow one by one from the        *)
(* extreme place they look for.                                            *)
(***************************************************************************)
EXTENDS Md5, Queries, FiniteSetTheorems, SequenceTheorems, WellFoundedInduction, TLAPS

(* Sizes of sets of subsets give the powers of two their arithmetic.       *)
LEMMA PowerIsCount ==
  ASSUME NEW n \in Nat
  PROVE  /\ IsFiniteSet(SUBSET (1 .. n))
         /\ Cardinality(SUBSET (1 .. n)) = 2^n
         /\ 2^n \in Nat \ {0}
<1>1. IsFiniteSet(1 .. n) /\ Cardinality(1 .. n) = n
  BY FS_Interval
<1>2. IsFiniteSet(SUBSET (1 .. n)) /\ Cardinality(SUBSET (1 .. n)) = 2^n
  BY <1>1, FS_SUBSET
<1>3. Cardinality(SUBSET (1 .. n)) \in Nat
  BY <1>2, FS_CardinalityType
<1>4. Cardinality(SUBSET (1 .. n)) # 0
  BY <1>2, FS_EmptySet
<1>5. QED
  BY <1>2, <1>3, <1>4

LEMMA PowerOfZero == 2^0 = 1
<1>1. SUBSET (1 .. 0) = {{}}
  OBVIOUS
<1>2. QED
  BY <1>1, PowerIsCount, FS_Singleton

LEMMA PowerDoubles ==
  ASSUME NEW n \in Nat
  PROVE  2^(n + 1) = 2^n + 2^n
<1> DEFINE S == SUBSET (1 .. n)
<1> DEFINE U == {X \cup {n + 1} : X \in S}
<1> DEFINE f == [X \in S |-> X \cup {n + 1}]
<1>1. SUBSET (1 .. n + 1) = S \cup U
  <2>1. ASSUME NEW X \in SUBSET (1 .. n + 1)
        PROVE  X \in S \cup U
    <3>1. CASE n + 1 \in X
      <4>1. X \ {n + 1} \in S /\ X = (X \ {n + 1}) \cup {n + 1}
        BY <3>1
      <4>2. QED
        BY <4>1, Zenon
    <3>2. CASE n + 1 \notin X
      BY <3>2
    <3>3. QED
      BY <3>1, <3>2
  <2>2. ASSUME NEW X \in S
        PROVE  X \in SUBSET (1 .. n + 1) /\ X \cup {n + 1} \in SUBSET (1 .. n + 1)
    OBVIOUS
  <2>3. \A X \in S \cup U : X \in SUBSET (1 .. n + 1)
    BY <2>2
  <2> HIDE DEF S, U
  <2>4. QED
    BY <2>1, <2>3, Zenon
<1>2. S \cap U = {}
  <2>1. \A X \in S : n + 1 \notin X
    OBVIOUS
  <2>2. \A X \in U : n + 1 \in X
    OBVIOUS
  <2>3. QED
    BY <2>1, <2>2
<1>3. f \in Bijection(S, U)
  <2>1. \A X, Y \in S : X \cup {n + 1} = Y \cup {n + 1} => X = Y
    <3>1. \A X \in S : X = (X \cup {n + 1}) \ {n + 1}
      OBVIOUS
    <3>2. QED
      BY <3>1, Zenon
  <2>2. f \in [S -> U] /\ \A X \in S : f[X] = X \cup {n + 1}
    OBVIOUS
  <2> HIDE DEF f
  <2>3. \A u \in U : \E X \in S : f[X] = u
    BY <2>2
  <2> HIDE DEF S, U
  <2>4. QED
    BY <2>1, <2>2, <2>3 DEF Bijection, Injection, Surjection, IsInjective
<1> HIDE DEF S, U, f
<1>4. IsFiniteSet(S) /\ Cardinality(S) = 2^n /\ 2^n \in Nat
  BY PowerIsCount DEF S
<1>5. IsFiniteSet(U) /\ Cardinality(U) = 2^n
  BY <1>3, <1>4, FS_Bijection DEF ExistsBijection
<1>6. Cardinality(S \cup U) = 2^n + 2^n
  <2>1. Cardinality(S \cup U) = Cardinality(S) + Cardinality(U) - Cardinality(S \cap U)
    BY <1>4, <1>5, FS_Union
  <2>2. Cardinality(S \cap U) = 0
    BY <1>2, FS_EmptySet
  <2>3. QED
    BY <1>4, <1>5, <2>1, <2>2
<1>7. Cardinality(SUBSET (1 .. n + 1)) = 2^(n + 1)
  BY n + 1 \in Nat, PowerIsCount
<1>8. QED
  BY <1>1, <1>6, <1>7

LEMMA PowerOfSum ==
  ASSUME NEW a \in Nat, NEW b \in Nat
  PROVE  2^(a + b) = 2^a * 2^b
<1> DEFINE Wrong == {c \in Nat : 2^(a + c) # 2^a * 2^c}
<1>1. SUFFICES ASSUME Wrong # {}
               PROVE  FALSE
  OBVIOUS
<1>2. PICK c \in Wrong : \A d \in Wrong : ~ (<<d, c>> \in OpToRel(<, Nat))
  BY <1>1, NatLessThanWellFounded, WFMin
<1>3. 2^a \in Nat
  BY PowerIsCount
<1>4. c # 0
  <2>1. a + 0 = a
    OBVIOUS
  <2>2. 2^a * 2^0 = 2^a
    BY <1>3, PowerOfZero
  <2>3. 0 \notin Wrong
    BY <2>1, <2>2
  <2>4. QED
    BY <1>2, <2>3
<1>5. c - 1 \in Nat /\ a + (c - 1) \in Nat
  BY <1>4
<1>6. c - 1 \notin Wrong
  <2>1. <<c - 1, c>> \in OpToRel(<, Nat)
    BY <1>5 DEF OpToRel
  <2>2. QED
    BY <1>2, <2>1
<1>7. 2^(a + (c - 1)) = 2^a * 2^(c - 1)
  BY <1>5, <1>6
<1>8. 2^(a + c) = 2^(a + (c - 1)) + 2^(a + (c - 1))
  <2>1. a + c = (a + (c - 1)) + 1
    BY <1>5
  <2>2. QED
    BY <1>5, <2>1, PowerDoubles
<1>9. 2^c = 2^(c - 1) + 2^(c - 1)
  <2>1. c = (c - 1) + 1
    OBVIOUS
  <2>2. QED
    BY <1>5, <2>1, PowerDoubles
<1>10. 2^(c - 1) \in Nat
  BY <1>5, PowerIsCount
<1>11. 2^a * 2^c = 2^a * 2^(c - 1) + 2^a * 2^(c - 1)
  BY <1>3, <1>9, <1>10
<1>12. QED
  BY <1>7, <1>8, <1>11

LEMMA PowersOfTheWord ==
  /\ 2^(W - 3) \in Nat \ {0}
  /\ 2^W = 8 * 2^(W - 3)
  /\ 2^(2 * W) = 2^W * 2^W
<1>1. W \in Nat /\ W - 3 \in Nat
  BY SizesAssumption
<1>2. 2^(W - 3) \in Nat \ {0}
  BY <1>1, PowerIsCount
<1>3. 2^3 = 8
  <2>1. 2^1 = 2
    BY PowerOfZero, PowerDoubles, 0 + 1 = 1
  <2>2. 2^2 = 4
    BY <2>1, PowerDoubles, 1 + 1 = 2
  <2>3. 2^3 = 4 + 4
    BY <2>2, PowerDoubles, 2 + 1 = 3
  <2>4. QED
    BY <2>3
<1>4. 2^W = 8 * 2^(W - 3)
  <2>1. W = 3 + (W - 3)
    BY <1>1
  <2>2. 2^(3 + (W - 3)) = 2^3 * 2^(W - 3)
    BY <1>1, PowerOfSum
  <2>3. QED
    BY <1>3, <2>1, <2>2
<1>5. 2^(2 * W) = 2^W * 2^W
  <2>1. 2 * W = W + W
    BY <1>1
  <2>2. QED
    BY <1>1, <2>1, PowerOfSum
<1>6. QED
  BY <1>2, <1>4, <1>5

(* Quotients and remainders by a size that stays a parameter.              *)
LEMMA Division ==
  ASSUME NEW a \in Nat, NEW b \in Nat \ {0}
  PROVE  /\ a \div b \in Nat
         /\ a % b \in 0 .. b - 1
         /\ a = b * (a \div b) + (a % b)
  OBVIOUS

LEMMA TimesMonotone ==
  ASSUME NEW b \in Nat, NEW i \in Int, NEW j \in Int, i <= j
  PROVE  b * i <= b * j
<1>1. PICK d \in Nat : j = i + d
  <2>1. j - i \in Nat /\ j = i + (j - i)
    OBVIOUS
  <2>2. QED
    BY <2>1
<1>2. b * j = b * i + b * d
  BY <1>1
<1>3. b * d \in Nat
  OBVIOUS
<1>4. QED
  BY <1>2, <1>3

LEMMA DivisionIs ==
  ASSUME NEW a \in Nat, NEW b \in Nat \ {0}, NEW q \in Int, NEW r \in 0 .. b - 1,
         a = b * q + r
  PROVE  a \div b = q /\ a % b = r
<1>1. PICK p \in Nat, s \in 0 .. b - 1 :
        a \div b = p /\ a % b = s /\ a = b * p + s
  BY Division
<1>2. ~ (p < q)
  <2>1. SUFFICES ASSUME p < q PROVE FALSE
    OBVIOUS
  <2>2. b * (p + 1) <= b * q
    BY <2>1, TimesMonotone, p + 1 <= q
  <2>3. b * (p + 1) = b * p + b
    OBVIOUS
  <2>4. QED
    BY <1>1, <2>2, <2>3
<1>3. ~ (q < p)
  <2>1. SUFFICES ASSUME q < p PROVE FALSE
    OBVIOUS
  <2>2. b * (q + 1) <= b * p
    BY <2>1, TimesMonotone, q + 1 <= p
  <2>3. b * (q + 1) = b * q + b
    OBVIOUS
  <2>4. QED
    BY <1>1, <2>2, <2>3
<1>4. p = q
  BY <1>2, <1>3
<1>5. QED
  BY <1>1, <1>4

(* A multiple of the divisor leaves the remainder alone.                   *)
LEMMA RemainderOfSum ==
  ASSUME NEW a \in Nat, NEW b \in Nat \ {0}, NEW k \in Int, a + b * k \in Nat
  PROVE  (a + b * k) % b = a % b
<1>1. PICK q \in Nat, r \in 0 .. b - 1 : a % b = r /\ a = b * q + r
  BY Division
<1>2. a + b * k = b * (q + k) + r
  BY <1>1
<1>3. (a + b * k) % b = r
  BY <1>2, DivisionIs, q + k \in Int
<1>4. QED
  BY <1>1, <1>3

(* The two words count bits.                                               *)
UInt == 0 .. 2^W - 1
Counters == UInt \X UInt
Counts(words, n) ==
  /\ words \in Counters
  /\ words[1] + 2^W * words[2] = (8 * n) % 2^(2 * W)

LEMMA CountSplits ==
  ASSUME NEW words, NEW p \in Nat, Counts(words, p)
  PROVE  \E t \in Nat : 8 * p = 2^W * (2^W * t) + (2^W * words[2] + words[1])
<1>1. PICK P \in Nat \ {0} : P = 2^W
  BY PowersOfTheWord
<1>2. PICK R \in Nat \ {0} : R = P * P
  OBVIOUS
<1>3. R = 2^(2 * W)
  BY <1>1, <1>2, PowersOfTheWord
<1>4. PICK t \in Nat : 8 * p = R * t + ((8 * p) % R)
  <2>1. PICK bits \in Nat : bits = 8 * p
    OBVIOUS
  <2>2. bits \div R \in Nat /\ bits = R * (bits \div R) + (bits % R)
    BY Division
  <2>3. QED
    BY <2>1, <2>2
<1>5. R * t = P * (P * t)
  BY <1>2
<1>6. words[1] \in 0 .. P - 1 /\ words[2] \in 0 .. P - 1
  BY <1>1 DEF Counts, Counters, UInt
<1>7. (8 * p) % R = P * words[2] + words[1]
  BY <1>1, <1>3, <1>6 DEF Counts
<1>8. QED
  BY <1>1, <1>4, <1>5, <1>7

(* ... and only the bit count of n bytes splits that way.                  *)
LEMMA CountJoins ==
  ASSUME NEW low \in UInt, NEW high \in UInt, NEW n \in Nat, NEW t \in Nat,
         8 * n = 2^W * (2^W * t) + (2^W * high + low)
  PROVE  Counts(<<low, high>>, n)
<1>1. PICK P \in Nat \ {0} : P = 2^W
  BY PowersOfTheWord
<1>2. PICK R \in Nat \ {0} : R = P * P
  OBVIOUS
<1>3. R = 2^(2 * W)
  BY <1>1, <1>2, PowersOfTheWord
<1>4. low \in 0 .. P - 1 /\ high \in 0 .. P - 1
  BY <1>1 DEF UInt
<1>5. P * high + low \in 0 .. R - 1
  <2>1. P * high <= P * (P - 1)
    BY <1>4, TimesMonotone
  <2>2. P * (P - 1) = R - P
    BY <1>2
  <2>3. P * high \in Nat
    BY <1>4
  <2>4. QED
    BY <1>4, <2>1, <2>2, <2>3
<1>6. 8 * n = R * t + (P * high + low)
  <2>1. P * (P * t) = R * t
    BY <1>2
  <2>2. QED
    BY <1>1, <2>1
<1>7. (8 * n) % R = P * high + low
  <2>1. PICK bits \in Nat : bits = 8 * n
    OBVIOUS
  <2>2. PICK rest \in 0 .. R - 1 : rest = P * high + low
    BY <1>5
  <2>3. bits = R * t + rest
    BY <1>6, <2>1, <2>2
  <2>4. bits % R = rest
    BY <2>3, DivisionIs, t \in Int
  <2>5. QED
    BY <2>1, <2>2, <2>4
<1>8. low + 2^W * high = (8 * n) % 2^(2 * W)
  <2>1. P * high \in Nat
    BY <1>4
  <2>2. QED
    BY <1>1, <1>3, <1>4, <1>7, <2>1
<1>9. QED
  BY <1>8 DEF Counts, Counters

(* Adding n bytes: the lower word is added to, its carry and the bits it   *)
(* cannot hold go to the upper one.                                        *)
LEMMA CountAdds ==
  ASSUME NEW words, NEW p \in Nat, Counts(words, p), NEW n \in Nat,
         NEW shifted, shifted = (8 * n) % 2^W,
         NEW low, low = (words[1] + shifted) % 2^W,
         NEW high, high = (words[2] + Carry(low, shifted) + n \div 2^(W - 3)) % 2^W
  PROVE  Counts(<<low, high>>, p + n)
<1>1. PICK P \in Nat \ {0}, Q \in Nat \ {0} : P = 2^W /\ Q = 2^(W - 3) /\ P = 8 * Q
  BY PowersOfTheWord
<1>2. PICK c1 \in 0 .. P - 1, c2 \in 0 .. P - 1 : c1 = words[1] /\ c2 = words[2]
  BY <1>1 DEF Counts, Counters, UInt
<1>3. PICK t \in Nat : 8 * p = P * (P * t) + (P * c2 + c1)
  <2>1. PICK t \in Nat : 8 * p = 2^W * (2^W * t) + (2^W * words[2] + words[1])
    BY CountSplits
  <2>2. QED
    BY <1>1, <1>2, <2>1
<1>4. PICK d \in Nat, e \in 0 .. Q - 1 : n \div Q = d /\ n = Q * d + e
  <2>1. n \div Q \in Nat /\ n % Q \in 0 .. Q - 1 /\ n = Q * (n \div Q) + (n % Q)
    BY Division
  <2>2. QED
    BY <2>1
<1>5. Q * d \in Nat /\ 8 * n = P * d + 8 * e /\ 8 * e \in 0 .. P - 1
  BY <1>1, <1>4
<1>6. shifted = 8 * e
  <2>1. PICK bits \in Nat, rest \in 0 .. P - 1 : bits = 8 * n /\ rest = 8 * e
    BY <1>5
  <2>2. bits = P * d + rest
    BY <1>5, <2>1
  <2>3. bits % P = rest
    BY <2>2, DivisionIs, d \in Int
  <2>4. QED
    BY <1>1, <2>1, <2>3
<1>7. PICK k \in 0 .. 1 :
        c1 + shifted = P * k + low /\ low \in 0 .. P - 1 /\ Carry(low, shifted) = k
  <2>1. low = (c1 + shifted) % P
    BY <1>1, <1>2
  <2>2. CASE c1 + shifted < P
    <3>1. c1 + shifted = P * 0 + (c1 + shifted) /\ c1 + shifted \in 0 .. P - 1
      BY <1>5, <1>6, <2>2
    <3>2. low = c1 + shifted
      BY <2>1, <3>1, DivisionIs
    <3>3. ~ (low < shifted)
      BY <1>5, <1>6, <3>2
    <3>4. QED
      BY <3>1, <3>2, <3>3 DEF Carry
  <2>3. CASE c1 + shifted >= P
    <3>1. /\ c1 + shifted = P * 1 + (c1 + shifted - P)
          /\ c1 + shifted - P \in 0 .. P - 1
          /\ c1 + shifted \in Nat
      BY <1>5, <1>6, <2>3
    <3>2. low = c1 + shifted - P
      BY <2>1, <3>1, DivisionIs
    <3>3. low < shifted
      BY <1>5, <1>6, <3>2
    <3>4. QED
      BY <3>1, <3>2, <3>3 DEF Carry
  <2>4. QED
    BY <1>5, <1>6, <2>2, <2>3
<1>8. PICK g \in Nat : c2 + k + d = P * g + high /\ high \in 0 .. P - 1
  <2>1. PICK sum \in Nat : sum = c2 + k + d
    OBVIOUS
  <2>2. high = sum % P
    BY <1>1, <1>2, <1>4, <1>7, <2>1
  <2>3. sum \div P \in Nat /\ sum % P \in 0 .. P - 1 /\ sum = P * (sum \div P) + (sum % P)
    BY Division
  <2>4. QED
    BY <2>1, <2>2, <2>3
<1>9. 8 * (p + n) = P * (P * (t + g)) + (P * high + low)
  <2>1. P * (c2 + k + d) = P * (P * g) + P * high
    BY <1>8
  <2>2. P * (P * (t + g)) = P * (P * t) + P * (P * g)
    OBVIOUS
  <2>3. P * (c2 + k + d) = P * c2 + P * k + P * d
    OBVIOUS
  <2>4. /\ P * c2 \in Nat /\ P * d \in Nat /\ P * k \in Nat /\ P * high \in Nat
        /\ P * (P * t) \in Nat /\ P * (P * g) \in Nat
    BY <1>8
  <2>5. 8 * (p + n) = P * (P * t) + P * c2 + c1 + P * d + shifted
    BY <1>3, <1>5, <1>6, <2>4
  <2>6. QED
    BY <1>7, <2>1, <2>2, <2>3, <2>4, <2>5
<1>10. QED
  BY <1>1, <1>7, <1>8, <1>9, CountJoins, p + n \in Nat, t + g \in Nat DEF UInt

(* The place in the buffer is read off the lower word alone.               *)
LEMMA IndexIs ==
  ASSUME NEW words, NEW p \in Nat, Counts(words, p)
  PROVE  (words[1] \div 8) % B = p % B
<1>1. PICK P \in Nat \ {0}, Q \in Nat \ {0} : P = 2^W /\ Q = 2^(W - 3) /\ P = 8 * Q
  BY PowersOfTheWord
<1>2. B \in Nat \ {0}
  BY SizesAssumption
<1>3. PICK z \in Nat : Q = B * z
  <2>1. Q % B = 0
    BY <1>1, SizesAssumption
  <2>2. Q \div B \in Nat /\ Q = B * (Q \div B) + (Q % B)
    BY <1>2, Division
  <2>3. B * (Q \div B) \in Nat
    BY <1>2, <2>2
  <2>4. QED
    BY <2>1, <2>2, <2>3
<1>4. PICK c1 \in 0 .. P - 1, c2 \in 0 .. P - 1 : c1 = words[1] /\ c2 = words[2]
  BY <1>1 DEF Counts, Counters, UInt
<1>5. PICK t \in Nat : 8 * p = P * (P * t) + (P * c2 + c1)
  <2>1. PICK t \in Nat : 8 * p = 2^W * (2^W * t) + (2^W * words[2] + words[1])
    BY CountSplits
  <2>2. QED
    BY <1>1, <1>4, <2>1
<1>6. PICK y \in Int : y = P * t + c2
  OBVIOUS
<1>7. c1 = 8 * (p - Q * y)
  <2>1. P * (P * t) + P * c2 = P * y
    BY <1>6
  <2>2. P * y = 8 * (Q * y)
    BY <1>1
  <2>3. Q * y \in Int /\ P * c2 \in Int /\ P * (P * t) \in Int
    OBVIOUS
  <2>4. QED
    BY <1>5, <2>1, <2>2, <2>3
<1>8. c1 \div 8 = p - Q * y /\ p - Q * y \in Nat
  <2>1. PICK v \in Int : v = p - Q * y
    OBVIOUS
  <2>2. c1 = 8 * v
    BY <1>7, <2>1
  <2>3. QED
    BY <2>1, <2>2
<1>9. PICK x \in Int : x = 0 - z * y
  OBVIOUS
<1>10. p - Q * y = p + B * x
  <2>1. Q * y = B * (z * y)
    BY <1>2, <1>3
  <2>2. B * x = 0 - B * (z * y)
    BY <1>2, <1>9
  <2>3. B * (z * y) \in Int
    BY <1>2
  <2>4. QED
    BY <2>1, <2>2, <2>3
<1>11. (p + B * x) % B = p % B
  BY <1>2, <1>8, <1>10, RemainderOfSum
<1>12. QED
  BY <1>4, <1>8, <1>10, <1>11

-----------------------------------------------------------------------------
(* Bytes, blocks, and what a context stands for.                           *)
Bytes ==
  ({"byte", "mark", "zero", "junk"} \X Nat \X Nat)
    \cup {md5_encode(words)[j] : words \in Counters, j \in 1 .. L}
Block == [1 .. B -> Bytes]

(* The context c holds the message m: bits counted, whole blocks           *)
(* compressed, the rest at the start of the buffer.                        *)
Holds(c, m) ==
  /\ Counts(c.count, Len(m))
  /\ c.state = H!Blocks(m)
  /\ c.buffer \in Block
  /\ \A i \in 1 .. Len(m) % B : c.buffer[i] = m[B * (Len(m) \div B) + i]

LEMMA PartOf ==
  ASSUME NEW s \in Seq(Bytes), NEW a \in Nat, NEW b \in Nat, a <= b, b <= Len(s)
  PROVE  /\ SubSeq(s, a + 1, b) \in Seq(Bytes)
         /\ Len(SubSeq(s, a + 1, b)) = b - a
         /\ \A i \in 1 .. b - a : SubSeq(s, a + 1, b)[i] = s[a + i]
<1>1. \A i \in a + 1 .. b : s[i] \in Bytes
  OBVIOUS
<1>2. a + 1 \in Int /\ b \in Int
  OBVIOUS
<1>3. /\ SubSeq(s, a + 1, b) \in Seq(Bytes)
      /\ Len(SubSeq(s, a + 1, b)) = IF a + 1 <= b THEN b - (a + 1) + 1 ELSE 0
      /\ \A i \in 1 .. b - (a + 1) + 1 : SubSeq(s, a + 1, b)[i] = s[(a + 1) + i - 1]
  BY <1>1, <1>2, SubSeqProperties
<1>4. QED
  BY <1>3

LEMMA BlocksEqual ==
  ASSUME NEW b \in Block, NEW c \in Block, \A i \in 1 .. B : b[i] = c[i]
  PROVE  b = c
<1>1. /\ b = [i \in 1 .. B |-> b[i]]
      /\ c = [i \in 1 .. B |-> c[i]]
  BY DEF Block
<1>2. [i \in 1 .. B |-> b[i]] = [i \in 1 .. B |-> c[i]]
  OBVIOUS
<1>3. QED
  BY <1>1, <1>2, Zenon

LEMMA BlockSplit ==
  ASSUME NEW n \in Nat
  PROVE  /\ B \in Nat \ {0}
         /\ \E q \in Nat, r \in 0 .. B - 1 : n \div B = q /\ n % B = r /\ n = B * q + r
<1>1. B \in Nat \ {0}
  BY SizesAssumption
<1>2. QED
  BY <1>1, Division

LEMMA BlocksAre ==
  ASSUME NEW s \in Seq(Bytes)
  PROVE  /\ H!Blocks(s) \in Seq(Block)
         /\ Len(H!Blocks(s)) = Len(s) \div B
         /\ \A k \in 1 .. Len(s) \div B, i \in 1 .. B :
              H!Blocks(s)[k][i] = s[B * (k - 1) + i]
<1>1. B \in Nat \ {0}
  BY SizesAssumption
<1>2. PICK q \in Nat, r \in 0 .. B - 1 : Len(s) \div B = q /\ Len(s) = B * q + r
  BY BlockSplit, Len(s) \in Nat
<1>3. ASSUME NEW k \in 1 .. q
      PROVE  /\ SubSeq(s, B * (k - 1) + 1, B * k) \in Block
             /\ \A i \in 1 .. B : SubSeq(s, B * (k - 1) + 1, B * k)[i] = s[B * (k - 1) + i]
  <2>1. PICK a \in Nat : a = B * (k - 1)
    BY <1>1
  <2>2. B * k = a + B /\ a + B <= B * q
    <3>1. B * k = a + B
      BY <1>1, <2>1
    <3>2. B * k <= B * q
      BY <1>1, TimesMonotone
    <3>3. QED
      BY <3>1, <3>2
  <2>3. a + B \in Nat /\ a + B <= Len(s)
    BY <1>1, <1>2, <2>2
  <2>4. /\ SubSeq(s, a + 1, a + B) \in Seq(Bytes)
        /\ Len(SubSeq(s, a + 1, a + B)) = B
        /\ \A i \in 1 .. B : SubSeq(s, a + 1, a + B)[i] = s[a + i]
    BY <1>1, <2>3, PartOf, (a + B) - a = B, a <= a + B
  <2>5. SubSeq(s, a + 1, a + B) \in Block
    BY <2>4, LenProperties DEF Block
  <2>6. QED
    BY <2>1, <2>2, <2>4, <2>5
<1>4. H!Blocks(s) = [k \in 1 .. q |-> SubSeq(s, B * (k - 1) + 1, B * k)]
  BY <1>2 DEF H!Blocks
<1>5. H!Blocks(s) \in Seq(Block) /\ Len(H!Blocks(s)) = q
  <2>1. H!Blocks(s) \in [1 .. q -> Block] /\ q \in Nat
    BY <1>2, <1>3, <1>4
  <2>2. H!Blocks(s) \in Seq(Block)
    BY <2>1, SeqDef
  <2>3. DOMAIN H!Blocks(s) = 1 .. q
    BY <2>1
  <2>4. QED
    BY <2>1, <2>2, <2>3, LenProperties
<1>6. QED
  BY <1>2, <1>3, <1>4, <1>5

(* Blocks completed by more bytes come after those there were.             *)
LEMMA BlocksOfConcat ==
  ASSUME NEW s \in Seq(Bytes), NEW t \in Seq(Bytes), NEW blocks \in Seq(Block),
         Len(s \o t) \div B = (Len(s) \div B) + Len(blocks),
         \A k \in 1 .. Len(blocks), i \in 1 .. B :
           blocks[k][i] = (s \o t)[B * ((Len(s) \div B) + (k - 1)) + i]
  PROVE  H!Blocks(s \o t) = H!Blocks(s) \o blocks
<1>1. B \in Nat \ {0}
  BY SizesAssumption
<1>2. PICK q \in Nat, r \in 0 .. B - 1 : Len(s) \div B = q /\ Len(s) = B * q + r
  BY BlockSplit, Len(s) \in Nat
<1>3. s \o t \in Seq(Bytes)
  OBVIOUS
<1> DEFINE old == H!Blocks(s)
<1> DEFINE new == H!Blocks(s \o t)
<1>4. old \in Seq(Block) /\ Len(old) = q
  BY <1>2, BlocksAre
<1>5. new \in Seq(Block) /\ Len(new) = q + Len(blocks)
  BY <1>2, <1>3, BlocksAre
<1>6. \A k \in 1 .. q, i \in 1 .. B : old[k][i] = s[B * (k - 1) + i]
  <2>1. \A k \in 1 .. Len(s) \div B, i \in 1 .. B : old[k][i] = s[B * (k - 1) + i]
    BY BlocksAre
  <2>2. QED
    BY <1>2, <2>1
<1>7. \A k \in 1 .. q + Len(blocks), i \in 1 .. B :
        new[k][i] = (s \o t)[B * (k - 1) + i]
  <2>1. \A k \in 1 .. Len(s \o t) \div B, i \in 1 .. B :
          new[k][i] = (s \o t)[B * (k - 1) + i]
    BY <1>3, BlocksAre
  <2>2. QED
    BY <1>2, <2>1
<1> HIDE DEF old, new
<1>8. old \o blocks \in Seq(Block) /\ Len(old \o blocks) = q + Len(blocks)
  BY <1>4, ConcatProperties
<1>9. ASSUME NEW k \in 1 .. q + Len(blocks)
      PROVE  new[k] = (old \o blocks)[k]
  <2>1. CASE k <= q
    <3>1. k \in 1 .. q /\ (old \o blocks)[k] = old[k]
      BY <1>4, <2>1
    <3>2. ASSUME NEW i \in 1 .. B
          PROVE  new[k][i] = old[k][i]
      <4>1. PICK a \in Nat : a = B * (k - 1)
        BY <1>1
      <4>2. a + B <= B * q
        <5>1. B * k <= B * q
          BY <1>1, <2>1, TimesMonotone
        <5>2. B * k = a + B
          BY <1>1, <4>1
        <5>3. QED
          BY <5>1, <5>2
      <4>3. PICK bq \in Nat : bq = B * q
        BY <1>1
      <4>4. a + i \in 1 .. Len(s)
        <5>1. a + B <= bq /\ Len(s) = bq + r
          BY <1>2, <4>2, <4>3
        <5>2. QED
          BY <1>1, <5>1
      <4>5. (s \o t)[a + i] = s[a + i]
        BY <4>4
      <4>6. QED
        BY <1>6, <1>7, <3>1, <4>1, <4>5
    <3>3. new[k] \in Block /\ old[k] \in Block
      BY <1>4, <1>5, <3>1
    <3>4. QED
      BY <3>1, <3>2, <3>3, BlocksEqual
  <2>2. CASE k > q
    <3>1. PICK j \in 1 .. Len(blocks) : k = q + j
      <4>1. k - q \in 1 .. Len(blocks)
        BY <2>2
      <4>2. QED
        BY <4>1
    <3>2. (old \o blocks)[k] = blocks[j]
      BY <1>4, <3>1
    <3>3. ASSUME NEW i \in 1 .. B
          PROVE  new[k][i] = blocks[j][i]
      <4>1. k - 1 = q + (j - 1)
        BY <3>1
      <4>2. new[k][i] = (s \o t)[B * (k - 1) + i]
        BY <1>7
      <4>3. blocks[j][i] = (s \o t)[B * (q + (j - 1)) + i]
        BY <1>2
      <4>4. QED
        BY <4>1, <4>2, <4>3
    <3>4. new[k] \in Block /\ blocks[j] \in Block
      BY <1>5
    <3>5. QED
      BY <3>2, <3>3, <3>4, BlocksEqual
  <2>3. k <= q \/ k > q
    BY Len(blocks) \in Nat
  <2>4. QED
    BY <2>1, <2>2, <2>3
<1>10. new = old \o blocks
  BY <1>5, <1>8, <1>9
<1>11. QED
  BY <1>10 DEF old, new

(* What md5_update does when the input does not fill the block at hand.    *)
LEMMA UpdateShort ==
  ASSUME NEW c, NEW m \in Seq(Bytes), Holds(c, m), NEW input \in Seq(Bytes),
         NEW r, r = Len(m) % B,
         Len(input) < B - r
  PROVE  /\ Updated(c, input).state = c.state
         /\ Updated(c, input).buffer \in Block
         /\ \A k \in 1 .. B :
              Updated(c, input).buffer[k] =
                IF k \in r + 1 .. r + Len(input) THEN input[k - r] ELSE c.buffer[k]
<1>1. PICK n \in Nat : n = Len(input)
  OBVIOUS
<1>2. r \in 0 .. B - 1 /\ B \in Nat \ {0}
  BY BlockSplit, Len(m) \in Nat
<1>3. Index(c) = r
  BY IndexIs, Len(m) \in Nat DEF Holds, Index
<1>4. ~ (n >= B - r)
  BY <1>1, <1>2
<1>5. Updated(c, input).state = c.state \o <<>>
  BY <1>1, <1>3, <1>4 DEF Updated, md5_transform
<1>6. c.state \in Seq(Block)
  BY BlocksAre DEF Holds
<1>7. Updated(c, input).buffer =
        [k \in 1 .. B |-> IF k \in r + 1 .. r + n - 0
                          THEN input[0 + k - r] ELSE c.buffer[k]]
  BY <1>1, <1>3, <1>4 DEF Updated
<1>8. \A k \in 1 .. B :
        Updated(c, input).buffer[k] =
          IF k \in r + 1 .. r + n THEN input[k - r] ELSE c.buffer[k]
  <2>1. r + n - 0 = r + n
    BY <1>2
  <2>2. \A k \in 1 .. B : 0 + k - r = k - r
    BY <1>2
  <2>3. QED
    BY <1>7, <2>1, <2>2
<1>9. \A k \in 1 .. B : Updated(c, input).buffer[k] \in Bytes
  <2>1. \A k \in r + 1 .. r + n : input[k - r] \in Bytes
    <3>1. \A k \in r + 1 .. r + n : k - r \in 1 .. n
      BY <1>2
    <3>2. QED
      BY <1>1, <3>1, ElementOfSeq
  <2>2. \A k \in 1 .. B : c.buffer[k] \in Bytes
    BY DEF Holds, Block
  <2>3. QED
    BY <1>8, <2>1, <2>2
<1>10. Updated(c, input).buffer \in Block
  BY <1>7, <1>9 DEF Block
<1>11. QED
  BY <1>1, <1>5, <1>6, <1>8, <1>10, ConcatEmptySeq

(* ... and when it does: the block at hand is filled from the input and    *)
(* "direct" more are taken from the input itself.                          *)
Filled(c, input, r) == SubSeq(c.buffer, 1, r) \o SubSeq(input, 1, B - r)
Taken(input, r, direct) ==
  [k \in 1 .. direct |-> SubSeq(input, (B - r) + B * (k - 1) + 1, (B - r) + B * k)]

FullUpdate(c, input, r, direct, from) ==
  /\ Updated(c, input).state =
       c.state \o (<<Filled(c, input, r)>> \o Taken(input, r, direct))
  /\ Updated(c, input).buffer = [k \in 1 .. B |-> Updated(c, input).buffer[k]]
  /\ \A k \in 1 .. B :
       Updated(c, input).buffer[k] =
         IF k \in 1 .. Len(input) - from
         THEN input[from + k] ELSE Filled(c, input, r)[k]

LEMMA UpdateFull ==
  ASSUME NEW c, NEW m \in Seq(Bytes), Holds(c, m), NEW input \in Seq(Bytes),
         NEW r, r = Len(m) % B,
         Len(input) >= B - r,
         NEW direct \in Nat, direct = (Len(input) - (B - r)) \div B,
         NEW from \in Nat, from = (B - r) + B * direct
  PROVE  FullUpdate(c, input, r, direct, from)
<1>1. PICK n \in Nat : n = Len(input)
  OBVIOUS
<1>2. r \in 0 .. B - 1 /\ B \in Nat \ {0}
  BY BlockSplit, Len(m) \in Nat
<1>3. Index(c) = r
  BY IndexIs, Len(m) \in Nat DEF Holds, Index
<1>4. Updated(c, input).state =
        c.state \o (<<Filled(c, input, r)>> \o Taken(input, r, direct))
  BY <1>3 DEF Updated, md5_transform, Filled, Taken
<1>5. Updated(c, input).buffer =
        [k \in 1 .. B |-> IF k \in 0 + 1 .. 0 + Len(input) - from
                          THEN input[from + k - 0] ELSE Filled(c, input, r)[k]]
  BY <1>3 DEF Updated, Filled
<1>6. \A k \in 1 .. B :
        Updated(c, input).buffer[k] =
          IF k \in 1 .. n - from THEN input[from + k] ELSE Filled(c, input, r)[k]
  <2>1. 0 + 1 .. 0 + n - from = 1 .. n - from
    OBVIOUS
  <2>2. \A k \in 1 .. B : from + k - 0 = from + k
    BY <1>2
  <2>3. QED
    BY <1>1, <1>5, <2>1, <2>2
<1>7. Updated(c, input).buffer = [k \in 1 .. B |-> Updated(c, input).buffer[k]]
  BY <1>5
<1>8. QED
  BY <1>1, <1>4, <1>6, <1>7 DEF FullUpdate

LEMMA UpdateCounts ==
  ASSUME NEW c, NEW m \in Seq(Bytes), Holds(c, m), NEW input \in Seq(Bytes)
  PROVE  Counts(Updated(c, input).count, Len(m \o input))
<1>1. PICK n \in Nat : n = Len(input)
  OBVIOUS
<1>2. PICK p \in Nat : p = Len(m)
  OBVIOUS
<1>3. PICK shifted : shifted = (8 * n) % 2^W
  OBVIOUS
<1>4. PICK low : low = (c.count[1] + shifted) % 2^W
  OBVIOUS
<1>5. PICK high : high = (c.count[2] + Carry(low, shifted) + n \div 2^(W - 3)) % 2^W
  OBVIOUS
<1>6. Updated(c, input).count = <<low, high>>
  BY <1>1, <1>3, <1>4, <1>5 DEF Updated
<1>7. Counts(<<low, high>>, p + n)
  BY <1>2, <1>3, <1>4, <1>5, CountAdds DEF Holds
<1>8. Len(m \o input) = p + n
  BY <1>1, <1>2
<1>9. QED
  BY <1>6, <1>7, <1>8

(* A context that holds a message holds the longer one after an update.    *)
LEMMA UpdateHolds ==
  ASSUME NEW c, NEW m \in Seq(Bytes), Holds(c, m), NEW input \in Seq(Bytes)
  PROVE  Holds(Updated(c, input), m \o input)
<1>1. PICK n \in Nat : n = Len(input)
  OBVIOUS
<1>2. PICK q \in Nat, r \in 0 .. B - 1 :
        Len(m) \div B = q /\ Len(m) % B = r /\ Len(m) = B * q + r
  BY BlockSplit, Len(m) \in Nat
<1>3. B \in Nat \ {0}
  BY SizesAssumption
<1>4. PICK a \in Nat : a = B * q
  BY <1>3
<1>5. /\ m \o input \in Seq(Bytes)
      /\ Len(m \o input) = a + r + n
      /\ \A i \in 1 .. a + r : (m \o input)[i] = m[i]
      /\ \A i \in 1 .. n : (m \o input)[a + r + i] = input[i]
  <2>1. PICK p \in Nat : p = Len(m) /\ p = a + r
    BY <1>2, <1>4
  <2>2. /\ m \o input \in Seq(Bytes)
        /\ Len(m \o input) = p + n
        /\ \A i \in 1 .. p + n : (m \o input)[i] = IF i <= p THEN m[i] ELSE input[i - p]
    <3>1. /\ m \o input \in Seq(Bytes)
          /\ Len(m \o input) = Len(m) + Len(input)
          /\ \A i \in 1 .. Len(m) + Len(input) :
               (m \o input)[i] = IF i <= Len(m) THEN m[i] ELSE input[i - Len(m)]
      BY ConcatProperties
    <3>2. p = Len(m) /\ n = Len(input)
      BY <1>1, <2>1
    <3>3. QED
      BY <3>1, <3>2
  <2>3. \A i \in 1 .. p : i \in 1 .. p + n /\ i <= p
    OBVIOUS
  <2>4. \A i \in 1 .. n : p + i \in 1 .. p + n /\ ~ (p + i <= p) /\ (p + i) - p = i
    OBVIOUS
  <2>5. \A i \in 1 .. p : (m \o input)[i] = m[i]
    BY <2>2, <2>3
  <2>6. \A i \in 1 .. n : (m \o input)[p + i] = input[i]
    BY <2>2, <2>4
  <2>7. QED
    BY <2>1, <2>2, <2>5, <2>6
<1>6. c.buffer \in Block /\ \A i \in 1 .. r : c.buffer[i] = m[a + i]
  BY <1>2, <1>4 DEF Holds
<1>7. c.state = H!Blocks(m) /\ c.state \in Seq(Block)
  BY BlocksAre DEF Holds
<1>8. Counts(Updated(c, input).count, Len(m \o input))
  BY UpdateCounts
<1>9. CASE n < B - r
  <2>1. /\ Updated(c, input).state = c.state
        /\ Updated(c, input).buffer \in Block
        /\ \A k \in 1 .. B :
             Updated(c, input).buffer[k] =
               IF k \in r + 1 .. r + n THEN input[k - r] ELSE c.buffer[k]
    <3>1. r = Len(m) % B /\ Len(input) < B - r
      BY <1>1, <1>2, <1>9
    <3>2. QED
      BY <1>1, <3>1, UpdateShort
  <2>2. Len(m \o input) \div B = q /\ Len(m \o input) % B = r + n
    <3>1. r + n \in 0 .. B - 1 /\ a + r + n = B * q + (r + n) /\ a + r + n \in Nat
      BY <1>3, <1>4, <1>9
    <3>2. PICK rest \in 0 .. B - 1, sum \in Nat : rest = r + n /\ sum = a + r + n
      BY <3>1
    <3>3. sum = B * q + rest
      BY <3>1, <3>2
    <3>4. sum \div B = q /\ sum % B = rest
      BY <1>3, <3>3, DivisionIs
    <3>5. QED
      BY <1>5, <3>2, <3>4
  <2>3. Updated(c, input).buffer \in Block
    BY <2>1
  <2>4. \A i \in 1 .. r + n : Updated(c, input).buffer[i] = (m \o input)[B * q + i]
    <3>1. ASSUME NEW i \in 1 .. r + n
          PROVE  Updated(c, input).buffer[i] = (m \o input)[a + i]
      <4>1. CASE i <= r
        <5>1. Updated(c, input).buffer[i] = c.buffer[i]
          <6>1. i \in 1 .. B /\ i \notin r + 1 .. r + n
            BY <1>3, <4>1
          <6>2. QED
            BY <2>1, <6>1
        <5>2. (m \o input)[a + i] = m[a + i]
          BY <1>5, <4>1
        <5>3. QED
          BY <1>6, <4>1, <5>1, <5>2
      <4>2. CASE i > r
        <5>1. PICK j \in 1 .. n : i = r + j
          <6>1. i - r \in 1 .. n /\ i = r + (i - r)
            BY <4>2
          <6>2. QED
            BY <6>1
        <5>2. Updated(c, input).buffer[i] = input[j]
          <6>1. i - r = j /\ i \in 1 .. B /\ i \in r + 1 .. r + n
            BY <1>3, <1>9, <5>1
          <6>2. QED
            BY <2>1, <6>1
        <5>3. (m \o input)[a + i] = input[j]
          <6>1. a + i = a + r + j
            BY <5>1
          <6>2. QED
            BY <1>5, <6>1
        <5>4. QED
          BY <5>2, <5>3
      <4>3. i <= r \/ i > r
        BY <1>3
      <4>4. QED
        BY <4>1, <4>2, <4>3
    <3>2. QED
      BY <1>4, <3>1
  <2>5. H!Blocks(m \o input) = H!Blocks(m) \o <<>>
    <3>1. <<>> \in Seq(Block) /\ Len(<<>>) = 0
      OBVIOUS
    <3>2. Len(m \o input) \div B = (Len(m) \div B) + Len(<<>>)
      BY <1>2, <2>2
    <3>3. \A k \in 1 .. Len(<<>>), i \in 1 .. B :
            <<>>[k][i] = (m \o input)[B * ((Len(m) \div B) + (k - 1)) + i]
      BY <3>1
    <3>4. QED
      BY <3>1, <3>2, <3>3, BlocksOfConcat
  <2>6. Updated(c, input).state = H!Blocks(m \o input)
    BY <1>7, <2>1, <2>5, ConcatEmptySeq
  <2>7. QED
    BY <1>8, <2>2, <2>3, <2>4, <2>6 DEF Holds
<1>10. CASE n >= B - r
  <2>1. PICK d \in Nat, e \in 0 .. B - 1 :
          /\ d = (n - (B - r)) \div B
          /\ n - (B - r) = B * d + e
    <3>1. PICK more \in Nat : more = n - (B - r)
      BY <1>3, <1>10
    <3>2. more \div B \in Nat /\ more % B \in 0 .. B - 1 /\ more = B * (more \div B) + (more % B)
      BY <1>3, Division
    <3>3. QED
      BY <3>1, <3>2
  <2>2. PICK from \in Nat : from = (B - r) + B * d
    <3>1. B * d \in Nat
      BY <1>3
    <3>2. QED
      BY <1>3, <3>1
  <2>3. n - from = e /\ n = from + e
    <3>1. PICK bd \in Nat : bd = B * d
      BY <1>3
    <3>2. n - (B - r) = bd + e /\ from = (B - r) + bd
      BY <2>1, <2>2, <3>1
    <3>3. QED
      BY <1>3, <3>2
  <2>4. PICK filled : filled = Filled(c, input, r)
    OBVIOUS
  <2>5. PICK rest : rest = Taken(input, r, d)
    OBVIOUS
  <2>6. /\ Updated(c, input).state = c.state \o (<<filled>> \o rest)
        /\ Updated(c, input).buffer = [k \in 1 .. B |-> Updated(c, input).buffer[k]]
        /\ \A k \in 1 .. B :
             Updated(c, input).buffer[k] =
               IF k \in 1 .. e THEN input[from + k] ELSE filled[k]
    <3>1. r = Len(m) % B /\ Len(input) >= B - r /\ d = (Len(input) - (B - r)) \div B
      BY <1>1, <1>2, <1>10, <2>1
    <3>2. Len(input) - from = e
      BY <1>1, <2>3
    <3>3. FullUpdate(c, input, r, d, from)
      BY <2>2, <3>1, UpdateFull
    <3>4. QED
      BY <2>4, <2>5, <3>2, <3>3 DEF FullUpdate
  <2>7. /\ filled \in Block
        /\ \A i \in 1 .. B : filled[i] = (m \o input)[a + i]
    <3>1. c.buffer \in Seq(Bytes) /\ Len(c.buffer) = B
      BY <1>3, <1>6 DEF Block
    <3>2. /\ SubSeq(c.buffer, 1, r) \in Seq(Bytes)
          /\ Len(SubSeq(c.buffer, 1, r)) = r
          /\ \A i \in 1 .. r : SubSeq(c.buffer, 1, r)[i] = c.buffer[i]
      BY <1>3, <3>1
    <3>3. /\ SubSeq(input, 1, B - r) \in Seq(Bytes)
          /\ Len(SubSeq(input, 1, B - r)) = B - r
          /\ \A i \in 1 .. B - r : SubSeq(input, 1, B - r)[i] = input[i]
      BY <1>1, <1>3, <1>10
    <3>4. filled \in Seq(Bytes) /\ Len(filled) = B
      BY <1>3, <2>4, <3>2, <3>3 DEF Filled
    <3>5. filled \in Block
      BY <3>4, LenProperties DEF Block
    <3>6. ASSUME NEW i \in 1 .. B
          PROVE  filled[i] = (m \o input)[a + i]
      <4>1. CASE i <= r
        <5>1. filled[i] = c.buffer[i]
          BY <2>4, <3>2, <3>3, <4>1 DEF Filled
        <5>2. (m \o input)[a + i] = m[a + i]
          BY <1>5, <4>1
        <5>3. QED
          BY <1>6, <4>1, <5>1, <5>2
      <4>2. CASE i > r
        <5>1. PICK j \in 1 .. B - r : i = r + j
          <6>1. i - r \in 1 .. B - r /\ i = r + (i - r)
            BY <1>3, <4>2
          <6>2. QED
            BY <6>1
        <5>2. filled[i] = input[j]
          <6>1. filled[r + j] = SubSeq(input, 1, B - r)[j]
            <7>1. r + j \in 1 .. r + (B - r) /\ ~ (r + j <= r) /\ (r + j) - r = j
              BY <1>3
            <7>2. QED
              BY <2>4, <3>2, <3>3, <7>1, ConcatProperties DEF Filled
          <6>2. QED
            BY <3>3, <5>1, <6>1
        <5>3. (m \o input)[a + i] = input[j]
          <6>1. a + i = a + r + j /\ j \in 1 .. n
            BY <1>3, <1>10, <5>1
          <6>2. QED
            BY <1>5, <6>1
        <5>4. QED
          BY <5>2, <5>3
      <4>3. i <= r \/ i > r
        BY <1>3
      <4>4. QED
        BY <4>1, <4>2, <4>3
    <3>7. QED
      BY <3>5, <3>6
  <2>8. ASSUME NEW k \in 1 .. d
        PROVE  /\ rest[k] \in Block
               /\ \A i \in 1 .. B : rest[k][i] = (m \o input)[B * (q + k) + i]
    <3>1. PICK b \in Nat : b = (B - r) + B * (k - 1)
      <4>1. B * (k - 1) \in Nat
        BY <1>3
      <4>2. QED
        BY <1>3, <4>1
    <3>2. (B - r) + B * k = b + B
      <4>1. B * k = B * (k - 1) + B
        BY <1>3
      <4>2. B * k \in Nat /\ B * (k - 1) \in Nat
        BY <1>3
      <4>3. QED
        BY <1>3, <3>1, <4>1, <4>2
    <3>3. b + B <= n
      <4>1. B * k <= B * d
        BY <1>3, TimesMonotone
      <4>2. B * k \in Nat /\ B * d \in Nat
        BY <1>3
      <4>3. QED
        BY <1>3, <2>1, <3>2, <4>1, <4>2
    <3>4. rest[k] = SubSeq(input, b + 1, b + B)
      BY <2>5, <3>1, <3>2 DEF Taken
    <3>5. /\ SubSeq(input, b + 1, b + B) \in Seq(Bytes)
          /\ Len(SubSeq(input, b + 1, b + B)) = B
          /\ \A i \in 1 .. B : SubSeq(input, b + 1, b + B)[i] = input[b + i]
      BY <1>1, <1>3, <3>3, PartOf, b + B \in Nat, b <= b + B, (b + B) - b = B
    <3>6. rest[k] \in Block
      BY <3>4, <3>5, LenProperties DEF Block
    <3>7. ASSUME NEW i \in 1 .. B
          PROVE  rest[k][i] = (m \o input)[B * (q + k) + i]
      <4>1. B * (q + k) + i = a + r + (b + i)
        <5>1. B * (q + k) = a + B * k
          BY <1>3, <1>4
        <5>2. B * k \in Nat
          BY <1>3
        <5>3. QED
          BY <1>3, <3>2, <5>1, <5>2
      <4>2. b + i \in 1 .. n
        BY <1>3, <3>3
      <4>3. QED
        BY <1>5, <3>4, <3>5, <4>1, <4>2
    <3>8. QED
      BY <3>6, <3>7
  <2>9. rest \in Seq(Block) /\ Len(rest) = d
    BY <2>5, <2>8 DEF Taken
  <2>10. /\ <<filled>> \o rest \in Seq(Block)
         /\ Len(<<filled>> \o rest) = 1 + d
         /\ (<<filled>> \o rest)[1] = filled
         /\ \A k \in 1 .. d : (<<filled>> \o rest)[1 + k] = rest[k]
    <3>1. <<filled>> \in Seq(Block) /\ Len(<<filled>>) = 1 /\ <<filled>>[1] = filled
      BY <2>7
    <3>2. \A k \in 1 .. d : 1 + k \in 1 .. 1 + d /\ ~ (1 + k <= 1) /\ (1 + k) - 1 = k
      OBVIOUS
    <3>3. QED
      BY <2>9, <3>1, <3>2, ConcatProperties
  <2>11. Len(m \o input) \div B = q + (1 + d) /\ Len(m \o input) % B = e
    <3>1. PICK sum \in Nat : sum = a + r + n
      OBVIOUS
    <3>2. B * (q + (1 + d)) = a + B + B * d
      BY <1>3, <1>4
    <3>3. B * d \in Nat
      BY <1>3
    <3>4. sum = B * (q + (1 + d)) + e
      BY <1>3, <2>1, <3>1, <3>2, <3>3
    <3>5. sum \div B = q + (1 + d) /\ sum % B = e
      BY <1>3, <3>4, DivisionIs, q + (1 + d) \in Int
    <3>6. QED
      BY <1>5, <3>1, <3>5
  <2>12. H!Blocks(m \o input) = H!Blocks(m) \o (<<filled>> \o rest)
    <3>1. ASSUME NEW k \in 1 .. 1 + d, NEW i \in 1 .. B
          PROVE  (<<filled>> \o rest)[k][i] = (m \o input)[B * (q + (k - 1)) + i]
      <4>1. CASE k = 1
        BY <1>4, <2>7, <2>10, <4>1, q + (1 - 1) = q
      <4>2. CASE k # 1
        <5>1. PICK j \in 1 .. d : k = 1 + j /\ k - 1 = j
          <6>1. k - 1 \in 1 .. d /\ k = 1 + (k - 1)
            BY <4>2
          <6>2. QED
            BY <6>1
        <5>2. QED
          BY <2>8, <2>10, <5>1
      <4>3. QED
        BY <4>1, <4>2
    <3> DEFINE blocks == <<filled>> \o rest
    <3>2. \A k \in 1 .. Len(blocks), i \in 1 .. B :
            blocks[k][i] = (m \o input)[B * ((Len(m) \div B) + (k - 1)) + i]
      BY <1>2, <2>10, <3>1
    <3>3. Len(m \o input) \div B = (Len(m) \div B) + Len(blocks)
      BY <1>2, <2>10, <2>11
    <3>4. blocks \in Seq(Block)
      BY <2>10
    <3> HIDE DEF blocks
    <3>5. H!Blocks(m \o input) = H!Blocks(m) \o blocks
      BY <3>2, <3>3, <3>4, BlocksOfConcat
    <3>6. QED
      BY <3>5 DEF blocks
  <2>13. Updated(c, input).buffer \in Block
    <3>1. \A k \in 1 .. e : from + k \in 1 .. n
      BY <2>3
    <3>2. \A k \in 1 .. e : input[from + k] \in Bytes
      BY <1>1, <3>1, ElementOfSeq
    <3>3. \A k \in 1 .. B : filled[k] \in Bytes
      BY <2>7 DEF Block
    <3>4. QED
      BY <2>6, <3>2, <3>3 DEF Block
  <2>14. \A i \in 1 .. e :
           Updated(c, input).buffer[i] = (m \o input)[B * (q + (1 + d)) + i]
    <3>1. ASSUME NEW i \in 1 .. e
          PROVE  Updated(c, input).buffer[i] = (m \o input)[B * (q + (1 + d)) + i]
      <4>1. Updated(c, input).buffer[i] = input[from + i]
        BY <1>3, <2>6
      <4>2. from + i \in 1 .. n
        BY <2>3
      <4>3. B * (q + (1 + d)) + i = a + r + (from + i)
        <5>1. B * (q + (1 + d)) = a + B + B * d
          BY <1>3, <1>4
        <5>2. B * d \in Nat
          BY <1>3
        <5>3. QED
          BY <1>3, <2>2, <5>1, <5>2
      <4>4. QED
        BY <1>5, <4>1, <4>2, <4>3
    <3>2. QED
      BY <3>1
  <2>15. QED
    BY <1>7, <1>8, <2>6, <2>11, <2>12, <2>13, <2>14 DEF Holds
<1>11. QED
  BY <1>3, <1>9, <1>10

(* A struct md5_ctx, whatever it held before.                              *)
Context == [count : Counters, state : Seq(Block), buffer : Block]

LEMMA ClearedHolds ==
  ASSUME NEW c \in Context
  PROVE  Holds(Cleared(c), <<>>)
<1>1. /\ Cleared(c).count = <<0, 0>>
      /\ Cleared(c).state = <<>>
      /\ Cleared(c).buffer = c.buffer
  BY DEF Cleared, Context
<1>2. Counts(<<0, 0>>, 0)
  <2>1. 2^W \in Nat \ {0}
    BY PowersOfTheWord
  <2>2. 0 \in UInt
    BY <2>1 DEF UInt
  <2>3. 8 * 0 = 2^W * (2^W * 0) + (2^W * 0 + 0)
    BY <2>1
  <2>4. QED
    BY <2>2, <2>3, CountJoins
<1>3. <<>> \in Seq(Bytes) /\ Len(<<>>) = 0
  OBVIOUS
<1>4. 0 \div B = 0 /\ 0 % B = 0
  BY BlockSplit
<1>5. H!Blocks(<<>>) = <<>>
  <2>1. H!Blocks(<<>>) \in Seq(Block) /\ Len(H!Blocks(<<>>)) = 0
    BY <1>3, <1>4, BlocksAre
  <2>2. QED
    BY <2>1, EmptySeq
<1>6. QED
  BY <1>1, <1>2, <1>3, <1>4, <1>5 DEF Holds, Context

(* The padding md5_final adds is a mark and the fewest zeros that leave    *)
(* room for the length field.                                              *)
Zeros(n) == (B - ((n + 1 + L) % B)) % B

LEMMA PadLenIs ==
  ASSUME NEW n \in Nat
  PROVE  /\ Zeros(n) \in Nat
         /\ PadLen(n % B) = 1 + Zeros(n)
         /\ PadLen(n % B) <= B
<1>1. B \in Nat \ {0} /\ L \in Nat \ {0} /\ L < B
  BY SizesAssumption
<1>2. PICK q \in Nat, r \in 0 .. B - 1 : n % B = r /\ n = B * q + r
  BY BlockSplit
<1>3. PICK sum \in Nat : sum = n + 1 + L
  BY <1>1
<1>4. CASE r + 1 + L < B
  <2>1. PICK rest \in 0 .. B - 1 : rest = r + 1 + L
    BY <1>1, <1>4
  <2>2. sum = B * q + rest
    BY <1>1, <1>2, <1>3, <2>1
  <2>3. sum % B = rest
    BY <1>1, <2>2, DivisionIs
  <2>4. PICK z \in 0 .. B - 1 : z = B - rest
    BY <1>1, <2>1
  <2>5. z % B = z
    BY <1>1, DivisionIs, z = B * 0 + z
  <2>6. Zeros(n) = z
    BY <1>3, <2>3, <2>4, <2>5 DEF Zeros
  <2>7. PadLen(r) = B - L - r
    BY <1>1, <1>4 DEF PadLen
  <2>8. QED
    BY <1>1, <1>2, <2>1, <2>4, <2>6, <2>7
<1>5. CASE r + 1 + L = B
  <2>1. sum = B * (q + 1) + 0
    <3>1. B * (q + 1) = B * q + B
      BY <1>1
    <3>2. B * q \in Nat
      BY <1>1
    <3>3. QED
      BY <1>1, <1>2, <1>3, <1>5, <3>1, <3>2
  <2>2. sum % B = 0
    BY <1>1, <2>1, DivisionIs, q + 1 \in Int, 0 \in 0 .. B - 1
  <2>3. B % B = 0
    BY <1>1, DivisionIs, B = B * 1 + 0, 0 \in 0 .. B - 1
  <2>4. Zeros(n) = 0
    BY <1>1, <1>3, <2>2, <2>3, B - 0 = B DEF Zeros
  <2>5. PadLen(r) = B - L - r
    BY <1>1, <1>5 DEF PadLen
  <2>6. QED
    BY <1>1, <1>2, <1>5, <2>4, <2>5
<1>6. CASE r + 1 + L > B
  <2>1. PICK rest \in 1 .. B - 1 : rest = r + 1 + L - B
    BY <1>1, <1>6
  <2>2. sum = B * (q + 1) + rest
    <3>1. B * (q + 1) = B * q + B
      BY <1>1
    <3>2. B * q \in Nat
      BY <1>1
    <3>3. QED
      BY <1>1, <1>2, <1>3, <2>1, <3>1, <3>2
  <2>3. sum % B = rest
    BY <1>1, <2>2, DivisionIs, q + 1 \in Int, rest \in 0 .. B - 1
  <2>4. PICK z \in 0 .. B - 1 : z = B - rest
    BY <1>1, <2>1
  <2>5. z % B = z
    BY <1>1, DivisionIs, z = B * 0 + z
  <2>6. Zeros(n) = z
    BY <1>3, <2>3, <2>4, <2>5 DEF Zeros
  <2>7. PadLen(r) = 2 * B - L - r
    BY <1>1, <1>6 DEF PadLen
  <2>8. QED
    BY <1>1, <1>2, <2>1, <2>4, <2>6, <2>7
<1>7. QED
  BY <1>1, <1>2, <1>4, <1>5, <1>6

LEMMA PaddingIs ==
  ASSUME NEW n \in Nat
  PROVE  /\ SubSeq(PADDING, 1, PadLen(n % B)) \in Seq(Bytes)
         /\ SubSeq(PADDING, 1, PadLen(n % B)) =
              <<H!Mark>> \o [i \in 1 .. Zeros(n) |-> H!Zero]
<1>1. PICK z \in Nat : z = Zeros(n) /\ PadLen(n % B) = 1 + z /\ 1 + z <= B
  BY PadLenIs
<1>2. B \in Nat \ {0}
  BY SizesAssumption
<1>3. H!Mark \in Bytes /\ H!Zero \in Bytes
  BY DEF H!Mark, H!Zero, Bytes
<1>4. PADDING = [i \in 1 .. B |-> IF i = 1 THEN H!Mark ELSE H!Zero]
  BY DEF PADDING, H!Mark, H!Zero
<1>5. PADDING \in Seq(Bytes) /\ Len(PADDING) = B
  BY <1>2, <1>3, <1>4
<1>6. PICK pad : pad = SubSeq(PADDING, 0 + 1, 1 + z)
  OBVIOUS
<1>7. pad \in Seq(Bytes) /\ Len(pad) = 1 + z /\ \A i \in 1 .. 1 + z : pad[i] = PADDING[i]
  BY <1>1, <1>5, <1>6, PartOf, (1 + z) - 0 = 1 + z, 0 <= 1 + z, 1 + z \in Nat
<1>8. PICK zeros : zeros = [i \in 1 .. z |-> H!Zero]
  OBVIOUS
<1>9. zeros \in Seq(Bytes) /\ Len(zeros) = z /\ \A i \in 1 .. z : zeros[i] = H!Zero
  BY <1>3, <1>8
<1>10. <<H!Mark>> \in Seq(Bytes) /\ Len(<<H!Mark>>) = 1 /\ <<H!Mark>>[1] = H!Mark
  BY <1>3
<1>11. /\ <<H!Mark>> \o zeros \in Seq(Bytes)
       /\ Len(<<H!Mark>> \o zeros) = 1 + z
       /\ \A i \in 1 .. 1 + z :
            (<<H!Mark>> \o zeros)[i] = IF i <= 1 THEN <<H!Mark>>[i] ELSE zeros[i - 1]
  BY <1>9, <1>10, ConcatProperties
<1>12. ASSUME NEW i \in 1 .. 1 + z
       PROVE  pad[i] = (<<H!Mark>> \o zeros)[i]
  <2>1. pad[i] = IF i = 1 THEN H!Mark ELSE H!Zero
    <3>1. i \in 1 .. B
      BY <1>1, <1>2
    <3>2. QED
      BY <1>4, <1>7, <3>1
  <2>2. CASE i = 1
    BY <1>10, <1>11, <2>1, <2>2
  <2>3. CASE i # 1
    <3>1. ~ (i <= 1) /\ i - 1 \in 1 .. z
      BY <2>3
    <3>2. QED
      BY <1>9, <1>11, <2>1, <2>3, <3>1
  <2>4. QED
    BY <2>2, <2>3
<1>13. pad = <<H!Mark>> \o zeros
  BY <1>7, <1>11, <1>12, SeqEqual
<1>14. QED
  BY <1>1, <1>6, <1>7, <1>8, <1>13, 0 + 1 = 1

(* The two words, low one first, are the bit length of the message.        *)
LEMMA EncodeIs ==
  ASSUME NEW words, NEW n \in Nat, Counts(words, n)
  PROVE  /\ md5_encode(words) = H!LengthField(n)
         /\ md5_encode(words) \in Seq(Bytes)
<1>1. PICK P \in Nat \ {0} : P = 2^W
  BY PowersOfTheWord
<1>2. PICK low \in 0 .. P - 1, high \in 0 .. P - 1 : low = words[1] /\ high = words[2]
  BY <1>1 DEF Counts, Counters, UInt
<1>3. PICK bits \in Nat : bits = (8 * n) % 2^(2 * W) /\ bits = P * high + low
  <2>1. P * high \in Nat
    BY <1>1
  <2>2. QED
    BY <1>1, <1>2, <2>1 DEF Counts
<1>4. bits % 2^W = low /\ bits \div 2^W = high
  <2>1. bits % P = low /\ bits \div P = high
    BY <1>3, DivisionIs, high \in Int
  <2>2. QED
    BY <1>1, <2>1
<1>5. PICK half \in Nat \ {0} : half = L \div 2 /\ L = 2 * half
  BY SizesAssumption
<1>6. ASSUME NEW j \in 1 .. L
      PROVE  words[1 + (j - 1) \div half] = IF j - 1 < half THEN bits % 2^W ELSE bits \div 2^W
  <2>1. CASE j - 1 < half
    <3>1. (j - 1) \div half = 0
      <4>1. PICK r \in 0 .. half - 1 : r = j - 1
        BY <2>1
      <4>2. r \div half = 0
        BY <1>5, DivisionIs, r = half * 0 + r
      <4>3. QED
        BY <4>1, <4>2
    <3>2. QED
      BY <1>2, <1>4, <2>1, <3>1
  <2>2. CASE j - 1 >= half
    <3>1. (j - 1) \div half = 1
      <4>1. PICK r \in 0 .. half - 1, i \in Nat : r = j - 1 - half /\ i = j - 1
        BY <1>5, <2>2
      <4>2. i = half * 1 + r
        BY <4>1
      <4>3. i \div half = 1
        BY <1>5, <4>2, DivisionIs
      <4>4. QED
        BY <4>1, <4>3
    <3>2. QED
      BY <1>2, <1>4, <2>2, <3>1
  <2>3. QED
    BY <1>5, <2>1, <2>2
<1>7. md5_encode(words) =
        [j \in 1 .. L |->
           <<"bits", 0, ((IF j - 1 < half THEN bits % 2^W ELSE bits \div 2^W)
                           \div 256^((j - 1) % half)) % 256>>]
  BY <1>5, <1>6 DEF md5_encode
<1>8. H!LengthField(n) =
        [j \in 1 .. L |->
           <<"bits", 0, ((IF j - 1 < half THEN bits % 2^W ELSE bits \div 2^W)
                           \div 256^((j - 1) % half)) % 256>>]
  BY <1>3, <1>5 DEF H!LengthField
<1>9. md5_encode(words) \in Seq(Bytes)
  <2>1. \A j \in 1 .. L : md5_encode(words)[j] \in Bytes
    BY DEF Bytes, Counts
  <2>2. md5_encode(words) = [j \in 1 .. L |-> md5_encode(words)[j]]
    BY DEF md5_encode
  <2>3. md5_encode(words) \in [1 .. L -> Bytes]
    BY <2>1, <2>2
  <2>4. L \in Nat
    BY SizesAssumption
  <2>5. DEFINE code == md5_encode(words)
  <2>6. code \in [1 .. L -> Bytes]
    BY <2>3
  <2>7. QED
    <3> HIDE DEF code
    <3>1. code \in Seq(Bytes)
      BY ONLY <2>4, <2>6
    <3>2. QED
      BY <3>1 DEF code
<1>10. QED
  BY <1>7, <1>8, <1>9

LEMMA UpdatedIsContext ==
  ASSUME NEW c, NEW input, NEW m \in Seq(Bytes), Holds(Updated(c, input), m)
  PROVE  Updated(c, input) \in Context
<1>1. /\ Updated(c, input).count \in Counters
      /\ Updated(c, input).state \in Seq(Block)
      /\ Updated(c, input).buffer \in Block
  BY BlocksAre DEF Holds, Counts
<1>2. Updated(c, input) =
        [count |-> Updated(c, input).count, state |-> Updated(c, input).state,
         buffer |-> Updated(c, input).buffer]
  BY DEF Updated
<1>3. QED
  BY <1>1, <1>2 DEF Context

(* md5_final compresses the blocks of the padded message.                  *)
LEMMA FinalisedIs ==
  ASSUME NEW c, NEW m \in Seq(Bytes), Holds(c, m)
  PROVE  /\ Finalised(c).state = H!Blocks(H!Padded(m))
         /\ Finalised(c) \in Context
<1>1. PICK n \in Nat : n = Len(m)
  OBVIOUS
<1>2. PICK pad : pad = SubSeq(PADDING, 1, PadLen(Index(c)))
  OBVIOUS
<1>3. PICK zeros : zeros = [i \in 1 .. Zeros(n) |-> H!Zero]
  OBVIOUS
<1>4. pad \in Seq(Bytes) /\ pad = <<H!Mark>> \o zeros
  <2>1. Index(c) = n % B
    BY <1>1, IndexIs DEF Holds, Index
  <2>2. QED
    BY <1>2, <1>3, <2>1, PaddingIs
<1>5. zeros \in Seq(Bytes) /\ <<H!Mark>> \in Seq(Bytes)
  <2>1. H!Mark \in Bytes /\ H!Zero \in Bytes
    BY DEF H!Mark, H!Zero, Bytes
  <2>2. Zeros(n) \in Nat
    BY PadLenIs
  <2>3. QED
    BY <1>3, <2>1, <2>2
<1>6. PICK field : field = md5_encode(c.count)
  OBVIOUS
<1>7. field \in Seq(Bytes) /\ field = H!LengthField(n)
  BY <1>1, <1>6, EncodeIs DEF Holds
<1>8. Holds(Updated(c, pad), m \o pad)
  BY <1>4, UpdateHolds
<1>9. m \o pad \in Seq(Bytes)
  BY <1>4
<1>10. Holds(Updated(Updated(c, pad), field), (m \o pad) \o field)
  BY <1>7, <1>8, <1>9, UpdateHolds
<1>11. Finalised(c) = Updated(Updated(c, pad), field)
  BY <1>2, <1>6 DEF Finalised
<1>12. H!Padded(m) = ((m \o <<H!Mark>>) \o zeros) \o field
  BY <1>1, <1>3, <1>7 DEF H!Padded, Zeros
<1>13. m \o pad = (m \o <<H!Mark>>) \o zeros
  BY <1>4, <1>5, ConcatAssociative
<1>14. Finalised(c).state = H!Blocks(H!Padded(m))
  BY <1>10, <1>11, <1>12, <1>13 DEF Holds
<1>15. Finalised(c) \in Context
  BY <1>7, <1>9, <1>10, <1>11, UpdatedIsContext, (m \o pad) \o field \in Seq(Bytes)
<1>16. QED
  BY <1>14, <1>15

(* The bytes of a message.                                                 *)
LEMMA MessageIs ==
  ASSUME NEW k \in Nat, NEW n \in Nat
  PROVE  Message(k, n) \in Seq(Bytes) /\ Len(Message(k, n)) = n
<1>1. \A i \in 1 .. n : <<"byte", k, i>> \in Bytes
  BY DEF Bytes
<1>2. QED
  BY <1>1 DEF Message

LEMMA MessageGrows ==
  ASSUME NEW k \in Nat, NEW a \in Nat, NEW n \in Nat
  PROVE  /\ SubSeq(Message(k, a + n), a + 1, a + n) \in Seq(Bytes)
         /\ Message(k, a) \o SubSeq(Message(k, a + n), a + 1, a + n) = Message(k, a + n)
         /\ SubSeq(Message(k, a + n), 1, a) = Message(k, a)
<1>1. PICK s : s = Message(k, a + n)
  OBVIOUS
<1>2. /\ s \in Seq(Bytes) /\ Len(s) = a + n
      /\ \A i \in 1 .. a + n : s[i] = <<"byte", k, i>>
  BY <1>1, MessageIs, a + n \in Nat DEF Message
<1>3. PICK t : t = Message(k, a)
  OBVIOUS
<1>4. /\ t \in Seq(Bytes) /\ Len(t) = a
      /\ \A i \in 1 .. a : t[i] = <<"byte", k, i>>
  BY <1>3, MessageIs DEF Message
<1>5. PICK u : u = SubSeq(s, a + 1, a + n)
  OBVIOUS
<1>6. u \in Seq(Bytes) /\ Len(u) = n /\ \A i \in 1 .. n : u[i] = s[a + i]
  <2>1. (a + n) - a = n /\ a <= a + n /\ a + n \in Nat
    OBVIOUS
  <2>2. QED
    BY <1>2, <1>5, <2>1, PartOf
<1>7. t \o u = s
  <2>1. /\ t \o u \in Seq(Bytes) /\ Len(t \o u) = a + n
        /\ \A i \in 1 .. a + n : (t \o u)[i] = IF i <= a THEN t[i] ELSE u[i - a]
    <3>1. /\ t \o u \in Seq(Bytes) /\ Len(t \o u) = Len(t) + Len(u)
          /\ \A i \in 1 .. Len(t) + Len(u) :
               (t \o u)[i] = IF i <= Len(t) THEN t[i] ELSE u[i - Len(t)]
      BY <1>4, <1>6, ConcatProperties
    <3>2. QED
      BY <1>4, <1>6, <3>1
  <2>2. ASSUME NEW i \in 1 .. a + n
        PROVE  (t \o u)[i] = s[i]
    <3>1. CASE i <= a
      <4>1. i \in 1 .. a
        BY <3>1
      <4>2. t[i] = s[i]
        BY <1>2, <1>4, <4>1
      <4>3. QED
        BY <2>1, <3>1, <4>2
    <3>2. CASE i > a
      <4>1. i - a \in 1 .. n /\ a + (i - a) = i /\ ~ (i <= a)
        BY <3>2
      <4>2. u[i - a] = s[i]
        BY <1>6, <4>1
      <4>3. QED
        BY <2>1, <4>1, <4>2
    <3>3. i <= a \/ i > a
      OBVIOUS
    <3>4. QED
      BY <3>1, <3>2, <3>3
  <2>3. QED
    BY <1>2, <2>1, <2>2, SeqEqual
<1>8. SubSeq(s, 1, a) = t
  <2>1. SubSeq(s, 0 + 1, a) \in Seq(Bytes)
    BY <1>2, PartOf
  <2>2. Len(SubSeq(s, 0 + 1, a)) = a /\ \A i \in 1 .. a : SubSeq(s, 0 + 1, a)[i] = s[i]
    BY <1>2, PartOf, a - 0 = a
  <2>3. \A i \in 1 .. a : SubSeq(s, 0 + 1, a)[i] = t[i]
    <3>1. ASSUME NEW i \in 1 .. a
          PROVE  SubSeq(s, 0 + 1, a)[i] = t[i]
      <4>1. i \in 1 .. a + n
        OBVIOUS
      <4>2. QED
        BY <1>2, <1>4, <2>2, <4>1
    <3>2. QED
      BY <3>1
  <2>4. SubSeq(s, 0 + 1, a) = t
    BY <1>4, <2>1, <2>2, <2>3, SeqEqual
  <2>5. QED
    BY <2>4, 0 + 1 = 1
<1>9. QED
  BY <1>1, <1>3, <1>5, <1>6, <1>7, <1>8

-----------------------------------------------------------------------------
(* The inductive invariant: a context that is open holds what was fed, and *)
(* the digest of a file is the one of the bytes read from it.              *)
TypeInv ==
  /\ ctx \in Context
  /\ msg \in Nat
  /\ fed \in Nat
  /\ file \in [size : Nat, short : BOOLEAN]
  /\ phase \in {"idle", "open", "reading", "done", "filed"}

FileInv ==
  phase = "filed" =>
    /\ digest = H!Blocks(H!Padded(Message(msg, fed)))
    /\ fed = file.size \/ file.short

IInv ==
  /\ TypeInv
  /\ phase \in {"open", "reading"} => Holds(ctx, Message(msg, fed))
  /\ FileInv

(* The context of one more piece, and of one more piece at last.           *)
LEMMA FedHolds ==
  ASSUME IInv, phase \in {"open", "reading"}, NEW n \in Nat
  PROVE  Holds(Fed(n), Message(msg, fed + n))
<1>1. msg \in Nat /\ fed \in Nat /\ Holds(ctx, Message(msg, fed))
  BY DEF IInv, TypeInv
<1>2. Message(msg, fed) \in Seq(Bytes)
  BY <1>1, MessageIs
<1>3. PICK piece : piece = SubSeq(Message(msg, fed + n), fed + 1, fed + n)
  OBVIOUS
<1>4. piece \in Seq(Bytes) /\ Message(msg, fed) \o piece = Message(msg, fed + n)
  BY <1>1, <1>3, MessageGrows
<1>5. Holds(Updated(ctx, piece), Message(msg, fed) \o piece)
  BY <1>1, <1>2, <1>4, UpdateHolds
<1>6. QED
  BY <1>3, <1>4, <1>5 DEF Fed

LEMMA ClearedIsContext ==
  ASSUME NEW c \in Context
  PROVE  Cleared(c) \in Context
<1>1. <<0, 0>> \in Counters
  BY PowersOfTheWord DEF Counters, UInt
<1>2. <<>> \in Seq(Block)
  OBVIOUS
<1>3. QED
  BY <1>1, <1>2 DEF Cleared, Context

LEMMA EmptyMessage ==
  ASSUME NEW k
  PROVE  Message(k, 0) = <<>>
  BY DEF Message

LEMMA InitIInv ==
  ASSUME Init
  PROVE  IInv
<1>1. \A i \in 1 .. B : <<"junk", 0, i>> \in Bytes
  BY SizesAssumption DEF Bytes
<1>2. <<2^W - 1, 2^W - 1>> \in Counters
  BY PowersOfTheWord DEF Counters, UInt
<1>3. [i \in 1 .. B |-> <<"junk", 0, i>>] \in Block
  BY <1>1 DEF Block
<1>4. ctx \in Context
  BY <1>2, <1>3 DEF Init, Context
<1>5. QED
  BY <1>4 DEF Init, IInv, TypeInv, FileInv, NoFile

LEMMA NextIInv ==
  ASSUME IInv, [Next]_vars
  PROVE  IInv'
<1>1. /\ ctx \in Context /\ msg \in Nat /\ fed \in Nat
      /\ file \in [size : Nat, short : BOOLEAN]
      /\ phase \in {"idle", "open", "reading", "done", "filed"}
  BY DEF IInv, TypeInv
<1>2. MaxLen \in Nat /\ ReadSize \in Nat /\ MaxChunk \in Nat /\ Inputs \subseteq Nat
  BY SizesAssumption DEF Inputs
<1>3. ASSUME NextMessage
      PROVE  msg' \in Nat
  BY <1>1, <1>3 DEF NextMessage
<1>4. CASE md5_init
  <2>1. ctx' = Cleared(ctx) /\ fed' = 0 /\ phase' = "open" /\ file' = NoFile /\ msg' \in Nat
    BY <1>3, <1>4 DEF md5_init
  <2>2. Holds(ctx', Message(msg', fed'))
    BY <1>1, <2>1, ClearedHolds, EmptyMessage
  <2>3. ctx' \in Context
    BY <1>1, <2>1, ClearedIsContext
  <2>4. file' \in [size : Nat, short : BOOLEAN]
    BY <2>1 DEF NoFile
  <2>5. QED
    BY <2>1, <2>2, <2>3, <2>4 DEF IInv, TypeInv, FileInv
<1>5. ASSUME NEW n \in Nat, md5_update(n)
      PROVE  IInv'
  <2>1. /\ phase = "open" /\ phase' = "open" /\ fed' = fed + n /\ ctx' = Fed(n)
        /\ msg' = msg /\ file' = file
    BY <1>5 DEF md5_update
  <2>2. Holds(Fed(n), Message(msg, fed + n))
    BY <1>2, <2>1, FedHolds, n \in Nat
  <2>3. Holds(ctx', Message(msg', fed'))
    BY <2>1, <2>2
  <2>4. ctx' \in Context
    <3>1. Message(msg, fed + n) \in Seq(Bytes)
      BY <1>1, <1>2, MessageIs, fed + n \in Nat
    <3>2. QED
      BY <2>1, <2>2, <3>1, UpdatedIsContext DEF Fed
  <2>5. fed' \in Nat
    BY <1>1, <2>1
  <2>6. QED
    BY <1>1, <2>1, <2>3, <2>4, <2>5 DEF IInv, TypeInv, FileInv
<1>6. CASE md5_final
  <2>1. /\ phase = "open" /\ phase' = "done" /\ ctx' = Finalised(ctx)
        /\ fed' = fed /\ msg' = msg /\ file' = file
    BY <1>6 DEF md5_final
  <2>2. Holds(ctx, Message(msg, fed)) /\ Message(msg, fed) \in Seq(Bytes)
    BY <1>1, <2>1, MessageIs DEF IInv
  <2>3. ctx' \in Context
    BY <2>1, <2>2, FinalisedIs
  <2>4. QED
    BY <1>1, <2>1, <2>3 DEF IInv, TypeInv, FileInv
<1>7. ASSUME NEW n \in Nat, gen_string_md5(n)
      PROVE  IInv'
  <2>1. /\ ctx' = Finalised(Updated(Cleared(ctx), Message(msg', n)))
        /\ fed' = n /\ phase' = "done" /\ file' = NoFile /\ msg' \in Nat
    BY <1>3, <1>7 DEF gen_string_md5
  <2>2. PICK m \in Seq(Bytes) : m = Message(msg', n)
    BY <2>1, MessageIs
  <2>3. Holds(Cleared(ctx), <<>>) /\ <<>> \in Seq(Bytes)
    BY <1>1, ClearedHolds
  <2>4. Holds(Updated(Cleared(ctx), m), <<>> \o m)
    BY <2>3, UpdateHolds
  <2>5. <<>> \o m = m
    BY ConcatEmptySeq
  <2>6. ctx' \in Context
    BY <2>1, <2>2, <2>4, <2>5, FinalisedIs
  <2>7. file' \in [size : Nat, short : BOOLEAN]
    BY <2>1 DEF NoFile
  <2>8. QED
    BY <2>1, <2>6, <2>7 DEF IInv, TypeInv, FileInv
<1>8. ASSUME NEW n \in 0 .. MaxLen, FileOpened(n)
      PROVE  IInv'
  <2>1. /\ ctx' = Cleared(ctx) /\ fed' = 0 /\ phase' = "reading" /\ msg' \in Nat
        /\ file' = [size |-> n, short |-> FALSE]
    BY <1>3, <1>8 DEF FileOpened
  <2>2. Holds(ctx', Message(msg', fed'))
    BY <1>1, <2>1, ClearedHolds, EmptyMessage
  <2>3. ctx' \in Context
    BY <1>1, <2>1, ClearedIsContext
  <2>4. file' \in [size : Nat, short : BOOLEAN]
    BY <1>2, <2>1
  <2>5. QED
    BY <2>1, <2>2, <2>3, <2>4 DEF IInv, TypeInv, FileInv
<1>9. ASSUME NEW n \in 0 .. ReadSize, FileRead(n)
      PROVE  IInv'
  <2>1. /\ phase = "reading" /\ n <= file.size - fed
        /\ n = 0 => fed = file.size
        /\ fed' = fed + n /\ msg' = msg
        /\ file' = [file EXCEPT !.short = n < ReadSize /\ fed' < file.size]
    BY <1>9 DEF FileRead
  <2>2. Holds(Fed(n), Message(msg, fed + n))
    <3>1. n \in Nat
      BY <1>2
    <3>2. QED
      BY <2>1, <3>1, FedHolds
  <2>3. Fed(n) \in Context
    <3>1. Message(msg, fed + n) \in Seq(Bytes)
      BY <1>1, <1>2, MessageIs, fed + n \in Nat
    <3>2. QED
      BY <2>2, <3>1, UpdatedIsContext DEF Fed
  <2>4. fed' \in Nat /\ fed' <= file.size
    <3>1. PICK size \in Nat : size = file.size
      BY <1>1
    <3>2. n \in Nat
      BY <1>2
    <3>3. QED
      BY <1>1, <2>1, <3>1, <3>2
  <2>5. /\ file' \in [size : Nat, short : BOOLEAN]
        /\ file'.size = file.size
        /\ file'.short <=> n < ReadSize /\ fed' < file.size
    BY <1>1, <2>1
  <2>6. CASE LastRead(n)
    <3>1. ctx' = Finalised(Fed(n)) /\ digest' = ctx'.state /\ phase' = "filed"
      BY <1>9, <2>6 DEF FileRead
    <3>2. Message(msg, fed + n) \in Seq(Bytes)
      BY <1>1, <2>1, <2>4, MessageIs
    <3>3. ctx' \in Context /\ ctx'.state = H!Blocks(H!Padded(Message(msg, fed + n)))
      BY <2>2, <3>1, <3>2, FinalisedIs
    <3>4. fed' = file'.size \/ file'.short
      <4>1. PICK size \in Nat : size = file.size
        BY <1>1
      <4>2. n = 0 \/ n < ReadSize
        BY <2>6 DEF LastRead
      <4>3. n = 0 => fed' = size
        BY <1>1, <2>1, <4>1
      <4>4. fed' < size \/ fed' = size
        BY <2>4, <4>1
      <4>5. QED
        BY <2>5, <4>1, <4>2, <4>3, <4>4
    <3>5. QED
      BY <1>1, <2>1, <2>4, <2>5, <3>1, <3>3, <3>4 DEF IInv, TypeInv, FileInv
  <2>7. CASE ~ LastRead(n)
    <3>1. ctx' = Fed(n) /\ phase' = phase
      BY <1>9, <2>7 DEF FileRead
    <3>2. QED
      BY <1>1, <2>1, <2>2, <2>3, <2>4, <2>5, <3>1 DEF IInv, TypeInv, FileInv
  <2>8. QED
    BY <2>6, <2>7
<1>10. CASE FileError
  BY <1>1, <1>10 DEF FileError, IInv, TypeInv, FileInv
<1>11. CASE UNCHANGED vars
  BY <1>11 DEF vars, IInv, TypeInv, FileInv, Holds
<1>12. QED
  BY <1>2, <1>4, <1>5, <1>6, <1>7, <1>8, <1>9, <1>10, <1>11 DEF Next

LEMMA Invariance == Spec => []IInv
<1>1. Init => IInv
  BY InitIInv
<1>2. IInv /\ [Next]_vars => IInv'
  BY NextIInv
<1>3. QED
  BY <1>1, <1>2, PTL DEF Spec

-----------------------------------------------------------------------------
LEMMA IInvHoldsMessage ==
  ASSUME IInv
  PROVE  ContextHoldsMessage
<1>1. SUFFICES ASSUME phase \in {"open", "reading"}
               PROVE  LET m == Message(msg, fed)
                          rest == fed % B
                      IN /\ ctx.state = H!Blocks(m)
                         /\ SubSeq(ctx.buffer, 1, rest) = SubSeq(m, fed - rest + 1, fed)
                         /\ ctx.count[1] + 2^W * ctx.count[2] = (8 * fed) % 2^(2 * W)
  BY DEF ContextHoldsMessage
<1>2. PICK m : m = Message(msg, fed)
  OBVIOUS
<1>3. Holds(ctx, m) /\ m \in Seq(Bytes) /\ Len(m) = fed /\ fed \in Nat
  BY <1>1, <1>2, MessageIs DEF IInv, TypeInv
<1>4. PICK q \in Nat, rest \in 0 .. B - 1 :
        fed \div B = q /\ fed % B = rest /\ fed = B * q + rest
  BY <1>3, BlockSplit
<1>5. PICK a \in Nat : a = B * q /\ fed = a + rest
  BY <1>4, BlockSplit
<1>6. ctx.buffer \in Seq(Bytes) /\ Len(ctx.buffer) = B
  <2>1. ctx.buffer \in [1 .. B -> Bytes] /\ B \in Nat
    BY <1>3, BlockSplit DEF Holds, Block
  <2>2. QED
    BY <2>1
<1>7. PICK front, back : /\ front = SubSeq(ctx.buffer, 0 + 1, rest)
                         /\ back = SubSeq(m, a + 1, fed)
  OBVIOUS
<1>8. front \in Seq(Bytes) /\ Len(front) = rest /\ \A i \in 1 .. rest : front[i] = ctx.buffer[i]
  <2>1. rest \in Nat /\ 0 <= rest /\ rest <= B /\ rest - 0 = rest
    BY BlockSplit
  <2>2. QED
    BY <1>6, <1>7, <2>1, PartOf
<1>9. back \in Seq(Bytes) /\ Len(back) = rest /\ \A i \in 1 .. rest : back[i] = m[a + i]
  <2>1. rest \in Nat
    BY BlockSplit
  <2>2. a <= fed /\ fed - a = rest
    BY <1>5, <2>1
  <2>3. QED
    BY <1>3, <1>7, <2>2, PartOf
<1>10. \A i \in 1 .. rest : ctx.buffer[i] = m[a + i]
  BY <1>3, <1>4, <1>5 DEF Holds
<1>11. front = back
  <2>1. \A i \in 1 .. Len(front) : front[i] = back[i]
    BY <1>8, <1>9, <1>10
  <2>2. QED
    BY <1>8, <1>9, <2>1, SeqEqual
<1>12. fed - rest + 1 = a + 1
  BY <1>5, BlockSplit
<1>13. QED
  BY <1>2, <1>3, <1>4, <1>7, <1>11, <1>12, 0 + 1 = 1 DEF Holds, Counts

(* Between two calls a context stands for exactly the bytes given so far,  *)
(* for every size of block, word and piece and any number of bytes, the    *)
(* bit count wrapping as often as it may (genmd5.c:189-211).               *)
THEOREM ContextHoldsMessageAlways == Spec => []ContextHoldsMessage
<1>1. IInv => ContextHoldsMessage
  BY IInvHoldsMessage
<1>2. QED
  BY <1>1, Invariance, PTL

(* The digest gen_file_md5 answers with is the one of the whole file, of   *)
(* any size, unless a read gave less than was asked before its end         *)
(* (genstring.c:312-327).                                                  *)
THEOREM WholeFileDigestedAlways == Spec => []WholeFileDigested
<1>1. IInv => WholeFileDigested
  BY DEF IInv, FileInv, WholeFileDigested
<1>2. QED
  BY <1>1, Invariance, PTL

-----------------------------------------------------------------------------
(* The stream implements a hash of whole messages.                         *)
LEMMA InitAbstract ==
  ASSUME Init
  PROVE  H!Init
  BY EmptyMessage DEF Init, H!Init

LEMMA Unpadded ==
  ASSUME NEW k \in Nat, NEW a \in Nat, NEW n \in Nat
  PROVE  /\ Len(Message(k, a)) = a /\ Len(Message(k, a + n)) >= a
         /\ SubSeq(Message(k, a + n), 1, Len(Message(k, a))) = Message(k, a)
<1>1. a + n \in Nat /\ a + n >= a
  OBVIOUS
<1>2. Len(Message(k, a)) = a /\ Len(Message(k, a + n)) = a + n
  BY <1>1, MessageIs
<1>3. SubSeq(Message(k, a + n), 1, a) = Message(k, a)
  BY MessageGrows
<1>4. QED
  BY <1>1, <1>2, <1>3

LEMMA NextAbstract ==
  ASSUME IInv, [Next]_vars
  PROVE  [H!Next]_(H!vars)
<1>1. /\ ctx \in Context /\ msg \in Nat /\ fed \in Nat
      /\ phase \in {"idle", "open", "reading", "done", "filed"}
  BY DEF IInv, TypeInv
<1>2. MaxLen \in Nat /\ ReadSize \in Nat /\ MaxChunk \in Nat /\ Inputs \subseteq Nat
  BY SizesAssumption DEF Inputs
<1>3. ASSUME md5_init \/ \E n \in 0 .. MaxLen : FileOpened(n)
      PROVE  H!Begin
  <2>1. /\ fed' = 0 /\ phase' \in {"open", "reading"} /\ digest' = digest
    BY <1>3 DEF md5_init, FileOpened
  <2>2. Message(msg', fed') = <<>>
    BY <2>1, EmptyMessage
  <2>3. QED
    BY <2>1, <2>2 DEF H!Begin
<1>4. ASSUME phase \in {"open", "reading"}, phase' = phase, digest' = digest,
             msg' = msg, NEW n \in Nat, fed' = fed + n
      PROVE  H!Absorb
  <2>1. /\ Len(Message(msg', fed')) >= Len(Message(msg, fed))
        /\ SubSeq(Message(msg', fed'), 1, Len(Message(msg, fed))) = Message(msg, fed)
    BY <1>1, <1>4, Unpadded
  <2>2. QED
    BY <1>4, <2>1 DEF H!Absorb
<1>5. ASSUME NEW n \in Nat, md5_update(n)
      PROVE  H!Absorb
  BY <1>2, <1>4, <1>5, n \in Nat DEF md5_update
<1>6. ASSUME md5_final
      PROVE  H!Finish
  <2>1. /\ phase = "open" /\ phase' = "done" /\ digest' = Finalised(ctx).state
        /\ fed' = fed /\ msg' = msg
    BY <1>6 DEF md5_final
  <2>2. Holds(ctx, Message(msg, fed)) /\ Message(msg, fed) \in Seq(Bytes)
    BY <1>1, <2>1, MessageIs DEF IInv
  <2>3. digest' = H!Blocks(H!Padded(Message(msg, fed)))
    BY <2>1, <2>2, FinalisedIs
  <2>4. QED
    BY <2>1, <2>3 DEF H!Finish
<1>7. ASSUME NEW n \in Nat, gen_string_md5(n)
      PROVE  H!Whole
  <2>1. /\ digest' = Finalised(Updated(Cleared(ctx), Message(msg', n))).state
        /\ fed' = n /\ phase' = "done" /\ msg' \in Nat
    BY <1>1, <1>7 DEF gen_string_md5, NextMessage
  <2>2. PICK m \in Seq(Bytes) : m = Message(msg', n)
    BY <2>1, MessageIs
  <2>3. Holds(Cleared(ctx), <<>>) /\ <<>> \in Seq(Bytes)
    BY <1>1, ClearedHolds
  <2>4. Holds(Updated(Cleared(ctx), m), <<>> \o m)
    BY <2>3, UpdateHolds
  <2>5. <<>> \o m = m
    BY ConcatEmptySeq
  <2>6. digest' = H!Blocks(H!Padded(Message(msg', fed')))
    BY <2>1, <2>2, <2>4, <2>5, FinalisedIs
  <2>7. QED
    BY <2>1, <2>6 DEF H!Whole
<1>8. ASSUME NEW n \in 0 .. ReadSize, FileRead(n)
      PROVE  H!Absorb \/ H!Whole
  <2>1. phase = "reading" /\ fed' = fed + n /\ msg' = msg /\ n \in Nat
    BY <1>2, <1>8 DEF FileRead
  <2>2. CASE LastRead(n)
    <3>1. digest' = Finalised(Fed(n)).state /\ phase' = "filed"
      BY <1>8, <2>2 DEF FileRead
    <3>2. Holds(Fed(n), Message(msg, fed + n))
      BY <2>1, FedHolds
    <3>3. fed + n \in Nat
      BY <1>1, <2>1
    <3>4. Message(msg, fed + n) \in Seq(Bytes)
      BY <1>1, <3>3, MessageIs
    <3>5. digest' = H!Blocks(H!Padded(Message(msg', fed')))
      BY <2>1, <3>1, <3>2, <3>4, FinalisedIs
    <3>6. QED
      BY <3>1, <3>5 DEF H!Whole
  <2>3. CASE ~ LastRead(n)
    <3>1. digest' = digest /\ phase' = phase
      BY <1>8, <2>3 DEF FileRead
    <3>2. QED
      BY <1>4, <2>1, <3>1
  <2>4. QED
    BY <2>2, <2>3
<1>9. ASSUME FileError
      PROVE  H!Abandon
  BY <1>9 DEF FileError, H!Abandon
<1>10. ASSUME UNCHANGED vars
       PROVE  UNCHANGED H!vars
  BY <1>10 DEF vars, H!vars
<1>11. QED
  BY <1>2, <1>3, <1>5, <1>6, <1>7, <1>8, <1>9, <1>10 DEF Next, H!Next

(* Whatever the pieces a message came in, and whichever of the three users *)
(* hashed it, the digest is the one of the padded message: the detailed    *)
(* stream implements Hash (genmd5.c:183-226).                              *)
THEOREM ImplementsHashAlways == Spec => ImplementsHash
<1>1. Init => H!Init
  BY InitAbstract
<1>2. IInv /\ [Next]_vars => [H!Next]_(H!vars)
  BY NextAbstract
<1>3. QED
  BY <1>1, <1>2, Invariance, PTL DEF Spec, ImplementsHash, H!Spec

-----------------------------------------------------------------------------
\* A set of numbers that is not empty has a least one.
LEMMA LeastIn ==
  ASSUME NEW S \in SUBSET Nat, S # {}
  PROVE  \E a \in S : \A b \in S : a <= b
<1>1. PICK a \in S : \A b \in S : ~ (<<b, a>> \in OpToRel(<, Nat))
  BY NatLessThanWellFounded, WFMin
<1>2. ASSUME NEW b \in S
      PROVE  a <= b
  <2> DEFINE pair == <<b, a>>
  <2>1. pair \in Nat \X Nat /\ pair[1] = b /\ pair[2] = a
    OBVIOUS
  <2> HIDE DEF pair
  <2>2. pair \notin OpToRel(<, Nat)
    BY <1>1 DEF pair
  <2>3. QED
    BY <2>1, <2>2 DEF OpToRel
<1>3. QED
  BY <1>2

LEMMA MinIs ==
  ASSUME NEW S \in SUBSET Nat, S # {}
  PROVE  Min(S) \in S /\ \A x \in S : Min(S) <= x
<1>1. \E a \in S : \A b \in S : a <= b
  BY LeastIn
<1> QED BY <1>1 DEF Min

LEMMA MinIsOne ==
  ASSUME NEW S \in SUBSET Nat, NEW a \in S, \A x \in S : a <= x
  PROVE  Min(S) = a
<1>1. Min(S) \in S /\ \A x \in S : Min(S) <= x
  BY MinIs
<1>2. Min(S) <= a /\ a <= Min(S)
  BY <1>1
<1>3. Min(S) \in Nat /\ a \in Nat
  BY <1>1
<1> QED BY <1>2, <1>3

LEMMA MaxIs ==
  ASSUME NEW n \in Nat, NEW S \in SUBSET (0 .. n), S # {}
  PROVE  Max(S) \in S /\ \A x \in S : Max(S) >= x
<1> DEFINE T == {n - x : x \in S}
<1>1. T \in SUBSET Nat /\ T # {}
  <2>1. \A x \in S : n - x \in Nat
    OBVIOUS
  <2> QED BY <2>1
<1>2. PICK a \in T : \A b \in T : a <= b
  <2> HIDE DEF T
  <2> QED BY <1>1, LeastIn
<1>3. PICK y \in S : a = n - y
  OBVIOUS
<1>4. ASSUME NEW x \in S
      PROVE  y >= x
  <2>1. n - x \in T
    OBVIOUS
  <2>2. a <= n - x
    BY <1>2, <2>1
  <2> QED BY <1>3, <2>2
<1> QED BY <1>4 DEF Max

LEMMA MaxIsOne ==
  ASSUME NEW n \in Nat, NEW S \in SUBSET (0 .. n), NEW a \in S, \A x \in S : a >= x
  PROVE  Max(S) = a
<1>1. Max(S) \in S /\ \A x \in S : Max(S) >= x
  BY MaxIs
<1>2. Max(S) >= a /\ a >= Max(S)
  BY <1>1
<1>3. Max(S) \in 0 .. n /\ a \in 0 .. n
  BY <1>1
<1> QED BY <1>2, <1>3

LEMMA PrefixIs ==
  ASSUME NEW S, NEW s \in Seq(S), NEW t \in Seq(S), Len(s) <= Len(t),
         \A i \in 1 .. Len(s) : s[i] = t[i]
  PROVE  IsPrefix(s, t)
<1>1. Len(s) \in Nat /\ Len(t) \in Nat /\ \A i \in 1 .. Len(t) : t[i] \in S
  BY LenProperties, ElementOfSeq
<1>2. PICK n \in Nat : n = Len(s)
  BY <1>1
<1>3. SubSeq(s, 1, n) = s
  BY <1>2, SubSeqFull
<1>4. /\ SubSeq(t, 1, n) \in Seq(S)
      /\ Len(SubSeq(t, 1, n)) = IF 1 <= n THEN n - 1 + 1 ELSE 0
      /\ \A i \in 1 .. n - 1 + 1 : SubSeq(t, 1, n)[i] = t[1 + i - 1]
  <2>1. \A i \in 1 .. n : t[i] \in S
    BY <1>1, <1>2
  <2> QED BY <2>1, SubSeqProperties
<1>5. Len(SubSeq(t, 1, n)) = n /\ \A i \in 1 .. n : SubSeq(t, 1, n)[i] = t[i]
  BY <1>4
<1>6. SubSeq(t, 1, n) = s
  BY <1>2, <1>4, <1>5, SeqEqual
<1> QED BY <1>2, <1>3, <1>6 DEF IsPrefix

\* A sequence of length k, and a function that is one.
Text(t, k, S) == k \in Nat /\ t \in Seq(S) /\ Len(t) = k
Array(f, n) == f = [i \in 1 .. n |-> f[i]]

LEMMA LenIs ==
  ASSUME NEW f, NEW n \in Nat, Array(f, n)
  PROVE  Text(f, n, {f[i] : i \in 1 .. n}) /\ DOMAIN f = 1 .. n
<1> DEFINE T == {f[i] : i \in 1 .. n}
<1>1. f \in [1 .. n -> T] /\ DOMAIN f = 1 .. n
  BY DEF Array
<1> HIDE DEF T
<1>2. f \in Seq(T)
  BY <1>1, SeqDef
<1> QED BY <1>1, <1>2, LenProperties DEF T, Text

-----------------------------------------------------------------------------
(* Questions. *)

Legally == call.fn \in DOMAIN Legal => call.in \in Legal[call.fn]

LEMMA AskedIsLegal == QuerySpec => []Legally
<1> DEFINE Inv == call.fn = "none" \/ (call.fn \in DOMAIN Asked /\ call.in \in Asked[call.fn])
<1>1. QueryInit => Inv
  BY DEF QueryInit
<1>2. Inv /\ [QueryNext]_call => Inv'
  BY DEF QueryNext, Ask
<1>3. "none" \notin DOMAIN Legal
  BY DEF Legal
<1>4. Inv => Legally
  BY <1>3, AskedAssumption DEF Legally
<1> QED BY <1>1, <1>2, <1>4, PTL DEF QuerySpec

-----------------------------------------------------------------------------
(***************************************************************************)
(* Command lines.  got bytes of the line fit, the loop stops at nl.        *)
(***************************************************************************)
ReadTo(bytes, n, size, got) ==
  /\ got \in 1 .. size - 1 /\ got <= n
  /\ got = size - 1 \/ bytes[got] = "\n" \/ got = n
  /\ \A i \in 1 .. got - 1 : bytes[i] # "\n"

\* The buffer after fgets, and after the loop.
RawIs(raw, bytes, size, got) ==
  \A i \in 1 .. size :
    raw[i] = IF i <= got THEN bytes[i] ELSE IF i = got + 1 THEN NUL ELSE Fill

StopsAt(raw, size, nl) ==
  /\ nl \in 1 .. size + 1
  /\ \A i \in 1 .. size : i < nl => raw[i] # "\n"
  /\ nl <= size => raw[nl] = "\n"

\* The loop makes a blank of a terminator.
Shown(c) == IF c = NUL THEN " " ELSE c

BufferIs(buffer, raw, size, nl) ==
  \A i \in 1 .. size :
    buffer[i] = IF i = nl THEN NUL ELSE IF i < nl THEN Shown(raw[i]) ELSE raw[i]

LEMMA LineEnds ==
  ASSUME NEW bytes, NEW n \in Nat, n > 0, NEW size \in Nat, size > 1,
         NEW line, line = Min({i \in 1 .. n : bytes[i] = "\n"} \cup {n}),
         NEW got, got = Min({line, size - 1})
  PROVE  ReadTo(bytes, n, size, got)
<1> DEFINE ends == {i \in 1 .. n : bytes[i] = "\n"} \cup {n}
<1>1. line \in ends /\ \A x \in ends : line <= x
  <2>1. ends \in SUBSET Nat /\ ends # {}
    OBVIOUS
  <2>2. Min(ends) \in ends /\ \A x \in ends : Min(ends) <= x
    <3> HIDE DEF ends
    <3> QED BY <2>1, MinIs
  <2>3. line = Min(ends)
    OBVIOUS
  <2> HIDE DEF ends
  <2> QED BY <2>2, <2>3
<1>2. line \in 1 .. n /\ (bytes[line] = "\n" \/ line = n)
  BY <1>1
<1>3. ASSUME NEW i \in 1 .. line - 1
      PROVE  bytes[i] # "\n"
  <2>1. i \in 1 .. n /\ ~ (line <= i)
    BY <1>2
  <2> QED BY <1>1, <2>1
<1>4. got \in {line, size - 1} /\ got <= line /\ got <= size - 1
  <2>1. {line, size - 1} \in SUBSET Nat /\ {line, size - 1} # {}
    BY <1>2
  <2>2. PICK S : S = {line, size - 1}
    OBVIOUS
  <2>3. got \in S /\ \A x \in S : got <= x
    BY <2>1, <2>2, MinIs
  <2> QED BY <2>2, <2>3
<1>5. got \in 1 .. size - 1 /\ got <= n
  BY <1>2, <1>4
<1>6. got = size - 1 \/ bytes[got] = "\n" \/ got = n
  BY <1>2, <1>4
<1>7. \A i \in 1 .. got - 1 : bytes[i] # "\n"
  <2>1. \A i \in 1 .. got - 1 : i \in 1 .. line - 1
    BY <1>2, <1>4, <1>5
  <2> QED BY <1>3, <2>1
<1> QED BY <1>5, <1>6, <1>7 DEF ReadTo

LEMMA LoopStops ==
  ASSUME NEW raw, NEW size \in Nat, size > 1,
         NEW nl, nl = Min({i \in 1 .. size : raw[i] = "\n"} \cup {size + 1})
  PROVE  StopsAt(raw, size, nl)
<1> DEFINE stops == {i \in 1 .. size : raw[i] = "\n"} \cup {size + 1}
<1>1. nl \in stops /\ \A x \in stops : nl <= x
  <2>1. stops \in SUBSET Nat /\ stops # {}
    OBVIOUS
  <2>2. Min(stops) \in stops /\ \A x \in stops : Min(stops) <= x
    <3> HIDE DEF stops
    <3> QED BY <2>1, MinIs
  <2>3. nl = Min(stops)
    OBVIOUS
  <2> HIDE DEF stops
  <2> QED BY <2>2, <2>3
<1>2. nl \in 1 .. size + 1 /\ (nl <= size => raw[nl] = "\n")
  BY <1>1
<1>3. ASSUME NEW i \in 1 .. size, i < nl
      PROVE  raw[i] # "\n"
  <2>1. ~ (nl <= i)
    BY <1>2, <1>3
  <2> QED BY <1>1, <2>1
<1> QED BY <1>2, <1>3 DEF StopsAt

\* A newline within the buffer: the loop stops there.
LEMMA StopsAtNewline ==
  ASSUME NEW bytes, NEW n \in Nat, NEW size \in Nat, size > 1,
         NEW got, NEW nl, NEW raw, NEW buffer,
         ReadTo(bytes, n, size, got), RawIs(raw, bytes, size, got),
         StopsAt(raw, size, nl), BufferIs(buffer, raw, size, nl),
         NEW k \in 1 .. n, k < size, bytes[k] = "\n", \A i \in 1 .. k - 1 : bytes[i] # "\n"
  PROVE  /\ buffer[k] = NUL
         /\ \A i \in 1 .. k - 1 : buffer[i] = Shown(bytes[i])
<1>1. got = k
  <2>1. got <= k
    <3>1. ~ (k \in 1 .. got - 1)
      BY DEF ReadTo
    <3> QED BY <3>1 DEF ReadTo
  <2>2. ~ (got < k)
    <3>1. got < k => got \in 1 .. k - 1 /\ got # size - 1 /\ got # n
      BY DEF ReadTo
    <3> QED BY <3>1 DEF ReadTo
  <2> QED BY <2>1, <2>2 DEF ReadTo
<1>2. \A i \in 1 .. k : i \in 1 .. size /\ raw[i] = bytes[i]
  BY <1>1 DEF RawIs
<1>3. nl = k
  <2>1. k \in 1 .. size /\ raw[k] = "\n"
    BY <1>2
  <2>2. ~ (k < nl)
    BY <2>1 DEF StopsAt
  <2>3. nl \in 1 .. size + 1
    BY DEF StopsAt
  <2>4. nl < k => raw[nl] = "\n" /\ nl \in 1 .. k /\ nl \in 1 .. k - 1
    BY <2>3 DEF StopsAt
  <2> QED BY <1>2, <2>2, <2>3, <2>4
<1>4. \A i \in 1 .. k - 1 : i \in 1 .. k /\ i < k /\ i # k
  OBVIOUS
<1>5. buffer[k] = NUL
  <2>1. k \in 1 .. size
    BY <1>2
  <2> QED BY <1>3, <2>1 DEF BufferIs
<1>6. ASSUME NEW i \in 1 .. k - 1
      PROVE  buffer[i] = Shown(bytes[i])
  <2>1. i \in 1 .. size /\ raw[i] = bytes[i] /\ i < nl /\ i # nl
    BY <1>2, <1>3, <1>4
  <2> QED BY <2>1 DEF BufferIs
<1> QED BY <1>5, <1>6

\* Room for one byte more than fgets needs: the loop stops behind it.
LEMMA StopsBehind ==
  ASSUME NEW bytes, NEW n \in Nat, NEW size \in Nat, size > 1,
         NEW got, NEW nl, NEW raw, NEW buffer,
         ReadTo(bytes, n, size, got), RawIs(raw, bytes, size, got),
         StopsAt(raw, size, nl), BufferIs(buffer, raw, size, nl),
         \A i \in 1 .. n : bytes[i] # "\n", n + 1 < size
  PROVE  /\ buffer[n + 2] = NUL /\ buffer[n + 1] = Shown(NUL)
         /\ \A i \in 1 .. n : buffer[i] = Shown(bytes[i])
<1>1. NUL # "\n" /\ Fill = "\n"
  BY DEF NUL, Fill
<1>2. got = n
  <2>1. got \in 1 .. n
    BY DEF ReadTo
  <2> QED BY <2>1 DEF ReadTo
<1>3. /\ \A i \in 1 .. n : i \in 1 .. size /\ raw[i] = bytes[i]
      /\ n + 1 \in 1 .. size /\ raw[n + 1] = NUL
      /\ n + 2 \in 1 .. size /\ raw[n + 2] = "\n"
  BY <1>1, <1>2 DEF RawIs
<1>4. nl = n + 2
  <2>1. nl \in 1 .. size + 1 /\ ~ (n + 2 < nl)
    BY <1>3 DEF StopsAt
  <2>2. nl # n + 1
    BY <1>1, <1>3 DEF StopsAt
  <2>3. ~ (nl \in 1 .. n)
    BY <1>3 DEF StopsAt
  <2> QED BY <2>1, <2>2, <2>3
<1>5. \A i \in 1 .. n + 1 : i < nl /\ i # nl
  BY <1>4
<1>6. \A i \in 1 .. n : i \in 1 .. n + 1
  OBVIOUS
<1>7. \A i \in 1 .. n : buffer[i] = Shown(bytes[i])
  BY <1>3, <1>5, <1>6 DEF BufferIs
<1>8. buffer[n + 1] = Shown(NUL)
  <2>1. n + 1 \in 1 .. size /\ n + 1 # nl /\ n + 1 < nl /\ raw[n + 1] = NUL
    BY <1>3, <1>4
  <2>2. PICK i \in 1 .. size : i = n + 1
    BY <2>1
  <2> QED BY <2>1, <2>2 DEF BufferIs
<1>9. buffer[n + 2] = NUL
  <2>1. PICK i \in 1 .. size : i = n + 2
    BY <1>3
  <2> QED BY <1>4, <2>1 DEF BufferIs
<1> QED BY <1>7, <1>8, <1>9

\* A full buffer keeps no terminator.
LEMMA NeverStops ==
  ASSUME NEW bytes, NEW n \in Nat, NEW size \in Nat, size > 1,
         NEW got, NEW nl, NEW raw, NEW buffer,
         ReadTo(bytes, n, size, got), RawIs(raw, bytes, size, got),
         StopsAt(raw, size, nl), BufferIs(buffer, raw, size, nl),
         \A i \in 1 .. n : i < size => bytes[i] # "\n", ~ (n + 1 < size)
  PROVE  \A i \in 1 .. size : buffer[i] # NUL
<1>1. NUL # "\n" /\ NUL # " "
  BY DEF NUL
<1>2. got = size - 1
  <2>1. got \in 1 .. size - 1 /\ got <= n /\ got \in 1 .. n /\ got < size
    BY DEF ReadTo
  <2>2. bytes[got] # "\n"
    BY <2>1
  <2>3. got = size - 1 \/ got = n
    BY <2>2 DEF ReadTo
  <2> QED BY <2>1, <2>3
<1>3. ASSUME NEW i \in 1 .. size
      PROVE  raw[i] # "\n"
  <2>1. CASE i = size
    <3>1. raw[i] = NUL
      BY <1>2, <2>1 DEF RawIs
    <3> QED BY <1>1, <3>1
  <2>2. CASE i # size
    <3>1. i <= got /\ i < size /\ i \in 1 .. n
      BY <1>2, <2>2 DEF ReadTo
    <3>2. raw[i] = bytes[i]
      BY <3>1 DEF RawIs
    <3> QED BY <3>1, <3>2
  <2> QED BY <2>1, <2>2
<1>4. nl = size + 1
  <2>1. nl \in 1 .. size + 1 /\ ~ (nl <= size)
    <3>1. nl \in 1 .. size + 1
      BY DEF StopsAt
    <3>2. nl <= size => nl \in 1 .. size /\ raw[nl] = "\n"
      BY <3>1 DEF StopsAt
    <3> QED BY <1>3, <3>1, <3>2
  <2> QED BY <2>1
<1>5. ASSUME NEW i \in 1 .. size
      PROVE  buffer[i] # NUL
  <2>1. i # nl /\ i < nl
    BY <1>4
  <2>2. buffer[i] = Shown(raw[i])
    BY <2>1 DEF BufferIs
  <2> QED BY <1>1, <2>2 DEF Shown
<1> QED BY <1>5

\* A byte of the buffer, as the code writes it.
Cell(raw, nl, i) ==
  CASE i = nl -> NUL
    [] i < nl /\ raw[i] = NUL -> " "
    [] OTHER -> raw[i]

LEMMA CmdlineIs ==
  ASSUME NEW bytes, NEW n \in Nat, n > 0, DOMAIN bytes = 1 .. n, Len(bytes) = n,
         NEW size \in Nat, size > 1
  PROVE  \E got, nl, raw :
           /\ ReadTo(bytes, n, size, got) /\ RawIs(raw, bytes, size, got)
           /\ StopsAt(raw, size, nl) /\ BufferIs(process_cmdline(bytes, size), raw, size, nl)
           /\ Array(process_cmdline(bytes, size), size)
<1>1. PICK line : line = Min({i \in 1 .. n : bytes[i] = "\n"} \cup {n})
  OBVIOUS
<1>2. PICK got : got = Min({line, size - 1})
  OBVIOUS
<1>3. PICK raw : raw = [i \in 1 .. size |->
                          IF i <= got THEN bytes[i] ELSE IF i = got + 1 THEN NUL ELSE Fill]
  OBVIOUS
<1>4. PICK nl : nl = Min({i \in 1 .. size : raw[i] = "\n"} \cup {size + 1})
  OBVIOUS
<1>5. process_cmdline(bytes, size) = [i \in 1 .. size |-> Cell(raw, nl, i)]
  BY <1>1, <1>2, <1>3, <1>4 DEF process_cmdline, Cell
<1>6. RawIs(raw, bytes, size, got)
  BY <1>3 DEF RawIs
<1>7. ReadTo(bytes, n, size, got) /\ StopsAt(raw, size, nl)
  BY <1>1, <1>2, <1>4, LineEnds, LoopStops
<1>8. BufferIs(process_cmdline(bytes, size), raw, size, nl)
  <2>1. ASSUME NEW i \in 1 .. size
        PROVE  process_cmdline(bytes, size)[i] =
                 IF i = nl THEN NUL ELSE IF i < nl THEN Shown(raw[i]) ELSE raw[i]
    <3>1. nl \in Nat
      BY <1>7 DEF StopsAt
    <3>2. process_cmdline(bytes, size)[i] = Cell(raw, nl, i)
      BY <1>5
    <3>3. CASE i = nl
      <4>1. ~ (i < nl)
        BY <3>1, <3>3
      <4> QED BY <3>2, <3>3, <4>1 DEF Cell
    <3>4. CASE i # nl /\ i < nl
      BY <3>2, <3>4 DEF Cell, Shown
    <3>5. CASE i # nl /\ ~ (i < nl)
      BY <3>2, <3>5 DEF Cell
    <3> QED BY <3>3, <3>4, <3>5
  <2> QED BY <2>1 DEF BufferIs
<1>9. Array(process_cmdline(bytes, size), size)
  BY <1>5 DEF Array
<1> QED BY <1>6, <1>7, <1>8, <1>9

\* The text with blanks for terminators, and a terminator, begins the buffer.
LEMMA TextBegins ==
  ASSUME NEW S, NEW t, NEW k \in Nat, Text(t, k, S),
         NEW buffer, NEW size \in Nat, k < size, Array(buffer, size),
         buffer[k + 1] = NUL,
         \A i \in 1 .. k : buffer[i] = Shown(t[i])
  PROVE  IsPrefix(Append(Joined(t), NUL), buffer)
<1> DEFINE T == {buffer[i] : i \in 1 .. size}
<1>1. Text(buffer, size, T)
  BY LenIs
<1>2. PICK u : u = Joined(t)
  OBVIOUS
<1>3. DOMAIN t = 1 .. k
  BY LenProperties DEF Text
<1>4. \A i \in 1 .. k : i \in 1 .. size
  OBVIOUS
<1>5. \A i \in 1 .. k : u[i] = buffer[i] /\ u[i] \in T
  <2>1. \A i \in 1 .. k : u[i] = Shown(t[i])
    BY <1>2, <1>3 DEF Joined, Shown
  <2> QED BY <1>4, <2>1
<1>6. Text(u, k, T)
  <2>1. u \in [1 .. k -> T]
    BY <1>2, <1>3, <1>5 DEF Joined
  <2> HIDE DEF T
  <2>2. u \in Seq(T)
    BY <2>1, SeqDef
  <2> QED BY <2>1, <2>2, LenProperties DEF Text
<1>7. NUL \in T
  <2>1. k + 1 \in 1 .. size
    OBVIOUS
  <2> QED BY <2>1
<1>8. PICK v : v = Append(u, NUL)
  OBVIOUS
<1> HIDE DEF T
<1>9. Text(v, k + 1, T) /\ (\A i \in 1 .. k : v[i] = u[i]) /\ v[k + 1] = NUL
  <2>1. u \in Seq(T) /\ Len(u) = k
    BY <1>6 DEF Text
  <2>2. /\ v \in Seq(T) /\ Len(v) = Len(u) + 1
        /\ \A i \in 1 .. Len(u) : v[i] = u[i]
        /\ v[Len(u) + 1] = NUL
    BY <1>7, <1>8, <2>1, AppendProperties
  <2> QED BY <2>1, <2>2 DEF Text
<1>10. \A i \in 1 .. k + 1 : v[i] = buffer[i]
  <2>1. \A i \in 1 .. k + 1 : i \in 1 .. k \/ i = k + 1
    OBVIOUS
  <2> QED BY <1>5, <1>9, <2>1
<1>11. IsPrefix(v, buffer)
  <2>1. k + 1 <= size
    OBVIOUS
  <2> QED BY <1>1, <1>9, <1>10, <2>1, PrefixIs DEF Text
<1> QED BY <1>2, <1>8, <1>11

LEMMA CmdlineIsReadable ==
  ASSUME NEW S, NUL \in S, NEW bytes, NEW n \in Nat, Text(bytes, n, S), n > 0,
         NEW size \in Nat, size > 1,
         call.in.bytes = bytes, call.in.size = size
  PROVE  CmdlineReadable
<1>1. DOMAIN bytes = 1 .. n /\ Len(bytes) = n
  BY LenProperties DEF Text
<1>2. PICK buffer : buffer = process_cmdline(bytes, size)
  OBVIOUS
<1>3. PICK got, nl, raw :
        /\ ReadTo(bytes, n, size, got) /\ RawIs(raw, bytes, size, got)
        /\ StopsAt(raw, size, nl) /\ BufferIs(buffer, raw, size, nl)
        /\ Array(buffer, size)
  BY <1>1, <1>2, CmdlineIs
<1>4. Array(buffer, size)
  BY <1>3
<1> DEFINE newlines == {i \in DOMAIN bytes : bytes[i] = "\n" /\ i < size}
           text == IF newlines # {} THEN SubSeq(bytes, 1, Min(newlines) - 1)
                   ELSE Append(bytes, NUL)
<1>5. (IF newlines # {} \/ n + 1 < size THEN IsPrefix(Append(Joined(text), NUL), buffer)
       ELSE ~Contains(buffer, NUL)) => CmdlineReadable
  BY <1>1, <1>2 DEF CmdlineReadable
<1>6. \A i \in 1 .. n : bytes[i] \in S
  BY ElementOfSeq DEF Text
<1>7. CASE newlines # {}
  <2>1. PICK k \in newlines : k = Min(newlines) /\ \A x \in newlines : k <= x
    <3>1. newlines \in SUBSET Nat
      BY <1>1
    <3> HIDE DEF newlines
    <3> QED BY <1>7, <3>1, MinIs
  <2>2. k \in 1 .. n /\ bytes[k] = "\n" /\ k < size
    BY <1>1, <2>1
  <2>3. ASSUME NEW i \in 1 .. k - 1
        PROVE  bytes[i] # "\n"
    <3>1. i \in 1 .. n /\ i < size /\ ~ (k <= i)
      BY <2>2
    <3> QED BY <1>1, <2>1, <3>1
  <2>4. /\ buffer[k] = NUL
        /\ \A i \in 1 .. k - 1 : buffer[i] = Shown(bytes[i])
    BY <1>3, <2>2, <2>3, StopsAtNewline
  <2>5. PICK j \in Nat : j = k - 1 /\ j + 1 = k /\ j < size
    BY <2>2
  <2>6. PICK t : t = SubSeq(bytes, 1, j)
    OBVIOUS
  <2>7. /\ t \in Seq(S) /\ Len(t) = IF 1 <= j THEN j - 1 + 1 ELSE 0
        /\ \A i \in 1 .. j - 1 + 1 : t[i] = bytes[1 + i - 1]
    <3>1. \A i \in 1 .. j : bytes[i] \in S
      BY <1>6, <2>2, <2>5
    <3>2. bytes \in Seq(S)
      BY DEF Text
    <3> QED BY <2>6, <3>1, <3>2, SubSeqProperties
  <2>8. Text(t, j, S) /\ \A i \in 1 .. j : t[i] = bytes[i]
    <3>1. Len(t) = j
      BY <2>7
    <3>2. \A i \in 1 .. j : i \in 1 .. j - 1 + 1 /\ 1 + i - 1 = i
      OBVIOUS
    <3> QED BY <2>7, <3>1, <3>2 DEF Text
  <2>9. \A i \in 1 .. j : buffer[i] = Shown(t[i])
    BY <2>4, <2>5, <2>8
  <2>10. buffer[j + 1] = NUL
    BY <2>4, <2>5
  <2>11. IsPrefix(Append(Joined(t), NUL), buffer)
    BY <1>4, <2>5, <2>8, <2>9, <2>10, TextBegins
  <2>12. text = t
    <3> HIDE DEF newlines
    <3> QED BY <1>7, <2>1, <2>5, <2>6
  <2>13. IsPrefix(Append(Joined(text), NUL), buffer)
    <3> HIDE DEF text
    <3> QED BY <2>11, <2>12
  <2> HIDE DEF newlines, text
  <2> QED BY <1>5, <1>7, <2>13
<1>8. CASE newlines = {} /\ n + 1 < size
  <2>1. \A i \in 1 .. n : bytes[i] # "\n"
    BY <1>1, <1>8
  <2>2. /\ buffer[n + 2] = NUL /\ buffer[n + 1] = Shown(NUL)
        /\ \A i \in 1 .. n : buffer[i] = Shown(bytes[i])
    <3> HIDE DEF newlines
    <3> QED BY <1>3, <1>8, <2>1, StopsBehind
  <2>3. PICK t : t = Append(bytes, NUL)
    OBVIOUS
  <2>4. PICK k \in Nat : k = n + 1 /\ k < size /\ k + 1 = n + 2
    <3> HIDE DEF newlines
    <3> QED BY <1>8
  <2>5. Text(t, k, S) /\ (\A i \in 1 .. n : t[i] = bytes[i]) /\ t[n + 1] = NUL
    <3>1. bytes \in Seq(S) /\ Len(bytes) = n
      BY DEF Text
    <3>2. /\ t \in Seq(S) /\ Len(t) = Len(bytes) + 1
          /\ \A i \in 1 .. Len(bytes) : t[i] = bytes[i]
          /\ t[Len(bytes) + 1] = NUL
      BY <2>3, <3>1, AppendProperties
    <3> QED BY <2>4, <3>1, <3>2 DEF Text
  <2>6. \A i \in 1 .. k : buffer[i] = Shown(t[i])
    <3>1. \A i \in 1 .. k : i \in 1 .. n \/ i = n + 1
      BY <2>4
    <3> QED BY <2>2, <2>5, <3>1
  <2>7. buffer[k + 1] = NUL
    BY <2>2, <2>4
  <2>8. IsPrefix(Append(Joined(t), NUL), buffer)
    BY <1>4, <2>4, <2>5, <2>6, <2>7, TextBegins
  <2>9. text = t
    <3> HIDE DEF newlines
    <3> QED BY <1>8, <2>3
  <2>10. IsPrefix(Append(Joined(text), NUL), buffer)
    <3> HIDE DEF text
    <3> QED BY <2>8, <2>9
  <2> HIDE DEF newlines, text
  <2> QED BY <1>5, <1>8, <2>10
<1>9. CASE newlines = {} /\ ~ (n + 1 < size)
  <2>1. \A i \in 1 .. n : i < size => bytes[i] # "\n"
    BY <1>1, <1>9
  <2>2. \A i \in 1 .. size : buffer[i] # NUL
    <3> HIDE DEF newlines
    <3> QED BY <1>3, <1>9, <2>1, NeverStops
  <2>3. ~ Contains(buffer, NUL)
    <3>1. Len(buffer) = size
      BY <1>4, LenIs DEF Text
    <3> QED BY <2>2, <3>1 DEF Contains
  <2> HIDE DEF newlines, text
  <2> QED BY <1>5, <1>9, <2>3
<1> HIDE DEF newlines
<1> QED BY <1>7, <1>8, <1>9

\* process_cmdline (fcp_proc.c:287-324) gives a readable line, or a buffer of
\* characters without a terminator, for every command line and every size.
THEOREM CmdlineReadableAlways == QuerySpec => []CmdlineReadable
<1>1. (call.fn = "cmdline" => call.in \in Legal["cmdline"]) => CmdlineReadable
  <2> SUFFICES ASSUME call.fn = "cmdline", call.in \in Legal["cmdline"]
               PROVE  CmdlineReadable
    BY DEF CmdlineReadable
  <2>1. call.in \in [bytes : Seq(STRING) \ {<<>>}, size : Nat \ {0, 1}]
    BY DEF Legal
  <2>2. PICK bytes, size : /\ call.in.bytes = bytes /\ call.in.size = size
                           /\ bytes \in Seq(STRING) /\ bytes # <<>>
                           /\ size \in Nat /\ size > 1
    BY <2>1
  <2>3. PICK S : S = STRING \cup {NUL}
    OBVIOUS
  <2>4. PICK n \in Nat : n = Len(bytes)
    BY <2>2, LenProperties
  <2>5. n > 0
    BY <2>2, <2>4, EmptySeq
  <2>6. Text(bytes, n, S)
    <3>1. bytes \in Seq(S)
      BY <2>2, <2>3, SeqMonotonic
    <3> QED BY <2>4, <3>1 DEF Text
  <2> QED BY <2>2, <2>3, <2>4, <2>5, <2>6, CmdlineIsReadable
<1>2. "cmdline" \in DOMAIN Legal
  BY DEF Legal
<1>3. Legally => CmdlineReadable
  BY <1>1, <1>2 DEF Legally, CmdlineReadable
<1> QED BY <1>3, AskedIsLegal, PTL

-----------------------------------------------------------------------------
(***************************************************************************)
(* base64.  Numbers from 0 to 255 in groups of three, zeros behind them.   *)
(***************************************************************************)
Octet(b, n, j) == IF j < n THEN b[j + 1] ELSE 0

Octets(b, n) == n \in Nat /\ Len(b) = n /\ \A i \in 1 .. n : b[i] \in 0 .. 255

BitIn(c, r) == (c \div 2^(7 - r)) % 2

LEMMA BitsOfOctet ==
  ASSUME NEW c \in 0 .. 255
  PROVE  /\ c \div 4 = 32 * BitIn(c, 0) + 16 * BitIn(c, 1) + 8 * BitIn(c, 2)
                         + 4 * BitIn(c, 3) + 2 * BitIn(c, 4) + BitIn(c, 5)
         /\ c % 4 = 2 * BitIn(c, 6) + BitIn(c, 7)
         /\ c \div 16 = 8 * BitIn(c, 0) + 4 * BitIn(c, 1) + 2 * BitIn(c, 2) + BitIn(c, 3)
         /\ c % 16 = 8 * BitIn(c, 4) + 4 * BitIn(c, 5) + 2 * BitIn(c, 6) + BitIn(c, 7)
         /\ c \div 64 = 2 * BitIn(c, 0) + BitIn(c, 1)
         /\ c % 64 = 32 * BitIn(c, 2) + 16 * BitIn(c, 3) + 8 * BitIn(c, 4)
                       + 4 * BitIn(c, 5) + 2 * BitIn(c, 6) + BitIn(c, 7)
<1>1. /\ BitIn(c, 0) = (c \div 128) % 2 /\ BitIn(c, 1) = (c \div 64) % 2
      /\ BitIn(c, 2) = (c \div 32) % 2 /\ BitIn(c, 3) = (c \div 16) % 2
      /\ BitIn(c, 4) = (c \div 8) % 2 /\ BitIn(c, 5) = (c \div 4) % 2
      /\ BitIn(c, 6) = (c \div 2) % 2 /\ BitIn(c, 7) = c % 2
  BY DEF BitIn
<1>2. c \div 4 = 32 * ((c \div 128) % 2) + 16 * ((c \div 64) % 2) + 8 * ((c \div 32) % 2)
                   + 4 * ((c \div 16) % 2) + 2 * ((c \div 8) % 2) + ((c \div 4) % 2)
  OBVIOUS
<1>3. c % 4 = 2 * ((c \div 2) % 2) + (c % 2)
  OBVIOUS
<1>4. c \div 16 = 8 * ((c \div 128) % 2) + 4 * ((c \div 64) % 2) + 2 * ((c \div 32) % 2)
                    + ((c \div 16) % 2)
  OBVIOUS
<1>5. c % 16 = 8 * ((c \div 8) % 2) + 4 * ((c \div 4) % 2) + 2 * ((c \div 2) % 2) + (c % 2)
  OBVIOUS
<1>6. c \div 64 = 2 * ((c \div 128) % 2) + ((c \div 64) % 2)
  OBVIOUS
<1>7. c % 64 = 32 * ((c \div 32) % 2) + 16 * ((c \div 16) % 2) + 8 * ((c \div 8) % 2)
                 + 4 * ((c \div 4) % 2) + 2 * ((c \div 2) % 2) + (c % 2)
  OBVIOUS
<1> QED BY <1>1, <1>2, <1>3, <1>4, <1>5, <1>6, <1>7

LEMMA OctetIs ==
  ASSUME NEW b, NEW n, Octets(b, n), NEW j \in Nat
  PROVE  Octet(b, n, j) \in 0 .. 255
<1>1. CASE j < n
  <2>1. j + 1 \in 1 .. n
    BY <1>1 DEF Octets
  <2> QED BY <1>1, <2>1 DEF Octet, Octets
<1>2. CASE ~ (j < n)
  BY <1>2 DEF Octet
<1> QED BY <1>1, <1>2

LEMMA BitIs ==
  ASSUME NEW b, NEW n, Octets(b, n), NEW j \in Nat, NEW r \in 0 .. 7
  PROVE  BitOf(b, 8 * j + r) = BitIn(Octet(b, n, j), r)
<1>1. PICK x \in Nat : x = 8 * j + r
  OBVIOUS
<1>2. x \div 8 = j /\ x % 8 = r
  BY <1>1
<1>3. Len(b) = n /\ n \in Nat
  BY DEF Octets
<1>4. x < 8 * n <=> j < n
  BY <1>3, <1>1
<1>5. CASE j < n
  <2>1. BitOf(b, x) = BitIn(Octet(b, n, j), r)
    BY <1>2, <1>3, <1>4, <1>5 DEF BitOf, BitIn, Octet
  <2> QED BY <1>1, <2>1
<1>6. CASE ~ (j < n)
  <2>1. BitOf(b, x) = 0 /\ Octet(b, n, j) = 0
    BY <1>3, <1>4, <1>6 DEF BitOf, Octet
  <2>2. BitIn(0, r) = 0
    <3>1. /\ BitIn(0, 0) = 0 /\ BitIn(0, 1) = 0 /\ BitIn(0, 2) = 0 /\ BitIn(0, 3) = 0
          /\ BitIn(0, 4) = 0 /\ BitIn(0, 5) = 0 /\ BitIn(0, 6) = 0 /\ BitIn(0, 7) = 0
      BY DEF BitIn
    <3> QED BY <3>1
  <2> QED BY <1>1, <2>1, <2>2
<1> QED BY <1>1, <1>5, <1>6

\* The four sextets of a group of three octets.
LEMMA SextetsAre ==
  ASSUME NEW b, NEW n, Octets(b, n), NEW g \in Nat,
         NEW x, x = Octet(b, n, 3 * g), NEW y, y = Octet(b, n, 3 * g + 1),
         NEW z, z = Octet(b, n, 3 * g + 2)
  PROVE  /\ Sextet(b, 4 * g + 1) = x \div 4
         /\ Sextet(b, 4 * g + 2) = 16 * (x % 4) + (y \div 16)
         /\ Sextet(b, 4 * g + 3) = 4 * (y % 16) + (z \div 64)
         /\ Sextet(b, 4 * g + 4) = z % 64
<1>1. x \in 0 .. 255 /\ y \in 0 .. 255 /\ z \in 0 .. 255
  <2>1. 3 * g \in Nat /\ 3 * g + 1 \in Nat /\ 3 * g + 2 \in Nat
    OBVIOUS
  <2> QED BY <2>1, OctetIs
<1>2. \A r \in 0 .. 7 :
        /\ BitOf(b, 8 * (3 * g) + r) = BitIn(x, r)
        /\ BitOf(b, 8 * (3 * g + 1) + r) = BitIn(y, r)
        /\ BitOf(b, 8 * (3 * g + 2) + r) = BitIn(z, r)
  <2>1. PICK j \in Nat, k \in Nat, l \in Nat : j = 3 * g /\ k = 3 * g + 1 /\ l = 3 * g + 2
    OBVIOUS
  <2>2. ASSUME NEW r \in 0 .. 7
        PROVE  /\ BitOf(b, 8 * j + r) = BitIn(x, r)
               /\ BitOf(b, 8 * k + r) = BitIn(y, r)
               /\ BitOf(b, 8 * l + r) = BitIn(z, r)
    <3>1. x = Octet(b, n, j) /\ y = Octet(b, n, k) /\ z = Octet(b, n, l)
      BY <2>1
    <3>2. BitOf(b, 8 * j + r) = BitIn(Octet(b, n, j), r)
      BY BitIs
    <3>3. BitOf(b, 8 * k + r) = BitIn(Octet(b, n, k), r)
      BY BitIs
    <3>4. BitOf(b, 8 * l + r) = BitIn(Octet(b, n, l), r)
      BY BitIs
    <3> QED BY <3>1, <3>2, <3>3, <3>4
  <2> QED BY <2>1, <2>2
<1>3. /\ BitOf(b, 24 * g) = BitIn(x, 0) /\ BitOf(b, 24 * g + 1) = BitIn(x, 1)
      /\ BitOf(b, 24 * g + 2) = BitIn(x, 2) /\ BitOf(b, 24 * g + 3) = BitIn(x, 3)
      /\ BitOf(b, 24 * g + 4) = BitIn(x, 4) /\ BitOf(b, 24 * g + 5) = BitIn(x, 5)
      /\ BitOf(b, 24 * g + 6) = BitIn(x, 6) /\ BitOf(b, 24 * g + 7) = BitIn(x, 7)
  BY <1>2
<1>4. /\ BitOf(b, 24 * g + 8) = BitIn(y, 0) /\ BitOf(b, 24 * g + 9) = BitIn(y, 1)
      /\ BitOf(b, 24 * g + 10) = BitIn(y, 2) /\ BitOf(b, 24 * g + 11) = BitIn(y, 3)
      /\ BitOf(b, 24 * g + 12) = BitIn(y, 4) /\ BitOf(b, 24 * g + 13) = BitIn(y, 5)
      /\ BitOf(b, 24 * g + 14) = BitIn(y, 6) /\ BitOf(b, 24 * g + 15) = BitIn(y, 7)
  BY <1>2
<1>5. /\ BitOf(b, 24 * g + 16) = BitIn(z, 0) /\ BitOf(b, 24 * g + 17) = BitIn(z, 1)
      /\ BitOf(b, 24 * g + 18) = BitIn(z, 2) /\ BitOf(b, 24 * g + 19) = BitIn(z, 3)
      /\ BitOf(b, 24 * g + 20) = BitIn(z, 4) /\ BitOf(b, 24 * g + 21) = BitIn(z, 5)
      /\ BitOf(b, 24 * g + 22) = BitIn(z, 6) /\ BitOf(b, 24 * g + 23) = BitIn(z, 7)
  BY <1>2
<1>6. \A c \in {x, y, z} : \A r \in 0 .. 7 : BitIn(c, r) \in 0 .. 1
  <2>1. \A c \in {x, y, z} : \A r \in {0, 1, 2, 3, 4, 5, 6, 7} : BitIn(c, r) \in 0 .. 1
    BY <1>1 DEF BitIn
  <2> QED BY <2>1
<1>7. \A s \in {0, 1, 2, 3} :
        Sextet(b, 4 * g + (s + 1)) =
          32 * BitOf(b, 24 * g + 6 * s) + 16 * BitOf(b, 24 * g + (6 * s + 1))
            + 8 * BitOf(b, 24 * g + (6 * s + 2)) + 4 * BitOf(b, 24 * g + (6 * s + 3))
            + 2 * BitOf(b, 24 * g + (6 * s + 4)) + BitOf(b, 24 * g + (6 * s + 5))
  <2>1. \A s \in {0, 1, 2, 3} :
          /\ 6 * (4 * g + (s + 1) - 1) + 0 = 24 * g + 6 * s
          /\ 6 * (4 * g + (s + 1) - 1) + 1 = 24 * g + (6 * s + 1)
          /\ 6 * (4 * g + (s + 1) - 1) + 2 = 24 * g + (6 * s + 2)
          /\ 6 * (4 * g + (s + 1) - 1) + 3 = 24 * g + (6 * s + 3)
          /\ 6 * (4 * g + (s + 1) - 1) + 4 = 24 * g + (6 * s + 4)
          /\ 6 * (4 * g + (s + 1) - 1) + 5 = 24 * g + (6 * s + 5)
    OBVIOUS
  <2> QED BY <2>1 DEF Sextet
<1>8. Sextet(b, 4 * g + 1) = x \div 4
  <2>1. Sextet(b, 4 * g + 1) = 32 * BitIn(x, 0) + 16 * BitIn(x, 1) + 8 * BitIn(x, 2)
                                 + 4 * BitIn(x, 3) + 2 * BitIn(x, 4) + BitIn(x, 5)
    BY <1>3, <1>7
  <2> QED BY <1>1, <2>1, BitsOfOctet
<1>9. Sextet(b, 4 * g + 2) = 16 * (x % 4) + (y \div 16)
  <2>1. Sextet(b, 4 * g + 2) = 32 * BitIn(x, 6) + 16 * BitIn(x, 7) + 8 * BitIn(y, 0)
                                 + 4 * BitIn(y, 1) + 2 * BitIn(y, 2) + BitIn(y, 3)
    BY <1>3, <1>4, <1>7
  <2>2. /\ x % 4 = 2 * BitIn(x, 6) + BitIn(x, 7)
        /\ y \div 16 = 8 * BitIn(y, 0) + 4 * BitIn(y, 1) + 2 * BitIn(y, 2) + BitIn(y, 3)
    BY <1>1, BitsOfOctet
  <2> QED BY <1>6, <2>1, <2>2
<1>10. Sextet(b, 4 * g + 3) = 4 * (y % 16) + (z \div 64)
  <2>1. Sextet(b, 4 * g + 3) = 32 * BitIn(y, 4) + 16 * BitIn(y, 5) + 8 * BitIn(y, 6)
                                 + 4 * BitIn(y, 7) + 2 * BitIn(z, 0) + BitIn(z, 1)
    BY <1>4, <1>5, <1>7
  <2>2. /\ y % 16 = 8 * BitIn(y, 4) + 4 * BitIn(y, 5) + 2 * BitIn(y, 6) + BitIn(y, 7)
        /\ z \div 64 = 2 * BitIn(z, 0) + BitIn(z, 1)
    BY <1>1, BitsOfOctet
  <2> QED BY <1>6, <2>1, <2>2
<1>11. Sextet(b, 4 * g + 4) = z % 64
  <2>1. Sextet(b, 4 * g + 4) = 32 * BitIn(z, 2) + 16 * BitIn(z, 3) + 8 * BitIn(z, 4)
                                 + 4 * BitIn(z, 5) + 2 * BitIn(z, 6) + BitIn(z, 7)
    BY <1>5, <1>7
  <2> QED BY <1>1, <2>1, BitsOfOctet
<1> QED BY <1>8, <1>9, <1>10, <1>11

-----------------------------------------------------------------------------
(* The encoder. *)

CharAt(str, n, past, j) == IF j < n THEN str[j + 1] ELSE IF j = n THEN 0 ELSE past

CodeOf(str, n, past, i) ==
  LET j == 3 * (i \div 4) IN
  CASE i % 4 = 0 -> CharAt(str, n, past, j) \div 4
    [] i % 4 = 1 -> Or(16 * (CharAt(str, n, past, j) % 4), CharAt(str, n, past, j + 1) \div 16)
    [] i % 4 = 2 -> Or(4 * (CharAt(str, n, past, j + 1) % 16), CharAt(str, n, past, j + 2) \div 64)
    [] i % 4 = 3 -> CharAt(str, n, past, j + 2) % 64

CodeLen(n) == 4 * ((n + 2) \div 3)
UsedLen(n) == (8 * n + 5) \div 6

LEMMA Lengths ==
  ASSUME NEW n \in Nat
  PROVE  /\ CodeLen(n) \in Nat /\ UsedLen(n) \in Nat
         /\ UsedLen(n) = CodeLen(n) - Pads(n)
         /\ Pads(n) = IF n % 3 = 1 THEN 2 ELSE IF n % 3 = 2 THEN 1 ELSE 0
<1>1. PICK q \in Nat, r \in {0, 1, 2} : n = 3 * q + r
  <2>1. n \div 3 \in Nat /\ n % 3 \in {0, 1, 2} /\ n = 3 * (n \div 3) + (n % 3)
    OBVIOUS
  <2> QED BY <2>1
<1>2. n % 3 = r
  BY <1>1
<1>3. Pads(n) = IF r = 1 THEN 2 ELSE IF r = 2 THEN 1 ELSE 0
  BY <1>2 DEF Pads
<1>4. CodeLen(n) = IF r = 0 THEN 4 * q ELSE 4 * q + 4
  BY <1>1 DEF CodeLen
<1>5. UsedLen(n) = IF r = 0 THEN 4 * q ELSE IF r = 1 THEN 4 * q + 2 ELSE 4 * q + 3
  BY <1>1 DEF UsedLen
<1> QED BY <1>2, <1>3, <1>4, <1>5

\* Place k of a code is one of the four of a group, and the chars it is made
\* of are there when it is used.
LEMMA CodeAt ==
  ASSUME NEW n \in Nat, NEW k \in 1 .. CodeLen(n)
  PROVE  \E g \in Nat, s \in {0, 1, 2, 3} :
           /\ k = 4 * g + s + 1 /\ (k - 1) \div 4 = g /\ (k - 1) % 4 = s
           /\ 4 * g + 4 <= CodeLen(n) /\ 3 * g < n
           /\ k <= UsedLen(n) <=> 3 * g + (IF s = 0 THEN 1 ELSE s) <= n
<1>1. PICK g \in Nat, s \in {0, 1, 2, 3} : k - 1 = 4 * g + s
  <2>1. CodeLen(n) \in Nat
    BY Lengths
  <2>2. k - 1 \in Nat
    BY <2>1
  <2>3. (k - 1) \div 4 \in Nat /\ (k - 1) % 4 \in {0, 1, 2, 3} /\ k - 1 = 4 * ((k - 1) \div 4) + ((k - 1) % 4)
    BY <2>2
  <2> QED BY <2>3
<1>2. k = 4 * g + s + 1 /\ (k - 1) \div 4 = g /\ (k - 1) % 4 = s
  BY <1>1
<1>3. 4 * g + 4 <= CodeLen(n) /\ 3 * g < n
  BY <1>2 DEF CodeLen
<1>4. k <= UsedLen(n) <=> 6 * k <= 8 * n + 5
  <2>1. k \in Nat
    BY <1>2
  <2> QED BY <2>1 DEF UsedLen
<1>5. k <= UsedLen(n) <=> 3 * g + (IF s = 0 THEN 1 ELSE s) <= n
  BY <1>2, <1>4
<1> QED BY <1>2, <1>3, <1>5

LEMMA CodeIsRight ==
  ASSUME NEW str, NEW n \in Nat, Len(str) = n, NEW past, NEW code, code = gen_base64_encode(str, past)
  PROVE  /\ Array(code, CodeLen(n))
         /\ \A k \in 1 .. CodeLen(n) :
              code[k] = IF k > UsedLen(n) THEN PadChar ELSE Lookup(CodeOf(str, n, past, k - 1))
<1>1. gen_base64_encode(str, past) =
        [k \in 1 .. CodeLen(n) |->
           IF k > CodeLen(n) - Pads(n) THEN PadChar ELSE Lookup(CodeOf(str, n, past, k - 1))]
  BY DEF gen_base64_encode, CodeLen, CodeOf, CharAt
<1>2. UsedLen(n) = CodeLen(n) - Pads(n)
  BY Lengths
<1> QED BY <1>1, <1>2 DEF Array

LEMMA StandardIs ==
  ASSUME NEW b, NEW n, Octets(b, n), NEW code, code = Standard(b)
  PROVE  /\ Array(code, CodeLen(n))
         /\ \A k \in 1 .. CodeLen(n) : code[k] = IF k <= UsedLen(n) THEN Sextet(b, k) ELSE PadChar
<1>1. Standard(b) = [k \in 1 .. CodeLen(n) |-> IF k <= UsedLen(n) THEN Sextet(b, k) ELSE PadChar]
  BY DEF Standard, CodeLen, UsedLen, Octets
<1> QED BY <1>1 DEF Array

\* Chars that are not negative are octets.
LEMMA CodeIsSextet ==
  ASSUME NEW str, NEW n, Octets(str, n), \A i \in 1 .. n : str[i] \in 0 .. 127,
         NEW past, NEW k \in 1 .. CodeLen(n), k <= UsedLen(n)
  PROVE  Lookup(CodeOf(str, n, past, k - 1)) = Sextet(str, k)
<1>1. n \in Nat
  BY DEF Octets
<1>2. PICK g \in Nat, s \in {0, 1, 2, 3} :
        /\ k = 4 * g + s + 1 /\ (k - 1) \div 4 = g /\ (k - 1) % 4 = s
        /\ 3 * g + (IF s = 0 THEN 1 ELSE s) <= n
  BY <1>1, CodeAt
<1>3. PICK x, y, z : /\ x = Octet(str, n, 3 * g) /\ y = Octet(str, n, 3 * g + 1)
                     /\ z = Octet(str, n, 3 * g + 2)
  OBVIOUS
<1>4. ASSUME NEW j \in Nat
      PROVE  /\ Octet(str, n, j) \in 0 .. 127
             /\ j <= n => CharAt(str, n, past, j) = Octet(str, n, j)
  <2>1. CASE j < n
    <3>1. j + 1 \in 1 .. n
      BY <1>1, <2>1
    <3> QED BY <2>1, <3>1 DEF Octet, CharAt
  <2>2. CASE ~ (j < n)
    BY <1>1, <2>2 DEF Octet, CharAt
  <2> QED BY <2>1, <2>2
<1>5. 3 * g \in Nat /\ 3 * g + 1 \in Nat /\ 3 * g + 2 \in Nat
  OBVIOUS
<1>6. x \in 0 .. 127 /\ y \in 0 .. 127 /\ z \in 0 .. 127
  BY <1>3, <1>4, <1>5
<1>7. /\ Sextet(str, 4 * g + 1) = x \div 4
      /\ Sextet(str, 4 * g + 2) = 16 * (x % 4) + (y \div 16)
      /\ Sextet(str, 4 * g + 3) = 4 * (y % 16) + (z \div 64)
      /\ Sextet(str, 4 * g + 4) = z % 64
  BY <1>3, SextetsAre
<1>8. CASE s = 0
  <2>1. CharAt(str, n, past, 3 * g) = x
    BY <1>1, <1>2, <1>3, <1>4, <1>5, <1>8
  <2>2. CodeOf(str, n, past, k - 1) = x \div 4
    BY <1>2, <1>8, <2>1 DEF CodeOf
  <2>3. Sextet(str, k) = x \div 4 /\ x \div 4 \in 0 .. 63
    BY <1>2, <1>6, <1>7, <1>8
  <2> QED BY <2>2, <2>3 DEF Lookup
<1>9. CASE s = 1
  <2>1. CharAt(str, n, past, 3 * g) = x /\ CharAt(str, n, past, 3 * g + 1) = y
    BY <1>1, <1>2, <1>3, <1>4, <1>5, <1>9
  <2>2. CodeOf(str, n, past, k - 1) = Or(16 * (x % 4), y \div 16)
    <3>1. PICK i : i = k - 1
      OBVIOUS
    <3>2. i \div 4 = g /\ i % 4 = 1
      BY <1>2, <1>9, <3>1
    <3>3. CodeOf(str, n, past, i) =
            Or(16 * (CharAt(str, n, past, 3 * g) % 4), CharAt(str, n, past, 3 * g + 1) \div 16)
      BY <3>2 DEF CodeOf
    <3> QED BY <2>1, <3>1, <3>3
  <2>3. Sextet(str, k) = 16 * (x % 4) + (y \div 16)
    BY <1>2, <1>7, <1>9
  <2>4. ~ (y \div 16 < 0) /\ 16 * (x % 4) + (y \div 16) \in 0 .. 63
    BY <1>6
  <2> QED BY <2>2, <2>3, <2>4 DEF Lookup, Or
<1>10. CASE s = 2
  <2>1. CharAt(str, n, past, 3 * g + 1) = y /\ CharAt(str, n, past, 3 * g + 2) = z
    BY <1>1, <1>2, <1>3, <1>4, <1>5, <1>10
  <2>2. CodeOf(str, n, past, k - 1) = Or(4 * (y % 16), z \div 64)
    BY <1>2, <1>10, <2>1 DEF CodeOf
  <2>3. Sextet(str, k) = 4 * (y % 16) + (z \div 64)
    BY <1>2, <1>7, <1>10
  <2>4. ~ (z \div 64 < 0) /\ 4 * (y % 16) + (z \div 64) \in 0 .. 63
    BY <1>6
  <2> QED BY <2>2, <2>3, <2>4 DEF Lookup, Or
<1>11. CASE s = 3
  <2>1. CharAt(str, n, past, 3 * g + 2) = z
    BY <1>1, <1>2, <1>3, <1>4, <1>5, <1>11
  <2>2. CodeOf(str, n, past, k - 1) = z % 64
    BY <1>2, <1>11, <2>1 DEF CodeOf
  <2>3. Sextet(str, k) = z % 64 /\ z % 64 \in 0 .. 63
    BY <1>2, <1>6, <1>7, <1>11
  <2> QED BY <2>2, <2>3 DEF Lookup
<1> QED BY <1>8, <1>9, <1>10, <1>11

\* A negative char is looked up outside the table.
LEMMA CodeIsOutside ==
  ASSUME NEW str, NEW n \in Nat, \A i \in 1 .. n : str[i] \in Char,
         NEW past, NEW i \in 1 .. n, str[i] < 0
  PROVE  \E k \in 1 .. CodeLen(n) : k <= UsedLen(n) /\ Lookup(CodeOf(str, n, past, k - 1)) = Outside
<1>1. PICK g \in Nat, s \in {0, 1, 2} : i = 3 * g + s + 1
  <2>1. i - 1 \in Nat
    OBVIOUS
  <2>2. (i - 1) \div 3 \in Nat /\ (i - 1) % 3 \in {0, 1, 2} /\ i - 1 = 3 * ((i - 1) \div 3) + ((i - 1) % 3)
    BY <2>1
  <2> QED BY <2>2
<1>2. PICK k : k = 4 * g + s + 1
  OBVIOUS
<1>3. k \in 1 .. CodeLen(n) /\ k <= UsedLen(n)
  BY <1>1, <1>2 DEF CodeLen, UsedLen
<1>4. (k - 1) \div 4 = g /\ (k - 1) % 4 = s
  BY <1>2
<1>5. CharAt(str, n, past, 3 * g + s) = str[i] /\ str[i] \in Int /\ str[i] < 0 /\ str[i] >= -128
  BY <1>1 DEF CharAt, Char
<1>6. ASSUME NEW j \in Nat, j < 3 * g + s
      PROVE  CharAt(str, n, past, j) \in Int
  <2>1. j + 1 \in 1 .. n
    BY <1>1, <1>6
  <2> QED BY <2>1 DEF CharAt, Char
<1>7. CodeOf(str, n, past, k - 1) < 0 /\ CodeOf(str, n, past, k - 1) \in Int
  <2>1. CASE s = 0
    <3>1. CodeOf(str, n, past, k - 1) = str[i] \div 4
      BY <1>4, <1>5, <2>1 DEF CodeOf
    <3> QED BY <1>5, <3>1
  <2>2. CASE s = 1
    <3>1. CodeOf(str, n, past, k - 1) = Or(16 * (CharAt(str, n, past, 3 * g) % 4), str[i] \div 16)
      BY <1>4, <1>5, <2>2 DEF CodeOf
    <3>2. str[i] \div 16 < 0 /\ str[i] \div 16 \in Int
      BY <1>5
    <3> QED BY <3>1, <3>2 DEF Or
  <2>3. CASE s = 2
    <3>1. CodeOf(str, n, past, k - 1) = Or(4 * (CharAt(str, n, past, 3 * g + 1) % 16), str[i] \div 64)
      BY <1>4, <1>5, <2>3 DEF CodeOf
    <3>2. str[i] \div 64 < 0 /\ str[i] \div 64 \in Int
      BY <1>5
    <3> QED BY <3>1, <3>2 DEF Or
  <2> QED BY <2>1, <2>2, <2>3
<1>8. Lookup(CodeOf(str, n, past, k - 1)) = Outside
  BY <1>7 DEF Lookup
<1> QED BY <1>3, <1>8

-----------------------------------------------------------------------------
(* The decoder, of what an encoder made of octets. *)

PlaceOf(code, i) == IF code[i] = PadChar THEN 0 ELSE code[i]

ByteOf(code, k) ==
  LET i == 4 * ((k - 1) \div 3) + 1 IN
  CASE k % 3 = 1 -> 4 * PlaceOf(code, i) + PlaceOf(code, i + 1) \div 16
    [] k % 3 = 2 -> (16 * PlaceOf(code, i + 1) + PlaceOf(code, i + 2) \div 4) % 256
    [] k % 3 = 0 -> (64 * PlaceOf(code, i + 2) + PlaceOf(code, i + 3)) % 256

\* The pad characters at the end of the code.
PadsAt(code, len) ==
  IF \E i \in 1 .. len - 1 : code[i] = PadChar /\ code[i + 1] = PadChar THEN 2
  ELSE IF \E i \in 1 .. len : code[i] = PadChar THEN 1 ELSE 0

LEMMA DecodeIs ==
  ASSUME NEW code, NEW len \in Nat, Len(code) = len,
         NEW written, written = 3 * (len \div 4),
         NEW end, end = Min({k \in 1 .. written : ByteOf(code, k) = 0} \cup {written + 1})
  PROVE  gen_base64_decode(code) =
           [out |-> [k \in 1 .. end - 1 |-> ByteOf(code, k)],
            over |-> Max({0, written - (written - PadsAt(code, len) + 1)})]
BY DEF gen_base64_decode, ByteOf, PlaceOf, PadsAt

\* Every place of the code stands for a sextet, a pad character for zeros.
LEMMA PlacesAre ==
  ASSUME NEW b, NEW n, Octets(b, n), NEW code, code = Standard(b), NEW k \in 1 .. CodeLen(n)
  PROVE  /\ PlaceOf(code, k) = Sextet(b, k) /\ Sextet(b, k) \in 0 .. 63
         /\ code[k] = PadChar <=> k > UsedLen(n)
<1>1. n \in Nat
  BY DEF Octets
<1>2. PICK g \in Nat, s \in {0, 1, 2, 3} :
        /\ k = 4 * g + s + 1
        /\ k <= UsedLen(n) <=> 3 * g + (IF s = 0 THEN 1 ELSE s) <= n
        /\ 3 * g < n
  BY <1>1, CodeAt
<1>3. PICK x, y, z : /\ x = Octet(b, n, 3 * g) /\ y = Octet(b, n, 3 * g + 1)
                     /\ z = Octet(b, n, 3 * g + 2)
  OBVIOUS
<1>4. x \in 0 .. 255 /\ y \in 0 .. 255 /\ z \in 0 .. 255
  <2>1. 3 * g \in Nat /\ 3 * g + 1 \in Nat /\ 3 * g + 2 \in Nat
    OBVIOUS
  <2> QED BY <1>3, <2>1, OctetIs
<1>5. /\ Sextet(b, 4 * g + 1) = x \div 4
      /\ Sextet(b, 4 * g + 2) = 16 * (x % 4) + (y \div 16)
      /\ Sextet(b, 4 * g + 3) = 4 * (y % 16) + (z \div 64)
      /\ Sextet(b, 4 * g + 4) = z % 64
  BY <1>3, SextetsAre
<1>6. Sextet(b, k) \in 0 .. 63
  <2>1. k \in {4 * g + 1, 4 * g + 2, 4 * g + 3, 4 * g + 4}
    BY <1>2
  <2>2. /\ x \div 4 \in 0 .. 63 /\ 16 * (x % 4) + (y \div 16) \in 0 .. 63
        /\ 4 * (y % 16) + (z \div 64) \in 0 .. 63 /\ z % 64 \in 0 .. 63
    BY <1>4
  <2> QED BY <1>5, <2>1, <2>2
<1>7. ASSUME k > UsedLen(n)
      PROVE  Sextet(b, k) = 0
  <2>1. UsedLen(n) \in Nat
    BY <1>1, Lengths
  <2>2. s \in {2, 3} /\ 3 * g + 2 >= n /\ (s = 2 => 3 * g + 1 >= n)
    BY <1>1, <1>2, <1>7, <2>1
  <2>3. z = 0 /\ (s = 2 => y = 0)
    BY <1>1, <1>3, <2>2 DEF Octet
  <2>4. CASE s = 2
    <3>1. k = 4 * g + 3 /\ y = 0
      BY <1>2, <2>3, <2>4
    <3> QED BY <1>5, <2>3, <3>1
  <2>5. CASE s = 3
    <3>1. k = 4 * g + 4
      BY <1>2, <2>5
    <3> QED BY <1>5, <2>3, <3>1
  <2> QED BY <2>2, <2>4, <2>5
<1>8. code[k] = IF k <= UsedLen(n) THEN Sextet(b, k) ELSE PadChar
  BY StandardIs
<1>9. k <= UsedLen(n) <=> ~ (k > UsedLen(n))
  BY <1>1, Lengths
<1>10. PadChar = 64
  BY DEF PadChar
<1>11. CASE k <= UsedLen(n)
  BY <1>6, <1>8, <1>9, <1>10, <1>11 DEF PlaceOf
<1>12. CASE ~ (k <= UsedLen(n))
  BY <1>6, <1>7, <1>8, <1>9, <1>12 DEF PlaceOf
<1> QED BY <1>11, <1>12

LEMMA BytesAre ==
  ASSUME NEW b, NEW n, Octets(b, n), NEW code, code = Standard(b),
         NEW m \in Nat, 4 * m = CodeLen(n), NEW k \in 1 .. 3 * m
  PROVE  ByteOf(code, k) = Octet(b, n, k - 1)
<1>1. PICK g \in Nat, t \in {1, 2, 3} : k = 3 * g + t
  <2>1. (k - 1) \div 3 \in Nat /\ (k - 1) % 3 \in {0, 1, 2} /\ k - 1 = 3 * ((k - 1) \div 3) + ((k - 1) % 3)
    OBVIOUS
  <2>2. PICK g \in Nat, u \in {0, 1, 2} : k - 1 = 3 * g + u
    BY <2>1
  <2>3. k = 3 * g + (u + 1) /\ u + 1 \in {1, 2, 3}
    BY <2>2
  <2> QED BY <2>3
<1>2. 4 * ((k - 1) \div 3) + 1 = 4 * g + 1
  BY <1>1
<1>3. PICK x, y, z : /\ x = Octet(b, n, 3 * g) /\ y = Octet(b, n, 3 * g + 1)
                     /\ z = Octet(b, n, 3 * g + 2)
  OBVIOUS
<1>4. x \in 0 .. 255 /\ y \in 0 .. 255 /\ z \in 0 .. 255
  <2>1. 3 * g \in Nat /\ 3 * g + 1 \in Nat /\ 3 * g + 2 \in Nat
    OBVIOUS
  <2> QED BY <1>3, <2>1, OctetIs
<1>5. /\ 4 * g + 1 \in 1 .. CodeLen(n) /\ 4 * g + 2 \in 1 .. CodeLen(n)
      /\ 4 * g + 3 \in 1 .. CodeLen(n) /\ 4 * g + 4 \in 1 .. CodeLen(n)
  <2>1. g + 1 <= m
    BY <1>1
  <2> QED BY <2>1
<1>6. /\ PlaceOf(code, 4 * g + 1) = x \div 4
      /\ PlaceOf(code, 4 * g + 2) = 16 * (x % 4) + (y \div 16)
      /\ PlaceOf(code, 4 * g + 3) = 4 * (y % 16) + (z \div 64)
      /\ PlaceOf(code, 4 * g + 4) = z % 64
  <2>1. /\ Sextet(b, 4 * g + 1) = x \div 4
        /\ Sextet(b, 4 * g + 2) = 16 * (x % 4) + (y \div 16)
        /\ Sextet(b, 4 * g + 3) = 4 * (y % 16) + (z \div 64)
        /\ Sextet(b, 4 * g + 4) = z % 64
    BY <1>3, SextetsAre
  <2> QED BY <1>5, <2>1, PlacesAre
<1>7. /\ 4 * g + 1 + 1 = 4 * g + 2 /\ 4 * g + 1 + 2 = 4 * g + 3 /\ 4 * g + 1 + 3 = 4 * g + 4
  OBVIOUS
<1>8. CASE t = 1
  <2>1. k % 3 = 1 /\ k - 1 = 3 * g
    BY <1>1, <1>8
  <2>2. ByteOf(code, k) = 4 * (x \div 4) + (16 * (x % 4) + (y \div 16)) \div 16
    BY <1>2, <1>6, <1>7, <2>1 DEF ByteOf
  <2>3. 4 * (x \div 4) + (16 * (x % 4) + (y \div 16)) \div 16 = x
    BY <1>4
  <2> QED BY <1>3, <2>1, <2>2, <2>3
<1>9. CASE t = 2
  <2>1. k % 3 = 2 /\ k - 1 = 3 * g + 1
    BY <1>1, <1>9
  <2>2. ByteOf(code, k) = (16 * (16 * (x % 4) + (y \div 16)) + (4 * (y % 16) + (z \div 64)) \div 4) % 256
    BY <1>2, <1>6, <1>7, <2>1 DEF ByteOf
  <2>3. (16 * (16 * (x % 4) + (y \div 16)) + (4 * (y % 16) + (z \div 64)) \div 4) % 256 = y
    BY <1>4
  <2> QED BY <1>3, <2>1, <2>2, <2>3
<1>10. CASE t = 3
  <2>1. k % 3 = 0 /\ k - 1 = 3 * g + 2
    BY <1>1, <1>10
  <2>2. ByteOf(code, k) = (64 * (4 * (y % 16) + (z \div 64)) + (z % 64)) % 256
    BY <1>2, <1>6, <1>7, <2>1 DEF ByteOf
  <2>3. (64 * (4 * (y % 16) + (z \div 64)) + (z % 64)) % 256 = z
    BY <1>4
  <2> QED BY <1>3, <2>1, <2>2, <2>3
<1> QED BY <1>8, <1>9, <1>10

\* One byte too many is written with two pad characters.
LEMMA PadsAre ==
  ASSUME NEW b, NEW n, Octets(b, n), NEW code, code = Standard(b),
         NEW len, len = CodeLen(n)
  PROVE  PadsAt(code, len) = IF n % 3 = 1 THEN 2 ELSE IF n % 3 = 2 THEN 1 ELSE 0
<1>1. n \in Nat
  BY DEF Octets
<1>2. /\ len \in Nat /\ UsedLen(n) \in Nat
      /\ UsedLen(n) = len - (IF n % 3 = 1 THEN 2 ELSE IF n % 3 = 2 THEN 1 ELSE 0)
  BY <1>1, Lengths
<1>3. \A i \in 1 .. len : code[i] = PadChar <=> i > UsedLen(n)
  BY PlacesAre
<1>4. CASE n % 3 = 1
  <2>1. len - 1 \in 1 .. len - 1 /\ len - 1 \in 1 .. len /\ len \in 1 .. len
    BY <1>1, <1>2, <1>4
  <2>2. code[len - 1] = PadChar /\ code[len - 1 + 1] = PadChar
    BY <1>2, <1>3, <1>4, <2>1
  <2>3. \E i \in 1 .. len - 1 : code[i] = PadChar /\ code[i + 1] = PadChar
    BY <2>1, <2>2
  <2>4. PadsAt(code, len) = 2
    BY <2>3 DEF PadsAt
  <2> QED BY <1>4, <2>4
<1>5. ASSUME n % 3 # 1, NEW i \in 1 .. len - 1
      PROVE  ~ (code[i] = PadChar /\ code[i + 1] = PadChar)
  <2>1. i \in 1 .. len /\ ~ (i > UsedLen(n))
    BY <1>2, <1>5
  <2> QED BY <1>3, <2>1
<1>6. CASE n % 3 = 2
  <2>1. len \in 1 .. len
    BY <1>1, <1>2, <1>6
  <2>2. code[len] = PadChar
    BY <1>2, <1>3, <1>6, <2>1
  <2>3. n % 3 # 1
    BY <1>6
  <2> QED BY <1>5, <1>6, <2>1, <2>2, <2>3 DEF PadsAt
<1>7. CASE n % 3 # 1 /\ n % 3 # 2
  <2>1. \A i \in 1 .. len : ~ (code[i] = PadChar)
    <3>1. UsedLen(n) = len
      BY <1>2, <1>7
    <3> QED BY <1>2, <1>3, <3>1
  <2> QED BY <1>5, <1>7, <2>1 DEF PadsAt
<1> QED BY <1>4, <1>6, <1>7

LEMMA MaxOfTwo ==
  ASSUME NEW e \in Int
  PROVE  Max({0, e}) = IF e > 0 THEN e ELSE 0
<1>1. CASE e > 0
  <2>1. \A x \in {0, e} : (\A y \in {0, e} : x >= y) <=> x = e
    BY <1>1
  <2>2. e \in {0, e} /\ \A y \in {0, e} : e >= y
    BY <1>1
  <2> QED BY <1>1, <2>1, <2>2 DEF Max
<1>2. CASE ~ (e > 0)
  <2>1. \A x \in {0, e} : (\A y \in {0, e} : x >= y) => x = 0
    BY <1>2
  <2>2. 0 \in {0, e} /\ \A y \in {0, e} : 0 >= y
    BY <1>2
  <2> QED BY <1>2, <2>1, <2>2 DEF Max
<1> QED BY <1>1, <1>2

\* Bytes that are not zero come back.
LEMMA DecodeInverts ==
  ASSUME NEW b, NEW n, Octets(b, n), Array(b, n), \A i \in 1 .. n : b[i] # 0
  PROVE  gen_base64_decode(Standard(b)) = [out |-> b, over |-> IF n % 3 = 1 THEN 1 ELSE 0]
<1>1. n \in Nat
  BY DEF Octets
<1>2. PICK code : code = Standard(b)
  OBVIOUS
<1>3. PICK m \in Nat : m = (n + 2) \div 3
  BY <1>1
<1>4. CodeLen(n) = 4 * m /\ 4 * m \in Nat /\ (4 * m) \div 4 = m /\ n <= 3 * m
  BY <1>1, <1>3 DEF CodeLen
<1>5. Len(code) = 4 * m
  <2>1. Array(code, 4 * m)
    BY <1>2, <1>4, StandardIs
  <2> QED BY <1>4, <2>1, LenIs DEF Text
<1>6. \A k \in 1 .. 3 * m : ByteOf(code, k) = Octet(b, n, k - 1)
  BY <1>2, <1>4, BytesAre
<1>7. \A k \in 1 .. 3 * m : ByteOf(code, k) = 0 <=> k > n
  <2>1. ASSUME NEW k \in 1 .. 3 * m
        PROVE  Octet(b, n, k - 1) = 0 <=> k > n
    <3>1. CASE k > n
      <4>1. ~ (k - 1 < n)
        BY <1>1, <3>1
      <4> QED BY <3>1, <4>1 DEF Octet
    <3>2. CASE ~ (k > n)
      <4>1. k - 1 < n /\ k - 1 + 1 = k /\ k \in 1 .. n
        BY <1>1, <3>2
      <4> QED BY <3>2, <4>1 DEF Octet
    <3> QED BY <3>1, <3>2
  <2> QED BY <1>6, <2>1
<1>8. PICK end : end = Min({k \in 1 .. 3 * m : ByteOf(code, k) = 0} \cup {3 * m + 1})
  OBVIOUS
<1>9. end = n + 1
  <2> DEFINE S == {k \in 1 .. 3 * m : ByteOf(code, k) = 0} \cup {3 * m + 1}
  <2>1. S \in SUBSET Nat
    OBVIOUS
  <2>2. n + 1 \in S
    <3>1. n + 1 \in 1 .. 3 * m \/ n + 1 = 3 * m + 1
      BY <1>1, <1>4
    <3>2. n + 1 \in 1 .. 3 * m => ByteOf(code, n + 1) = 0
      BY <1>1, <1>7
    <3> QED BY <3>1, <3>2
  <2>3. \A x \in S : n + 1 <= x
    BY <1>1, <1>4, <1>7
  <2>4. end = Min(S)
    BY <1>8
  <2> HIDE DEF S
  <2> QED BY <2>1, <2>2, <2>3, <2>4, MinIsOne
<1>10. PICK text : text = [k \in 1 .. end - 1 |-> ByteOf(code, k)]
  OBVIOUS
<1>11. text = b
  <2>1. end - 1 = n
    BY <1>1, <1>9
  <2>2. \A k \in 1 .. n : ByteOf(code, k) = b[k]
    <3>1. ASSUME NEW k \in 1 .. n
          PROVE  Octet(b, n, k - 1) = b[k]
      <4>1. k - 1 < n /\ k - 1 + 1 = k
        BY <1>1
      <4> QED BY <4>1 DEF Octet
    <3>2. \A k \in 1 .. n : k \in 1 .. 3 * m
      BY <1>1, <1>4
    <3> QED BY <1>6, <3>1, <3>2
  <2>3. text = [k \in 1 .. n |-> b[k]]
    BY <1>10, <2>1, <2>2
  <2> QED BY <2>3 DEF Array
<1>12. PICK pads \in {0, 1, 2} : /\ pads = PadsAt(code, 4 * m)
                                 /\ pads = IF n % 3 = 1 THEN 2 ELSE IF n % 3 = 2 THEN 1 ELSE 0
  BY <1>2, <1>4, PadsAre
<1>13. PICK over : over = Max({0, 3 * m - (3 * m - pads + 1)})
  OBVIOUS
<1>14. over = IF n % 3 = 1 THEN 1 ELSE 0
  <2>1. 3 * m - (3 * m - pads + 1) = pads - 1
    OBVIOUS
  <2>2. over = IF pads - 1 > 0 THEN pads - 1 ELSE 0
    BY <1>13, <2>1, MaxOfTwo
  <2> QED BY <1>12, <2>2
<1>15. gen_base64_decode(code) = [out |-> text, over |-> over]
  <2>1. PICK written : written = 3 * ((4 * m) \div 4)
    OBVIOUS
  <2>2. written = 3 * m
    BY <1>4, <2>1
  <2>3. gen_base64_decode(code) =
           [out |-> [k \in 1 .. end - 1 |-> ByteOf(code, k)],
            over |-> Max({0, written - (written - PadsAt(code, 4 * m) + 1)})]
    <3>1. end = Min({k \in 1 .. written : ByteOf(code, k) = 0} \cup {written + 1})
      BY <1>8, <2>2
    <3> QED BY <1>4, <1>5, <2>1, <3>1, DecodeIs
  <2> QED BY <1>10, <1>12, <1>13, <2>2, <2>3
<1> QED BY <1>2, <1>11, <1>14, <1>15

\* A text of chars, and the bytes they are.
CharsIn(str, n) == Len(str) = n /\ \A i \in 1 .. n : str[i] \in Char \ {0}
AsBytes(b, str, n) == Array(b, n) /\ \A i \in 1 .. n : b[i] = str[i] % 256

LEMMA EncodeIsRight ==
  ASSUME NEW str, NEW n \in Nat, CharsIn(str, n), NEW past, NEW b, AsBytes(b, str, n),
         NEW code, code = gen_base64_encode(str, past)
  PROVE  /\ \A i \in 1 .. n : str[i] >= 0 \/ Contains(code, Outside)
         /\ Contains(code, Outside) \/ code = Standard(b)
<1>1. /\ Array(code, CodeLen(n))
      /\ \A k \in 1 .. CodeLen(n) :
           code[k] = IF k > UsedLen(n) THEN PadChar ELSE Lookup(CodeOf(str, n, past, k - 1))
  BY CodeIsRight DEF CharsIn
<1>2. CodeLen(n) \in Nat /\ UsedLen(n) \in Nat
  BY Lengths
<1>3. Len(code) = CodeLen(n)
  BY <1>1, <1>2, LenIs DEF Text
<1>4. ASSUME NEW i \in 1 .. n, ~ (str[i] >= 0)
      PROVE  Contains(code, Outside)
  <2>1. str[i] < 0 /\ \A j \in 1 .. n : str[j] \in Char
    <3>1. \A j \in 1 .. n : str[j] \in Char /\ str[j] \in Int
      <4>1. \A c \in Char : c \in Int
        BY DEF Char
      <4> QED BY <4>1 DEF CharsIn
    <3>2. PICK c \in Int : c = str[i]
      BY <3>1
    <3>3. c < 0
      BY <1>4, <3>2
    <3> QED BY <3>1, <3>2, <3>3
  <2>2. PICK k \in 1 .. CodeLen(n) :
          k <= UsedLen(n) /\ Lookup(CodeOf(str, n, past, k - 1)) = Outside
    BY <2>1, CodeIsOutside
  <2>3. ~ (k > UsedLen(n))
    BY <1>2, <2>2
  <2>4. code[k] = Outside
    BY <1>1, <2>2, <2>3
  <2> QED BY <1>3, <2>4 DEF Contains
<1>5. ASSUME \A i \in 1 .. n : str[i] >= 0
      PROVE  code = Standard(b)
  <2>1. \A i \in 1 .. n : str[i] \in 0 .. 127 /\ b[i] = str[i]
    <3>1. \A c \in Char \ {0} : c >= 0 => c \in 0 .. 127 /\ c % 256 = c
      BY DEF Char
    <3>2. ASSUME NEW i \in 1 .. n
          PROVE  str[i] \in 0 .. 127 /\ b[i] = str[i]
      <4>1. str[i] \in Char \ {0} /\ str[i] >= 0 /\ b[i] = str[i] % 256
        BY <1>5 DEF CharsIn, AsBytes
      <4>2. PICK c \in Char \ {0} : c = str[i] /\ c >= 0
        BY <4>1
      <4> QED BY <3>1, <4>1, <4>2
    <3> QED BY <3>2
  <2>2. Octets(str, n) /\ Octets(b, n) /\ Array(b, n)
    <3>1. Len(b) = n /\ Array(b, n)
      BY LenIs DEF Text, AsBytes
    <3>2. Len(str) = n
      BY DEF CharsIn
    <3>3. \A i \in 1 .. n : str[i] \in 0 .. 255 /\ b[i] \in 0 .. 255
      <4>1. \A x \in 0 .. 127 : x \in 0 .. 255
        OBVIOUS
      <4> QED BY <2>1, <4>1
    <3> QED BY <3>1, <3>2, <3>3 DEF Octets
  <2>3. PICK std : std = Standard(b)
    OBVIOUS
  <2>4. /\ Array(std, CodeLen(n))
        /\ \A k \in 1 .. CodeLen(n) : std[k] = IF k <= UsedLen(n) THEN Sextet(b, k) ELSE PadChar
    BY <2>2, <2>3, StandardIs
  <2>5. ASSUME NEW k \in 1 .. CodeLen(n)
        PROVE  std[k] = code[k]
    <3>1. CASE k <= UsedLen(n)
      <4>1. Lookup(CodeOf(str, n, past, k - 1)) = Sextet(str, k)
        <5>1. \A i \in 1 .. n : str[i] \in 0 .. 127
          BY <2>1
        <5> QED BY <2>2, <3>1, <5>1, CodeIsSextet
      <4>2. Sextet(str, k) = Sextet(b, k)
        <5>1. \A x \in Nat : BitOf(str, x) = BitOf(b, x)
          <6>1. ASSUME NEW x \in Nat
                PROVE  BitOf(str, x) = BitOf(b, x)
            <7>1. Len(str) = n /\ Len(b) = n
              BY <2>2 DEF Octets
            <7>2. CASE x < 8 * n /\ x >= 0
              <8>1. x \div 8 + 1 \in 1 .. n
                BY <7>2
              <8>2. str[x \div 8 + 1] = b[x \div 8 + 1]
                BY <2>1, <8>1
              <8> QED BY <7>1, <7>2, <8>2 DEF BitOf
            <7>3. CASE ~ (x < 8 * n)
              BY <7>1, <7>3 DEF BitOf
            <7> QED BY <7>2, <7>3
          <6> QED BY <6>1
        <5>2. \A i \in {0, 1, 2, 3, 4, 5} : 6 * (k - 1) + i \in Nat
          BY <1>2
        <5> QED BY <5>1, <5>2 DEF Sextet
      <4>3. ~ (k > UsedLen(n))
        BY <1>2, <3>1
      <4> QED BY <1>1, <2>4, <3>1, <4>1, <4>2, <4>3
    <3>2. CASE k > UsedLen(n)
      <4>1. ~ (k <= UsedLen(n))
        BY <1>2, <3>2
      <4> QED BY <1>1, <2>4, <3>2, <4>1
    <3> QED BY <1>2, <3>1, <3>2
  <2>6. std = code
    BY <1>1, <2>4, <2>5 DEF Array
  <2> QED BY <2>3, <2>6
<1> QED BY <1>4, <1>5

\* gen_base64_encode and gen_base64_decode (genstring.c:182-271) agree with the
\* standard for every text, whatever lies behind its terminator.
THEOREM Base64InvertsAlways == QuerySpec => []Base64Inverts
<1>1. ASSUME call.fn = "base64", call.in \in Legal["base64"]
      PROVE  Base64Inverts
  <2>1. PICK str, past : call.in.str = str /\ call.in.past = past /\ str \in Seq(Char \ {0})
    BY <1>1 DEF Legal
  <2>2. PICK n \in Nat : n = Len(str) /\ DOMAIN str = 1 .. n /\ \A i \in 1 .. n : str[i] \in Char \ {0}
    BY <2>1, LenProperties, ElementOfSeq
  <2>3. PICK b : b = [i \in 1 .. n |-> str[i] % 256]
    OBVIOUS
  <2>4. Array(b, n) /\ \A i \in 1 .. n : b[i] = str[i] % 256
    BY <2>3 DEF Array
  <2>5. Octets(b, n) /\ (\A i \in 1 .. n : b[i] # 0) /\ Len(b) = n
    <3>1. Len(b) = n
      BY <2>4, LenIs DEF Text
    <3>2. \A c \in Char \ {0} : c % 256 \in 0 .. 255 /\ c % 256 # 0
      BY DEF Char
    <3>3. ASSUME NEW i \in 1 .. n
          PROVE  b[i] \in 0 .. 255 /\ b[i] # 0
      <4>1. PICK c \in Char \ {0} : c = str[i]
        BY <2>2
      <4> QED BY <2>4, <3>2, <4>1
    <3> QED BY <3>1, <3>3 DEF Octets
  <2>6. gen_base64_decode(Standard(b)) = [out |-> b, over |-> IF n % 3 = 1 THEN 1 ELSE 0]
    BY <2>4, <2>5, DecodeInverts
  <2>7. PICK code : code = gen_base64_encode(str, past)
    OBVIOUS
  <2>8. /\ \A i \in 1 .. n : str[i] >= 0 \/ Contains(code, Outside)
        /\ Contains(code, Outside) \/ code = Standard(b)
    BY <2>2, <2>4, <2>7, EncodeIsRight DEF CharsIn, AsBytes
  <2>9. b = [i \in DOMAIN call.in.str |-> call.in.str[i] % 256]
    BY <2>1, <2>2, <2>3
  <2> QED BY <2>1, <2>2, <2>5, <2>6, <2>7, <2>8, <2>9 DEF Base64Inverts
<1>2. "base64" \in DOMAIN Legal
  BY DEF Legal
<1>3. Legally => Base64Inverts
  BY <1>1, <1>2 DEF Legally, Base64Inverts
<1> QED BY <1>3, AskedIsLegal, PTL

-----------------------------------------------------------------------------
(***************************************************************************)
(* Fields.  Of a line of n characters sp are the spaces and bl the blanks, *)
(* the first character being no space.                                     *)
(***************************************************************************)
Line(sp, bl, n) == n \in Nat \ {0} /\ sp \subseteq bl /\ bl \subseteq 1 .. n /\ 1 \notin sp

SepFrom(sp, n, from) == Min({i \in from .. n : i \in sp} \cup {n + 1})
NextFrom(bl, n, from) == Min({i \in from .. n : i \notin bl} \cup {n + 1})

Gap(sp, bl, j, i) == j < i /\ j \in sp /\ \A k \in j .. i - 1 : k \in bl

Begins(sp, bl, n) == {i \in 1 .. n : i = 1 \/ (i \notin bl /\ \E j \in 1 .. i : Gap(sp, bl, j, i))}

\* Where the search for the separator behind a field that begins at i starts.
Behind(i) == IF i = 1 THEN 1 ELSE i + 1

LEMMA FirstFrom ==
  ASSUME NEW n \in Nat, NEW from \in Nat, NEW S,
         NEW x, x = Min({i \in from .. n : i \in S} \cup {n + 1})
  PROVE  /\ x \in Nat /\ (x \in from .. n \/ x = n + 1)
         /\ x <= n => x \in S
         /\ \A i \in from .. n : i < x => i \notin S
<1> DEFINE T == {i \in from .. n : i \in S} \cup {n + 1}
<1>1. T \in SUBSET Nat /\ T # {} /\ x = Min(T)
  OBVIOUS
<1>2. x \in T /\ \A y \in T : x <= y
  <2>1. PICK U : U = T
    OBVIOUS
  <2>2. U \in SUBSET Nat /\ U # {} /\ x = Min(U)
    BY <1>1, <2>1
  <2>3. Min(U) \in U /\ \A y \in U : Min(U) <= y
    BY <2>2, MinIs
  <2>4. x \in U /\ \A y \in U : x <= y
    BY <2>2, <2>3
  <2> HIDE DEF T
  <2> QED BY <2>1, <2>4
<1>3. x \in Nat /\ (x \in from .. n \/ x = n + 1) /\ (x <= n => x \in S)
  BY <1>2
<1>4. ASSUME NEW i \in from .. n, i < x
      PROVE  i \notin S
  <2>1. ~ (x <= i)
    BY <1>3, <1>4
  <2> QED BY <1>2, <2>1
<1> QED BY <1>3, <1>4

LEMMA SepFromIs ==
  ASSUME NEW sp, NEW n \in Nat, NEW from \in Nat, NEW x, x = SepFrom(sp, n, from)
  PROVE  /\ x \in Nat /\ (x \in from .. n \/ x = n + 1)
         /\ x <= n => x \in sp
         /\ \A i \in from .. n : i < x => i \notin sp
<1>1. x = Min({i \in from .. n : i \in sp} \cup {n + 1})
  BY DEF SepFrom
<1> QED BY <1>1, FirstFrom

LEMMA NextFromIs ==
  ASSUME NEW bl, NEW n \in Nat, NEW from \in Nat, NEW x, x = NextFrom(bl, n, from)
  PROVE  /\ x \in Nat /\ (x \in from .. n \/ x = n + 1)
         /\ x <= n => x \notin bl
         /\ \A i \in from .. n : i < x => i \in bl
<1> DEFINE S == Nat \ bl
<1>1. {i \in from .. n : i \notin bl} = {i \in from .. n : i \in S}
  OBVIOUS
<1>2. x = Min({i \in from .. n : i \in S} \cup {n + 1})
  BY <1>1 DEF NextFrom
<1> HIDE DEF S
<1>3. /\ x \in Nat /\ (x \in from .. n \/ x = n + 1)
      /\ x <= n => x \in S
      /\ \A i \in from .. n : i < x => i \notin S
  BY <1>2, FirstFrom
<1> QED BY <1>3 DEF S

\* A gap before anything behind a field's beginning starts behind it too.
LEMMA GapBehind ==
  ASSUME NEW sp, NEW bl, NEW n, Line(sp, bl, n), NEW i \in Begins(sp, bl, n),
         NEW b \in Nat, i < b, NEW j \in 1 .. n, Gap(sp, bl, j, b)
  PROVE  i < j /\ j < b /\ j \in sp
<1>1. i \in 1 .. n /\ (i = 1 \/ i \notin bl) /\ i \in Nat /\ n \in Nat
  BY DEF Begins, Line
<1>2. j < b /\ j \in sp /\ j # 1 /\ \A k \in j .. b - 1 : k \in bl
  BY DEF Gap, Line
<1>3. CASE j <= i
  <2>1. i # 1 /\ i \in j .. b - 1
    BY <1>1, <1>2, <1>3
  <2> QED BY <1>1, <1>2, <2>1
<1> QED BY <1>1, <1>2, <1>3

\* No separator behind a field: it is the last one, and nothing is behind it.
LEMMA LastField ==
  ASSUME NEW sp, NEW bl, NEW n, Line(sp, bl, n), NEW i \in Begins(sp, bl, n),
         SepFrom(sp, n, Behind(i)) > n
  PROVE  /\ \A b \in Begins(sp, bl, n) : b <= i
         /\ ~ \E j \in 1 .. n : Gap(sp, bl, j, n + 1)
<1>1. i \in 1 .. n /\ n \in Nat /\ Behind(i) \in Nat
  BY DEF Begins, Line, Behind
<1>2. \A k \in Behind(i) .. n : k \notin sp
  <2>1. PICK x : x = SepFrom(sp, n, Behind(i))
    OBVIOUS
  <2>2. x \in Nat /\ \A k \in Behind(i) .. n : k < x => k \notin sp
    BY <1>1, <2>1, SepFromIs
  <2>3. \A k \in Behind(i) .. n : k < x
    BY <1>1, <2>1, <2>2
  <2> QED BY <2>2, <2>3
<1>3. ASSUME NEW b \in Nat, i < b, NEW j \in 1 .. n, Gap(sp, bl, j, b)
      PROVE  FALSE
  <2>1. i < j /\ j \in sp
    BY <1>3, GapBehind
  <2>2. j \in Behind(i) .. n
    BY <1>1, <2>1 DEF Behind
  <2> QED BY <1>2, <2>1, <2>2
<1>4. ASSUME NEW b \in Begins(sp, bl, n), ~ (b <= i)
      PROVE  FALSE
  <2>1. b \in 1 .. n /\ i < b /\ b # 1
    BY <1>1, <1>4 DEF Begins
  <2>2. PICK j \in 1 .. b : Gap(sp, bl, j, b)
    BY <2>1 DEF Begins
  <2>3. j \in 1 .. n
    BY <1>1, <2>1
  <2> QED BY <1>3, <2>1, <2>2, <2>3
<1>5. i < n + 1 /\ n + 1 \in Nat
  BY <1>1
<1> QED BY <1>3, <1>4, <1>5

\* Otherwise the next field begins behind the blanks, or nothing is there.
LEMMA NextOne ==
  ASSUME NEW sp, NEW bl, NEW n, Line(sp, bl, n), NEW i \in Begins(sp, bl, n),
         NEW x, x = SepFrom(sp, n, Behind(i)), ~ (x > n), NEW y, y = NextFrom(bl, n, x + 1)
  PROVE  /\ y \in Nat /\ i < y
         /\ \A b \in Begins(sp, bl, n) : b <= i \/ y <= b
         /\ IF y <= n THEN y \in Begins(sp, bl, n) ELSE y = n + 1 /\ x \in 1 .. n /\ Gap(sp, bl, x, n + 1)
<1>1. i \in 1 .. n /\ n \in Nat /\ Behind(i) \in Nat /\ sp \subseteq bl /\ 1 \notin sp
  BY DEF Begins, Line, Behind
<1>2. /\ x \in Behind(i) .. n /\ x \in sp
      /\ \A k \in Behind(i) .. n : k < x => k \notin sp
  BY <1>1, SepFromIs
<1>3. x \in Nat /\ i < x
  BY <1>1, <1>2 DEF Behind
<1>4. /\ y \in Nat /\ (y \in x + 1 .. n \/ y = n + 1)
      /\ y <= n => y \notin bl
      /\ \A k \in x + 1 .. n : k < y => k \in bl
  BY <1>1, <1>3, NextFromIs
<1>5. Gap(sp, bl, x, y)
  <2>1. x < y
    BY <1>1, <1>2, <1>4
  <2>2. ASSUME NEW k \in x .. y - 1
        PROVE  k \in bl
    <3>1. CASE k = x
      BY <1>1, <1>2, <3>1
    <3>2. CASE k # x
      <4>1. k \in x + 1 .. n /\ k < y
        BY <1>1, <1>3, <1>4, <3>2
      <4> QED BY <1>4, <4>1
    <3> QED BY <3>1, <3>2
  <2> QED BY <1>2, <2>1, <2>2 DEF Gap
<1>6. ASSUME NEW b \in Begins(sp, bl, n), ~ (b <= i), ~ (y <= b)
      PROVE  FALSE
  <2>1. b \in 1 .. n /\ i < b /\ b # 1 /\ b \notin bl
    BY <1>1, <1>6 DEF Begins
  <2>2. PICK j \in 1 .. b : Gap(sp, bl, j, b)
    BY <2>1 DEF Begins
  <2>3. j \in 1 .. n /\ b \in Nat
    BY <1>1, <2>1
  <2>4. i < j /\ j < b /\ j \in sp
    BY <2>1, <2>2, <2>3, GapBehind
  <2>5. j \in Behind(i) .. n
    BY <1>1, <2>3, <2>4 DEF Behind
  <2>6. ~ (j < x)
    BY <1>2, <2>4, <2>5
  <2>7. b \in x + 1 .. n /\ b < y
    BY <1>3, <1>4, <1>6, <2>1, <2>3, <2>4, <2>6
  <2> QED BY <1>4, <2>1, <2>7
<1>7. CASE y <= n
  <2>1. y \in 1 .. n /\ x \in 1 .. y
    BY <1>1, <1>3, <1>4, <1>7
  <2>2. y \in Begins(sp, bl, n)
    BY <1>4, <1>5, <1>7, <2>1 DEF Begins
  <2>3. i < y
    BY <1>1, <1>3, <1>4, <1>7
  <2> QED BY <1>4, <1>6, <1>7, <2>2, <2>3
<1>8. CASE ~ (y <= n)
  <2>1. y = n + 1 /\ x \in 1 .. n /\ i < y
    BY <1>1, <1>2, <1>3, <1>4, <1>8
  <2> QED BY <1>4, <1>5, <1>6, <1>8, <2>1
<1> QED BY <1>7, <1>8

-----------------------------------------------------------------------------
(* The place of a number among those of a set. *)

Place(S, i) == Cardinality({j \in S : j <= i})

LEMMA PlaceIs ==
  ASSUME NEW n \in Nat, NEW S \in SUBSET (1 .. n), NEW i \in Nat
  PROVE  /\ Place(S, i) \in Nat /\ Place(S, i) <= Cardinality(S) /\ Cardinality(S) \in Nat
         /\ IsFiniteSet({j \in S : j <= i})
<1>1. IsFiniteSet(1 .. n)
  BY FS_Interval
<1>2. IsFiniteSet(S)
  BY <1>1, FS_Subset
<1>3. IsFiniteSet({j \in S : j <= i}) /\ Cardinality({j \in S : j <= i}) <= Cardinality(S)
  <2>1. {j \in S : j <= i} \in SUBSET S
    OBVIOUS
  <2> QED BY <1>2, <2>1, FS_Subset
<1> QED BY <1>2, <1>3, FS_CardinalityType DEF Place

LEMMA PlaceFirst ==
  ASSUME NEW n \in Nat, NEW S \in SUBSET (1 .. n), 1 \in S
  PROVE  Place(S, 1) = 1
<1>1. {j \in S : j <= 1} = {1}
  <2>1. \A j \in S : j <= 1 <=> j = 1
    <3>1. \A j \in S : j \in 1 .. n
      OBVIOUS
    <3> QED BY <3>1
  <2> QED BY <2>1
<1> QED BY <1>1, FS_Singleton DEF Place

LEMMA PlaceNext ==
  ASSUME NEW n \in Nat, NEW S \in SUBSET (1 .. n), NEW i \in Nat, NEW y \in S, i < y,
         \A b \in S : b <= i \/ y <= b
  PROVE  Place(S, y) = Place(S, i) + 1
<1>1. y \notin {j \in S : j <= i}
  OBVIOUS
<1>2. {j \in S : j <= y} = {j \in S : j <= i} \cup {y}
  <2>1. \A j \in S : j <= y <=> j <= i \/ j = y
    <3>1. (\A j \in S : j \in Nat) /\ y \in Nat
      OBVIOUS
    <3> QED BY <3>1
  <2> QED BY <2>1
<1>3. IsFiniteSet({j \in S : j <= i})
  BY PlaceIs
<1>4. Cardinality({j \in S : j <= i} \cup {y}) = Cardinality({j \in S : j <= i}) + 1
  BY <1>1, <1>3, FS_AddElement
<1> QED BY <1>2, <1>4 DEF Place

LEMMA PlaceLast ==
  ASSUME NEW n \in Nat, NEW S \in SUBSET (1 .. n), NEW i \in Nat, \A b \in S : b <= i
  PROVE  Place(S, i) = Cardinality(S)
<1>1. {j \in S : j <= i} = S
  OBVIOUS
<1> QED BY <1>1 DEF Place

LEMMA PlaceGrows ==
  ASSUME NEW n \in Nat, NEW S \in SUBSET (1 .. n), NEW i \in S, NEW y \in S, i < y
  PROVE  Place(S, i) < Place(S, y)
<1>1. {j \in S : j <= i} \in SUBSET {j \in S : j <= y}
  <2>1. \A j \in S : j <= i => j <= y
    <3>1. (\A j \in S : j \in Nat) /\ y \in Nat /\ i \in Nat
      OBVIOUS
    <3> QED BY <3>1
  <2> QED BY <2>1
<1>2. y \in {j \in S : j <= y} /\ y \notin {j \in S : j <= i}
  OBVIOUS
<1>3. i \in Nat /\ y \in Nat
  OBVIOUS
<1>4. /\ IsFiniteSet({j \in S : j <= y})
      /\ Place(S, i) \in Nat /\ Place(S, y) \in Nat
  BY <1>3, PlaceIs
<1>5. /\ Cardinality({j \in S : j <= i}) <= Cardinality({j \in S : j <= y})
      /\ Cardinality({j \in S : j <= y}) = Cardinality({j \in S : j <= i})
           => {j \in S : j <= y} = {j \in S : j <= i}
  BY <1>1, <1>4, FS_Subset
<1>6. Place(S, i) <= Place(S, y) /\ Place(S, y) # Place(S, i)
  BY <1>2, <1>5 DEF Place
<1> QED BY <1>4, <1>6

LEMMA PlaceIsOne ==
  ASSUME NEW n \in Nat, NEW S \in SUBSET (1 .. n), NEW i \in S, NEW y \in S,
         Place(S, i) = Place(S, y)
  PROVE  i = y
<1>1. i \in Nat /\ y \in Nat
  OBVIOUS
<1>2. Place(S, i) \in Nat /\ Place(S, y) \in Nat
  BY <1>1, PlaceIs
<1>3. ~ (i < y)
  <2>1. i < y => Place(S, i) < Place(S, y)
    BY PlaceGrows
  <2> QED BY <1>2, <2>1
<1>4. ~ (y < i)
  <2>1. y < i => Place(S, y) < Place(S, i)
    BY PlaceGrows
  <2> QED BY <1>2, <2>1
<1> QED BY <1>1, <1>3, <1>4

\* Every place is taken.
LEMMA PlaceTaken ==
  ASSUME NEW n \in Nat, NEW S \in SUBSET (1 .. n), 1 \in S, NEW k \in 1 .. Cardinality(S)
  PROVE  \E i \in S : Place(S, i) = k
<1> DEFINE free == {p \in 1 .. Cardinality(S) : \A i \in S : Place(S, i) # p}
<1>1. Cardinality(S) \in Nat
  BY PlaceIs
<1>2. SUFFICES ASSUME free # {} PROVE FALSE
  OBVIOUS
<1>3. PICK a \in free : \A b \in free : a <= b
  <2>1. free \in SUBSET Nat
    BY <1>1
  <2> HIDE DEF free
  <2> QED BY <1>2, <2>1, LeastIn
<1>4. a \in 1 .. Cardinality(S) /\ \A i \in S : Place(S, i) # a
  OBVIOUS
<1>5. a # 1
  BY <1>4, PlaceFirst
<1>6. PICK p \in 1 .. Cardinality(S) : p = a - 1 /\ ~ (a <= p)
  BY <1>1, <1>4, <1>5
<1>7. PICK i \in S : Place(S, i) = p
  <2>1. p \notin free
    <3> HIDE DEF free
    <3> QED BY <1>3, <1>6
  <2> QED BY <2>1
<1> HIDE DEF free
<1>8. i \in Nat
  OBVIOUS
<1>9. \E b \in S : ~ (b <= i)
  <2>1. Place(S, i) # Cardinality(S)
    BY <1>1, <1>4, <1>6, <1>7
  <2> QED BY <1>8, <2>1, PlaceLast
<1>10. PICK y \in {b \in S : ~ (b <= i)} : \A b \in {b \in S : ~ (b <= i)} : y <= b
  <2>1. PICK U : U = {b \in S : ~ (b <= i)}
    OBVIOUS
  <2>2. U \in SUBSET Nat /\ U # {}
    <3>1. \A j \in S : j \in Nat
      OBVIOUS
    <3> QED BY <1>9, <2>1, <3>1
  <2>3. \E y \in U : \A b \in U : y <= b
    BY <2>2, LeastIn
  <2> QED BY <2>1, <2>3
<1>11. Place(S, y) = Place(S, i) + 1
  <2>1. y \in S /\ i < y /\ \A b \in S : b <= i \/ y <= b
    BY <1>8, <1>10
  <2> QED BY <1>8, <2>1, PlaceNext
<1>12. Place(S, y) = a
  BY <1>1, <1>4, <1>6, <1>7, <1>11
<1> QED BY <1>4, <1>10, <1>12

-----------------------------------------------------------------------------
(* Where the fields begin. *)

Trailing(sp, bl, n) == \E j \in 1 .. n : Gap(sp, bl, j, n + 1)

Begin(sp, bl, n, k) ==
  IF k <= Cardinality(Begins(sp, bl, n)) THEN CHOOSE i \in Begins(sp, bl, n) : Place(Begins(sp, bl, n), i) = k
  ELSE IF k = Cardinality(Begins(sp, bl, n)) + 1 /\ Trailing(sp, bl, n) THEN n + 1 ELSE 0

\* The next beginning after the one of field k - 1, as the loop finds it.
After(sp, bl, n, k, last) ==
  IF last = 0 \/ SepFrom(sp, n, IF k = 2 THEN 1 ELSE last + 1) > n THEN 0
  ELSE NextFrom(bl, n, SepFrom(sp, n, IF k = 2 THEN 1 ELSE last + 1) + 1)

LEMMA BeginIs ==
  ASSUME NEW sp, NEW bl, NEW n, Line(sp, bl, n), NEW S, S = Begins(sp, bl, n)
  PROVE  /\ n \in Nat /\ S \in SUBSET (1 .. n) /\ 1 \in S /\ Cardinality(S) \in Nat
         /\ \A k \in 1 .. Cardinality(S) : Begin(sp, bl, n, k) \in S /\ Place(S, Begin(sp, bl, n, k)) = k
         /\ \A i \in S : Begin(sp, bl, n, Place(S, i)) = i /\ Place(S, i) \in 1 .. Cardinality(S)
<1>1. n \in Nat /\ n > 0 /\ 1 \in 1 .. n
  BY DEF Line
<1>2. S \in SUBSET (1 .. n) /\ 1 \in S
  BY <1>1 DEF Begins
<1>3. Cardinality(S) \in Nat
  BY <1>1, <1>2, PlaceIs
<1>4. ASSUME NEW k \in 1 .. Cardinality(S)
      PROVE  Begin(sp, bl, n, k) \in S /\ Place(S, Begin(sp, bl, n, k)) = k
  <2>1. \E i \in S : Place(S, i) = k
    BY <1>1, <1>2, PlaceTaken
  <2>2. k <= Cardinality(S)
    BY <1>3
  <2>3. Begin(sp, bl, n, k) = CHOOSE i \in S : Place(S, i) = k
    BY <2>2 DEF Begin
  <2> QED BY <2>1, <2>3
<1>5. ASSUME NEW i \in S
      PROVE  Begin(sp, bl, n, Place(S, i)) = i /\ Place(S, i) \in 1 .. Cardinality(S)
  <2>1. i \in Nat /\ i \in 1 .. n
    BY <1>2
  <2>2. Place(S, i) \in Nat /\ Place(S, i) <= Cardinality(S)
    BY <1>1, <1>2, <2>1, PlaceIs
  <2>3. Place(S, i) >= 1
    <3>1. CASE i = 1
      <4>1. Place(S, 1) = 1
        BY <1>1, <1>2, PlaceFirst
      <4> QED BY <3>1, <4>1
    <3>2. CASE i # 1
      <4>1. 1 < i
        BY <2>1, <3>2
      <4>2. Place(S, 1) < Place(S, i)
        BY <1>1, <1>2, <4>1, PlaceGrows
      <4>3. Place(S, 1) = 1
        BY <1>1, <1>2, PlaceFirst
      <4> QED BY <2>2, <4>2, <4>3
    <3> QED BY <3>1, <3>2
  <2>4. Place(S, i) \in 1 .. Cardinality(S)
    BY <1>3, <2>2, <2>3
  <2>5. Begin(sp, bl, n, Place(S, i)) \in S /\ Place(S, Begin(sp, bl, n, Place(S, i))) = Place(S, i)
    BY <1>4, <2>4
  <2> QED BY <1>1, <1>2, <2>4, <2>5, PlaceIsOne
<1> QED BY <1>1, <1>2, <1>3, <1>4, <1>5

LEMMA BeginStep ==
  ASSUME NEW sp, NEW bl, NEW n, Line(sp, bl, n), NEW k \in Nat, k > 1
  PROVE  Begin(sp, bl, n, k) = After(sp, bl, n, k, Begin(sp, bl, n, k - 1))
<1>1. PICK S : S = Begins(sp, bl, n)
  OBVIOUS
<1>2. /\ n \in Nat /\ S \in SUBSET (1 .. n) /\ 1 \in S /\ Cardinality(S) \in Nat
      /\ \A p \in 1 .. Cardinality(S) : Begin(sp, bl, n, p) \in S /\ Place(S, Begin(sp, bl, n, p)) = p
      /\ \A i \in S : Begin(sp, bl, n, Place(S, i)) = i /\ Place(S, i) \in 1 .. Cardinality(S)
  BY <1>1, BeginIs
<1>3. PICK p \in Nat : p = k - 1 /\ p >= 1 /\ k = p + 1
  OBVIOUS
<1>4. PICK c \in Nat : c = Cardinality(S)
  BY <1>2
<1>5. c >= 1
  <2>1. Place(S, 1) = 1 /\ Place(S, 1) \in 1 .. c
    BY <1>2, <1>4, PlaceFirst
  <2> QED BY <1>4, <2>1
<1>6. PICK last : last = Begin(sp, bl, n, p)
  OBVIOUS
<1>7. CASE p <= c
  <2>1. last \in S /\ Place(S, last) = p
    BY <1>2, <1>3, <1>4, <1>6, <1>7
  <2>2. last \in Nat /\ last # 0
    BY <1>2, <2>1
  <2>3. k = 2 <=> last = 1
    <3>1. last = 1 => p = 1
      BY <1>2, <2>1, PlaceFirst
    <3>2. p = 1 => last = 1
      <4>1. Place(S, 1) = 1
        BY <1>2, PlaceFirst
      <4> QED BY <1>2, <2>1, <4>1, PlaceIsOne
    <3> QED BY <1>3, <3>1, <3>2
  <2>4. PICK x : x = SepFrom(sp, n, Behind(last))
    OBVIOUS
  <2>5. x = SepFrom(sp, n, IF k = 2 THEN 1 ELSE last + 1)
    BY <2>3, <2>4 DEF Behind
  <2>6. CASE x > n
    <3>1. (\A b \in S : b <= last) /\ ~ Trailing(sp, bl, n)
      BY <1>1, <2>1, <2>4, <2>6, LastField DEF Trailing
    <3>2. c = p
      BY <1>2, <1>4, <2>1, <2>2, <3>1, PlaceLast
    <3>3. ~ (k <= c)
      BY <1>3, <3>2
    <3>4. Begin(sp, bl, n, k) = 0
      BY <1>1, <1>4, <3>1, <3>3 DEF Begin
    <3>5. After(sp, bl, n, k, last) = 0
      BY <2>5, <2>6 DEF After
    <3> QED BY <1>3, <1>6, <3>4, <3>5
  <2>7. CASE ~ (x > n)
    <3>1. PICK y : y = NextFrom(bl, n, x + 1)
      OBVIOUS
    <3>2. After(sp, bl, n, k, last) = y
      BY <2>2, <2>5, <2>7, <3>1 DEF After
    <3>3. /\ y \in Nat /\ last < y
          /\ \A b \in S : b <= last \/ y <= b
          /\ IF y <= n THEN y \in S ELSE y = n + 1 /\ x \in 1 .. n /\ Gap(sp, bl, x, n + 1)
      BY <1>1, <2>1, <2>4, <2>7, <3>1, NextOne
    <3>4. CASE y <= n
      <4>1. y \in S
        BY <3>3, <3>4
      <4>2. Place(S, y) = p + 1
        BY <1>2, <2>1, <2>2, <3>3, <4>1, PlaceNext
      <4>3. Begin(sp, bl, n, k) = y
        BY <1>2, <1>3, <4>1, <4>2
      <4> QED BY <1>3, <1>6, <3>2, <4>3
    <3>5. CASE ~ (y <= n)
      <4>1. y = n + 1 /\ Trailing(sp, bl, n)
        BY <3>3, <3>5 DEF Trailing
      <4>2. \A b \in S : b <= last
        <5>1. \A b \in S : b <= n /\ b \in Nat
          BY <1>2
        <5> QED BY <1>2, <3>3, <3>5, <5>1
      <4>3. c = p
        BY <1>2, <1>4, <2>1, <2>2, <4>2, PlaceLast
      <4>4. ~ (k <= c) /\ k = c + 1
        BY <1>3, <4>3
      <4>5. Begin(sp, bl, n, k) = n + 1
        BY <1>1, <1>4, <4>1, <4>4 DEF Begin
      <4> QED BY <1>3, <1>6, <3>2, <4>1, <4>5
    <3> QED BY <3>4, <3>5
  <2> QED BY <2>6, <2>7
<1>8. CASE ~ (p <= c)
  <2>1. ~ (k <= c) /\ k # c + 1 /\ k # 2
    BY <1>3, <1>4, <1>5, <1>8
  <2>2. Begin(sp, bl, n, k) = 0
    BY <1>1, <1>4, <2>1 DEF Begin
  <2>3. last = n + 1 \/ last = 0
    BY <1>1, <1>4, <1>6, <1>8 DEF Begin
  <2>4. CASE last = 0
    BY <1>3, <1>6, <2>2, <2>4 DEF After
  <2>5. CASE last = n + 1
    <3>1. PICK x : x = SepFrom(sp, n, last + 1)
      OBVIOUS
    <3>2. last + 1 \in Nat /\ ~ (last + 1 <= n)
      BY <1>2, <2>5
    <3>3. x \in Nat /\ (x \in last + 1 .. n \/ x = n + 1)
      BY <1>2, <3>1, <3>2, SepFromIs
    <3>4. x > n
      BY <1>2, <2>5, <3>3
    <3>5. After(sp, bl, n, k, last) = 0
      BY <2>1, <3>1, <3>4 DEF After
    <3> QED BY <1>3, <1>6, <2>2, <3>5
  <2> QED BY <2>3, <2>4, <2>5
<1> QED BY <1>7, <1>8

-----------------------------------------------------------------------------
(* The characters of a line. *)

IsSpace(c) == c = " "
IsBlank(c) == c \in {" ", "\t"}

Spaces(s, n) == {i \in 1 .. n : IsSpace(s[i])}
Blanks(s, n) == {i \in 1 .. n : IsBlank(s[i])}

LEMMA SeparatorIs ==
  ASSUME NEW s, NEW n \in Nat, Len(s) = n, NEW from \in Nat, from > 0
  PROVE  Separator(s, from) = SepFrom(Spaces(s, n), n, from)
<1>1. \A i \in from .. n : i \in 1 .. n
  OBVIOUS
<1>2. \A i \in from .. n : s[i] = " " <=> i \in Spaces(s, n)
  BY <1>1 DEF Spaces, IsSpace
<1>3. {i \in from .. n : s[i] = " "} = {i \in from .. n : i \in Spaces(s, n)}
  BY <1>2
<1> QED BY <1>3 DEF Separator, KeyFrom, SepFrom

LEMMA NextFieldIs ==
  ASSUME NEW s, NEW n \in Nat, Len(s) = n, NEW sep \in Nat
  PROVE  NextField(s, sep) = NextFrom(Blanks(s, n), n, sep + 1)
<1>1. \A i \in sep + 1 .. n : i \in 1 .. n
  OBVIOUS
<1>2. \A i \in sep + 1 .. n : s[i] \notin {" ", "\t"} <=> i \notin Blanks(s, n)
  BY <1>1 DEF Blanks, IsBlank
<1>3. {i \in sep + 1 .. n : s[i] \notin {" ", "\t"}} = {i \in sep + 1 .. n : i \notin Blanks(s, n)}
  BY <1>2
<1> QED BY <1>3 DEF NextField, Skip, NextFrom

LEMMA GapIs ==
  ASSUME NEW s, NEW n \in Nat, NEW i \in 1 .. n + 1, NEW j \in 1 .. n
  PROVE  Separates(s, j, i) <=> Gap(Spaces(s, n), Blanks(s, n), j, i)
<1>1. \A k \in j .. i - 1 : k \in 1 .. n
  OBVIOUS
<1>2. \A k \in j .. i - 1 : s[k] \in {" ", "\t"} <=> k \in Blanks(s, n)
  BY <1>1 DEF Blanks, IsBlank
<1>3. s[j] = " " <=> j \in Spaces(s, n)
  BY DEF Spaces, IsSpace
<1> QED BY <1>2, <1>3 DEF Separates, Gap

LEMMA WordsAre ==
  ASSUME NEW s, NEW n \in Nat, DOMAIN s = 1 .. n
  PROVE  {i \in DOMAIN s : BeginsWord(s, i)} = Begins(Spaces(s, n), Blanks(s, n), n)
<1>1. ASSUME NEW i \in 1 .. n
      PROVE  BeginsWord(s, i) <=>
               i = 1 \/ (i \notin Blanks(s, n) /\ \E j \in 1 .. i : Gap(Spaces(s, n), Blanks(s, n), j, i))
  <2>1. s[i] \notin {" ", "\t"} <=> i \notin Blanks(s, n)
    BY DEF Blanks, IsBlank
  <2>2. \A j \in 1 .. i : j \in 1 .. n /\ i \in 1 .. n + 1
    OBVIOUS
  <2>3. \A j \in 1 .. i : Separates(s, j, i) <=> Gap(Spaces(s, n), Blanks(s, n), j, i)
    BY <2>2, GapIs
  <2> QED BY <2>1, <2>3 DEF BeginsWord
<1> QED BY <1>1 DEF Begins

LEMMA LineIs ==
  ASSUME NEW s, NEW n \in Nat, n > 0, ~ IsSpace(s[1])
  PROVE  Line(Spaces(s, n), Blanks(s, n), n)
<1>1. Spaces(s, n) \subseteq Blanks(s, n)
  BY DEF Spaces, Blanks, IsSpace, IsBlank
<1>2. 1 \notin Spaces(s, n)
  BY DEF Spaces
<1>3. Blanks(s, n) \subseteq 1 .. n
  BY DEF Blanks
<1>4. n \in Nat \ {0}
  OBVIOUS
<1> QED BY <1>1, <1>2, <1>3, <1>4 DEF Line

-----------------------------------------------------------------------------
(* The loop of general_get_field. *)

\* The equation of the recursive function of Starts.
AreStarts(f, s, m) ==
  f = [k \in 1 .. m |->
         IF k = 1 THEN 1
         ELSE LET last == f[k - 1]
                  sep == Separator(s, IF k = 2 THEN 1 ELSE last + 1)
              IN IF last = 0 \/ sep > Len(s) THEN 0 ELSE NextField(s, sep)]

LEMMA AfterIs ==
  ASSUME NEW s, NEW n \in Nat, Len(s) = n, NEW k, NEW last \in Nat,
         NEW sep, sep = Separator(s, IF k = 2 THEN 1 ELSE last + 1)
  PROVE  (IF last = 0 \/ sep > Len(s) THEN 0 ELSE NextField(s, sep)) =
           After(Spaces(s, n), Blanks(s, n), n, k, last)
<1>1. PICK from : from = IF k = 2 THEN 1 ELSE last + 1
  OBVIOUS
<1>2. from \in Nat /\ from > 0
  BY <1>1
<1>3. sep = SepFrom(Spaces(s, n), n, from)
  BY <1>1, <1>2, SeparatorIs
<1>4. sep \in Nat
  BY <1>2, <1>3, SepFromIs
<1>5. NextField(s, sep) = NextFrom(Blanks(s, n), n, sep + 1)
  BY <1>4, NextFieldIs
<1> QED BY <1>1, <1>3, <1>5 DEF After

LEMMA BeginIsNat ==
  ASSUME NEW sp, NEW bl, NEW n, Line(sp, bl, n), NEW k \in Nat, k > 0
  PROVE  Begin(sp, bl, n, k) \in Nat
<1>1. PICK S : S = Begins(sp, bl, n)
  OBVIOUS
<1>2. /\ n \in Nat /\ S \in SUBSET (1 .. n) /\ Cardinality(S) \in Nat
      /\ \A p \in 1 .. Cardinality(S) : Begin(sp, bl, n, p) \in S
  BY <1>1, BeginIs
<1>3. CASE k <= Cardinality(S)
  <2>1. Begin(sp, bl, n, k) \in S
    BY <1>2, <1>3
  <2>2. \A x \in S : x \in Nat
    BY <1>2
  <2> QED BY <2>1, <2>2
<1>4. CASE ~ (k <= Cardinality(S))
  BY <1>1, <1>2, <1>4 DEF Begin
<1> QED BY <1>3, <1>4

LEMMA BeginFirst ==
  ASSUME NEW sp, NEW bl, NEW n, Line(sp, bl, n)
  PROVE  Begin(sp, bl, n, 1) = 1
<1>1. PICK S : S = Begins(sp, bl, n)
  OBVIOUS
<1>2. /\ n \in Nat /\ S \in SUBSET (1 .. n) /\ 1 \in S
      /\ \A i \in S : Begin(sp, bl, n, Place(S, i)) = i
  BY <1>1, BeginIs
<1>3. Place(S, 1) = 1
  BY <1>2, PlaceFirst
<1> QED BY <1>2, <1>3

LEMMA StartsExist ==
  ASSUME NEW s, NEW n \in Nat, Len(s) = n, Line(Spaces(s, n), Blanks(s, n), n), NEW m \in Nat
  PROVE  \E f : AreStarts(f, s, m)
<1> DEFINE b(k) == Begin(Spaces(s, n), Blanks(s, n), n, k)
           f == [k \in 1 .. m |-> b(k)]
<1>1. ASSUME NEW k \in 1 .. m
      PROVE  b(k) = IF k = 1 THEN 1
                    ELSE LET last == f[k - 1]
                             sep == Separator(s, IF k = 2 THEN 1 ELSE last + 1)
                         IN IF last = 0 \/ sep > Len(s) THEN 0 ELSE NextField(s, sep)
  <2>1. CASE k = 1
    BY <2>1, BeginFirst
  <2>2. CASE k # 1
    <3>1. PICK last : last = b(k - 1)
      OBVIOUS
    <3>2. f[k - 1] = last /\ k \in Nat /\ k > 1 /\ k - 1 \in Nat /\ k - 1 > 0
      BY <2>2, <3>1
    <3>3. last \in Nat
      BY <3>1, <3>2, BeginIsNat
    <3>4. PICK sep : sep = Separator(s, IF k = 2 THEN 1 ELSE last + 1)
      OBVIOUS
    <3>5. b(k) = After(Spaces(s, n), Blanks(s, n), n, k, last)
      BY <3>1, <3>2, BeginStep
    <3>6. b(k) = IF last = 0 \/ sep > Len(s) THEN 0 ELSE NextField(s, sep)
      <4> HIDE DEF b
      <4> QED BY <3>3, <3>4, <3>5, AfterIs
    <3> HIDE DEF b, f
    <3> QED BY <2>2, <3>2, <3>4, <3>6
  <2> QED BY <2>1, <2>2
<1>2. AreStarts(f, s, m)
  BY <1>1 DEF AreStarts
<1> QED BY <1>2

LEMMA StartsAre ==
  ASSUME NEW s, NEW n \in Nat, Len(s) = n, Line(Spaces(s, n), Blanks(s, n), n), NEW m \in Nat,
         NEW f, AreStarts(f, s, m)
  PROVE  \A k \in 1 .. m : f[k] = Begin(Spaces(s, n), Blanks(s, n), n, k)
<1> DEFINE b(k) == Begin(Spaces(s, n), Blanks(s, n), n, k)
           Bad == {k \in 1 .. m : f[k] # b(k)}
<1>1. SUFFICES ASSUME Bad # {} PROVE FALSE
  OBVIOUS
<1>2. PICK a \in Bad : \A x \in Bad : a <= x
  <2>1. Bad \in SUBSET Nat
    OBVIOUS
  <2> HIDE DEF Bad
  <2> QED BY <1>1, <2>1, LeastIn
<1>3. a \in 1 .. m /\ f[a] # b(a)
  OBVIOUS
<1>4. a # 1
  <2>1. a = 1 => f[a] = 1
    BY <1>3 DEF AreStarts
  <2>2. b(1) = 1
    BY BeginFirst
  <2> QED BY <1>3, <2>1, <2>2
<1>5. PICK p \in 1 .. m : p = a - 1 /\ ~ (a <= p)
  BY <1>3, <1>4
<1>6. f[p] = b(p)
  <2>1. p \notin Bad
    <3> HIDE DEF Bad
    <3> QED BY <1>2, <1>5
  <2> QED BY <2>1
<1>7. PICK last : last = b(p)
  OBVIOUS
<1>8. last \in Nat /\ a \in Nat /\ a > 1
  BY <1>3, <1>4, <1>7, BeginIsNat
<1>9. PICK sep : sep = Separator(s, IF a = 2 THEN 1 ELSE last + 1)
  OBVIOUS
<1>10. f[a] = IF last = 0 \/ sep > Len(s) THEN 0 ELSE NextField(s, sep)
  <2>1. f[a] = IF a = 1 THEN 1
               ELSE LET l == f[a - 1]
                        x == Separator(s, IF a = 2 THEN 1 ELSE l + 1)
                    IN IF l = 0 \/ x > Len(s) THEN 0 ELSE NextField(s, x)
    BY <1>3 DEF AreStarts
  <2>2. f[a - 1] = last
    BY <1>5, <1>6, <1>7
  <2> HIDE DEF b, Bad
  <2> QED BY <1>4, <1>9, <2>1, <2>2
<1>11. f[a] = After(Spaces(s, n), Blanks(s, n), n, a, last)
  BY <1>8, <1>9, <1>10, AfterIs
<1>12. b(a) = After(Spaces(s, n), Blanks(s, n), n, a, b(a - 1))
  BY <1>8, BeginStep
<1> QED BY <1>3, <1>5, <1>7, <1>11, <1>12

-----------------------------------------------------------------------------
(* The words of a line that is not empty and begins with no space. *)

LEMMA WordIs ==
  ASSUME NEW s, NEW n \in Nat, Len(s) = n, NEW i \in 1 .. n, ~ IsSpace(s[i])
  PROVE  SubSeq(s, i, Separator(s, i) - 1) = WordAt(s, i)
<1>1. PICK x : x = Separator(s, i)
  OBVIOUS
<1>2. /\ x \in Nat /\ (x \in i .. n \/ x = n + 1)
      /\ x <= n => x \in Spaces(s, n)
      /\ \A k \in i .. n : k < x => k \notin Spaces(s, n)
  <2>1. x = SepFrom(Spaces(s, n), n, i)
    BY <1>1, SeparatorIs
  <2> QED BY <2>1, SepFromIs
<1>3. \A k \in 1 .. n : k \in Spaces(s, n) <=> IsSpace(s[k])
  BY DEF Spaces
<1>4. x # i /\ x - 1 \in i .. n
  <2>1. x # i
    BY <1>2, <1>3
  <2> QED BY <1>2, <2>1
<1> DEFINE T == {j \in i .. n : \A k \in i .. j : ~ IsSpace(s[k])}
<1>5. x - 1 \in T
  <2>1. \A k \in i .. x - 1 : k \in i .. n /\ k \in 1 .. n /\ k < x
    BY <1>2, <1>4
  <2>2. \A k \in i .. x - 1 : ~ IsSpace(s[k])
    BY <1>2, <1>3, <2>1
  <2> QED BY <1>4, <2>2
<1>6. ASSUME NEW j \in T
      PROVE  x - 1 >= j
  <2>1. j \in i .. n /\ \A k \in i .. j : ~ IsSpace(s[k])
    OBVIOUS
  <2> HIDE DEF T
  <2>2. CASE x <= j
    <3>1. x \in i .. j /\ x <= n /\ x \in 1 .. n
      BY <1>2, <2>1, <2>2
    <3> QED BY <1>2, <1>3, <2>1, <3>1
  <2>3. CASE ~ (x <= j)
    BY <1>2, <2>1, <2>3
  <2> QED BY <2>2, <2>3
<1>7. T \in SUBSET (0 .. n)
  OBVIOUS
<1>8. Max(T) = x - 1
  <2>1. PICK y : y = x - 1
    OBVIOUS
  <2>2. y \in T /\ \A j \in T : y >= j
    BY <1>5, <1>6, <2>1
  <2> HIDE DEF T
  <2>3. Max(T) = y
    BY <1>7, <2>2, MaxIsOne
  <2> QED BY <2>1, <2>3
<1>9. WordAt(s, i) = SubSeq(s, i, Max(T))
  BY DEF WordAt, IsSpace
<1> HIDE DEF T
<1> QED BY <1>1, <1>8, <1>9

\* The field of a line that begins at start, and all of them.
FieldAt(s, start) == IF start = 0 THEN NULL ELSE SubSeq(s, start, Separator(s, start) - 1)
AreFields(field, s, m, start) == field = [k \in 1 .. m |-> FieldAt(s, start[k])]

\* What is said of the fields of a line that is not empty.
HasMore(s) == \E j \in DOMAIN s : Separates(s, j, Len(s) + 1)
Words(s) == {i \in DOMAIN s : BeginsWord(s, i)}
Fields(s, m, field) ==
  /\ \A i \in Words(s) : Place(Words(s), i) <= m => field[Place(Words(s), i)] = WordAt(s, i)
  /\ \A k \in Cardinality(Words(s)) + 1 .. m :
       field[k] = IF k = Cardinality(Words(s)) + 1 /\ HasMore(s) THEN <<>> ELSE NULL

LEMMA FieldsAreIs ==
  ASSUME NEW field, NEW s, NEW m, NEW start, AreFields(field, s, m, start)
  PROVE  \A k \in 1 .. m : field[k] = FieldAt(s, start[k])
BY DEF AreFields

LEMMA NothingBehind ==
  ASSUME NEW s, NEW n \in Nat, Len(s) = n
  PROVE  FieldAt(s, n + 1) = <<>>
<1>1. n + 1 \in Nat /\ n + 1 > 0
  OBVIOUS
<1>2. PICK x : x = Separator(s, n + 1)
  OBVIOUS
<1>3. x = SepFrom(Spaces(s, n), n, n + 1)
  BY <1>1, <1>2, SeparatorIs
<1>4. x \in Nat /\ (x \in n + 1 .. n \/ x = n + 1)
  BY <1>1, <1>3, SepFromIs
<1>5. x - 1 \in Int /\ n + 1 \in Int /\ x - 1 < n + 1 /\ n + 1 # 0
  BY <1>4
<1>6. SubSeq(s, n + 1, x - 1) = <<>>
  BY <1>5, SubSeqEmpty
<1> QED BY <1>2, <1>5, <1>6 DEF FieldAt

LEMMA HasMoreIs ==
  ASSUME NEW s, NEW n \in Nat, Len(s) = n, DOMAIN s = 1 .. n
  PROVE  HasMore(s) <=> Trailing(Spaces(s, n), Blanks(s, n), n)
<1>1. n + 1 \in 1 .. n + 1
  OBVIOUS
<1>2. \A j \in 1 .. n : Separates(s, j, n + 1) <=> Gap(Spaces(s, n), Blanks(s, n), j, n + 1)
  BY <1>1, GapIs
<1> QED BY <1>2 DEF Trailing, HasMore

\* A line that begins with no space.
Clean(s, n) == n \in Nat /\ n > 0 /\ Len(s) = n /\ DOMAIN s = 1 .. n /\ ~ IsSpace(s[1])

LEMMA StartIsBegin ==
  ASSUME NEW s, NEW n, Clean(s, n), NEW m \in Nat, NEW start, start = Starts(s, m)
  PROVE  \A k \in 1 .. m : start[k] = Begin(Spaces(s, n), Blanks(s, n), n, k)
<1>1. n \in Nat /\ n > 0 /\ Len(s) = n /\ ~ IsSpace(s[1])
  BY DEF Clean
<1>2. Line(Spaces(s, n), Blanks(s, n), n)
  BY <1>1, LineIs
<1> DEFINE f == CHOOSE g : AreStarts(g, s, m)
<1>3. AreStarts(f, s, m)
  BY <1>1, <1>2, StartsExist
<1>4. start = f
  BY DEF Starts, AreStarts
<1> HIDE DEF f
<1> QED BY <1>1, <1>2, <1>3, <1>4, StartsAre

LEMMA FieldsAre ==
  ASSUME NEW s, NEW n, Clean(s, n), NEW m \in Nat, NEW start, start = Starts(s, m),
         NEW field, AreFields(field, s, m, start)
  PROVE  Fields(s, m, field)
<1>1. PICK sp, bl : sp = Spaces(s, n) /\ bl = Blanks(s, n)
  OBVIOUS
<1>2. Line(sp, bl, n) /\ n \in Nat /\ Len(s) = n
  BY <1>1, LineIs DEF Clean
<1>3. \A k \in 1 .. m : start[k] = Begin(sp, bl, n, k)
  BY <1>1, StartIsBegin
<1>4. PICK S : S = Begins(sp, bl, n)
  OBVIOUS
<1>5. Words(s) = S
  <2>1. DOMAIN s = 1 .. n
    BY DEF Clean
  <2> QED BY <1>1, <1>2, <1>4, <2>1, WordsAre DEF Words
<1>6. /\ S \in SUBSET (1 .. n) /\ Cardinality(S) \in Nat
      /\ \A i \in S : Begin(sp, bl, n, Place(S, i)) = i /\ Place(S, i) \in 1 .. Cardinality(S)
  BY <1>2, <1>4, BeginIs
<1>7. \A k \in 1 .. m : field[k] = FieldAt(s, start[k])
  BY FieldsAreIs
<1>8. ASSUME NEW i \in S, Place(S, i) <= m
      PROVE  field[Place(S, i)] = WordAt(s, i)
  <2>1. i \in 1 .. n /\ i # 0
    BY <1>2, <1>6
  <2>2. ~ IsSpace(s[i])
    <3>1. CASE i = 1
      BY <3>1 DEF Clean
    <3>2. CASE i # 1
      <4>1. i \notin bl
        BY <1>4, <3>2 DEF Begins
      <4>2. ~ IsBlank(s[i])
        BY <1>1, <2>1, <4>1 DEF Blanks
      <4> QED BY <4>2 DEF IsBlank, IsSpace
    <3> QED BY <3>1, <3>2
  <2>3. PICK k \in 1 .. m : k = Place(S, i)
    BY <1>6, <1>8
  <2>4. start[k] = i
    BY <1>3, <1>6, <2>3
  <2>5. field[k] = FieldAt(s, i)
    BY <1>7, <2>4
  <2>6. FieldAt(s, i) = SubSeq(s, i, Separator(s, i) - 1)
    BY <2>1 DEF FieldAt
  <2>7. SubSeq(s, i, Separator(s, i) - 1) = WordAt(s, i)
    BY <1>2, <2>1, <2>2, WordIs
  <2> QED BY <2>3, <2>5, <2>6, <2>7
<1>9. HasMore(s) <=> Trailing(sp, bl, n)
  <2>1. Len(s) = n /\ DOMAIN s = 1 .. n
    BY DEF Clean
  <2> QED BY <1>1, <1>2, <2>1, HasMoreIs
<1>10. ASSUME NEW k \in Cardinality(S) + 1 .. m
      PROVE  field[k] = IF k = Cardinality(S) + 1 /\ HasMore(s) THEN <<>> ELSE NULL
  <2>1. k \in 1 .. m /\ ~ (k <= Cardinality(S))
    BY <1>6
  <2>2. field[k] = FieldAt(s, start[k]) /\ start[k] = Begin(sp, bl, n, k)
    BY <1>3, <1>7, <2>1
  <2>3. CASE k = Cardinality(S) + 1 /\ HasMore(s)
    <3>1. start[k] = n + 1
      BY <1>4, <1>9, <2>1, <2>2, <2>3 DEF Begin
    <3> QED BY <1>2, <2>2, <2>3, <3>1, NothingBehind
  <2>4. CASE ~ (k = Cardinality(S) + 1 /\ HasMore(s))
    <3>1. start[k] = 0
      BY <1>4, <1>9, <2>1, <2>2, <2>4 DEF Begin
    <3> QED BY <2>2, <2>4, <3>1 DEF FieldAt
  <2> QED BY <2>3, <2>4
<1> QED BY <1>5, <1>8, <1>10 DEF Fields

\* The line that general_get_field cuts up.
LEMMA SkipIs ==
  ASSUME NEW P, NEW line, NEW n \in Nat, Len(line) = n, NEW lead, lead = Skip(line, 1, P)
  PROVE  /\ lead \in Nat /\ (lead \in 1 .. n \/ lead = n + 1)
         /\ lead <= n => line[lead] \notin P
         /\ \A i \in 1 .. n : i < lead => line[i] \in P
<1>1. PICK S : S = {i \in 1 .. n : line[i] \notin P}
  OBVIOUS
<1>2. {i \in 1 .. Len(line) : line[i] \notin P} \cup {Len(line) + 1} = {i \in 1 .. n : i \in S} \cup {n + 1}
  BY <1>1
<1>3. lead = Min({i \in 1 .. n : i \in S} \cup {n + 1})
  BY <1>2 DEF Skip
<1>4. \A i \in 1 .. n : i \in S <=> line[i] \notin P
  BY <1>1
<1>5. /\ lead \in Nat /\ (lead \in 1 .. n \/ lead = n + 1)
      /\ lead <= n => lead \in S
      /\ \A i \in 1 .. n : i < lead => i \notin S
  <2>1. PICK from \in Nat : from = 1
    OBVIOUS
  <2>2. lead = Min({i \in from .. n : i \in S} \cup {n + 1})
    BY <1>3, <2>1
  <2>3. /\ lead \in Nat /\ (lead \in from .. n \/ lead = n + 1)
        /\ lead <= n => lead \in S
        /\ \A i \in from .. n : i < lead => i \notin S
    BY <2>2, FirstFrom
  <2> QED BY <2>1, <2>3
<1> QED BY <1>4, <1>5

IsNewline(c) == c = "\n"

LEMMA PartIs ==
  ASSUME NEW S, NEW line, NEW n, Text(line, n, S), NEW i \in Nat \ {0}, NEW j \in Nat, j <= n
  PROVE  /\ SubSeq(line, i, j) \in Seq(S)
         /\ SubSeq(line, i, j) # <<>> => i <= j /\ SubSeq(line, i, j)[1] = line[i]
<1>1. \A k \in i .. j : line[k] \in S
  <2>1. \A k \in 1 .. n : line[k] \in S
    BY ElementOfSeq DEF Text
  <2>2. \A k \in i .. j : k \in 1 .. n
    BY DEF Text
  <2> QED BY <2>1, <2>2
<1>2. PICK s : s = SubSeq(line, i, j)
  OBVIOUS
<1>3. /\ s \in Seq(S)
      /\ Len(s) = IF i <= j THEN j - i + 1 ELSE 0
      /\ \A k \in 1 .. j - i + 1 : s[k] = line[i + k - 1]
  BY <1>1, <1>2, SubSeqProperties
<1>4. s # <<>> => i <= j
  <2>1. ~ (i <= j) => Len(s) = 0
    BY <1>3
  <2> QED BY <1>3, <2>1, EmptySeq
<1>5. i <= j => s[1] = line[i]
  BY <1>3
<1> QED BY <1>2, <1>3, <1>4, <1>5

LEMMA ChoppedIs ==
  ASSUME NEW S, NEW line \in Seq(S), NEW s, s = Chopped(line)
  PROVE  /\ s = LineOf(line) /\ s \in Seq(S)
         /\ s # <<>> => ~ IsSpace(s[1])
<1>1. PICK n \in Nat : n = Len(line) /\ Text(line, n, S)
  BY LenProperties DEF Text
<1>2. n > 0 <=> line # <<>>
  BY <1>1, EmptySeq
<1>3. PICK lead : lead = Skip(line, 1, {" "})
  OBVIOUS
<1>4. /\ lead \in Nat /\ (lead \in 1 .. n \/ lead = n + 1)
      /\ lead <= n => ~ IsSpace(line[lead])
      /\ \A i \in 1 .. n : i < lead => IsSpace(line[i])
  <2>1. PICK P : P = {" "}
    OBVIOUS
  <2>2. lead = Skip(line, 1, P) /\ Len(line) = n
    BY <1>1, <1>3, <2>1
  <2>3. /\ lead \in Nat /\ (lead \in 1 .. n \/ lead = n + 1)
        /\ lead <= n => line[lead] \notin P
        /\ \A i \in 1 .. n : i < lead => line[i] \in P
    BY <2>2, SkipIs
  <2>4. \A c : c \in P <=> IsSpace(c)
    BY <2>1 DEF IsSpace
  <2> QED BY <2>3, <2>4
<1>5. n > 0 => (lead = 1 <=> ~ IsSpace(line[1]))
  BY <1>4
<1>6. Last(line) = line[n]
  BY <1>1 DEF Last
<1>7. CASE n > 0 /\ lead = 1 /\ IsNewline(line[n])
  <2>1. s = SubSeq(line, 1, n - 1)
    BY <1>1, <1>3, <1>7 DEF Chopped, IsNewline
  <2>2. LineOf(line) = SubSeq(line, 1, n - 1)
    <3>1. line # <<>> /\ line[1] # " " /\ Last(line) = "\n"
      BY <1>2, <1>5, <1>6, <1>7 DEF IsSpace, IsNewline
    <3> QED BY <1>1, <3>1 DEF LineOf, Front
  <2>3. PICK p \in Nat : p = n - 1 /\ p <= n
    BY <1>7
  <2>4. s \in Seq(S) /\ (s # <<>> => s[1] = line[1])
    BY <1>1, <2>1, <2>3, PartIs
  <2> QED BY <1>5, <1>7, <2>1, <2>2, <2>4
<1>8. CASE ~ (n > 0 /\ lead = 1 /\ IsNewline(line[n]))
  <2>1. s = SubSeq(line, lead, n)
    BY <1>1, <1>3, <1>8 DEF Chopped, From, IsNewline
  <2>2. LineOf(line) = SubSeq(line, lead, n)
    <3>1. ~ (line # <<>> /\ line[1] # " " /\ Last(line) = "\n")
      BY <1>2, <1>5, <1>6, <1>8 DEF IsSpace, IsNewline
    <3> QED BY <1>1, <1>3, <3>1 DEF LineOf, From
  <2>3. lead \in Nat \ {0} /\ n <= n
    BY <1>4
  <2>4. s \in Seq(S) /\ (s # <<>> => lead <= n /\ s[1] = line[lead])
    BY <1>1, <2>1, <2>3, PartIs
  <2> QED BY <1>4, <2>1, <2>2, <2>4
<1> QED BY <1>7, <1>8

\* general_get_field (general.c:153-191) returns the words of every line, as
\* many as there is room for, whatever the blanks between them.
THEOREM FieldsAreWordsAlways == QuerySpec => []FieldsAreWords
<1>1. ASSUME call.fn = "field", call.in \in Legal["field"]
      PROVE  FieldsAreWords
  <2>1. PICK line, m : call.in.line = line /\ call.in.fieldnum = m /\ line \in Seq(STRING) /\ m \in Nat
    BY <1>1 DEF Legal
  <2>2. PICK s : s = Chopped(line)
    OBVIOUS
  <2>3. s = LineOf(line) /\ s \in Seq(STRING) /\ (s # <<>> => ~ IsSpace(s[1]))
    BY <2>1, <2>2, ChoppedIs
  <2>4. PICK field : field = general_get_field(line, m)
    OBVIOUS
  <2>5. (IF s = <<>> THEN field = <<>> ELSE Fields(s, m, field)) => FieldsAreWords
    BY <2>1, <2>3, <2>4 DEF FieldsAreWords, Fields, Words, HasMore, Place
  <2>6. CASE s = <<>>
    <3>1. field = <<>>
      BY <2>2, <2>4, <2>6 DEF general_get_field
    <3> QED BY <2>5, <2>6, <3>1
  <2>7. CASE s # <<>>
    <3>1. PICK n \in Nat : n = Len(s) /\ Clean(s, n)
      <4>1. Len(s) \in Nat /\ DOMAIN s = 1 .. Len(s) /\ Len(s) # 0
        BY <2>3, <2>7, LenProperties, EmptySeq
      <4>2. PICK n \in Nat : n = Len(s)
        BY <4>1
      <4>3. Len(s) = n /\ n > 0 /\ DOMAIN s = 1 .. n
        BY <4>1, <4>2
      <4> QED BY <2>3, <2>7, <4>2, <4>3 DEF Clean
    <3>2. PICK start : start = Starts(s, m)
      OBVIOUS
    <3>3. AreFields(field, s, m, start)
      BY <2>2, <2>4, <2>7, <3>2 DEF general_get_field, AreFields, FieldAt
    <3>4. Fields(s, m, field)
      BY <2>1, <3>1, <3>2, <3>3, FieldsAre
    <3> QED BY <2>5, <2>7, <3>4
  <2> QED BY <2>6, <2>7
<1>2. "field" \in DOMAIN Legal
  BY DEF Legal
<1>3. Legally => FieldsAreWords
  BY <1>1, <1>2 DEF Legally, FieldsAreWords
<1> QED BY <1>3, AskedIsLegal, PTL

-----------------------------------------------------------------------------
(* The line of a task. *)

Heading == <<"1", " ", "(">>
Rest(state, flags) ==
  <<")", " ", state, " ", "2", " ", "3", " ", "4", " ", "5", " ", "6", " ", flags, " ", "0", "\n">>

\* The letters of a state: any character that is no blank.
Letters == STRING \ Space

\* Every character such a line can have.
Chars == STRING \cup Digits \cup Letters \cup {" ", "(", ")", "\n"}

LEMMA CharsAre ==
  /\ \A c : IsSpace(c) => c \in Chars
  /\ "(" \in Chars /\ ")" \in Chars /\ "\n" \in Chars
  /\ "0" \in Chars /\ "1" \in Chars /\ "2" \in Chars /\ "3" \in Chars /\ "4" \in Chars
  /\ "5" \in Chars /\ "6" \in Chars
  /\ \A c \in STRING \cup Digits \cup Letters : c \in Chars
<1>1. \A c : IsSpace(c) => c \in Chars
  BY DEF IsSpace, Chars
<1>2. "(" \in Chars /\ ")" \in Chars /\ "\n" \in Chars
  BY Zenon DEF Chars
<1>3. "0" \in Digits /\ "1" \in Digits /\ "2" \in Digits /\ "3" \in Digits /\ "4" \in Digits
      /\ "5" \in Digits /\ "6" \in Digits
  BY DEF Digits
<1>4. \A c \in STRING \cup Digits \cup Letters : c \in Chars
  BY Zenon DEF Chars
<1> QED BY <1>1, <1>2, <1>3, <1>4

LEMMA NoBlanks ==
  /\ \A c \in Letters \cup Digits : ~ IsBlank(c)
  /\ ~ IsBlank("(") /\ ~ IsSpace("1") /\ ~ IsSpace(")")
<1>1. ASSUME NEW c \in Letters
      PROVE  ~ IsBlank(c)
  BY Zenon DEF Letters, Space, IsBlank
<1>2. ASSUME NEW c \in Digits
      PROVE  ~ IsBlank(c)
  BY Zenon DEF Digits, IsBlank
<1>3. ~ IsBlank("(") /\ ~ IsSpace("1") /\ ~ IsSpace(")")
  BY Zenon DEF IsBlank, IsSpace
<1> QED BY <1>1, <1>2, <1>3

LEMMA HeadingIs ==
  /\ Text(Heading, 3, Chars)
  /\ Heading[1] = "1" /\ IsSpace(Heading[2]) /\ Heading[3] = "("
<1>1. PICK sp : sp = " "
  OBVIOUS
<1>2. IsSpace(sp)
  BY <1>1 DEF IsSpace
<1>3. PICK S : S = Chars
  OBVIOUS
<1>4. sp \in S /\ "1" \in S /\ "(" \in S
  BY <1>2, <1>3, CharsAre
<1>5. PICK h : h = <<"1", sp, "(">>
  OBVIOUS
<1>6. h \in Seq(S) /\ Len(h) = 3
  BY <1>4, <1>5
<1>7. h[1] = "1" /\ h[2] = sp /\ h[3] = "("
  BY <1>5
<1>8. Heading = h
  BY <1>1, <1>5 DEF Heading
<1>9. Text(h, 3, S)
  BY <1>6 DEF Text
<1> QED BY <1>2, <1>3, <1>7, <1>8, <1>9

LEMMA RestIs ==
  ASSUME NEW state \in Letters, NEW flags \in Digits, NEW t, t = Rest(state, flags)
  PROVE  /\ Text(t, 18, Chars)
         /\ t[1] = ")" /\ t[3] = state /\ t[5] = "2" /\ t[7] = "3" /\ t[9] = "4"
         /\ t[11] = "5" /\ t[13] = "6" /\ t[15] = flags /\ t[18] = "\n"
         /\ IsSpace(t[2]) /\ IsSpace(t[4]) /\ IsSpace(t[6]) /\ IsSpace(t[8]) /\ IsSpace(t[10])
         /\ IsSpace(t[12]) /\ IsSpace(t[14]) /\ IsSpace(t[16])
<1>1. PICK sp : sp = " "
  OBVIOUS
<1>2. IsSpace(sp)
  BY <1>1 DEF IsSpace
<1>3. PICK S : S = Chars
  OBVIOUS
<1>4. /\ sp \in S /\ "2" \in S /\ ")" \in S /\ "3" \in S /\ "4" \in S /\ "5" \in S /\ "6" \in S
      /\ "0" \in S /\ "\n" \in S /\ state \in S /\ flags \in S
  BY <1>2, <1>3, CharsAre
<1>5. PICK r : r = <<")", sp, state, sp, "2", sp, "3", sp, "4", sp, "5", sp, "6", sp, flags, sp, "0", "\n">>
  OBVIOUS
<1>6. r \in Seq(S) /\ Len(r) = 18
  BY <1>4, <1>5
<1>7. /\ r[1] = ")" /\ r[3] = state /\ r[5] = "2" /\ r[7] = "3" /\ r[9] = "4"
      /\ r[11] = "5" /\ r[13] = "6" /\ r[15] = flags /\ r[18] = "\n"
      /\ r[2] = sp /\ r[4] = sp /\ r[6] = sp /\ r[8] = sp /\ r[10] = sp
      /\ r[12] = sp /\ r[14] = sp /\ r[16] = sp
  BY <1>5
<1>8. t = r
  BY <1>1, <1>5 DEF Rest
<1>9. Text(r, 18, S)
  BY <1>6 DEF Text
<1> QED BY <1>2, <1>3, <1>7, <1>8, <1>9

Cat(line, a, b, c) == line = (a \o b) \o c

Parts(line, a, b, c, k, m, l) ==
  /\ \A i \in 1 .. k : line[i] = a[i]
  /\ \A i \in 1 .. m : line[k + i] = b[i]
  /\ \A i \in 1 .. l : line[k + m + i] = c[i]

LEMMA CatIs ==
  ASSUME NEW S, NEW a, NEW b, NEW c, NEW k \in Nat, NEW m \in Nat, NEW l \in Nat, NEW line,
         Text(a, k, S), Text(b, m, S), Text(c, l, S), Cat(line, a, b, c)
  PROVE  Text(line, k + m + l, S) /\ Parts(line, a, b, c, k, m, l)
<1>0. /\ a \in Seq(S) /\ b \in Seq(S) /\ c \in Seq(S)
      /\ k \in Nat /\ m \in Nat /\ l \in Nat /\ Len(a) = k /\ Len(b) = m /\ Len(c) = l
  BY DEF Text
<1>1. PICK d : d = a \o b
  OBVIOUS
<1>2. /\ d \in Seq(S) /\ Len(d) = k + m
      /\ \A i \in 1 .. k + m : d[i] = IF i <= k THEN a[i] ELSE b[i - k]
  BY <1>0, <1>1, ConcatProperties
<1>3. PICK p \in Nat : p = k + m /\ p = Len(d)
  BY <1>0, <1>2
<1>4. /\ line \in Seq(S) /\ Len(line) = p + l
      /\ \A i \in 1 .. p + l : line[i] = IF i <= p THEN d[i] ELSE c[i - p]
  <2>1. line = d \o c
    BY <1>1 DEF Cat
  <2>2. /\ d \o c \in Seq(S) /\ Len(d \o c) = Len(d) + Len(c)
        /\ \A i \in 1 .. Len(d) + Len(c) : (d \o c)[i] = IF i <= Len(d) THEN d[i] ELSE c[i - Len(d)]
    <3>1. d \in Seq(S) /\ c \in Seq(S)
      BY <1>0, <1>2
    <3> QED BY <3>1, ConcatProperties
  <2> QED BY <1>0, <1>3, <2>1, <2>2
<1>5. \A i \in 1 .. k + m : line[i] = d[i]
  <2>1. \A i \in 1 .. k + m : i \in 1 .. p + l /\ i <= p
    BY <1>0, <1>3
  <2> QED BY <1>4, <2>1
<1>6. \A i \in 1 .. k : line[i] = a[i]
  <2>1. \A i \in 1 .. k : i \in 1 .. k + m /\ i <= k
    BY <1>0
  <2> QED BY <1>2, <1>5, <2>1
<1>7. \A i \in 1 .. m : line[k + i] = b[i]
  <2>1. \A i \in 1 .. m : k + i \in 1 .. k + m /\ ~ (k + i <= k) /\ (k + i) - k = i
    BY <1>0
  <2> QED BY <1>2, <1>5, <2>1
<1>8. \A i \in 1 .. l : line[k + m + i] = c[i]
  <2>1. \A i \in 1 .. l : p + i \in 1 .. p + l /\ ~ (p + i <= p) /\ (p + i) - p = i
    BY <1>0, <1>3
  <2>2. \A i \in 1 .. l : line[p + i] = c[i]
    BY <1>4, <2>1
  <2> QED BY <1>3, <2>2
<1>9. Text(line, k + m + l, S)
  <2>1. k + m + l \in Nat /\ k + m + l = p + l
    BY <1>0, <1>3
  <2> QED BY <1>4, <2>1 DEF Text
<1> QED BY <1>6, <1>7, <1>8, <1>9 DEF Parts

\* The places of the line of a task whose name has m characters, its newline
\* cut off: what separates the fields, and what stands in them.
Borders(s, m) ==
  /\ ~ IsBlank(s[1]) /\ IsSpace(s[2]) /\ ~ IsBlank(s[3]) /\ ~ IsSpace(s[m + 4])
  /\ \A k \in 3 .. 9 : ~ IsBlank(s[m + 2 * k])
  /\ \A k \in 2 .. 9 : IsSpace(s[m + 2 * k + 1])

Entries == <<"2", "3", "4", "5", "6">>

Values(s, c, m, state, flags) ==
  /\ s[1] = "1" /\ s[m + 4] = ")" /\ s[m + 6] = state /\ s[m + 18] = flags
  /\ \A i \in 1 .. m : s[i + 3] = c[i]
  /\ \A k \in 1 .. 5 : s[m + 2 * k + 6] = Entries[k]

TaskLine(s, c, m, state, flags) ==
  /\ s \in Seq(Chars) /\ Clean(s, m + 20)
  /\ Borders(s, m) /\ Values(s, c, m, state, flags)

LEMMA LineFrom ==
  ASSUME NEW c, NEW m, Text(c, m, Chars), NEW state \in Letters, NEW flags \in Digits,
         NEW line, Cat(line, Heading, c, Rest(state, flags))
  PROVE  /\ Text(line, m + 21, Chars) /\ ~ IsSpace(line[1]) /\ IsNewline(line[m + 21])
         /\ Borders(line, m) /\ Values(line, c, m, state, flags)
<1>1. ~ IsBlank(state) /\ ~ IsBlank(flags) /\ m \in Nat
  BY NoBlanks DEF Text
<1>2. PICK h : h = Heading
  OBVIOUS
<1>3. PICK t : t = Rest(state, flags)
  OBVIOUS
<1>4. Text(h, 3, Chars) /\ Text(t, 18, Chars)
  BY <1>2, <1>3, HeadingIs, RestIs
<1>5. /\ Text(line, 3 + m + 18, Chars)
      /\ \A i \in 1 .. 3 : line[i] = h[i]
      /\ \A i \in 1 .. m : line[3 + i] = c[i]
      /\ \A i \in 1 .. 18 : line[3 + m + i] = t[i]
  <2>1. Cat(line, h, c, t)
    BY <1>2, <1>3
  <2>2. PICK k \in Nat, l \in Nat : k = 3 /\ l = 18
    OBVIOUS
  <2>3. Text(h, k, Chars) /\ Text(t, l, Chars)
    BY <1>4, <2>2
  <2>4. Text(line, k + m + l, Chars) /\ Parts(line, h, c, t, k, m, l)
    BY <1>1, <2>1, <2>3, CatIs
  <2> QED BY <2>2, <2>4 DEF Parts
<1>6. ~ IsBlank(h[1]) /\ IsSpace(h[2]) /\ ~ IsBlank(h[3]) /\ ~ IsSpace(h[1]) /\ h[1] = "1"
  <2>1. h[1] \in Digits
    BY <1>2, HeadingIs DEF Digits
  <2> QED BY <1>2, <2>1, HeadingIs, NoBlanks
<1>7. /\ ~ IsSpace(t[1]) /\ t[1] = ")" /\ t[3] = state /\ t[15] = flags /\ IsNewline(t[18])
      /\ t[5] = Entries[1] /\ t[7] = Entries[2] /\ t[9] = Entries[3] /\ t[11] = Entries[4] /\ t[13] = Entries[5]
      /\ IsSpace(t[2]) /\ IsSpace(t[4]) /\ IsSpace(t[6]) /\ IsSpace(t[8]) /\ IsSpace(t[10])
      /\ IsSpace(t[12]) /\ IsSpace(t[14]) /\ IsSpace(t[16])
  BY <1>1, <1>3, RestIs, NoBlanks DEF IsNewline, Entries
<1>8. ~ IsBlank(t[5]) /\ ~ IsBlank(t[7]) /\ ~ IsBlank(t[9]) /\ ~ IsBlank(t[11]) /\ ~ IsBlank(t[13])
  <2>1. t[5] \in Digits /\ t[7] \in Digits /\ t[9] \in Digits /\ t[11] \in Digits /\ t[13] \in Digits
    BY <1>1, <1>3, RestIs DEF Digits
  <2> QED BY <2>1, NoBlanks
<1>9. line[1] = h[1] /\ line[2] = h[2] /\ line[3] = h[3]
  BY <1>5
<1>10. \A k \in 1 .. 18 : line[m + (3 + k)] = t[k]
  <2>1. \A k \in 1 .. 18 : m + (3 + k) = 3 + m + k
    BY <1>1
  <2> QED BY <1>5, <2>1
<1>11. /\ line[m + 4] = t[1] /\ line[m + 5] = t[2] /\ line[m + 6] = t[3] /\ line[m + 7] = t[4]
       /\ line[m + 8] = t[5] /\ line[m + 9] = t[6] /\ line[m + 10] = t[7] /\ line[m + 11] = t[8]
       /\ line[m + 12] = t[9] /\ line[m + 13] = t[10] /\ line[m + 14] = t[11] /\ line[m + 15] = t[12]
       /\ line[m + 16] = t[13] /\ line[m + 17] = t[14] /\ line[m + 18] = t[15] /\ line[m + 19] = t[16]
       /\ line[m + 21] = t[18]
  BY <1>1, <1>10
<1>12. Borders(line, m)
  <2>1. ASSUME NEW k \in 3 .. 9
        PROVE  ~ IsBlank(line[m + 2 * k])
    <3>1. k = 3 \/ k = 4 \/ k = 5 \/ k = 6 \/ k = 7 \/ k = 8 \/ k = 9
      OBVIOUS
    <3> QED BY <1>1, <1>7, <1>8, <1>11, <3>1
  <2>2. ASSUME NEW k \in 2 .. 9
        PROVE  IsSpace(line[m + 2 * k + 1])
    <3>1. k = 2 \/ k = 3 \/ k = 4 \/ k = 5 \/ k = 6 \/ k = 7 \/ k = 8 \/ k = 9
      OBVIOUS
    <3> QED BY <1>1, <1>7, <1>11, <3>1
  <2> QED BY <1>6, <1>7, <1>9, <1>11, <2>1, <2>2 DEF Borders
<1>13. Values(line, c, m, state, flags)
  <2>1. ASSUME NEW k \in 1 .. 5
        PROVE  line[m + 2 * k + 6] = Entries[k]
    <3>1. k = 1 \/ k = 2 \/ k = 3 \/ k = 4 \/ k = 5
      OBVIOUS
    <3> QED BY <1>1, <1>7, <1>11, <3>1
  <2>2. \A i \in 1 .. m : line[i + 3] = c[i]
    <3>1. \A i \in 1 .. m : i + 3 = 3 + i
      BY <1>1
    <3> QED BY <1>5, <3>1
  <2> QED BY <1>6, <1>7, <1>9, <1>11, <2>1, <2>2 DEF Values
<1>14. Text(line, m + 21, Chars)
  <2>1. 3 + m + 18 = m + 21
    BY <1>1
  <2> QED BY <1>5, <2>1
<1>15. ~ IsSpace(line[1]) /\ IsNewline(line[m + 21])
  BY <1>6, <1>7, <1>9, <1>11
<1> QED BY <1>12, <1>13, <1>14, <1>15

LEMMA ChoppedTask ==
  ASSUME NEW c, NEW m, Text(c, m, Chars), NEW state \in Letters, NEW flags \in Digits,
         NEW line, Cat(line, Heading, c, Rest(state, flags)), NEW s, s = Chopped(line)
  PROVE  TaskLine(s, c, m, state, flags)
<1>1. /\ Text(line, m + 21, Chars) /\ ~ IsSpace(line[1]) /\ IsNewline(line[m + 21])
      /\ Borders(line, m) /\ Values(line, c, m, state, flags) /\ m \in Nat
  <2>1. m \in Nat
    BY DEF Text
  <2> QED BY <2>1, LineFrom
<1>2. PICK n \in Nat : n = m + 21 /\ Len(line) = n /\ n > 0
  BY <1>1 DEF Text
<1>3. PICK lead : lead = Skip(line, 1, {" "})
  OBVIOUS
<1>4. lead = 1
  <2>1. PICK P : P = {" "}
    OBVIOUS
  <2>2. lead = Skip(line, 1, P) /\ Len(line) = n
    BY <1>2, <1>3, <2>1
  <2>3. /\ lead \in Nat /\ (lead \in 1 .. n \/ lead = n + 1)
        /\ \A i \in 1 .. n : i < lead => line[i] \in P
    BY <2>2, SkipIs
  <2>4. line[1] \notin P
    BY <1>1, <2>1 DEF IsSpace
  <2> QED BY <1>2, <2>3, <2>4
<1>5. s = SubSeq(line, 1, n - 1)
  BY <1>1, <1>2, <1>3, <1>4 DEF Chopped, IsNewline
<1>6. PICK p \in Nat : p = m + 20 /\ p = n - 1 /\ p <= n /\ p > 0
  BY <1>1, <1>2
<1>7. s \in Seq(Chars) /\ Len(s) = p /\ \A i \in 1 .. p : s[i] = line[i]
  <2>1. \A i \in 1 .. p : line[i] \in Chars
    <3>1. \A i \in 1 .. p : i \in 1 .. n
      BY <1>6
    <3> QED BY <1>1, <1>2, <3>1, ElementOfSeq DEF Text
  <2>2. /\ s \in Seq(Chars)
        /\ Len(s) = IF 1 <= p THEN p - 1 + 1 ELSE 0
        /\ \A i \in 1 .. p - 1 + 1 : s[i] = line[1 + i - 1]
    BY <1>5, <1>6, <2>1, SubSeqProperties
  <2> QED BY <1>6, <2>2
<1>8. DOMAIN s = 1 .. p
  BY <1>7, LenProperties
<1>9. /\ s[1] = line[1] /\ s[2] = line[2] /\ s[3] = line[3] /\ s[m + 4] = line[m + 4]
      /\ s[m + 6] = line[m + 6] /\ s[m + 18] = line[m + 18]
      /\ \A k \in 3 .. 9 : s[m + 2 * k] = line[m + 2 * k]
      /\ \A k \in 2 .. 9 : s[m + 2 * k + 1] = line[m + 2 * k + 1]
      /\ \A i \in 1 .. m : s[i + 3] = line[i + 3]
      /\ \A k \in 1 .. 5 : s[m + 2 * k + 6] = line[m + 2 * k + 6]
  <2>1. /\ 1 \in 1 .. p /\ 2 \in 1 .. p /\ 3 \in 1 .. p /\ m + 4 \in 1 .. p
        /\ m + 6 \in 1 .. p /\ m + 18 \in 1 .. p
        /\ \A k \in 3 .. 9 : m + 2 * k \in 1 .. p
        /\ \A k \in 2 .. 9 : m + 2 * k + 1 \in 1 .. p
        /\ \A i \in 1 .. m : i + 3 \in 1 .. p
        /\ \A k \in 1 .. 5 : m + 2 * k + 6 \in 1 .. p
    BY <1>1, <1>6
  <2> QED BY <1>7, <2>1
<1>10. Borders(s, m)
  BY <1>1, <1>9 DEF Borders
<1>11. Values(s, c, m, state, flags)
  BY <1>1, <1>9 DEF Values
<1>12. Clean(s, p)
  BY <1>1, <1>6, <1>7, <1>8, <1>9 DEF Clean
<1> QED BY <1>6, <1>7, <1>10, <1>11, <1>12 DEF TaskLine

-----------------------------------------------------------------------------
(* Where the fields of a task begin. *)

LEMMA SepFromOne ==
  ASSUME NEW sp, NEW n \in Nat, NEW from \in Nat, NEW x \in from .. n, x \in sp,
         \A i \in from .. n : i < x => i \notin sp
  PROVE  SepFrom(sp, n, from) = x
<1>1. PICK T : T = {i \in from .. n : i \in sp} \cup {n + 1}
  OBVIOUS
<1>2. T \in SUBSET Nat /\ x \in T
  BY <1>1
<1>3. \A y \in T : x <= y
  <2>1. \A y \in T : y \in Nat /\ (y = n + 1 \/ (y \in from .. n /\ y \in sp))
    BY <1>1
  <2> QED BY <2>1
<1>4. Min(T) = x
  BY <1>2, <1>3, MinIsOne
<1> QED BY <1>1, <1>4 DEF SepFrom

LEMMA NextFromOne ==
  ASSUME NEW bl, NEW n \in Nat, NEW y \in Nat, y <= n, y \notin bl
  PROVE  NextFrom(bl, n, y) = y
<1>1. PICK T : T = {i \in y .. n : i \notin bl} \cup {n + 1}
  OBVIOUS
<1>2. T \in SUBSET Nat /\ y \in T
  BY <1>1
<1>3. \A x \in T : y <= x
  BY <1>1
<1>4. Min(T) = y
  BY <1>2, <1>3, MinIsOne
<1> QED BY <1>1, <1>4 DEF NextFrom

LEMMA AfterOne ==
  ASSUME NEW sp, NEW bl, NEW n \in Nat, NEW k, NEW last \in Nat \ {0}, NEW from \in Nat,
         from = IF k = 2 THEN 1 ELSE last + 1,
         NEW x \in from .. n, x \in sp, \A i \in from .. n : i < x => i \notin sp,
         x + 1 <= n, x + 1 \notin bl
  PROVE  After(sp, bl, n, k, last) = x + 1
<1>1. SepFrom(sp, n, from) = x
  BY SepFromOne
<1>2. NextFrom(bl, n, x + 1) = x + 1
  <2>1. x + 1 \in Nat
    OBVIOUS
  <2> QED BY <2>1, NextFromOne
<1>3. ~ (x > n) /\ last # 0
  OBVIOUS
<1> QED BY <1>1, <1>2, <1>3 DEF After

\* No space in a name.
OneWord(c, m) == \A i \in 1 .. m : ~ IsSpace(c[i])

\* The borders of the fields as sets.
Bordered(sp, bl, m) ==
  /\ 1 \notin sp /\ 2 \in sp /\ 3 \notin bl /\ m + 4 \notin sp
  /\ \A k \in 3 .. 9 : m + 2 * k \notin bl
  /\ \A k \in 2 .. 9 : m + 2 * k + 1 \in sp

LEMMA BorderedIs ==
  ASSUME NEW s, NEW m \in Nat, Borders(s, m), NEW n, n = m + 20, NEW sp, sp = Spaces(s, n), NEW bl, bl = Blanks(s, n)
  PROVE  Bordered(sp, bl, m)
<1>1. \A i \in 1 .. n : (i \in sp <=> IsSpace(s[i])) /\ (i \in bl <=> IsBlank(s[i]))
  BY DEF Spaces, Blanks
<1>2. /\ 1 \in 1 .. n /\ 2 \in 1 .. n /\ 3 \in 1 .. n /\ m + 4 \in 1 .. n
      /\ \A k \in 3 .. 9 : m + 2 * k \in 1 .. n
      /\ \A k \in 2 .. 9 : m + 2 * k + 1 \in 1 .. n
  OBVIOUS
<1>3. ~ IsSpace(s[1])
  BY DEF Borders, IsBlank, IsSpace
<1> QED BY <1>1, <1>2, <1>3 DEF Borders, Bordered

LEMMA TaskBegins ==
  ASSUME NEW sp, NEW bl, NEW m \in Nat, NEW n, n = m + 20, Line(sp, bl, n), Bordered(sp, bl, m),
         \A i \in 4 .. m + 3 : i \notin sp
  PROVE  /\ Begin(sp, bl, n, 1) = 1 /\ Begin(sp, bl, n, 2) = 3
         /\ \A k \in 3 .. 9 : Begin(sp, bl, n, k) = m + 2 * k
<1> DEFINE b(k) == Begin(sp, bl, n, k)
<1>1. n \in Nat
  OBVIOUS
<1>2. b(1) = 1
  BY BeginFirst
<1>3. b(2) = 3
  <2>1. b(2) = After(sp, bl, n, 2, b(2 - 1))
    BY BeginStep
  <2>2. After(sp, bl, n, 2, 1) = 2 + 1
    <3>1. 2 \in sp /\ 2 + 1 \notin bl /\ \A i \in 1 .. n : i < 2 => i \notin sp
      BY DEF Bordered
    <3>2. PICK from \in Nat, k \in Nat, last \in Nat \ {0}, x \in Nat : from = 1 /\ k = 2 /\ last = 1 /\ x = 2
      OBVIOUS
    <3>3. /\ from = (IF k = 2 THEN 1 ELSE last + 1) /\ x \in from .. n /\ x \in sp
          /\ \A i \in from .. n : i < x => i \notin sp
          /\ x + 1 <= n /\ x + 1 \notin bl
      BY <1>1, <3>1, <3>2
    <3>4. After(sp, bl, n, k, last) = x + 1
      BY <1>1, <3>2, <3>3, AfterOne
    <3> QED BY <3>2, <3>4
  <2> QED BY <1>2, <2>1, <2>2
<1>4. b(3) = m + 6
  <2>1. b(3) = After(sp, bl, n, 3, b(3 - 1))
    BY BeginStep
  <2>2. After(sp, bl, n, 3, 3) = m + 5 + 1
    <3>1. m + 5 \in sp /\ m + 5 + 1 \notin bl
      <4>1. m + 2 * 2 + 1 \in sp /\ m + 2 * 3 \notin bl
        BY DEF Bordered
      <4>2. m + 2 * 2 + 1 = m + 5 /\ m + 2 * 3 = m + 5 + 1
        OBVIOUS
      <4> QED BY <4>1, <4>2
    <3>2. ASSUME NEW i \in 4 .. n, i < m + 5
          PROVE  i \notin sp
      <4>1. i \in 4 .. m + 3 \/ i = m + 4
        BY <3>2
      <4> QED BY <4>1 DEF Bordered
    <3>3. PICK from \in Nat, k \in Nat, last \in Nat \ {0}, x \in Nat : from = 4 /\ k = 3 /\ last = 3 /\ x = m + 5
      OBVIOUS
    <3>4. /\ from = (IF k = 2 THEN 1 ELSE last + 1) /\ x \in from .. n /\ x \in sp
          /\ \A i \in from .. n : i < x => i \notin sp
          /\ x + 1 <= n /\ x + 1 \notin bl
      BY <1>1, <3>1, <3>2, <3>3
    <3>5. After(sp, bl, n, k, last) = x + 1
      BY <1>1, <3>3, <3>4, AfterOne
    <3> QED BY <3>3, <3>5
  <2>3. m + 5 + 1 = m + 6
    OBVIOUS
  <2> QED BY <1>3, <2>1, <2>2, <2>3
<1>5. ASSUME NEW k \in 4 .. 9, b(k - 1) = m + 2 * (k - 1)
      PROVE  b(k) = m + 2 * k
  <2>1. k \in Nat /\ k > 1
    OBVIOUS
  <2>2. b(k) = After(sp, bl, n, k, b(k - 1))
    BY <2>1, BeginStep
  <2>3. PICK last \in Nat \ {0}, x \in Nat : last = m + 2 * (k - 1) /\ x = last + 1
    OBVIOUS
  <2>4. x \in sp /\ x + 1 \notin bl
    <3>1. PICK j \in 2 .. 9 : j = k - 1
      OBVIOUS
    <3>2. x = m + 2 * j + 1 /\ x + 1 = m + 2 * k /\ k \in 3 .. 9
      BY <2>3, <3>1
    <3> QED BY <3>1, <3>2 DEF Bordered
  <2>5. x \in x .. n /\ x + 1 <= n /\ x + 1 = m + 2 * k /\ k # 2
    BY <2>3
  <2>6. \A i \in x .. n : i < x => i \notin sp
    BY <2>3
  <2>7. x = IF k = 2 THEN 1 ELSE last + 1
    BY <2>3, <2>5
  <2>8. After(sp, bl, n, k, last) = x + 1
    BY <1>1, <2>3, <2>4, <2>5, <2>6, <2>7, AfterOne
  <2> QED BY <1>5, <2>2, <2>3, <2>5, <2>8
<1> HIDE DEF b
<1>6. b(3) = m + 2 * 3
  BY <1>4
<1>7. b(4) = m + 2 * 4
  BY <1>5, <1>6
<1>8. b(5) = m + 2 * 5
  BY <1>5, <1>7
<1>9. b(6) = m + 2 * 6
  BY <1>5, <1>8
<1>10. b(7) = m + 2 * 7
  BY <1>5, <1>9
<1>11. b(8) = m + 2 * 8
  BY <1>5, <1>10
<1>12. b(9) = m + 2 * 9
  BY <1>5, <1>11
<1>13. \A k \in 3 .. 9 : b(k) = m + 2 * k
  <2>1. \A k \in 3 .. 9 : k = 3 \/ k = 4 \/ k = 5 \/ k = 6 \/ k = 7 \/ k = 8 \/ k = 9
    OBVIOUS
  <2> QED BY <1>6, <1>7, <1>8, <1>9, <1>10, <1>11, <1>12, <2>1
<1> QED BY <1>2, <1>3, <1>13 DEF b

-----------------------------------------------------------------------------
(* What taskutil_task_proc_stat makes of the fields. *)

\* A field of one character.
One(f, v) == f # <<>> /\ Len(f) = 1 /\ f[1] = v

LEMMA LongIsNotEmpty ==
  ASSUME NEW f, Len(f) = 1
  PROVE  f # <<>>
OBVIOUS

LEMMA OneIs ==
  ASSUME NEW S, NEW s \in Seq(S), NEW n \in Nat, Len(s) = n, NEW i \in 1 .. n
  PROVE  One(SubSeq(s, i, i), s[i])
<1>1. PICK f : f = SubSeq(s, i, i)
  OBVIOUS
<1>2. \A k \in i .. i : s[k] \in S
  <2>1. \A k \in i .. i : k \in 1 .. n
    OBVIOUS
  <2> QED BY <2>1, ElementOfSeq
<1>3. /\ f \in Seq(S) /\ Len(f) = IF i <= i THEN i - i + 1 ELSE 0
      /\ \A k \in 1 .. i - i + 1 : f[k] = s[i + k - 1]
  <2>1. i \in Int /\ i \in Nat
    OBVIOUS
  <2> QED BY <1>1, <1>2, <2>1, SubSeqProperties
<1>4. Len(f) = 1 /\ f[1] = s[i]
  BY <1>3
<1>5. f # <<>>
  BY <1>4, LongIsNotEmpty
<1> QED BY <1>1, <1>4, <1>5 DEF One

\* What taskutil_task_proc_stat calls a state.
NameOf(state) == IF state \in DOMAIN States THEN States[state] ELSE "UNKNOW"

LEMMA OneReads ==
  ASSUME NEW f, NEW v, One(f, v)
  PROVE  /\ v \in Digits => atoi(f) = v
         /\ StateOf(f) = NameOf(v)
BY DEF One, atoi, StateOf, NameOf

\* The name in its parentheses.
Wrapped(f, c, m) ==
  /\ f \in Seq(Chars) /\ Len(f) = m + 2 /\ f[m + 2] = ")"
  /\ \A i \in 1 .. m : f[i + 1] = c[i]

LEMMA CommIs ==
  ASSUME NEW c, NEW m, Text(c, m, Chars), NEW f, Wrapped(f, c, m)
  PROVE  CommOf(f) = c
<1>1. m \in Nat /\ c \in Seq(Chars) /\ Len(c) = m
  BY DEF Text
<1>2. f \in Seq(Chars) /\ Len(f) = m + 2
  BY DEF Wrapped
<1>3. f # <<>>
  BY <1>1, <1>2, EmptySeq
<1>4. PICK g : g = Tail(f)
  OBVIOUS
<1>5. /\ g \in Seq(Chars) /\ Len(g) = Len(f) - 1
      /\ \A i \in 1 .. Len(g) : g[i] = f[i + 1]
  BY <1>2, <1>3, <1>4, HeadTailProperties
<1>6. PICK p \in Nat : p = m + 1
  BY <1>1
<1>7. Len(g) = p /\ \A i \in 1 .. p : g[i] = f[i + 1]
  BY <1>1, <1>2, <1>5, <1>6
<1>8. g # <<>> /\ Last(g) = ")"
  <2>1. g # <<>>
    BY <1>1, <1>5, <1>6, <1>7, EmptySeq
  <2>2. g[p] = f[m + 2]
    <3>1. p \in 1 .. p /\ p + 1 = m + 2
      BY <1>1, <1>6
    <3> QED BY <1>7, <3>1
  <2>3. f[m + 2] = ")"
    BY DEF Wrapped
  <2> QED BY <1>7, <2>1, <2>2, <2>3 DEF Last
<1>9. Front(g) = SubSeq(g, 1, m)
  <2>1. Len(g) - 1 = m
    BY <1>1, <1>6, <1>7
  <2> QED BY <2>1 DEF Front
<1>10. SubSeq(g, 1, m) = c
  <2>1. PICK h : h = SubSeq(g, 1, m)
    OBVIOUS
  <2>2. \A k \in 1 .. m : g[k] \in Chars
    <3>1. \A k \in 1 .. m : k \in 1 .. p
      BY <1>1, <1>6
    <3> QED BY <1>5, <1>7, <3>1, ElementOfSeq
  <2>3. /\ h \in Seq(Chars) /\ Len(h) = IF 1 <= m THEN m - 1 + 1 ELSE 0
        /\ \A k \in 1 .. m - 1 + 1 : h[k] = g[1 + k - 1]
    BY <1>1, <2>1, <2>2, SubSeqProperties
  <2>4. Len(h) = m /\ \A k \in 1 .. m : h[k] = g[k]
    BY <1>1, <2>3
  <2>5. \A k \in 1 .. m : g[k] = c[k]
    <3>1. \A k \in 1 .. m : k \in 1 .. p
      BY <1>1, <1>6
    <3>2. \A k \in 1 .. m : f[k + 1] = c[k]
      BY DEF Wrapped
    <3> QED BY <1>7, <3>1, <3>2
  <2>6. h = c
    BY <1>1, <2>3, <2>4, <2>5, SeqEqual
  <2> QED BY <2>1, <2>6
<1> QED BY <1>4, <1>8, <1>9, <1>10 DEF CommOf

\* The fields of the line of a task.
TaskFields(field, c, m, state, flags) ==
  /\ Wrapped(field[2], c, m) /\ One(field[3], state) /\ One(field[9], flags)
  /\ \A k \in 1 .. 5 : One(field[k + 3], Entries[k])

LEMMA SeparatorOne ==
  ASSUME NEW s, NEW n \in Nat, Len(s) = n, NEW from \in Nat, from > 0, NEW x \in from .. n, IsSpace(s[x]),
         \A i \in from .. n : i < x => ~ IsSpace(s[i])
  PROVE  Separator(s, from) = x
<1>1. PICK sp : sp = Spaces(s, n)
  OBVIOUS
<1>2. \A i \in from .. n : i \in sp <=> IsSpace(s[i])
  <2>1. \A i \in from .. n : i \in 1 .. n
    OBVIOUS
  <2> QED BY <1>1, <2>1 DEF Spaces
<1>3. x \in sp /\ \A i \in from .. n : i < x => i \notin sp
  BY <1>2
<1>4. SepFrom(sp, n, from) = x
  BY <1>3, SepFromOne
<1> QED BY <1>1, <1>4, SeparatorIs

LEMMA FirstField ==
  ASSUME NEW s, NEW c, NEW m, NEW state, NEW flags, m \in Nat, TaskLine(s, c, m, state, flags)
  PROVE  One(FieldAt(s, 1), "1")
<1>1. /\ s \in Seq(Chars) /\ Len(s) = m + 20 /\ ~ IsBlank(s[1]) /\ IsSpace(s[2]) /\ s[1] = "1"
  BY DEF TaskLine, Clean, Borders, Values
<1>2. PICK n \in Nat, from \in Nat, x \in Nat : n = m + 20 /\ from = 1 /\ x = 2
  OBVIOUS
<1>3. Len(s) = n /\ x \in from .. n /\ from > 0 /\ IsSpace(s[x]) /\ ~ IsSpace(s[1])
  <2>1. ~ IsSpace(s[1])
    BY <1>1 DEF IsBlank, IsSpace
  <2> QED BY <1>1, <1>2, <2>1
<1>4. \A i \in from .. n : i < x => ~ IsSpace(s[i])
  BY <1>2, <1>3
<1>5. Separator(s, from) = x
  BY <1>2, <1>3, <1>4, SeparatorOne
<1>6. FieldAt(s, 1) = SubSeq(s, 1, 1)
  BY <1>2, <1>5 DEF FieldAt
<1>7. One(SubSeq(s, 1, 1), s[1])
  <2>1. 1 \in 1 .. n
    BY <1>2
  <2> QED BY <1>1, <1>2, <1>3, <2>1, OneIs
<1> QED BY <1>1, <1>6, <1>7

LEMMA OneField ==
  ASSUME NEW s, NEW c, NEW m, NEW state, NEW flags, m \in Nat, TaskLine(s, c, m, state, flags),
         NEW k \in 3 .. 9
  PROVE  One(FieldAt(s, m + 2 * k), s[m + 2 * k])
<1>1. s \in Seq(Chars) /\ Len(s) = m + 20 /\ ~ IsBlank(s[m + 2 * k]) /\ IsSpace(s[m + 2 * k + 1])
  BY DEF TaskLine, Clean, Borders
<1>2. PICK n \in Nat, from \in Nat : n = m + 20 /\ from = m + 2 * k
  OBVIOUS
<1>3. Len(s) = n /\ from + 1 \in from .. n /\ from > 0 /\ from \in 1 .. n /\ IsSpace(s[from + 1]) /\ ~ IsSpace(s[from])
  <2>1. ~ IsSpace(s[m + 2 * k])
    BY <1>1 DEF IsBlank, IsSpace
  <2> QED BY <1>1, <1>2, <2>1
<1>4. \A i \in from .. n : i < from + 1 => ~ IsSpace(s[i])
  <2>1. \A i \in from .. n : i < from + 1 => i = from
    OBVIOUS
  <2> QED BY <1>3, <2>1
<1>5. Separator(s, from) = from + 1
  BY <1>3, <1>4, SeparatorOne
<1>6. FieldAt(s, from) = SubSeq(s, from, from)
  <2>1. from + 1 - 1 = from /\ from # 0
    BY <1>3
  <2> QED BY <1>5, <2>1 DEF FieldAt
<1>7. One(SubSeq(s, from, from), s[from])
  BY <1>1, <1>3, OneIs
<1> QED BY <1>2, <1>6, <1>7

LEMMA CommField ==
  ASSUME NEW s, NEW c, NEW m, NEW state, NEW flags, m \in Nat, TaskLine(s, c, m, state, flags), OneWord(c, m)
  PROVE  Wrapped(FieldAt(s, 3), c, m)
<1>1. s \in Seq(Chars) /\ Len(s) = m + 20 /\ ~ IsBlank(s[3]) /\ ~ IsSpace(s[m + 4])
  BY DEF TaskLine, Clean, Borders
<1>2. IsSpace(s[m + 5])
  <2>1. IsSpace(s[m + 2 * 2 + 1])
    BY DEF TaskLine, Borders
  <2>2. m + 2 * 2 + 1 = m + 5
    OBVIOUS
  <2> QED BY <2>1, <2>2
<1>3. s[m + 4] = ")" /\ \A i \in 1 .. m : s[i + 3] = c[i]
  BY DEF TaskLine, Values
<1>4. PICK n \in Nat, from \in Nat, x \in Nat : n = m + 20 /\ from = 3 /\ x = m + 5
  OBVIOUS
<1>5. \A i \in 4 .. m + 3 : ~ IsSpace(s[i])
  <2>1. ASSUME NEW i \in 4 .. m + 3
        PROVE  ~ IsSpace(s[i])
    <3>1. PICK j \in 1 .. m : j = i - 3 /\ j + 3 = i
      OBVIOUS
    <3> QED BY <1>3, <3>1 DEF OneWord
  <2> QED BY <2>1
<1>6. \A i \in from .. n : i < x => ~ IsSpace(s[i])
  <2>1. ~ IsSpace(s[3])
    BY <1>1 DEF IsBlank, IsSpace
  <2>2. \A i \in from .. n : i < x => i = 3 \/ i \in 4 .. m + 3 \/ i = m + 4
    BY <1>4
  <2> QED BY <1>1, <1>5, <2>1, <2>2
<1>7. Len(s) = n /\ x \in from .. n /\ from > 0 /\ IsSpace(s[x])
  BY <1>1, <1>2, <1>4
<1>8. Separator(s, from) = x
  BY <1>6, <1>7, SeparatorOne
<1>9. PICK f : f = SubSeq(s, 3, m + 4)
  OBVIOUS
<1>10. FieldAt(s, 3) = f
  <2>1. x - 1 = m + 4 /\ from # 0
    BY <1>4
  <2> QED BY <1>4, <1>8, <1>9, <2>1 DEF FieldAt
<1>11. /\ f \in Seq(Chars) /\ Len(f) = IF 3 <= m + 4 THEN m + 4 - 3 + 1 ELSE 0
       /\ \A k \in 1 .. m + 4 - 3 + 1 : f[k] = s[3 + k - 1]
  <2>1. \A k \in 3 .. m + 4 : s[k] \in Chars
    <3>1. \A k \in 3 .. m + 4 : k \in 1 .. n
      BY <1>4
    <3> QED BY <1>1, <1>7, <3>1, ElementOfSeq
  <2>2. 3 \in Int /\ m + 4 \in Int
    OBVIOUS
  <2> QED BY <1>9, <2>1, <2>2, SubSeqProperties
<1>12. Len(f) = m + 2 /\ \A k \in 1 .. m + 2 : f[k] = s[k + 2]
  <2>1. \A k \in 1 .. m + 2 : k \in 1 .. m + 4 - 3 + 1 /\ 3 + k - 1 = k + 2
    OBVIOUS
  <2>2. (IF 3 <= m + 4 THEN m + 4 - 3 + 1 ELSE 0) = m + 2
    OBVIOUS
  <2> QED BY <1>11, <2>1, <2>2
<1>13. f[m + 2] = ")"
  <2>1. m + 2 \in 1 .. m + 2 /\ m + 2 + 2 = m + 4
    OBVIOUS
  <2> QED BY <1>3, <1>12, <2>1
<1>14. \A i \in 1 .. m : f[i + 1] = c[i]
  <2>1. \A i \in 1 .. m : i + 1 \in 1 .. m + 2 /\ i + 1 + 2 = i + 3
    OBVIOUS
  <2> QED BY <1>3, <1>12, <2>1
<1> QED BY <1>10, <1>11, <1>12, <1>13, <1>14 DEF Wrapped

LEMMA FieldsOfTask ==
  ASSUME NEW s, NEW c, NEW m, NEW state, NEW flags, m \in Nat, TaskLine(s, c, m, state, flags),
         NEW start, start = Starts(s, 9), NEW field, AreFields(field, s, 9, start)
  PROVE  /\ One(field[1], "1")
         /\ OneWord(c, m) => TaskFields(field, c, m, state, flags)
<1>1. PICK n \in Nat : n = m + 20
  OBVIOUS
<1>2. /\ Clean(s, n) /\ Borders(s, m) /\ Values(s, c, m, state, flags)
      /\ n > 0 /\ ~ IsSpace(s[1])
  BY <1>1 DEF TaskLine, Clean
<1>3. PICK sp, bl : sp = Spaces(s, n) /\ bl = Blanks(s, n)
  OBVIOUS
<1>4. Line(sp, bl, n) /\ Bordered(sp, bl, m)
  BY <1>1, <1>2, <1>3, LineIs, BorderedIs
<1>5. PICK q \in Nat : q = 9
  OBVIOUS
<1>6. \A k \in 1 .. 9 : start[k] = Begin(sp, bl, n, k) /\ field[k] = FieldAt(s, start[k])
  <2>1. \A k \in 1 .. q : start[k] = Begin(sp, bl, n, k)
    BY <1>2, <1>3, <1>5, StartIsBegin
  <2>2. \A k \in 1 .. 9 : field[k] = FieldAt(s, start[k])
    BY FieldsAreIs
  <2> QED BY <1>5, <2>1, <2>2
<1>7. One(field[1], "1")
  <2>1. Begin(sp, bl, n, 1) = 1
    BY <1>4, BeginFirst
  <2>2. field[1] = FieldAt(s, 1)
    BY <1>6, <2>1
  <2> QED BY <2>2, FirstField
<1>8. ASSUME OneWord(c, m)
      PROVE  TaskFields(field, c, m, state, flags)
  <2>1. \A i \in 4 .. m + 3 : i \notin sp
    <3>1. ASSUME NEW i \in 4 .. m + 3
          PROVE  i \notin sp
      <4>1. PICK j \in 1 .. m : j = i - 3 /\ j + 3 = i
        OBVIOUS
      <4>2. s[i] = c[j]
        BY <1>2, <4>1 DEF Values
      <4>3. ~ IsSpace(s[i])
        BY <1>8, <4>2 DEF OneWord
      <4> QED BY <1>3, <4>3 DEF Spaces
    <3> QED BY <3>1
  <2>2. Begin(sp, bl, n, 2) = 3 /\ \A k \in 3 .. 9 : Begin(sp, bl, n, k) = m + 2 * k
    BY <1>1, <1>4, <2>1, TaskBegins
  <2>3. field[2] = FieldAt(s, 3)
    BY <1>6, <2>2
  <2>4. Wrapped(field[2], c, m)
    BY <1>8, <2>3, CommField
  <2>5. \A k \in 3 .. 9 : One(field[k], s[m + 2 * k])
    <3>1. ASSUME NEW k \in 3 .. 9
          PROVE  One(field[k], s[m + 2 * k])
      <4>1. k \in 1 .. 9
        OBVIOUS
      <4>2. field[k] = FieldAt(s, m + 2 * k)
        BY <1>6, <2>2, <4>1
      <4>3. One(FieldAt(s, m + 2 * k), s[m + 2 * k])
        BY OneField
      <4> QED BY <4>2, <4>3
    <3> QED BY <3>1
  <2>6. One(field[3], state) /\ One(field[9], flags)
    <3>1. m + 2 * 3 = m + 6 /\ m + 2 * 9 = m + 18 /\ 3 \in 3 .. 9 /\ 9 \in 3 .. 9
      OBVIOUS
    <3>2. s[m + 6] = state /\ s[m + 18] = flags
      BY <1>2 DEF Values
    <3> QED BY <2>5, <3>1, <3>2
  <2>7. ASSUME NEW k \in 1 .. 5
        PROVE  One(field[k + 3], Entries[k])
    <3>1. k + 3 \in 3 .. 9 /\ m + 2 * (k + 3) = m + 2 * k + 6
      OBVIOUS
    <3>2. s[m + 2 * k + 6] = Entries[k]
      BY <1>2 DEF Values
    <3> QED BY <2>5, <3>1, <3>2
  <2> QED BY <2>4, <2>6, <2>7 DEF TaskFields
<1> QED BY <1>7, <1>8

\* What the function returns for them.
LEMMA StatOfFields ==
  ASSUME NEW field, NEW c, NEW m, NEW state \in Letters, NEW flags \in Digits, Text(c, m, Chars),
         One(field[1], "1"), TaskFields(field, c, m, state, flags)
  PROVE  /\ CommOf(field[2]) = c /\ StateOf(field[3]) = NameOf(state)
         /\ [k \in 1 .. 5 |-> atoi(field[k + 3])] = Entries /\ atoi(field[9]) = flags
<1>1. CommOf(field[2]) = c
  BY CommIs DEF TaskFields
<1>2. StateOf(field[3]) = NameOf(state) /\ atoi(field[9]) = flags
  BY OneReads DEF TaskFields
<1>3. \A k \in 1 .. 5 : Entries[k] \in Digits
  <2>1. /\ Entries[1] \in Digits /\ Entries[2] \in Digits /\ Entries[3] \in Digits
        /\ Entries[4] \in Digits /\ Entries[5] \in Digits
    BY DEF Entries, Digits
  <2>2. \A k \in 1 .. 5 : k = 1 \/ k = 2 \/ k = 3 \/ k = 4 \/ k = 5
    OBVIOUS
  <2> QED BY <2>1, <2>2
<1>4. \A k \in 1 .. 5 : atoi(field[k + 3]) = Entries[k]
  BY <1>3, OneReads DEF TaskFields
<1>5. Entries = [k \in 1 .. 5 |-> Entries[k]]
  BY DEF Entries
<1>6. [k \in 1 .. 5 |-> atoi(field[k + 3])] = Entries
  BY <1>4, <1>5
<1> QED BY <1>1, <1>2, <1>6

\* No space in a name, as the property says it.
NoSpace(c) == ~ Contains(c, " ")

LEMMA NoSpaceIs ==
  ASSUME NEW c, NEW m, Text(c, m, STRING), NoSpace(c)
  PROVE  OneWord(c, m)
<1>1. Len(c) = m /\ m \in Nat
  BY DEF Text
<1>2. ASSUME NEW i \in 1 .. m, IsSpace(c[i])
      PROVE  FALSE
  BY <1>1, <1>2 DEF IsSpace, Contains, NoSpace
<1> QED BY <1>2 DEF OneWord

\* taskutil_task_proc_stat and taskutil_kernel_task (fcp_proc.c:143-248) get
\* the pid of any task right, and all of the rest of a task whose name has no
\* space.
THEOREM StatIsTasksAlways == QuerySpec => []StatIsTasks
<1>1. ASSUME call.fn = "stat", call.in \in Legal["stat"]
      PROVE  StatIsTasks
  <2>1. PICK task : task = call.in
    OBVIOUS
  <2>2. PICK c, state, flags : c = task.comm /\ state = task.state /\ flags = task.flags
    OBVIOUS
  <2>3. c \in Seq(STRING) /\ state \in Letters /\ flags \in Digits
    <3>1. c \in Seq(STRING \ {"\n"}) /\ state \in Letters /\ flags \in Digits
      BY <1>1, <2>1, <2>2 DEF Legal, Letters
    <3>2. STRING \ {"\n"} \subseteq STRING
      OBVIOUS
    <3> QED BY <3>1, <3>2, SeqMonotonic
  <2>4. PICK m : m = Len(c) /\ Text(c, m, STRING) /\ Text(c, m, Chars) /\ m \in Nat
    <3>1. STRING \subseteq Chars
      BY DEF Chars
    <3>2. c \in Seq(Chars) /\ Len(c) \in Nat
      BY <2>3, <3>1, SeqMonotonic, LenProperties
    <3> QED BY <2>3, <3>2 DEF Text
  <2>5. PICK line : line = StatLine(task)
    OBVIOUS
  <2>6. Cat(line, Heading, c, Rest(state, flags))
    BY <2>2, <2>5 DEF StatLine, Cat, Heading, Rest
  <2>7. PICK s : s = Chopped(line)
    OBVIOUS
  <2>8. TaskLine(s, c, m, state, flags)
    BY <2>3, <2>4, <2>6, <2>7, ChoppedTask
  <2>9. PICK start : start = Starts(s, 9)
    OBVIOUS
  <2>10. PICK field : field = general_get_field(line, 9)
    OBVIOUS
  <2>11. AreFields(field, s, 9, start)
    <3>1. s # <<>>
      <4>1. Len(s) = m + 20
        BY <2>8 DEF TaskLine, Clean
      <4>2. Len(<<>>) = 0
        OBVIOUS
      <4> QED BY <2>4, <4>1, <4>2
    <3> QED BY <2>7, <2>9, <2>10, <3>1 DEF general_get_field, AreFields, FieldAt
  <2>12. One(field[1], "1") /\ (OneWord(c, m) => TaskFields(field, c, m, state, flags))
    BY <2>4, <2>8, <2>9, <2>11, FieldsOfTask
  <2>13. PICK stat : stat = taskutil_task_proc_stat(line)
    OBVIOUS
  <2>14. stat = [pid |-> atoi(field[1]), comm |-> CommOf(field[2]), state |-> StateOf(field[3]),
                 ids |-> [k \in 1 .. 5 |-> atoi(field[k + 3])], flags |-> atoi(field[9])]
    BY <2>10, <2>13 DEF taskutil_task_proc_stat
  <2>15. atoi(field[1]) = "1"
    <3>1. "1" \in Digits
      BY DEF Digits
    <3> QED BY <2>12, <3>1, OneReads
  <2>16. stat.pid = "1"
    BY <2>14, <2>15
  <2>17. ASSUME NoSpace(c)
         PROVE  stat = [pid |-> "1", comm |-> c, state |-> NameOf(state), ids |-> Entries, flags |-> flags]
    <3>1. OneWord(c, m)
      BY <2>4, <2>17, NoSpaceIs
    <3>2. /\ CommOf(field[2]) = c /\ StateOf(field[3]) = NameOf(state)
          /\ [k \in 1 .. 5 |-> atoi(field[k + 3])] = Entries /\ atoi(field[9]) = flags
      BY <2>3, <2>4, <2>12, <3>1, StatOfFields
    <3> QED BY <2>14, <2>15, <3>2
  <2>18. ASSUME NoSpace(c)
         PROVE  taskutil_kernel_task(line) <=> flags = PF_KTHREAD
    <3>1. stat.flags = flags
      BY <2>17, <2>18
    <3> QED BY <2>13, <3>1 DEF taskutil_kernel_task
  <2>19. Entries = <<"2", "3", "4", "5", "6">>
    BY DEF Entries
  <2> QED BY <2>1, <2>2, <2>5, <2>13, <2>16, <2>17, <2>18, <2>19 DEF StatIsTasks, NoSpace, NameOf
<1>2. "stat" \in DOMAIN Legal
  BY DEF Legal
<1>3. Legally => StatIsTasks
  BY <1>1, <1>2 DEF Legally, StatIsTasks
<1> QED BY <1>3, AskedIsLegal, PTL

-----------------------------------------------------------------------------
(* What the other answers are, one by one. *)

\* The test of file_execute_type that judge_file_type would decide is never true.
LEMMA ExecutableAnswer ==
  ASSUME NEW f \in Legal["exec"]
  PROVE  ExecutableIs(f)
<1>1. f \in [mode : Nat \cup {NoMode}, size : Nat, head : STRING, etype : STRING]
  BY DEF Legal
<1> SUFFICES ASSUME f.mode # NoMode, f.size >= 52, f.head = "ELF", f.etype \in ElfTypes
             PROVE  file_execute_type(f) = f.etype /\ taskutil_elf_type(f) = f.etype
  BY DEF ExecutableIs
<1>2. ~ judge_file_type(f.mode, S_IFREG)
  BY DEF judge_file_type, S_IFMT, S_IFREG
<1>3. f.size # 0
  BY <1>1
<1>4. f.head \notin {"bash", "sh"} /\ f.head # "python"
  OBVIOUS
<1>5. file_execute_type(f) = f.etype
  BY <1>2, <1>3, <1>4 DEF file_execute_type
<1> QED BY <1>5 DEF taskutil_elf_type

\* The number is in the word asked for, or in the one before a name.
Numbered(words, k, name, number) ==
  /\ k <= Len(words) /\ words[1].name = name
  /\ IF words[k].number = 0 /\ k > 2 THEN words[k - 1].number = number
     ELSE words[k].number = number

LEMMA VersionIs ==
  ASSUME NEW words, NEW k \in Nat, NEW name, NEW number, Numbered(words, k, name, number),
         Len(words) \in Nat
  PROVE  general_os_version_con(words, k) = <<name, number>>
<1>1. ~ (Len(words) < k)
  BY DEF Numbered
<1>2. CASE words[k].number = 0 /\ k > 2
  BY <1>1, <1>2 DEF general_os_version_con, Numbered
<1>3. CASE ~ (words[k].number = 0 /\ k > 2)
  BY <1>1, <1>3 DEF general_os_version_con, Numbered
<1> QED BY <1>2, <1>3

LEMMA ReleaseAnswer ==
  ASSUME NEW name, NEW number \in Nat, NEW layout \in {"long", "short", "issue"}
  PROVE  ReleaseIs(name, number, layout)
<1>1. PICK first, linux, release, version, core, final, lts :
        /\ first = Word(name, 0) /\ linux = Word("linux", 0) /\ release = Word("release", 0)
        /\ version = Word("", number) /\ core = Word("(core)", 0)
        /\ final = Word("(final)", 0) /\ lts = Word("lts", 0)
  OBVIOUS
<1>2. first.name = name /\ release.number = 0 /\ final.number = 0 /\ version.number = number
  BY <1>1 DEF Word
<1> DEFINE long == <<first, linux, release, version, core>>
           short == <<first, release, version, final>>
           issue == <<first, version, lts>>
<1>3. Numbered(long, 4, name, number) /\ Len(long) = 5
  BY <1>2 DEF Numbered
<1>4. Numbered(short, 4, name, number) /\ Len(short) = 4
  BY <1>2 DEF Numbered
<1>5. Numbered(issue, 2, name, number) /\ Len(issue) = 3
  BY <1>2 DEF Numbered
<1>6. ReleaseIs(name, number, layout) <=>
        (CASE layout = "long" -> general_os_version(long, issue)
           [] layout = "short" -> general_os_version(short, issue)
           [] layout = "issue" -> general_os_version(NULL, issue))
        = (CASE name = "ubuntu" /\ number = 18 -> "UBUNTU18"
             [] name = "centos" /\ number = 7 -> "CENTOS7"
             [] name = "centos" /\ number = 6 -> "CENTOS6"
             [] OTHER -> "-1")
  BY <1>1 DEF ReleaseIs
<1> HIDE DEF long, short, issue
<1>7. /\ general_os_version_con(long, 4) = <<name, number>>
      /\ general_os_version_con(short, 4) = <<name, number>>
      /\ general_os_version_con(issue, 2) = <<name, number>>
  <2>1. PICK four \in Nat, two \in Nat : four = 4 /\ two = 2
    OBVIOUS
  <2> QED BY <1>3, <1>4, <1>5, <2>1, VersionIs
<1>8. long # NULL /\ short # NULL /\ issue # NULL
  <2>1. Len(NULL) = 1
    BY DEF NULL
  <2> QED BY <1>3, <1>4, <1>5, <2>1
\* The version found, whatever the layout.
<1> DEFINE v == <<name, number>>
<1>9. /\ (IF long # NULL THEN general_os_version_con(long, 4)
          ELSE IF issue # NULL THEN general_os_version_con(issue, 2) ELSE NULL) = v
      /\ (IF short # NULL THEN general_os_version_con(short, 4)
          ELSE IF issue # NULL THEN general_os_version_con(issue, 2) ELSE NULL) = v
      /\ (IF NULL # NULL THEN general_os_version_con(NULL, 4)
          ELSE IF issue # NULL THEN general_os_version_con(issue, 2) ELSE NULL) = v
  BY <1>7, <1>8
<1>10. /\ (v = <<"ubuntu", 18>>) = (name = "ubuntu" /\ number = 18)
       /\ (v = <<"centos", 7>>) = (name = "centos" /\ number = 7)
       /\ (v = <<"centos", 6>>) = (name = "centos" /\ number = 6)
  OBVIOUS
<1> HIDE DEF v
<1> DEFINE Answer == CASE name = "ubuntu" /\ number = 18 -> "UBUNTU18"
                      [] name = "centos" /\ number = 7 -> "CENTOS7"
                      [] name = "centos" /\ number = 6 -> "CENTOS6"
                      [] OTHER -> "-1"
           Seen == CASE v = <<"ubuntu", 18>> -> "UBUNTU18"
                    [] v = <<"centos", 7>> -> "CENTOS7"
                    [] v = <<"centos", 6>> -> "CENTOS6"
                    [] OTHER -> "-1"
<1>11. /\ general_os_version(long, issue) = Answer
       /\ general_os_version(short, issue) = Answer
       /\ general_os_version(NULL, issue) = Answer
  <2>1. Seen = Answer
    BY <1>10, Zenon
  <2>2. general_os_version(long, issue) = Seen
    BY <1>9, Zenon DEF general_os_version
  <2>3. general_os_version(short, issue) = Seen
    BY <1>9, Zenon DEF general_os_version
  <2>4. general_os_version(NULL, issue) = Seen
    BY <1>9, Zenon DEF general_os_version
  <2> QED BY <2>1, <2>2, <2>3, <2>4
<1> HIDE DEF Answer
<1> QED BY <1>6, <1>11 DEF Answer

\* A part of a text: its length and its places.
SubText(t, s, i, j, k) == k \in Nat /\ Len(t) = k /\ k = j - i /\ \A p \in 1 .. k : t[p] = s[i + p]

LEMMA SubTextIs ==
  ASSUME NEW S, NEW s, NEW n, Text(s, n, S), NEW i \in Nat, NEW j \in i .. n,
         NEW t, t = SubSeq(s, i + 1, j)
  PROVE  Text(t, j - i, S) /\ SubText(t, s, i, j, j - i)
<1>1. \A p \in i + 1 .. j : s[p] \in S
  <2>1. \A p \in 1 .. n : s[p] \in S
    BY ElementOfSeq DEF Text
  <2>2. \A p \in i + 1 .. j : p \in 1 .. n
    BY DEF Text
  <2> QED BY <2>1, <2>2
<1>2. PICK a \in Nat, b \in Nat, k \in Nat : a = i + 1 /\ b = j /\ k = j - i /\ b - a + 1 = k /\ (a <= b <=> k # 0)
  <2>1. j \in Nat /\ i <= j
    BY DEF Text
  <2> QED BY <2>1
<1>3. t = SubSeq(s, a, b) /\ \A p \in a .. b : s[p] \in S
  BY <1>1, <1>2
<1>4. /\ t \in Seq(S)
      /\ Len(t) = IF a <= b THEN b - a + 1 ELSE 0
      /\ \A p \in 1 .. b - a + 1 : t[p] = s[a + p - 1]
  <2>1. PICK u : u = SubSeq(s, a, b)
    OBVIOUS
  <2>2. /\ u \in Seq(S)
        /\ Len(u) = IF a <= b THEN b - a + 1 ELSE 0
        /\ \A p \in 1 .. b - a + 1 : u[p] = s[a + p - 1]
    BY <1>3, <2>1, SubSeqProperties
  <2> QED BY <1>3, <2>1, <2>2
<1>5. Len(t) = k
  BY <1>2, <1>4
<1>6. ASSUME NEW p \in 1 .. k
      PROVE  t[p] = s[i + p]
  <2>1. a + p - 1 = i + p
    BY <1>2
  <2> QED BY <1>2, <1>4, <2>1
<1> QED BY <1>2, <1>4, <1>5, <1>6 DEF Text, SubText

\* The last place whose character is none of P, 0 if there is none.
LastOut(s, n, P, m) ==
  /\ m \in 0 .. n /\ (m > 0 => s[m] \notin P)
  /\ \A i \in 1 .. n : i > m => s[i] \in P

\* The first one, behind the end if there is none.
FirstOut(s, n, P, a) ==
  /\ a \in 1 .. n + 1 /\ (a <= n => s[a] \notin P)
  /\ \A i \in 1 .. n : i < a => s[i] \in P

LEMMA LastOutIs ==
  ASSUME NEW P, NEW s, NEW n \in Nat, Len(s) = n,
         NEW m, m = Max({i \in 1 .. Len(s) : s[i] \notin P} \cup {0})
  PROVE  LastOut(s, n, P, m)
<1>1. PICK T : T = {i \in 1 .. n : s[i] \notin P} \cup {0}
  OBVIOUS
<1>2. T \in SUBSET (0 .. n) /\ T # {} /\ m = Max(T)
  BY <1>1
<1>3. m \in T /\ \A i \in T : m >= i
  BY <1>2, MaxIs
<1>4. m \in 0 .. n /\ (m > 0 => s[m] \notin P)
  BY <1>1, <1>2, <1>3
<1>5. ASSUME NEW i \in 1 .. n, i > m
      PROVE  s[i] \in P
  <2>1. i \notin T
    BY <1>3, <1>4, <1>5
  <2> QED BY <1>1, <2>1
<1> QED BY <1>4, <1>5 DEF LastOut

LEMMA FirstOutIs ==
  ASSUME NEW P, NEW s, NEW n \in Nat, Len(s) = n, NEW a, a = Skip(s, 1, P)
  PROVE  FirstOut(s, n, P, a)
<1>1. /\ a \in Nat /\ (a \in 1 .. n \/ a = n + 1)
      /\ a <= n => s[a] \notin P
      /\ \A i \in 1 .. n : i < a => s[i] \in P
  BY SkipIs
<1>2. a \in 1 .. n + 1
  BY <1>1
<1> QED BY <1>1, <1>2 DEF FirstOut

\* What gen_strim cuts off on both sides is white space, and no more is left.
LEMMA StrimAnswer ==
  ASSUME NEW s \in Seq(STRING)
  PROVE  TrimmedIs(s, gen_strim(s))
<1>1. PICK n \in Nat : n = Len(s) /\ Text(s, n, STRING)
  BY LenProperties DEF Text
<1>2. PICK P : P = Space
  OBVIOUS
<1>3. PICK m : m = Max({i \in 1 .. Len(s) : s[i] \notin P} \cup {0})
  OBVIOUS
<1>4. LastOut(s, n, P, m)
  BY <1>1, <1>3, LastOutIs
<1>5. PICK r : r = SubSeq(s, 1, m)
  OBVIOUS
<1>6. m \in 0 .. n /\ m \in Nat
  BY <1>4 DEF LastOut
<1>7. Text(r, m, STRING) /\ Len(r) = m /\ \A p \in 1 .. m : r[p] = s[p]
  <2>1. PICK zero \in Nat : zero = 0
    OBVIOUS
  <2>2. m \in zero .. n /\ r = SubSeq(s, zero + 1, m)
    BY <1>5, <1>6, <2>1
  <2>3. Text(r, m - zero, STRING) /\ SubText(r, s, zero, m, m - zero)
    BY <1>1, <2>2, SubTextIs
  <2>4. m - zero = m /\ \A p \in 1 .. m : zero + p = p
    BY <1>6, <2>1
  <2> QED BY <2>3, <2>4 DEF SubText
<1>8. PICK a : a = Skip(r, 1, P)
  OBVIOUS
<1>9. FirstOut(r, m, P, a)
  BY <1>6, <1>7, <1>8, FirstOutIs
<1>10. PICK t : t = SubSeq(r, a, m)
  OBVIOUS
<1>11. gen_strim(s) = t
  BY <1>2, <1>3, <1>5, <1>7, <1>8, <1>10 DEF gen_strim, gen_right_strim, gen_left_strim, From
<1>12. PICK i \in Nat : i = a - 1 /\ a = i + 1 /\ i <= m
  BY <1>6, <1>9 DEF FirstOut
<1>13. PICK k \in Nat : k = m - i
  BY <1>6, <1>12
<1>14. Text(t, k, STRING) /\ SubText(t, r, i, m, k)
  <2>1. m \in i .. m /\ t = SubSeq(r, i + 1, m)
    BY <1>6, <1>10, <1>12
  <2>2. Text(t, m - i, STRING) /\ SubText(t, r, i, m, m - i)
    BY <1>7, <2>1, SubTextIs
  <2> QED BY <1>13, <2>2
<1>15. t = SubSeq(s, i + 1, m)
  <2>1. PICK u : u = SubSeq(s, i + 1, m)
    OBVIOUS
  <2>2. Text(u, k, STRING) /\ SubText(u, s, i, m, k)
    <3>1. m \in i .. n
      BY <1>6, <1>12
    <3>2. Text(u, m - i, STRING) /\ SubText(u, s, i, m, m - i)
      BY <1>1, <2>1, <3>1, SubTextIs
    <3> QED BY <1>13, <3>2
  <2>3. \A p \in 1 .. k : t[p] = u[p]
    <3>1. \A p \in 1 .. k : i + p \in 1 .. m
      BY <1>6, <1>12, <1>13
    <3> QED BY <1>7, <1>14, <2>2, <3>1 DEF SubText
  <2>4. t = u
    BY <1>14, <2>2, <2>3, SeqEqual DEF Text
  <2> QED BY <2>1, <2>4
<1>16. /\ \A p \in 1 .. i : s[p] \in P
       /\ \A p \in m + 1 .. n : s[p] \in P
  <2>1. \A p \in 1 .. i : p \in 1 .. m /\ p < a
    BY <1>6, <1>12
  <2>2. \A p \in m + 1 .. n : p \in 1 .. n /\ p > m
    BY <1>6
  <2> QED BY <1>4, <1>7, <1>9, <2>1, <2>2 DEF LastOut, FirstOut
<1>17. ASSUME t # <<>>
       PROVE  t[1] \notin P /\ Last(t) \notin P
  <2>1. k # 0
    <3>1. Len(t) = k /\ t \in Seq(STRING)
      BY <1>14 DEF Text
    <3> QED BY <1>17, <3>1, EmptySeq
  <2>2. i + 1 <= m /\ i + k = m /\ 1 \in 1 .. k /\ k \in 1 .. k /\ m > 0 /\ m \in 1 .. m
    BY <1>6, <1>12, <1>13, <2>1
  <2>3. t[1] = r[a] /\ Last(t) = r[m]
    BY <1>12, <1>14, <2>2 DEF SubText, Last
  <2>4. r[a] \notin P
    BY <1>9, <1>12, <2>2 DEF FirstOut
  <2>5. r[m] = s[m] /\ s[m] \notin P
    BY <1>4, <1>7, <2>2 DEF LastOut
  <2> QED BY <2>3, <2>4, <2>5
<1>18. TrimmedIs(s, t)
  <2>1. i \in 0 .. Len(s) /\ m \in i .. Len(s)
    BY <1>1, <1>6, <1>12
  <2>2. /\ t = SubSeq(s, i + 1, m)
        /\ \A p \in 1 .. i : s[p] \in Space
        /\ \A p \in m + 1 .. Len(s) : s[p] \in Space
    BY <1>1, <1>2, <1>15, <1>16
  <2>3. t # <<>> => t[1] \notin Space /\ Last(t) \notin Space
    BY <1>2, <1>17
  <2> QED BY <2>1, <2>2, <2>3, Zenon DEF TrimmedIs
<1> QED BY <1>11, <1>18

\* The character base ends at begins a component, and no component follows it.
LEMMA ComponentAnswer ==
  ASSUME NEW path \in Seq(STRING), HasComponent(path)
  PROVE  LastComponentIs(path, gen_path_last_component(path))
<1>1. PICK n \in Nat : n = Len(path) /\ DOMAIN path = 1 .. n /\ (n = 0 <=> path = <<>>)
  BY LenProperties, EmptySeq
<1>2. PICK P : P = {"/"}
  OBVIOUS
<1>3. PICK base : base = Skip(path, 1, P)
  OBVIOUS
<1>4. FirstOut(path, n, P, base)
  BY <1>1, <1>3, FirstOutIs
<1>5. base \in Nat /\ base \in 1 .. n + 1
  BY <1>4 DEF FirstOut
<1>6. \A c : c \in P <=> c = "/"
  BY <1>2
<1>7. PICK starts : starts = {p \in base + 1 .. n : path[p] \notin P /\ path[p - 1] \in P}
  OBVIOUS
<1>8. starts = {p \in base + 1 .. Len(path) : path[p] # "/" /\ path[p - 1] = "/"}
  BY <1>1, <1>6, <1>7
<1>9. PICK i : i = Max(starts \cup {base})
  OBVIOUS
<1>10. i \in starts \cup {base} /\ \A p \in starts \cup {base} : i >= p
  <2>1. PICK T : T = starts \cup {base}
    OBVIOUS
  <2>2. PICK top \in Nat : top = n + 1
    OBVIOUS
  <2>3. T \in SUBSET (0 .. top) /\ T # {}
    BY <1>5, <1>7, <2>1, <2>2
  <2>4. Max(T) \in T /\ \A p \in T : Max(T) >= p
    BY <2>3, MaxIs
  <2> QED BY <1>9, <2>1, <2>4
<1>11. i \in Nat /\ i >= base /\ (i = base \/ (i \in base + 1 .. n /\ path[i] \notin P /\ path[i - 1] \in P))
  BY <1>5, <1>7, <1>10
<1>12. PICK t : t = gen_path_last_component(path)
  OBVIOUS
<1>13. path # <<>> => t = From(path, i)
  BY <1>2, <1>3, <1>8, <1>9, <1>12 DEF gen_path_last_component
<1>14. ~ \A p \in 1 .. n : path[p] \in P
  BY <1>1, <1>6 DEF HasComponent
<1>15. LastComponentIs(path, t)
  <2>1. base <= n
    <3>1. PICK p \in 1 .. n : path[p] \notin P
      BY <1>14
    <3>2. ~ (p < base)
      BY <1>4, <3>1 DEF FirstOut
    <3> QED BY <1>5, <3>1, <3>2
  <2>2. i \in 1 .. n /\ path[i] \notin P
    BY <1>4, <1>5, <1>11, <2>1 DEF FirstOut
  <2>3. i = 1 \/ path[i - 1] \in P
    <3>1. CASE i = base /\ i # 1
      <4>1. i - 1 \in 1 .. n /\ i - 1 < base
        BY <2>2, <3>1
      <4> QED BY <1>4, <4>1 DEF FirstOut
    <3> QED BY <1>11, <3>1
  <2>4. ASSUME NEW k \in i .. n - 1, path[k] \in P, path[k + 1] \notin P
        PROVE  FALSE
    <3>1. k + 1 \in base + 1 .. n /\ (k + 1) - 1 = k
      BY <1>5, <1>11, <2>2
    <3>2. k + 1 \in starts
      BY <1>7, <2>4, <3>1
    <3>3. i >= k + 1
      BY <1>10, <3>2
    <3> QED BY <2>2, <3>3
  <2>5. path # <<>>
    BY <1>1, <2>2
  <2>6. /\ i \in DOMAIN path /\ t = From(path, i)
        /\ path[i] # "/" /\ (i = 1 \/ path[i - 1] = "/")
        /\ \A k \in i .. Len(path) - 1 : path[k] = "/" => path[k + 1] = "/"
    BY <1>1, <1>6, <1>13, <2>2, <2>3, <2>4, <2>5
  <2> QED BY <2>6, Zenon DEF LastComponentIs
<1> QED BY <1>12, <1>15

-----------------------------------------------------------------------------
(* The times of the login records. *)

LEMMA MaxOfTimes ==
  ASSUME NEW T, T \subseteq Int, NEW a \in T, \A x \in T : a >= x
  PROVE  Max(T) = a
<1>1. \E m \in T : \A x \in T : m >= x
  OBVIOUS
<1>2. Max(T) \in T /\ \A x \in T : Max(T) >= x
  BY <1>1 DEF Max
<1>3. Max(T) \in Int /\ a \in Int /\ Max(T) >= a /\ a >= Max(T)
  BY <1>2
<1> QED BY <1>3

\* The times of the records at some places of a log in the order of time.
InOrder(log, n) ==
  /\ \A i \in 1 .. n : log[i].time \in Nat
  /\ \A i, j \in 1 .. n : i <= j => log[i].time <= log[j].time

TimesAt(log, places) == {log[i].time : i \in places}

LEMMA LastTime ==
  ASSUME NEW log, NEW n \in Nat, InOrder(log, n), NEW downs, downs \subseteq 1 .. n
  PROVE  (IF downs = {} THEN -1 ELSE log[Max(downs)].time) = Max(TimesAt(log, downs) \cup {-1})
<1>1. PICK T : T = TimesAt(log, downs) \cup {-1}
  OBVIOUS
<1>2. T \subseteq Int
  BY <1>1 DEF TimesAt, InOrder
<1>3. CASE downs = {}
  <2>1. -1 \in T /\ \A x \in T : -1 >= x
    BY <1>1, <1>3 DEF TimesAt
  <2>2. Max(T) = -1
    BY <1>2, <2>1, MaxOfTimes
  <2> QED BY <1>1, <1>3, <2>2
<1>4. CASE downs # {}
  <2>1. PICK m : m = Max(downs)
    OBVIOUS
  <2>2. m \in downs /\ \A i \in downs : m >= i
    <3>1. downs \in SUBSET (0 .. n)
      OBVIOUS
    <3> QED BY <1>4, <2>1, <3>1, MaxIs
  <2>3. PICK a \in Nat : a = log[m].time
    BY <2>2 DEF InOrder
  <2>4. a \in T
    BY <1>1, <2>2, <2>3 DEF TimesAt
  <2>5. ASSUME NEW x \in T
        PROVE  a >= x
    <3>1. CASE x = -1
      BY <2>3, <3>1
    <3>2. CASE x # -1
      <4>1. PICK i \in downs : x = log[i].time
        BY <1>1, <3>2 DEF TimesAt
      <4>2. i <= m /\ i \in 1 .. n /\ m \in 1 .. n
        BY <2>2, <4>1
      <4> QED BY <2>3, <4>1, <4>2 DEF InOrder
    <3> QED BY <3>1, <3>2
  <2>6. Max(T) = a
    BY <1>2, <2>4, <2>5, MaxOfTimes
  <2> QED BY <1>1, <1>4, <2>1, <2>3, <2>6
<1> QED BY <1>3, <1>4

LEMMA FirstTime ==
  ASSUME NEW log, NEW n \in Nat, InOrder(log, n), NEW boots, boots \subseteq 1 .. n
  PROVE  (IF boots = {} THEN -1 ELSE log[Min(boots)].time) =
         IF TimesAt(log, boots) = {} THEN -1 ELSE Min(TimesAt(log, boots))
<1>1. PICK T : T = TimesAt(log, boots)
  OBVIOUS
<1>2. CASE boots = {}
  BY <1>2 DEF TimesAt
<1>3. CASE boots # {}
  <2>1. PICK m : m = Min(boots)
    OBVIOUS
  <2>2. m \in boots /\ \A i \in boots : m <= i
    <3>1. boots \in SUBSET Nat
      OBVIOUS
    <3> QED BY <1>3, <2>1, <3>1, MinIs
  <2>3. PICK a \in Nat : a = log[m].time
    BY <2>2 DEF InOrder
  <2>4. a \in T /\ T \in SUBSET Nat
    BY <1>1, <2>2, <2>3 DEF TimesAt, InOrder
  <2>5. ASSUME NEW x \in T
        PROVE  a <= x
    <3>1. PICK i \in boots : x = log[i].time
      BY <1>1 DEF TimesAt
    <3>2. m <= i /\ i \in 1 .. n /\ m \in 1 .. n
      BY <2>2, <3>1
    <3> QED BY <2>3, <3>1, <3>2 DEF InOrder
  <2>6. Min(T) = a
    BY <2>4, <2>5, MinIsOne
  <2>7. T # {}
    BY <2>4
  <2> QED BY <1>1, <1>3, <2>1, <2>3, <2>6, <2>7
<1> QED BY <1>2, <1>3

LEMMA TimesAnswer ==
  ASSUME NEW log \in Legal["times"]
  PROVE  TimesAre(log)
<1>1. PICK R : R = [user : STRING, type : STRING, time : Nat]
  OBVIOUS
<1>2. log \in Seq(R) /\ \A i, j \in DOMAIN log : i <= j => log[i].time <= log[j].time
  BY <1>1 DEF Legal
<1>3. PICK n \in Nat : n = Len(log) /\ DOMAIN log = 1 .. n
  BY <1>2, LenProperties
<1>4. InOrder(log, n)
  <2>1. \A i \in 1 .. n : log[i] \in R
    BY <1>2, <1>3, ElementOfSeq
  <2>2. \A i \in 1 .. n : log[i].time \in Nat
    BY <1>1, <2>1
  <2> QED BY <1>2, <1>3, <2>2 DEF InOrder
<1>5. PICK downs : downs = {i \in DOMAIN log : log[i].user = "shutdown" /\ log[i].type = "RUN_LVL"}
  OBVIOUS
<1>6. PICK boots : boots = {i \in DOMAIN log : log[i].user = "reboot" /\ log[i].type = "BOOT_TIME"}
  OBVIOUS
<1>7. downs \subseteq 1 .. n /\ boots \subseteq 1 .. n
  BY <1>3, <1>5, <1>6
<1>8. os_info_last_shutdow_time(log) = Max(TimesAt(log, downs) \cup {-1})
  BY <1>4, <1>5, <1>7, LastTime DEF os_info_last_shutdow_time
<1>9. os_info_boot_time(log) =
        IF TimesAt(log, boots) = {} THEN -1 ELSE Min(TimesAt(log, boots))
  BY <1>4, <1>6, <1>7, FirstTime DEF os_info_boot_time
<1> QED BY <1>5, <1>6, <1>8, <1>9, Zenon DEF TimesAre, TimesAt

-----------------------------------------------------------------------------
(* The time of a process: a sum that loses the rest of each division and   *)
(* wraps, followed from thread to thread.                                  *)

Half == 2^(IntBits - 1)

LEMMA HalfIs == Half \in Nat /\ Half > 0 /\ 2^IntBits = Half + Half
<1>1. IntBits - 1 \in Nat /\ (IntBits - 1) + 1 = IntBits
  BY UnitsAssumption
<1>2. PICK n \in Nat : n = IntBits - 1
  BY <1>1
<1>3. 2^n \in Nat \ {0} /\ 2^(n + 1) = 2^n + 2^n
  BY PowerIsCount, PowerDoubles
<1> QED BY <1>1, <1>2, <1>3 DEF Half

\* What is left of a number in an int, and what an int adds to it.
LEMMA ToIntIs ==
  ASSUME NEW x \in Nat
  PROVE  /\ ToInt(x) \in Int
         /\ x < Half => ToInt(x) = x
         /\ \A q \in Nat : ToInt(ToInt(x) + q) = ToInt(x + q)
<1>1. PICK h \in Nat, M \in Nat \ {0} : h = Half /\ M = 2^IntBits /\ M = h + h
  BY HalfIs
<1>2. \A y : ToInt(y) = ((y + h) % M) - h
  BY <1>1 DEF ToInt, Half
<1>3. PICK p \in Nat, r \in 0 .. M - 1 : (x + h) % M = r /\ x + h = M * p + r
  <2>1. x + h \in Nat
    OBVIOUS
  <2> QED BY <2>1, Division
<1>4. ToInt(x) = r - h
  BY <1>2, <1>3
<1>5. x < h => ToInt(x) = x
  <2>1. ASSUME x < h
        PROVE  ToInt(x) = x
    <3>1. x + h \in Nat /\ x + h \in 0 .. M - 1 /\ x + h = M * 0 + (x + h)
      BY <1>1, <2>1
    <3>2. (x + h) % M = x + h
      BY <3>1, DivisionIs
    <3> QED BY <1>2, <3>2
  <2> QED BY <2>1
<1>6. ASSUME NEW q \in Nat
      PROVE  ToInt(ToInt(x) + q) = ToInt(x + q)
  <2>1. PICK a \in Nat, s \in 0 .. M - 1 : (r + q) % M = s /\ r + q = M * a + s
    <3>1. r + q \in Nat
      OBVIOUS
    <3> QED BY <3>1, Division
  <2>2. (x + q) + h = M * (p + a) + s
    <3>1. M * (p + a) = M * p + M * a /\ M * p \in Nat /\ M * a \in Nat
      OBVIOUS
    <3> QED BY <1>3, <2>1, <3>1
  <2>3. ((x + q) + h) % M = s
    <3>1. (x + q) + h \in Nat /\ p + a \in Int
      OBVIOUS
    <3> QED BY <2>2, <3>1, DivisionIs
  <2>4. (ToInt(x) + q) + h = r + q
    BY <1>4
  <2> QED BY <1>2, <2>1, <2>3, <2>4
<1> QED BY <1>1, <1>4, <1>5, <1>6

\* What holds at 0 and is kept by each step holds to the last.
LEMMA StepsTo ==
  ASSUME NEW m \in Nat, NEW S, 0 \in S, \A k \in 1 .. m : k - 1 \in S => k \in S
  PROVE  \A k \in 0 .. m : k \in S
<1> DEFINE Bad == {k \in 0 .. m : k \notin S}
<1>1. SUFFICES ASSUME Bad # {} PROVE FALSE
  OBVIOUS
<1>2. PICK k \in Bad : \A i \in Bad : k <= i
  <2>1. Bad \in SUBSET Nat
    OBVIOUS
  <2> HIDE DEF Bad
  <2> QED BY <1>1, <2>1, LeastIn
<1>3. k \in 0 .. m /\ k \notin S
  OBVIOUS
<1>4. k # 0
  BY <1>3
<1>5. k \in 1 .. m /\ k - 1 \in 0 .. m /\ ~ k <= k - 1
  BY <1>3, <1>4
<1>6. k - 1 \in S
  BY <1>2, <1>5
<1> QED BY <1>3, <1>5, <1>6

\* Of m steps the last is reached: a function recursive in one step exists.
Runs(h, v, V, n, f) == f \in [0 .. n -> V] /\ f[0] = v /\ \A k \in 1 .. n : f[k] = h[k][f[k - 1]]
Reached(h, v, V, n) == \E f : Runs(h, v, V, n, f)

LEMMA RunStep ==
  ASSUME NEW m \in Nat, NEW V, NEW v \in V, NEW h \in [1 .. m -> [V -> V]],
         NEW n \in 1 .. m, Reached(h, v, V, n - 1)
  PROVE  Reached(h, v, V, n)
<1>1. PICK g : Runs(h, v, V, n - 1, g)
  BY DEF Reached
<1>2. g \in [0 .. n - 1 -> V] /\ g[0] = v /\ \A k \in 1 .. n - 1 : g[k] = h[k][g[k - 1]]
  BY <1>1 DEF Runs
<1> DEFINE f == [k \in 0 .. n |-> IF k = n THEN h[n][g[n - 1]] ELSE g[k]]
<1>3. h[n][g[n - 1]] \in V
  BY <1>2, n - 1 \in 0 .. n - 1
<1>4. f \in [0 .. n -> V] /\ f[0] = v
  <2>1. \A k \in 0 .. n : k = n \/ k \in 0 .. n - 1
    OBVIOUS
  <2>2. 0 \in 0 .. n /\ n # 0
    OBVIOUS
  <2> QED BY <1>2, <1>3, <2>1, <2>2
<1>5. ASSUME NEW k \in 1 .. n
      PROVE  f[k] = h[k][f[k - 1]]
  <2>1. k \in 0 .. n /\ k - 1 \in 0 .. n /\ k - 1 # n
    OBVIOUS
  <2>2. f[k - 1] = g[k - 1]
    BY <2>1
  <2>3. CASE k = n
    BY <2>1, <2>2, <2>3
  <2>4. CASE k # n
    <3>1. k \in 1 .. n - 1
      BY <2>4
    <3> QED BY <1>2, <2>1, <2>2, <2>4, <3>1
  <2> QED BY <2>3, <2>4
<1> HIDE DEF f
<1> QED BY <1>4, <1>5 DEF Runs, Reached

LEMMA RunExists ==
  ASSUME NEW m \in Nat, NEW V, NEW v \in V, NEW h \in [1 .. m -> [V -> V]]
  PROVE  Reached(h, v, V, m)
<1> DEFINE S == {n \in 0 .. m : Reached(h, v, V, n)}
           f == [k \in 0 .. 0 |-> v]
<1>1. Runs(h, v, V, 0, f)
  BY DEF Runs
<1> HIDE DEF f
<1>2. Reached(h, v, V, 0)
  BY <1>1 DEF Reached
<1>3. 0 \in S
  BY <1>2
<1>4. ASSUME NEW k \in 1 .. m, k - 1 \in S
      PROVE  k \in S
  <2>1. Reached(h, v, V, k)
    BY <1>4, RunStep
  <2> QED BY <2>1
<1>5. m \in S
  <2> HIDE DEF S
  <2>1. \A k \in 0 .. m : k \in S
    BY <1>3, <1>4, StepsTo
  <2> QED BY <2>1
<1> QED BY <1>5

LEMMA NatTimes == \A a, b \in Nat : a * b \in Nat
OBVIOUS

\* Of a thread less than a millisecond is lost.
LEMMA TimeStep ==
  ASSUME NEW e \in Nat, NEW g \in Nat, NEW k \in Nat, NEW ns \in Nat, NEW q, q = ns \div Unit,
         Unit * e <= g, g <= Unit * (e + k)
  PROVE  /\ q \in Nat
         /\ Unit * (e + q) <= g + ns
         /\ g + ns <= Unit * ((e + q) + (k + 1))
<1>1. PICK U \in Nat \ {0} : U = Unit
  BY UnitsAssumption
<1>2. PICK r \in 0 .. U - 1 : q \in Nat /\ ns = U * q + r
  BY <1>1, Division
<1>3. U * (e + q) = U * e + U * q
  BY <1>2
<1>4. U * ((e + q) + (k + 1)) = (U * (e + k) + U * q) + U
  BY <1>2
<1>5. PICK a \in Nat, b \in Nat, c \in Nat : a = U * e /\ b = U * (e + k) /\ c = U * q
  BY <1>2, NatTimes, e + k \in Nat
<1>6. a <= g /\ g <= b
  BY <1>1, <1>5
<1>7. a + c <= g + ns /\ g + ns <= (b + c) + U
  BY <1>2, <1>5, <1>6
<1> QED BY <1>1, <1>2, <1>3, <1>4, <1>5, <1>7

LEMMA TimeWhole ==
  ASSUME NEW e \in Nat, NEW g \in Nat, NEW n \in Nat, Unit * e <= g, g <= Unit * (e + n),
         NEW x, x = g \div Unit
  PROVE  x \in Nat /\ e <= x /\ x <= e + n
<1>1. PICK U \in Nat \ {0} : U = Unit
  BY UnitsAssumption
<1>2. PICK r \in 0 .. U - 1 : x \in Nat /\ g = U * x + r
  BY <1>1, Division
<1>3. U * (x + 1) = U * x + U /\ U * x \in Nat
  BY <1>2
<1>4. e <= x
  <2>1. SUFFICES ASSUME x + 1 <= e PROVE FALSE
    BY <1>2
  <2>2. U * (x + 1) <= U * e
    BY <1>2, <2>1, TimesMonotone
  <2>3. PICK a \in Nat, b \in Nat : a = U * e /\ b = U * x
    BY <1>2, NatTimes
  <2> QED BY <1>1, <1>2, <1>3, <2>2, <2>3
<1>5. x <= e + n
  <2>1. SUFFICES ASSUME (e + n) + 1 <= x PROVE FALSE
    BY <1>2
  <2>2. U * ((e + n) + 1) <= U * x
    BY <1>2, <2>1, TimesMonotone
  <2>3. U * ((e + n) + 1) = U * (e + n) + U
    OBVIOUS
  <2>4. PICK a \in Nat, b \in Nat : a = U * (e + n) /\ b = U * x
    BY <1>2, NatTimes, e + n \in Nat
  <2> QED BY <1>1, <1>2, <2>2, <2>3, <2>4
<1> QED BY <1>2, <1>4, <1>5

LEMMA ToIntInt ==
  ASSUME NEW y \in Int
  PROVE  ToInt(y) \in Int
<1>1. PICK h \in Nat, M \in Nat \ {0} : h = Half /\ M = 2^IntBits
  BY HalfIs
<1>2. ToInt(y) = ((y + h) % M) - h
  BY <1>1 DEF ToInt, Half
<1>3. (y + h) % M \in Int
  BY <1>1
<1> QED BY <1>2, <1>3

\* The sum of the milliseconds in an int, and the sum of the nanoseconds.
SumStep(ns, x) == IF ns < 0 THEN x ELSE ToInt(x + ns \div Unit)
TotalStep(ns, x) == IF ns < 0 THEN x ELSE x + ns
IsSum(f, t, n) ==
  f = [k \in 0 .. n |-> IF k = 0 THEN 0
                        ELSE IF t[k] < 0 THEN f[k - 1] ELSE ToInt(f[k - 1] + t[k] \div Unit)]
IsTotal(f, t, n) ==
  f = [k \in 0 .. n |-> IF k = 0 THEN 0 ELSE IF t[k] < 0 THEN f[k - 1] ELSE f[k - 1] + t[k]]
TimesOf(t, n) == n \in Nat /\ t \in [1 .. n -> Nat \cup {-1}]

LEMMA SumExists ==
  ASSUME NEW t, NEW n, TimesOf(t, n)
  PROVE  \E f : IsSum(f, t, n)
<1>1. n \in Nat /\ \A k \in 1 .. n : t[k] \in Int
  BY DEF TimesOf
<1> DEFINE h == [k \in 1 .. n |-> [x \in Int |-> SumStep(t[k], x)]]
<1>2. ASSUME NEW k \in 1 .. n, NEW x \in Int
      PROVE  SumStep(t[k], x) \in Int
  <2>1. PICK U \in Nat \ {0} : U = Unit
    BY UnitsAssumption
  <2>2. PICK ns \in Int : ns = t[k]
    BY <1>1
  <2>3. ns \div U \in Int
    OBVIOUS
  <2>4. ToInt(x + ns \div U) \in Int
    BY <2>3, ToIntInt
  <2> QED BY <2>1, <2>2, <2>4 DEF SumStep
<1>3. h \in [1 .. n -> [Int -> Int]]
  BY <1>2
<1>4. \A k \in 1 .. n : \A x \in Int : h[k][x] = SumStep(t[k], x)
  OBVIOUS
<1> HIDE DEF h
<1>5. PICK f \in [0 .. n -> Int] : f[0] = 0 /\ \A k \in 1 .. n : f[k] = h[k][f[k - 1]]
  <2>1. PICK V : V = Int
    OBVIOUS
  <2>2. 0 \in V /\ n \in Nat /\ h \in [1 .. n -> [V -> V]]
    BY <1>1, <1>3, <2>1
  <2>3. PICK zero \in V : zero = 0
    BY <2>2
  <2>4. Reached(h, zero, V, n)
    BY <2>2, RunExists
  <2> QED BY <2>1, <2>3, <2>4 DEF Reached, Runs
<1>6. ASSUME NEW k \in 0 .. n
      PROVE  f[k] = IF k = 0 THEN 0
                    ELSE IF t[k] < 0 THEN f[k - 1] ELSE ToInt(f[k - 1] + t[k] \div Unit)
  <2>1. CASE k = 0
    BY <1>5, <2>1
  <2>2. CASE k # 0
    <3>1. k \in 1 .. n /\ k - 1 \in 0 .. n
      BY <1>1, <2>2
    <3>2. f[k] = SumStep(t[k], f[k - 1])
      BY <1>4, <1>5, <3>1
    <3> QED BY <2>2, <3>2, Zenon DEF SumStep
  <2> QED BY <2>1, <2>2
<1>7. IsSum(f, t, n)
  BY <1>6 DEF IsSum
<1> QED BY <1>7

LEMMA TotalExists ==
  ASSUME NEW t, NEW n, TimesOf(t, n)
  PROVE  \E f : IsTotal(f, t, n)
<1>1. n \in Nat /\ \A k \in 1 .. n : t[k] \in Int
  BY DEF TimesOf
<1> DEFINE h == [k \in 1 .. n |-> [x \in Int |-> TotalStep(t[k], x)]]
<1>2. ASSUME NEW k \in 1 .. n, NEW x \in Int
      PROVE  TotalStep(t[k], x) \in Int
  BY <1>1 DEF TotalStep
<1>3. h \in [1 .. n -> [Int -> Int]]
  BY <1>2
<1>4. \A k \in 1 .. n : \A x \in Int : h[k][x] = TotalStep(t[k], x)
  OBVIOUS
<1> HIDE DEF h
<1>5. PICK f \in [0 .. n -> Int] : f[0] = 0 /\ \A k \in 1 .. n : f[k] = h[k][f[k - 1]]
  <2>1. PICK V : V = Int
    OBVIOUS
  <2>2. 0 \in V /\ n \in Nat /\ h \in [1 .. n -> [V -> V]]
    BY <1>1, <1>3, <2>1
  <2>3. PICK zero \in V : zero = 0
    BY <2>2
  <2>4. Reached(h, zero, V, n)
    BY <2>2, RunExists
  <2> QED BY <2>1, <2>3, <2>4 DEF Reached, Runs
<1>6. ASSUME NEW k \in 0 .. n
      PROVE  f[k] = IF k = 0 THEN 0 ELSE IF t[k] < 0 THEN f[k - 1] ELSE f[k - 1] + t[k]
  <2>1. CASE k = 0
    BY <1>5, <2>1
  <2>2. CASE k # 0
    <3>1. k \in 1 .. n /\ k - 1 \in 0 .. n
      BY <1>1, <2>2
    <3>2. f[k] = TotalStep(t[k], f[k - 1])
      BY <1>4, <1>5, <3>1
    <3> QED BY <2>2, <3>2, Zenon DEF TotalStep
  <2> QED BY <2>1, <2>2
<1>7. IsTotal(f, t, n)
  BY <1>6 DEF IsTotal
<1> QED BY <1>7

\* After k threads: e milliseconds, each thread having lost less than one.
Timed(f, g, k) ==
  g[k] \in Nat /\ \E e \in Nat : f[k] = ToInt(e) /\ Unit * e <= g[k] /\ g[k] <= Unit * (e + k)

LEMMA TimedBegin ==
  ASSUME NEW t, NEW n \in Nat, NEW f, IsSum(f, t, n), NEW g, IsTotal(g, t, n)
  PROVE  Timed(f, g, 0)
<1>1. 0 \in 0 .. n
  OBVIOUS
<1>2. f[0] = 0 /\ g[0] = 0
  BY <1>1 DEF IsSum, IsTotal
<1>3. PICK z \in Nat : z = 0
  OBVIOUS
<1>4. ToInt(z) = z
  BY <1>3, HalfIs, ToIntIs
<1>5. Unit * z = 0 /\ Unit * (z + z) = 0
  BY <1>3, UnitsAssumption
<1> QED BY <1>2, <1>3, <1>4, <1>5 DEF Timed

LEMMA TimedStep ==
  ASSUME NEW t, NEW n, TimesOf(t, n), NEW f, IsSum(f, t, n), NEW g, IsTotal(g, t, n),
         NEW k \in 1 .. n, Timed(f, g, k - 1)
  PROVE  Timed(f, g, k)
<1>1. PICK j \in Nat : j = k - 1 /\ k = j + 1 /\ k \in 0 .. n /\ k # 0
  BY DEF TimesOf
<1>2. PICK e \in Nat : f[j] = ToInt(e) /\ Unit * e <= g[j] /\ g[j] <= Unit * (e + j)
  BY <1>1 DEF Timed
<1>3. PICK G \in Nat : G = g[j]
  BY <1>1 DEF Timed
<1>4. PICK ns \in Nat \cup {-1} : ns = t[k]
  BY DEF TimesOf
<1>5. f[k] = IF ns < 0 THEN f[j] ELSE ToInt(f[j] + ns \div Unit)
  BY <1>1, <1>4 DEF IsSum
<1>6. g[k] = IF ns < 0 THEN g[j] ELSE g[j] + ns
  BY <1>1, <1>4 DEF IsTotal
<1>7. CASE ns < 0
  <2>1. f[k] = ToInt(e) /\ g[k] = G
    BY <1>2, <1>3, <1>5, <1>6, <1>7
  <2>2. Unit * (e + k) = Unit * (e + j) + Unit /\ Unit * (e + j) \in Nat /\ Unit \in Nat
    BY <1>1, UnitsAssumption
  <2>3. G <= Unit * (e + k)
    <3>1. PICK a \in Nat, b \in Nat : a = Unit * (e + j) /\ b = Unit
      BY <2>2
    <3> QED BY <1>2, <1>3, <2>2, <3>1
  <2> QED BY <1>2, <1>3, <2>1, <2>3 DEF Timed
<1>8. CASE ~ (ns < 0)
  <2>1. ns \in Nat
    BY <1>8
  <2>2. PICK q : q = ns \div Unit
    OBVIOUS
  <2>3. /\ q \in Nat
        /\ Unit * (e + q) <= G + ns
        /\ G + ns <= Unit * ((e + q) + (j + 1))
    BY <1>2, <1>3, <2>1, <2>2, TimeStep
  <2>4. f[k] = ToInt(e + q)
    BY <1>2, <1>5, <1>8, <2>2, <2>3, ToIntIs
  <2>5. g[k] = G + ns
    BY <1>3, <1>6, <1>8
  <2>6. e + q \in Nat /\ G + ns \in Nat
    BY <2>1, <2>3
  <2> QED BY <1>1, <2>3, <2>4, <2>5, <2>6 DEF Timed
<1> QED BY <1>7, <1>8

LEMMA TimedAll ==
  ASSUME NEW t, NEW n, TimesOf(t, n), NEW f, IsSum(f, t, n), NEW g, IsTotal(g, t, n)
  PROVE  Timed(f, g, n)
<1> DEFINE S == {k \in 0 .. n : Timed(f, g, k)}
<1>1. n \in Nat /\ 0 \in 0 .. n /\ n \in 0 .. n
  BY DEF TimesOf
<1>2. 0 \in S
  BY <1>1, TimedBegin
<1>3. ASSUME NEW k \in 1 .. n, k - 1 \in S
      PROVE  k \in S
  BY <1>3, TimedStep
<1>4. \A k \in 0 .. n : k \in S
  <2> HIDE DEF S
  <2> QED BY <1>1, <1>2, <1>3, StepsTo
<1> QED BY <1>1, <1>4

LEMMA CpuTimeAnswer ==
  ASSUME NEW t, NEW n, TimesOf(t, n), Len(t) = n, Exact(t) < 2^(IntBits - 1)
  PROVE  CpuTimeIs(t, process_cpu_mtime(t))
<1>1. PICK f : f = CHOOSE s : IsSum(s, t, n)
  OBVIOUS
<1>2. PICK g : g = CHOOSE s : IsTotal(s, t, n)
  OBVIOUS
<1>3. IsSum(f, t, n) /\ IsTotal(g, t, n)
  BY <1>1, <1>2, SumExists, TotalExists
<1>4. PICK ms : ms = process_cpu_mtime(t)
  OBVIOUS
<1>5. ms = f[n]
  BY <1>1, <1>4 DEF process_cpu_mtime, IsSum
<1>6. Timed(f, g, n)
  BY <1>3, TimedAll
<1>7. PICK G \in Nat : G = g[n]
  BY <1>6 DEF Timed
<1>8. PICK e \in Nat : ms = ToInt(e) /\ Unit * e <= G /\ G <= Unit * (e + n)
  BY <1>5, <1>6, <1>7 DEF Timed
<1>9. PICK x : x = G \div Unit
  OBVIOUS
<1>10. n \in Nat
  BY DEF TimesOf
<1>11. x \in Nat /\ e <= x /\ x <= e + n
  BY <1>8, <1>9, <1>10, TimeWhole
<1>12. e \in x - n .. x /\ e >= 0
  BY <1>10, <1>11
<1>13. Exact(t) = x
  BY <1>2, <1>7, <1>9 DEF Exact, IsTotal
<1>14. ms = e
  <2>1. PICK h \in Nat : h = Half
    BY HalfIs
  <2>2. x < h
    BY <1>13, <2>1 DEF Half
  <2>3. e < h
    BY <1>11, <2>1, <2>2
  <2> QED BY <1>8, <2>1, <2>3, ToIntIs
<1>15. CpuTimeIs(t, ms)
  BY <1>12, <1>13, <1>14 DEF CpuTimeIs
<1> QED BY <1>4, <1>15

-----------------------------------------------------------------------------
(* What a callback is handed: followed from element to element of the list.*)

ListOf(list, E, n) == n \in Nat /\ Len(list) = n /\ \A i \in 1 .. n : list[i] \in E
HandStep(list, taken, stop, k, s) ==
  IF k \notin taken \/ Len(s) = stop THEN s ELSE Append(s, list[k])
IsHanded(f, list, taken, stop, n) ==
  f = [i \in 0 .. n |-> IF i = 0 THEN <<>>
                        ELSE IF i \notin taken \/ Len(f[i - 1]) = stop THEN f[i - 1]
                        ELSE Append(f[i - 1], list[i])]

LEMMA ListIs ==
  ASSUME NEW E, NEW list \in Seq(E)
  PROVE  \E n : ListOf(list, E, n) /\ DOMAIN list = 1 .. n
BY DEF ListOf

LEMMA EmptyListIs == \A E : <<>> \in Seq(E)
OBVIOUS

LEMMA HandedExists ==
  ASSUME NEW list, NEW E, NEW n, ListOf(list, E, n), NEW taken, NEW stop
  PROVE  \E f : IsHanded(f, list, taken, stop, n)
<1> DEFINE V == Seq(E)
           h == [k \in 1 .. n |-> [s \in V |-> HandStep(list, taken, stop, k, s)]]
           rest(f, k) == IF k = 0 THEN <<>>
                         ELSE IF k \notin taken \/ Len(f[k - 1]) = stop THEN f[k - 1]
                         ELSE Append(f[k - 1], list[k])
<1>1. n \in Nat
  BY DEF ListOf
<1>2. ASSUME NEW k \in 1 .. n, NEW s \in V
      PROVE  HandStep(list, taken, stop, k, s) \in V
  <2>1. list[k] \in E
    BY DEF ListOf
  <2>2. Append(s, list[k]) \in V
    BY <2>1, AppendProperties
  <2> QED BY <2>2 DEF HandStep
<1> HIDE DEF h, rest
<1>3. PICK empty \in V : empty = <<>>
  BY EmptyListIs
<1> HIDE DEF V
<1> USE DEF h
<1>4. h \in [1 .. n -> [V -> V]]
  BY <1>2
<1>5. \A k \in 1 .. n : \A s \in V : h[k][s] = HandStep(list, taken, stop, k, s)
  OBVIOUS
<1> HIDE DEF h
<1>6. Reached(h, empty, V, n)
  BY <1>1, <1>4, RunExists
<1>7. PICK f : f \in [0 .. n -> V] /\ f[0] = empty /\ \A k \in 1 .. n : f[k] = h[k][f[k - 1]]
  BY <1>6 DEF Reached, Runs
<1>8. ASSUME NEW k \in 0 .. n
      PROVE  f[k] = rest(f, k)
  <2>1. CASE k = 0
    BY <1>3, <1>7, <2>1 DEF rest
  <2>2. CASE k # 0
    <3>1. k \in 1 .. n /\ k - 1 \in 0 .. n
      BY <1>1, <2>2
    <3>2. f[k] = HandStep(list, taken, stop, k, f[k - 1])
      BY <1>5, <1>7, <3>1
    <3> QED BY <2>2, <3>2, Zenon DEF HandStep, rest
  <2> QED BY <2>1, <2>2
<1>9. f = [k \in 0 .. n |-> rest(f, k)]
  BY <1>7, <1>8
<1>10. IsHanded(f, list, taken, stop, n)
  BY <1>9, Zenon DEF IsHanded, rest
<1> QED BY <1>10

LEMMA PlaceZero ==
  ASSUME NEW n \in Nat, NEW S \in SUBSET (1 .. n)
  PROVE  Place(S, 0) = 0
<1>1. \A j \in S : ~ (j <= 0)
  OBVIOUS
<1>2. {j \in S : j <= 0} = {}
  BY <1>1
<1> QED BY <1>2, FS_EmptySet DEF Place

LEMMA PlaceStep ==
  ASSUME NEW n \in Nat, NEW S \in SUBSET (1 .. n), NEW k \in 1 .. n
  PROVE  Place(S, k) = IF k \in S THEN Place(S, k - 1) + 1 ELSE Place(S, k - 1)
<1>1. k - 1 \in Nat /\ k - 1 < k
  OBVIOUS
<1>2. \A b \in S : b <= k - 1 \/ k <= b
  OBVIOUS
<1>3. CASE k \in S
  <2>1. Place(S, k) = Place(S, k - 1) + 1
    BY <1>1, <1>2, <1>3, PlaceNext
  <2> QED BY <1>3, <2>1
<1>4. CASE k \notin S
  <2>1. {j \in S : j <= k} = {j \in S : j <= k - 1}
    <3>1. \A j \in S : j \in Nat /\ j # k
      BY <1>4
    <3>2. \A j \in S : j <= k <=> j <= k - 1
      BY <3>1
    <3> QED BY <3>2
  <2> QED BY <1>4, <2>1 DEF Place
<1> QED BY <1>3, <1>4

LEMMA PlaceMost ==
  ASSUME NEW n \in Nat, NEW S \in SUBSET (1 .. n), NEW i \in Nat, NEW k \in Nat, i <= k
  PROVE  Place(S, i) <= Place(S, k)
<1>1. {j \in S : j <= i} \in SUBSET {j \in S : j <= k}
  <2>1. \A j \in S : j \in Nat
    OBVIOUS
  <2>2. \A j \in S : j <= i => j <= k
    BY <2>1
  <2> QED BY <2>2
<1>2. IsFiniteSet({j \in S : j <= k})
  BY PlaceIs
<1> QED BY <1>1, <1>2, FS_Subset DEF Place

\* After k elements the first of those at the places S have been handed.
Saw(s, list, S, E, stop, k) ==
  /\ s \in Seq(E)
  /\ Len(s) = IF Place(S, k) <= stop THEN Place(S, k) ELSE stop
  /\ \A i \in S : i <= k /\ Place(S, i) <= stop => s[Place(S, i)] = list[i]

LEMMA SawNothing ==
  ASSUME NEW n \in Nat, NEW S \in SUBSET (1 .. n), NEW list, NEW E, NEW stop \in Nat
  PROVE  Saw(<<>>, list, S, E, stop, 0)
<1>1. Place(S, 0) = 0 /\ \A i \in S : ~ (i <= 0)
  BY PlaceZero
<1>2. <<>> \in Seq(E) /\ Len(<<>>) = 0
  OBVIOUS
<1> QED BY <1>1, <1>2 DEF Saw

LEMMA SawStep ==
  ASSUME NEW list, NEW E, NEW n, ListOf(list, E, n), NEW S \in SUBSET (1 .. n), NEW stop \in Nat,
         NEW k \in 1 .. n, NEW s, Saw(s, list, S, E, stop, k - 1)
  PROVE  Saw(HandStep(list, S, stop, k, s), list, S, E, stop, k)
<1>1. n \in Nat /\ k \in Nat /\ k - 1 \in Nat /\ list[k] \in E
  BY DEF ListOf
<1>2. PICK p \in Nat : p = Place(S, k - 1)
  BY <1>1, PlaceIs
<1>3. PICK l \in Nat : l = Len(s) /\ l = IF p <= stop THEN p ELSE stop
  BY <1>2 DEF Saw
<1>4. \A i \in S : i <= k - 1 /\ Place(S, i) <= stop => s[Place(S, i)] = list[i]
  BY DEF Saw
<1>5. \A i \in S : i \in Nat /\ (i <= k => i = k \/ i <= k - 1)
  BY <1>1
<1>6. s \in Seq(E)
  BY DEF Saw
<1>7. CASE k \notin S
  <2>1. Place(S, k) = p
    BY <1>1, <1>2, <1>7, PlaceStep
  <2>2. HandStep(list, S, stop, k, s) = s
    BY <1>7 DEF HandStep
  <2>3. \A i \in S : i <= k => i <= k - 1
    BY <1>5, <1>7
  <2>4. \A i \in S : i <= k /\ Place(S, i) <= stop => s[Place(S, i)] = list[i]
    BY <1>4, <2>3
  <2>5. Saw(s, list, S, E, stop, k)
    BY <1>3, <1>6, <2>1, <2>4 DEF Saw
  <2> QED BY <2>2, <2>5
<1>8. CASE k \in S /\ l = stop
  <2>1. Place(S, k) = p + 1
    BY <1>1, <1>2, <1>8, PlaceStep
  <2>2. ~ (Place(S, k) <= stop)
    BY <1>3, <1>8, <2>1
  <2>3. HandStep(list, S, stop, k, s) = s
    BY <1>3, <1>8 DEF HandStep
  <2>4. \A i \in S : i <= k /\ Place(S, i) <= stop => i <= k - 1
    BY <1>5, <2>2
  <2>5. \A i \in S : i <= k /\ Place(S, i) <= stop => s[Place(S, i)] = list[i]
    BY <1>4, <2>4
  <2>6. Saw(s, list, S, E, stop, k)
    BY <1>3, <1>6, <1>8, <2>2, <2>5 DEF Saw
  <2> QED BY <2>3, <2>6
<1>9. CASE k \in S /\ l # stop
  <2>1. Place(S, k) = p + 1
    BY <1>1, <1>2, <1>9, PlaceStep
  <2>2. l = p /\ p + 1 <= stop
    BY <1>3, <1>9
  <2>3. PICK t : t = Append(s, list[k])
    OBVIOUS
  <2>4. HandStep(list, S, stop, k, s) = t
    BY <1>3, <1>9, <2>3 DEF HandStep
  <2>5. /\ t \in Seq(E) /\ Len(t) = p + 1 /\ t[p + 1] = list[k]
        /\ \A j \in 1 .. p : t[j] = s[j]
    <3>1. PICK x \in E : x = list[k]
      BY <1>1
    <3>2. /\ t \in Seq(E) /\ Len(t) = Len(s) + 1 /\ t[Len(s) + 1] = x
          /\ \A j \in 1 .. Len(s) : t[j] = s[j]
      BY <1>6, <2>3, <3>1, AppendProperties
    <3> QED BY <1>3, <2>2, <3>1, <3>2
  <2>6. ASSUME NEW i \in S, i <= k, Place(S, i) <= stop
        PROVE  t[Place(S, i)] = list[i]
    <3>1. CASE i = k
      BY <2>1, <2>5, <3>1
    <3>2. CASE i # k
      <4>1. i <= k - 1 /\ i \in 1 .. n /\ i \in Nat /\ i - 1 \in Nat
        BY <1>5, <2>6, <3>2
      <4>2. Place(S, i) <= p /\ Place(S, i) \in Nat
        BY <1>1, <1>2, <4>1, PlaceMost, PlaceIs
      <4>3. Place(S, i) = Place(S, i - 1) + 1 /\ Place(S, i - 1) \in Nat
        BY <1>1, <4>1, PlaceStep, PlaceIs
      <4>4. Place(S, i) \in 1 .. p
        BY <4>2, <4>3
      <4>5. s[Place(S, i)] = list[i]
        BY <1>4, <2>6, <4>1
      <4> QED BY <2>5, <4>4, <4>5
    <3> QED BY <3>1, <3>2
  <2>7. Saw(t, list, S, E, stop, k)
    BY <2>1, <2>2, <2>5, <2>6 DEF Saw
  <2> QED BY <2>4, <2>7
<1> QED BY <1>7, <1>8, <1>9

LEMMA HandedSaw ==
  ASSUME NEW list, NEW E, NEW n, ListOf(list, E, n), NEW S \in SUBSET (1 .. n), NEW stop \in Nat
  PROVE  Saw(Handed(list, S, stop), list, S, E, stop, n)
<1>1. n \in Nat /\ Len(list) = n
  BY DEF ListOf
<1>2. PICK f : f = CHOOSE g : IsHanded(g, list, S, stop, n)
  OBVIOUS
<1>3. IsHanded(f, list, S, stop, n)
  BY <1>2, HandedExists
<1>4. Handed(list, S, stop) = f[n]
  BY <1>1, <1>2 DEF Handed, IsHanded
<1> DEFINE T == {k \in 0 .. n : Saw(f[k], list, S, E, stop, k)}
<1>5. 0 \in T
  <2>1. 0 \in 0 .. n
    BY <1>1
  <2>2. f[0] = <<>>
    BY <1>3, <2>1 DEF IsHanded
  <2>3. Saw(f[0], list, S, E, stop, 0)
    BY <1>1, <2>2, SawNothing
  <2> QED BY <2>1, <2>3
<1>6. ASSUME NEW k \in 1 .. n, k - 1 \in T
      PROVE  k \in T
  <2>1. k \in 0 .. n /\ k # 0
    BY <1>1
  <2>2. f[k] = HandStep(list, S, stop, k, f[k - 1])
    BY <1>3, <2>1, Zenon DEF IsHanded, HandStep
  <2>3. Saw(f[k - 1], list, S, E, stop, k - 1)
    BY <1>6
  <2>4. Saw(f[k], list, S, E, stop, k)
    BY <2>2, <2>3, SawStep
  <2> QED BY <2>1, <2>4
<1>7. n \in T
  <2> HIDE DEF T
  <2>1. \A k \in 0 .. n : k \in T
    BY <1>1, <1>5, <1>6, StepsTo
  <2> QED BY <1>1, <2>1
<1> QED BY <1>4, <1>7

LEMMA HandedFirst ==
  ASSUME NEW list, NEW E, NEW n, ListOf(list, E, n), NEW S \in SUBSET (1 .. n), NEW stop \in Nat,
         NEW seen, seen = Handed(list, S, stop)
  PROVE  /\ SeesFirst(seen, list, S, stop)
         /\ Cardinality(S) \in Nat
         /\ Len(seen) = IF Cardinality(S) <= stop THEN Cardinality(S) ELSE stop
<1>1. n \in Nat /\ \A b \in S : b <= n
  BY DEF ListOf
<1>2. Place(S, n) = Cardinality(S) /\ Cardinality(S) \in Nat
  BY <1>1, PlaceLast, PlaceIs
<1>3. PICK c \in Nat : c = Cardinality(S)
  BY <1>2
<1>4. Saw(seen, list, S, E, stop, n)
  BY HandedSaw
<1>5. Len(seen) = IF c <= stop THEN c ELSE stop
  BY <1>2, <1>3, <1>4 DEF Saw
<1>6. Min({c, stop}) = IF c <= stop THEN c ELSE stop
  <2>1. PICK a \in Nat : a = IF c <= stop THEN c ELSE stop
    OBVIOUS
  <2>2. {c, stop} \in SUBSET Nat /\ a \in {c, stop} /\ \A x \in {c, stop} : a <= x
    BY <2>1
  <2> QED BY <2>1, <2>2, MinIsOne
<1>7. \A i \in S : Place(S, i) <= stop => seen[Place(S, i)] = list[i]
  BY <1>1, <1>4 DEF Saw
<1>8. SeesFirst(seen, list, S, stop)
  BY <1>3, <1>5, <1>6, <1>7 DEF SeesFirst, Place
<1> QED BY <1>2, <1>3, <1>5, <1>8

LEMMA UsersAnswer ==
  ASSUME NEW log \in Seq([user : STRING, type : STRING, time : Nat]), NEW stop \in Nat
  PROVE  UsersAre(log, stop)
<1>1. PICK E : E = [user : STRING, type : STRING, time : Nat]
  OBVIOUS
<1>2. PICK n : ListOf(log, E, n) /\ DOMAIN log = 1 .. n
  <2>1. log \in Seq(E)
    BY <1>1
  <2> QED BY <2>1, ListIs
<1>3. PICK S : S = {i \in DOMAIN log : log[i].type = "USER_PROCESS"}
  OBVIOUS
<1>4. S \in SUBSET (1 .. n)
  BY <1>2, <1>3
<1>5. SeesFirst(Handed(log, S, stop), log, S, stop)
  BY <1>2, <1>4, HandedFirst
<1> QED BY <1>3, <1>5 DEF UsersAre, os_info_running_tty

LEMMA CallbackAnswer ==
  ASSUME NEW list \in Seq([inet : BOOLEAN, addr : Seq(STRING)]), NEW c \in Nat,
         NEW last \in Int \ {0}
  PROVE  CallbackSees(list, c, last)
<1>1. PICK E : E = [inet : BOOLEAN, addr : Seq(STRING)]
  OBVIOUS
<1>2. PICK n : ListOf(list, E, n) /\ DOMAIN list = 1 .. n
  <2>1. list \in Seq(E)
    BY <1>1
  <2> QED BY <2>1, ListIs
<1>3. PICK S : S = {i \in DOMAIN list : list[i].inet}
  OBVIOUS
<1>4. S \in SUBSET (1 .. n) /\ c + 1 \in Nat
  BY <1>2, <1>3
<1>5. PICK seen : seen = Handed(list, S, c + 1)
  OBVIOUS
<1>6. PICK k \in Nat : k = Cardinality(S) /\ Len(seen) = IF k <= c + 1 THEN k ELSE c + 1
  BY <1>2, <1>4, <1>5, HandedFirst
<1>7. SeesFirst(seen, list, S, c + 1)
  BY <1>2, <1>4, <1>5, HandedFirst
<1>8. PICK walk : walk = com_foreach_local_ipv4(list, c, last)
  OBVIOUS
<1>9. walk.seen = seen /\ walk.ret = IF Len(seen) <= c \/ last = -1 THEN 0 ELSE last
  BY <1>3, <1>5, <1>8 DEF com_foreach_local_ipv4
<1>10. walk.ret # 0 <=> k > c /\ last # -1
  BY <1>6, <1>9
<1> QED BY <1>3, <1>6, <1>7, <1>8, <1>9, <1>10 DEF CallbackSees

-----------------------------------------------------------------------------
(***************************************************************************)
(* The pieces of a line.  sp are the places of the separator, bl those of  *)
(* separators and blanks.                                                  *)
(***************************************************************************)
Places(sp, bl, n) == n \in Nat /\ sp \subseteq bl /\ bl \subseteq 1 .. n

Pieces(sp, bl, n) ==
  {i \in 1 .. n : i \notin bl /\ \A j \in 1 .. i - 1 : j \in bl \/ \E k \in j .. i - 1 : k \in sp}

\* Where a call of gen_foreach_field may leave off.
Border(sp, n, e) == e \in 1 .. n + 1 /\ (e = 1 \/ e \in sp \/ e = n + 1)

\* From a border on there is one more piece, up to the next border, or none.
LEMMA PieceNext ==
  ASSUME NEW sp, NEW bl, NEW n, Places(sp, bl, n), NEW e, Border(sp, n, e),
         NEW b, b = NextFrom(bl, n, e), NEW x, x = SepFrom(sp, n, b)
  PROVE  /\ b \in Nat /\ Border(sp, n, x)
         /\ \/ /\ b \in Pieces(sp, bl, n) /\ e <= b /\ b < x
               /\ \A c \in Pieces(sp, bl, n) : (c < e \/ b <= c) /\ (c <= b \/ x <= c)
            \/ b = n + 1 /\ x = n + 1 /\ \A c \in Pieces(sp, bl, n) : c < e
<1>1. n \in Nat /\ e \in Nat /\ e \in 1 .. n + 1 /\ sp \subseteq bl /\ bl \subseteq 1 .. n
  BY DEF Places, Border
<1>2. /\ b \in Nat /\ (b \in e .. n \/ b = n + 1)
      /\ b <= n => b \notin bl
      /\ \A i \in e .. n : i < b => i \in bl
  BY <1>1, NextFromIs
<1>3. /\ x \in Nat /\ (x \in b .. n \/ x = n + 1)
      /\ x <= n => x \in sp
      /\ \A i \in b .. n : i < x => i \notin sp
  BY <1>1, <1>2, SepFromIs
<1>4. Border(sp, n, x)
  BY <1>1, <1>2, <1>3 DEF Border
<1>5. \A c \in Pieces(sp, bl, n) : c \in 1 .. n /\ c \in Nat /\ c \notin bl
  BY <1>1 DEF Pieces
<1>6. \A c \in Pieces(sp, bl, n) : c < e \/ b <= c
  <2>1. ASSUME NEW c \in Pieces(sp, bl, n), ~ (c < e), ~ (b <= c)
        PROVE  FALSE
    <3>1. c \in e .. n /\ c < b
      BY <1>1, <1>2, <1>5, <2>1
    <3> QED BY <1>2, <1>5, <3>1
  <2> QED BY <2>1
<1>7. CASE b <= n
  <2>1. b < x
    BY <1>1, <1>2, <1>3, <1>7
  <2>2. ASSUME NEW j \in 1 .. b - 1, j \notin bl
        PROVE  \E k \in j .. b - 1 : k \in sp
    <3>1. j < e
      <4>1. SUFFICES ASSUME ~ (j < e) PROVE FALSE
        OBVIOUS
      <4>2. j \in e .. n /\ j < b
        BY <1>1, <1>2, <1>7, <4>1
      <4> QED BY <1>2, <2>2, <4>2
    <3>2. e \in sp
      BY <1>1, <1>2, <1>7, <3>1 DEF Border
    <3>3. e \in j .. b - 1
      BY <1>1, <1>2, <1>7, <3>1, <3>2
    <3> QED BY <3>2, <3>3
  <2>3. b \in Pieces(sp, bl, n)
    BY <1>1, <1>2, <1>7, <2>2 DEF Pieces
  <2>4. ASSUME NEW c \in Pieces(sp, bl, n), ~ (c <= b), ~ (x <= c)
        PROVE  FALSE
    <3>1. b \in 1 .. c - 1 /\ b \notin bl
      BY <1>1, <1>2, <1>5, <1>7, <2>4
    <3>2. PICK k \in b .. c - 1 : k \in sp
      BY <3>1 DEF Pieces
    <3>3. k \in b .. n /\ k < x
      <4>1. PICK d \in Nat : d = c /\ d <= n /\ d < x
        BY <1>1, <1>3, <1>5, <2>4
      <4> QED BY <1>1, <1>2, <1>3, <3>2, <4>1
    <3> QED BY <1>3, <3>2, <3>3
  <2>5. e <= b
    BY <1>1, <1>2, <1>7
  <2> QED BY <1>2, <1>4, <1>6, <2>1, <2>3, <2>4, <2>5
<1>8. CASE ~ (b <= n)
  <2>1. b = n + 1 /\ x = n + 1
    BY <1>1, <1>2, <1>3, <1>8
  <2>2. \A c \in Pieces(sp, bl, n) : c < e
    BY <1>1, <1>5, <1>6, <2>1
  <2> QED BY <1>2, <1>4, <2>1, <2>2
<1> QED BY <1>7, <1>8

\* After k calls: as many pieces are behind, unless there are fewer.
Walked(sp, bl, n, e, k) ==
  LET S == Pieces(sp, bl, n) IN
  /\ Border(sp, n, e)
  /\ Place(S, e - 1) = IF k <= Cardinality(S) THEN k ELSE Cardinality(S)

\* Call k hands out the piece at b, which ends before x, if there are so many.
Hands(S, b, x, k) ==
  /\ b < x <=> k <= Cardinality(S)
  /\ k <= Cardinality(S) => b \in S /\ Place(S, b) = k

LEMMA WalkStep ==
  ASSUME NEW sp, NEW bl, NEW n, Places(sp, bl, n), NEW k \in Nat \ {0}, NEW e,
         Walked(sp, bl, n, e, k - 1),
         NEW b, b = NextFrom(bl, n, e), NEW x, x = SepFrom(sp, n, b)
  PROVE  Walked(sp, bl, n, x, k) /\ Hands(Pieces(sp, bl, n), b, x, k)
<1>1. PICK S : S = Pieces(sp, bl, n)
  OBVIOUS
<1>2. n \in Nat /\ S \in SUBSET (1 .. n) /\ \A c \in S : c \in Nat
  BY <1>1 DEF Places, Pieces
<1>3. PICK c \in Nat : c = Cardinality(S)
  BY <1>2, PlaceIs
<1>4. Border(sp, n, e) /\ e \in 1 .. n + 1 /\ e - 1 \in Nat
      /\ Place(S, e - 1) = IF k - 1 <= c THEN k - 1 ELSE c
  BY <1>1, <1>2, <1>3 DEF Walked, Border
<1>5. Border(sp, n, x) /\ x \in 1 .. n + 1 /\ x - 1 \in Nat /\ b \in Nat
  BY <1>2, <1>4, PieceNext DEF Border
<1>6. CASE /\ b \in S /\ e <= b /\ b < x
           /\ \A d \in S : (d < e \/ b <= d) /\ (d <= b \/ x <= d)
  <2>1. e - 1 < b /\ \A d \in S : d <= e - 1 \/ b <= d
    BY <1>2, <1>4, <1>5, <1>6
  <2>2. Place(S, b) = Place(S, e - 1) + 1
    BY <1>2, <1>4, <1>6, <2>1, PlaceNext
  <2>3. Place(S, b) \in Nat /\ Place(S, b) <= c
    BY <1>2, <1>3, <1>5, PlaceIs
  <2>4. Place(S, b) = k /\ k <= c
    BY <1>3, <1>4, <2>2, <2>3
  <2>5. {j \in S : j <= x - 1} = {j \in S : j <= b}
    <3>1. \A j \in S : j <= x - 1 <=> j <= b
      BY <1>2, <1>5, <1>6
    <3> QED BY <3>1
  <2>6. Place(S, x - 1) = k
    BY <2>4, <2>5 DEF Place
  <2> QED BY <1>1, <1>3, <1>5, <1>6, <2>4, <2>6 DEF Walked, Hands
<1>7. CASE b = n + 1 /\ x = n + 1 /\ \A d \in S : d < e
  <2>1. (\A d \in S : d <= e - 1) /\ (\A d \in S : d <= x - 1)
    BY <1>2, <1>4, <1>5, <1>7
  <2>2. Place(S, e - 1) = c /\ Place(S, x - 1) = c
    BY <1>2, <1>3, <1>4, <1>5, <2>1, PlaceLast
  <2>3. ~ (k <= c)
    BY <1>3, <1>4, <2>2
  <2>4. ~ (b < x)
    BY <1>2, <1>7
  <2> QED BY <1>1, <1>3, <1>5, <2>2, <2>3, <2>4 DEF Walked, Hands
<1>8. (/\ b \in S /\ e <= b /\ b < x
       /\ \A d \in S : (d < e \/ b <= d) /\ (d <= b \/ x <= d))
      \/ (b = n + 1 /\ x = n + 1 /\ \A d \in S : d < e)
  BY <1>1, <1>4, PieceNext
<1> QED BY <1>6, <1>7, <1>8

\* The separators and the gaps of a line.
Keys(s, n, key) == {i \in 1 .. n : s[i] = key}
Gaps(s, n, key) == {i \in 1 .. n : IsBlank(s[i]) \/ s[i] = key}

LEMMA PlacesAreKeys ==
  ASSUME NEW s, NEW n \in Nat, NEW key
  PROVE  Places(Keys(s, n, key), Gaps(s, n, key), n)
BY DEF Places, Keys, Gaps

LEMMA KeyFromIs ==
  ASSUME NEW s, NEW n \in Nat, Len(s) = n, NEW key, NEW from \in Nat, from > 0
  PROVE  KeyFrom(s, from, key) = SepFrom(Keys(s, n, key), n, from)
<1>1. \A i \in from .. n : i \in 1 .. n
  OBVIOUS
<1>2. \A i \in from .. n : s[i] = key <=> i \in Keys(s, n, key)
  BY <1>1 DEF Keys
<1>3. {i \in from .. n : s[i] = key} = {i \in from .. n : i \in Keys(s, n, key)}
  BY <1>2
<1> QED BY <1>3 DEF KeyFrom, SepFrom

LEMMA InGap ==
  ASSUME NEW c, NEW key
  PROVE  c \in {" ", "\t", key} <=> IsBlank(c) \/ c = key
BY Zenon DEF IsBlank

LEMMA FieldBeginIs ==
  ASSUME NEW s, NEW n \in Nat, Len(s) = n, NEW key, NEW from \in Nat, from > 0
  PROVE  FieldBegin(s, from, key) = NextFrom(Gaps(s, n, key), n, from)
<1>1. PICK P : P = {" ", "\t", key}
  OBVIOUS
<1>2. \A c : c \in P <=> IsBlank(c) \/ c = key
  BY <1>1, InGap
<1>3. FieldBegin(s, from, key) = Skip(s, from, P)
  BY <1>1, Zenon DEF FieldBegin
<1>4. \A i \in from .. n : i \in 1 .. n
  OBVIOUS
<1>5. \A i \in from .. n : s[i] \notin P <=> i \notin Gaps(s, n, key)
  BY <1>2, <1>4 DEF Gaps
<1>6. {i \in from .. n : s[i] \notin P} = {i \in from .. n : i \notin Gaps(s, n, key)}
  BY <1>5
<1>7. Skip(s, from, P) = NextFrom(Gaps(s, n, key), n, from)
  BY <1>6 DEF Skip, NextFrom
<1> QED BY <1>3, <1>7

LEMMA BeginsAre ==
  ASSUME NEW s, NEW n \in Nat, DOMAIN s = 1 .. n, NEW key
  PROVE  {i \in DOMAIN s : BeginsPiece(s, i, key)} = Pieces(Keys(s, n, key), Gaps(s, n, key), n)
<1>1. ASSUME NEW i \in 1 .. n
      PROVE  BeginsPiece(s, i, key) <=>
               /\ i \notin Gaps(s, n, key)
               /\ \A j \in 1 .. i - 1 : j \in Gaps(s, n, key) \/ \E k \in j .. i - 1 : k \in Keys(s, n, key)
  <2>1. PICK P : P = {" ", "\t", key}
    OBVIOUS
  <2>2. \A c : c \in P <=> IsBlank(c) \/ c = key
    BY <2>1, InGap
  <2>3. BeginsPiece(s, i, key) <=>
          s[i] \notin P /\ \A j \in 1 .. i - 1 : s[j] \in P \/ \E k \in j .. i - 1 : s[k] = key
    BY <2>1, Zenon DEF BeginsPiece
  <2>4. \A j \in 1 .. i - 1 : j \in 1 .. n /\ \A k \in j .. i - 1 : k \in 1 .. n
    OBVIOUS
  <2>5. \A j \in 1 .. n : /\ s[j] \in P <=> j \in Gaps(s, n, key)
                          /\ s[j] = key <=> j \in Keys(s, n, key)
    BY <2>2 DEF Gaps, Keys
  <2> QED BY <2>3, <2>4, <2>5
<1> QED BY <1>1 DEF Pieces

-----------------------------------------------------------------------------
(* The calls of a pass. *)

\* The equation of the recursive function of gen_foreach_field.
IsPtr(f, s, key) ==
  f = [k \in 0 .. Len(s) |-> IF k = 0 THEN 1 ELSE KeyFrom(s, FieldBegin(s, f[k - 1], key), key)]

PtrStep(s, key, x) == KeyFrom(s, FieldBegin(s, x, key), key)

LEMMA StepOfPtr ==
  ASSUME NEW s, NEW n \in Nat, Len(s) = n, NEW key, NEW x \in Nat \ {0},
         NEW b, b = FieldBegin(s, x, key)
  PROVE  /\ b = NextFrom(Gaps(s, n, key), n, x)
         /\ PtrStep(s, key, x) = SepFrom(Keys(s, n, key), n, b)
         /\ PtrStep(s, key, x) \in Nat \ {0}
<1>1. b = NextFrom(Gaps(s, n, key), n, x)
  BY FieldBeginIs
<1>2. b \in Nat /\ b > 0
  BY <1>1, NextFromIs
<1>3. PtrStep(s, key, x) = SepFrom(Keys(s, n, key), n, b)
  BY <1>2, KeyFromIs DEF PtrStep
<1>4. SepFrom(Keys(s, n, key), n, b) \in Nat /\ SepFrom(Keys(s, n, key), n, b) # 0
  <2>1. PICK y : y = SepFrom(Keys(s, n, key), n, b)
    OBVIOUS
  <2>2. y \in Nat /\ (y \in b .. n \/ y = n + 1)
    BY <1>2, <2>1, SepFromIs
  <2> QED BY <1>2, <2>1, <2>2
<1> QED BY <1>1, <1>3, <1>4

LEMMA PtrExists ==
  ASSUME NEW s, NEW n \in Nat, Len(s) = n, NEW key
  PROVE  \E f : IsPtr(f, s, key)
<1> DEFINE V == Nat \ {0}
           h == [k \in 1 .. n |-> [x \in V |-> PtrStep(s, key, x)]]
<1>1. \A x \in V : PtrStep(s, key, x) \in V
  BY StepOfPtr
<1>2. h \in [1 .. n -> [V -> V]]
  BY <1>1
<1>3. \A k \in 1 .. n : \A x \in V : h[k][x] = PtrStep(s, key, x)
  OBVIOUS
<1>4. PICK one \in V : one = 1
  OBVIOUS
<1> HIDE DEF h, V
<1>5. Reached(h, one, V, n)
  BY <1>2, RunExists
<1>6. PICK f : f \in [0 .. n -> V] /\ f[0] = one /\ \A k \in 1 .. n : f[k] = h[k][f[k - 1]]
  BY <1>5 DEF Reached, Runs
<1>7. ASSUME NEW k \in 0 .. n
      PROVE  f[k] = IF k = 0 THEN 1 ELSE PtrStep(s, key, f[k - 1])
  <2>1. CASE k = 0
    BY <1>4, <1>6, <2>1
  <2>2. CASE k # 0
    <3>1. k \in 1 .. n /\ k - 1 \in 0 .. n
      BY <2>2
    <3>2. f[k] = PtrStep(s, key, f[k - 1])
      BY <1>3, <1>6, <3>1
    <3> QED BY <2>2, <3>2
  <2> QED BY <2>1, <2>2
<1>8. f = [k \in 0 .. n |-> IF k = 0 THEN 1 ELSE PtrStep(s, key, f[k - 1])]
  BY <1>6, <1>7
<1>9. IsPtr(f, s, key)
  BY <1>8 DEF IsPtr, PtrStep
<1> QED BY <1>9

\* What all calls hand out.
BeginOf(f, s, key, k) == FieldBegin(s, f[k - 1], key)
ServedBy(f, s, key) == {k \in 1 .. Len(s) : BeginOf(f, s, key, k) < f[k]}
ArePieces(pieces, f, s, key) ==
  pieces = [k \in 1 .. Cardinality(ServedBy(f, s, key)) |->
              SubSeq(s, BeginOf(f, s, key, k), f[k] - 1)]

LEMMA PassIs ==
  ASSUME NEW s, NEW n \in Nat, Len(s) = n, NEW key, NEW f, IsPtr(f, s, key),
         NEW S, S = Pieces(Keys(s, n, key), Gaps(s, n, key), n)
  PROVE  \A k \in 1 .. n : /\ Hands(S, BeginOf(f, s, key, k), f[k], k)
                           /\ k <= Cardinality(S) => f[k] = KeyFrom(s, BeginOf(f, s, key, k), key)
<1> DEFINE T == {k \in 0 .. n : Walked(Keys(s, n, key), Gaps(s, n, key), n, f[k], k)}
<1>1. Places(Keys(s, n, key), Gaps(s, n, key), n)
  BY PlacesAreKeys
<1>2. ASSUME NEW k \in 1 .. n
      PROVE  f[k] = PtrStep(s, key, f[k - 1])
  <2>1. k \in 0 .. n /\ k # 0
    OBVIOUS
  <2> QED BY <2>1 DEF IsPtr, PtrStep
<1>3. f[0] = 1
  <2>1. 0 \in 0 .. n
    OBVIOUS
  <2> QED BY <2>1 DEF IsPtr
<1>4. ASSUME NEW k \in 1 .. n, Walked(Keys(s, n, key), Gaps(s, n, key), n, f[k - 1], k - 1)
      PROVE  /\ Walked(Keys(s, n, key), Gaps(s, n, key), n, f[k], k)
             /\ Hands(S, BeginOf(f, s, key, k), f[k], k)
  <2>1. PICK e : e = f[k - 1]
    OBVIOUS
  <2>2. Border(Keys(s, n, key), n, e)
    BY <1>4, <2>1 DEF Walked
  <2>3. e \in Nat \ {0}
    BY <2>2 DEF Border
  <2>4. PICK b : b = FieldBegin(s, e, key)
    OBVIOUS
  <2>5. /\ b = NextFrom(Gaps(s, n, key), n, e)
        /\ f[k] = SepFrom(Keys(s, n, key), n, b)
    BY <1>2, <2>1, <2>3, <2>4, StepOfPtr
  <2>6. k \in Nat \ {0} /\ Walked(Keys(s, n, key), Gaps(s, n, key), n, e, k - 1)
    BY <1>4, <2>1
  <2>7. Walked(Keys(s, n, key), Gaps(s, n, key), n, f[k], k) /\ Hands(S, b, f[k], k)
    BY <1>1, <2>5, <2>6, WalkStep
  <2> QED BY <2>1, <2>4, <2>7 DEF BeginOf
<1>5. 0 \in T
  <2>1. S \in SUBSET (1 .. n)
    BY DEF Pieces
  <2>2. Place(S, 0) = 0 /\ Cardinality(S) \in Nat
    BY <2>1, PlaceZero, PlaceIs
  <2>3. Border(Keys(s, n, key), n, 1)
    BY DEF Border
  <2>4. 1 - 1 = 0 /\ 0 <= Cardinality(S)
    BY <2>2
  <2> QED BY <1>3, <2>2, <2>3, <2>4 DEF Walked
<1>6. \A k \in 0 .. n : k \in T
  <2>1. \A k \in 1 .. n : k - 1 \in T => k \in T
    BY <1>4
  <2> HIDE DEF T
  <2> QED BY <1>5, <2>1, StepsTo
<1>7. ASSUME NEW k \in 1 .. n
      PROVE  Hands(S, BeginOf(f, s, key, k), f[k], k)
  <2>1. k - 1 \in T
    <3> HIDE DEF T
    <3> QED BY <1>6
  <2> QED BY <1>4, <2>1
<1>8. \A k \in 1 .. n : f[k] = KeyFrom(s, BeginOf(f, s, key, k), key)
  BY <1>2 DEF PtrStep, BeginOf
<1> QED BY <1>7, <1>8

LEMMA CopiedIs ==
  ASSUME NEW line \in Seq(STRING)
  PROVE  Copied(line) \in Seq(STRING)
<1>1. Copied(line) = SubSeq(line, 1, Len(line) - 1) \/ Copied(line) = line
  BY Zenon DEF Copied
<1>2. SubSeq(line, 1, Len(line) - 1) \in Seq(STRING)
  <2>1. PICK n \in Nat : n = Len(line)
    BY LenProperties
  <2>2. \A i \in 1 .. n - 1 : line[i] \in STRING
    <3>1. \A i \in 1 .. n - 1 : i \in 1 .. n
      OBVIOUS
    <3> QED BY <2>1, <3>1, ElementOfSeq
  <2> QED BY <2>1, <2>2, SubSeqProperties
<1> QED BY <1>1, <1>2

\* The calls of gen_foreach_field hand out the pieces of the line.
LEMMA PiecesAnswer ==
  ASSUME NEW line \in Seq(STRING), NEW key
  PROVE  PiecesAre(line, key, gen_foreach_field(line, key))
<1>1. PICK s : s = Copied(line)
  OBVIOUS
<1>2. PICK n \in Nat : n = Len(s) /\ DOMAIN s = 1 .. n
  BY <1>1, CopiedIs, LenProperties
<1>3. PICK pieces : pieces = gen_foreach_field(line, key)
  OBVIOUS
<1>4. PICK f : f = CHOOSE g : IsPtr(g, Copied(line), key)
  OBVIOUS
<1>5. ArePieces(pieces, f, Copied(line), key)
  BY <1>3, <1>4 DEF gen_foreach_field, IsPtr, ArePieces, ServedBy, BeginOf
<1>6. IsPtr(f, Copied(line), key)
  BY <1>1, <1>2, <1>4, PtrExists
<1>7. ArePieces(pieces, f, s, key) /\ IsPtr(f, s, key)
  BY <1>1, <1>5, <1>6
<1>8. PICK S : S = Pieces(Keys(s, n, key), Gaps(s, n, key), n)
  OBVIOUS
<1>9. S \in SUBSET (1 .. n)
  BY <1>8 DEF Pieces
<1>10. PICK c \in Nat : c = Cardinality(S) /\ c <= n
  <2>1. IsFiniteSet(1 .. n) /\ Cardinality(1 .. n) = n
    BY FS_Interval
  <2>2. Cardinality(S) <= Cardinality(1 .. n)
    BY <1>9, <2>1, FS_Subset
  <2>3. Cardinality(S) \in Nat
    BY <1>9, PlaceIs
  <2> QED BY <2>1, <2>2, <2>3
<1>11. \A k \in 1 .. n : /\ Hands(S, BeginOf(f, s, key, k), f[k], k)
                         /\ k <= c => f[k] = KeyFrom(s, BeginOf(f, s, key, k), key)
  BY <1>2, <1>7, <1>8, <1>10, PassIs
<1>12. Cardinality(ServedBy(f, s, key)) = c
  <2>1. \A k \in 1 .. n : BeginOf(f, s, key, k) < f[k] <=> k <= c
    BY <1>10, <1>11 DEF Hands
  <2>2. ServedBy(f, s, key) = 1 .. c
    BY <1>2, <1>10, <2>1 DEF ServedBy
  <2> QED BY <2>2, FS_Interval
<1>13. pieces = [k \in 1 .. c |-> SubSeq(s, BeginOf(f, s, key, k), f[k] - 1)]
  BY <1>7, <1>12 DEF ArePieces
<1>14. Len(pieces) = c
  <2>1. Array(pieces, c)
    BY <1>13 DEF Array
  <2> QED BY <2>1, LenIs DEF Text
<1>15. ASSUME NEW i \in S
       PROVE  pieces[Place(S, i)] = SubSeq(s, i, KeyFrom(s, i, key) - 1)
  <2>1. PICK k \in Nat : k = Place(S, i) /\ k <= c
    <3>1. i \in Nat
      BY <1>9
    <3> QED BY <1>9, <1>10, <3>1, PlaceIs
  <2>2. k # 0
    <3>1. i \in 1 .. n /\ i - 1 \in Nat
      BY <1>9
    <3>2. Place(S, i) = Place(S, i - 1) + 1 /\ Place(S, i - 1) \in Nat
      BY <1>9, <3>1, PlaceStep, PlaceIs
    <3> QED BY <2>1, <3>2
  <2>3. k \in 1 .. c /\ k \in 1 .. n
    BY <1>10, <2>1, <2>2
  <2>4. PICK b : b = BeginOf(f, s, key, k)
    OBVIOUS
  <2>5. b \in S /\ Place(S, b) = k /\ f[k] = KeyFrom(s, b, key)
    BY <1>10, <1>11, <2>1, <2>3, <2>4 DEF Hands
  <2>6. b = i
    BY <1>9, <2>1, <2>5, PlaceIsOne
  <2>7. pieces[k] = SubSeq(s, b, f[k] - 1)
    BY <1>13, <2>3, <2>4
  <2> QED BY <2>1, <2>5, <2>6, <2>7
<1>16. S = {i \in DOMAIN s : BeginsPiece(s, i, key)}
  BY <1>2, <1>8, BeginsAre
<1>17. PiecesAre(line, key, pieces)
  BY <1>1, <1>10, <1>14, <1>15, <1>16 DEF PiecesAre, Place
<1> QED BY <1>3, <1>17

-----------------------------------------------------------------------------
\* gen_strim, gen_path_last_component and all calls of gen_foreach_field
\* (genstring.c:21-83, 86-180) take any text apart as they should: trimmed text,
\* last component of a path that has one, pieces between separators.
THEOREM TextsTakenApartAlways == QuerySpec => []TextsTakenApart
<1> DEFINE fn == call.fn
           in == call.in
<1>1. {"strim", "component", "items"} \subseteq DOMAIN Legal
  BY DEF Legal
<1>2. fn = "strim" /\ in \in Legal["strim"] => TrimmedIs(in, gen_strim(in))
  BY StrimAnswer DEF Legal
<1>3. fn = "component" /\ in \in Legal["component"] =>
        (HasComponent(in) => LastComponentIs(in, gen_path_last_component(in)))
  BY ComponentAnswer DEF Legal
<1>4. fn = "items" /\ in \in Legal["items"] =>
        PiecesAre(in.line, in.key, gen_foreach_field(in.line, in.key))
  <2>1. in \in Legal["items"] => in.line \in Seq(STRING)
    BY DEF Legal
  <2> QED BY <2>1, PiecesAnswer
<1>5. Legally => \A f \in {"strim", "component", "items"} : fn = f => in \in Legal[f]
  BY <1>1 DEF Legally
<1>6. Legally => TextsTakenApart
  BY <1>2, <1>3, <1>4, <1>5 DEF TextsTakenApart
<1> QED BY <1>6, AskedIsLegal, PTL

\* Every scan of records finds what it is for, in files, interface lists and
\* thread lists of any length (fcp_os.c:82-171, fcp_net.c:238-278,
\* fcp_proc.c:250-284): the right boot and shutdown times, the users and
\* addresses in order and none behind the one a callback stopped at, and a time
\* exact to a millisecond a thread whenever it fits an int.
THEOREM RecordsFoundAlways == QuerySpec => []RecordsFound
<1> DEFINE fn == call.fn
           in == call.in
<1>1. {"times", "walk", "users", "cputime"} \subseteq DOMAIN Legal
  BY DEF Legal
<1>2. fn = "times" /\ in \in Legal["times"] => TimesAre(in)
  BY TimesAnswer
<1>3. fn = "walk" /\ in \in Legal["walk"] => CallbackSees(in.interfaces, in.n, in.last)
  <2>1. in \in Legal["walk"] =>
          /\ in.interfaces \in Seq([inet : BOOLEAN, addr : Seq(STRING)])
          /\ in.n \in Nat /\ in.last \in Int \ {0}
    BY DEF Legal
  <2> QED BY <2>1, CallbackAnswer
<1>4. fn = "users" /\ in \in Legal["users"] => UsersAre(in.log, in.stop)
  <2>1. in \in Legal["users"] =>
          in.log \in Seq([user : STRING, type : STRING, time : Nat]) /\ in.stop \in Nat
    BY DEF Legal
  <2> QED BY <2>1, UsersAnswer
<1>5. fn = "cputime" /\ in \in Legal["cputime"] =>
        (Exact(in) < 2^(IntBits - 1) => CpuTimeIs(in, process_cpu_mtime(in)))
  <2>1. SUFFICES ASSUME in \in Seq(Nat \cup {-1}), Exact(in) < 2^(IntBits - 1)
                 PROVE  CpuTimeIs(in, process_cpu_mtime(in))
    BY DEF Legal
  <2>2. PICK n : TimesOf(in, n) /\ Len(in) = n
    BY <2>1 DEF TimesOf
  <2> QED BY <2>1, <2>2, CpuTimeAnswer
<1>6. Legally => \A f \in {"times", "walk", "users", "cputime"} : fn = f => in \in Legal[f]
  BY <1>1 DEF Legally
<1>7. Legally => RecordsFound
  BY <1>2, <1>3, <1>4, <1>5, <1>6 DEF RecordsFound
<1> QED BY <1>7, AskedIsLegal, PTL

\* The release of a system is read from either layout of its file and from the
\* file /etc/issue, and file_execute_type and taskutil_elf_type agree on every
\* file with the header of an ELF file (general.c:194-292, fcp_file.c:26-120,
\* fcp_proc.c:29-64), for any name, number, mode and size.
THEOREM KindsToldAlways == QuerySpec => []KindsTold
<1> DEFINE fn == call.fn
           in == call.in
<1>1. {"release", "exec"} \subseteq DOMAIN Legal
  BY DEF Legal
<1>2. fn = "release" /\ in \in Legal["release"] => ReleaseIs(in.name, in.number, in.layout)
  <2>1. in \in Legal["release"] => in.number \in Nat /\ in.layout \in {"long", "short", "issue"}
    BY DEF Legal
  <2> QED BY <2>1, ReleaseAnswer
<1>3. fn = "exec" /\ in \in Legal["exec"] => ExecutableIs(in)
  BY ExecutableAnswer
<1>4. Legally => \A f \in {"release", "exec"} : fn = f => in \in Legal[f]
  BY <1>1 DEF Legally
<1>5. Legally => KindsTold
  BY <1>2, <1>3, <1>4 DEF KindsTold
<1> QED BY <1>5, AskedIsLegal, PTL

=============================================================================
