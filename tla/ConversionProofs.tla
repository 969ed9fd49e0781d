-------------------------- MODULE ConversionProofs --------------------------
(***************************************************************************)
(* The program's pure conversions, for every argument: the angles and      *)
(* speeds the drivers turn into counts of the PWM chip, and the decoding   *)
(* of the words of the camera's EEPROM.                                    *)
(***************************************************************************)
EXTENDS Outputs, Eeprom, FiniteSetTheorems, TLAPS

(***************************************************************************)
(* angle_to_count and motor_set_speed stay within the chip's 4096 counts.  *)
(***************************************************************************)
LEMMA CountsInRange ==
    /\ \A a \in Int : AngleToCount(a) \in 0..FullDuty
    /\ \A v \in Int : Duty(v) \in 0..FullDuty
    /\ Duty(0) = 0
<1>1. ASSUME NEW a \in Int PROVE AngleToCount(a) \in 0..FullDuty
  <2> DEFINE r == ServoRange(a)
  <2>1. r \in 0..1800
    BY SMT DEF ServoRange
  <2>2. AngleToCount(a) = ((9000 + 19 * r) * 4095) \div 360000
    BY SMT DEF AngleToCount, FullDuty
  <2> HIDE DEF r
  <2>3. ((9000 + 19 * r) * 4095) \div 360000 \in 0..4095
    BY <2>1, SMT
  <2>q. QED
    BY <2>2, <2>3, SMT DEF FullDuty
<1>2. ASSUME NEW v \in Int PROVE Duty(v) \in 0..FullDuty
  <2> DEFINE m == Magnitude(v)
  <2>1. m \in Nat
    BY SMT DEF Magnitude
  <2>2. Duty(v) = IF m > 10000 THEN 4095 ELSE (m * 4095) \div 10000
    BY SMT DEF Duty, FullDuty
  <2> HIDE DEF m
  <2>3. m <= 10000 => (m * 4095) \div 10000 \in 0..4095
    BY <2>1, SMT
  <2>q. QED
    BY <2>1, <2>2, <2>3, SMT DEF FullDuty
<1>3. Duty(0) = 0
  BY SMT DEF Duty, Magnitude, FullDuty
<1>q. QED
  BY <1>1, <1>2, <1>3, Zenon
-----------------------------------------------------------------------------
\* The value check takes when a bit of a sound word is flipped.
Column(i) ==
    LET one(k) == IF i \in Checked[k] THEN 1 ELSE 0 IN
    one(1) + 2 * one(2) + 4 * one(3) + 8 * one(4) + 16 * one(5)

LEMMA Remainders ==
    ASSUME NEW n \in Nat
    PROVE  n % 2 \in {0, 1} /\ (n + 1) % 2 = 1 - (n % 2)
BY SMT

LEMMA Neighbours ==
    ASSUME NEW m \in Nat, NEW n \in Nat, n = m + 1
    PROVE  n % 2 = 1 - (m % 2) /\ m % 2 = 1 - (n % 2)
BY SMT

LEMMA FlipChangesParity ==
    ASSUME NEW S, IsFiniteSet(S), NEW i
    PROVE  /\ IsFiniteSet(Flip(S, {i}))
           /\ Cardinality(Flip(S, {i})) % 2 = 1 - (Cardinality(S) % 2)
<1>1. Cardinality(S) \in Nat
  BY FS_CardinalityType
<1>2. CASE i \in S
  <2>1. Flip(S, {i}) = S \ {i}
    BY <1>2 DEF Flip
  <2>2. IsFiniteSet(S \ {i}) /\ Cardinality(S \ {i}) = Cardinality(S) - 1
    BY <1>2, FS_RemoveElement
  <2>3. Cardinality(S \ {i}) \in Nat
    BY <2>2, FS_CardinalityType
  <2>q. QED
    <3>1. Cardinality(S) = Cardinality(S \ {i}) + 1
      BY <1>1, <2>2, <2>3
    <3>2. Cardinality(S \ {i}) % 2 = 1 - (Cardinality(S) % 2)
      BY <1>1, <2>3, <3>1, Neighbours
    <3>q. QED
      BY <2>1, <2>2, <3>2, Zenon
<1>3. CASE i \notin S
  <2>1. Flip(S, {i}) = S \cup {i}
    BY <1>3 DEF Flip
  <2>2. IsFiniteSet(S \cup {i}) /\ Cardinality(S \cup {i}) = Cardinality(S) + 1
    BY <1>3, FS_AddElement
  <2>q. QED
    BY <1>1, <2>1, <2>2, Remainders
<1>q. QED
  BY <1>2, <1>3

LEMMA WordsAreFinite ==
    ASSUME NEW w \in SUBSET WordBits, NEW C
    PROVE  /\ IsFiniteSet(w) /\ IsFiniteSet(w \cap C)
           /\ Cardinality(w \cap C) \in Nat
<1>1. IsFiniteSet(0..15)
  <2>1. 0 \in Int /\ 15 \in Int
    OBVIOUS
  <2>q. QED
    BY <2>1, FS_Interval
<1>2. IsFiniteSet(w)
  BY <1>1, FS_Subset DEF WordBits
<1>3. IsFiniteSet(w \cap C)
  BY <1>2, FS_Subset
<1>q. QED
  BY <1>2, <1>3, FS_CardinalityType

LEMMA FlipChangesCheck ==
    ASSUME NEW w \in SUBSET WordBits, NEW i \in WordBits, NEW k \in 1..5
    PROVE  /\ Flip(w, {i}) \in SUBSET WordBits
           /\ Parity(w, k) \in {0, 1}
           /\ Parity(Flip(w, {i}), k) =
                  IF i \in Checked[k] THEN 1 - Parity(w, k) ELSE Parity(w, k)
<1>1. Flip(w, {i}) \in SUBSET WordBits
  BY DEF Flip
<1> DEFINE C == Checked[k]
<1>2. IsFiniteSet(w \cap C) /\ Cardinality(w \cap C) \in Nat
  BY WordsAreFinite
<1>3. Parity(w, k) = Cardinality(w \cap C) % 2
      /\ Parity(Flip(w, {i}), k) = Cardinality(Flip(w, {i}) \cap C) % 2
  BY DEF Parity
<1> HIDE DEF C
<1>4. CASE i \in C
  <2>0. Cardinality(w \cap C) % 2 \in {0, 1}
    BY <1>2, Remainders
  <2>1. Flip(w, {i}) \cap C = Flip(w \cap C, {i})
    BY <1>4 DEF Flip
  <2>2. Cardinality(Flip(w \cap C, {i})) % 2 = 1 - (Cardinality(w \cap C) % 2)
    BY <1>2, FlipChangesParity
  <2>q. QED
    BY <1>1, <1>3, <1>4, <2>0, <2>1, <2>2 DEF C
<1>5. CASE i \notin C
  <2>1. Flip(w, {i}) \cap C = w \cap C
    BY <1>5 DEF Flip
  <2>q. QED
    BY <1>1, <1>2, <1>3, <1>5, <2>1, Remainders DEF C
<1>q. QED
  BY <1>4, <1>5

LEMMA ChecksOverlap ==
    /\ \A k \in 1..4 : Checked[k] \subseteq 0..14
    /\ \A j, k \in 1..4 : 10 + j \in Checked[k] <=> j = k
    /\ Checked[5] = WordBits
BY DEF Checked

LEMMA ColumnsDiffer ==
    ASSUME NEW i \in WordBits
    PROVE  Column(i) \in 16..31 /\ BadBit[Column(i) - 15] = i
<1>1. i \in 0..15
  BY DEF WordBits
<1>q. QED
  BY <1>1, SMT DEF Column, Checked, BadBit, WordBits

LEMMA ParityOfData ==
    ASSUME NEW w \in SUBSET WordBits, NEW k \in 1..5
    PROVE  Parity(w, k) \in {0, 1}
<1>1. Cardinality(w \cap Checked[k]) \in Nat
  BY WordsAreFinite
<1>q. QED
  BY <1>1, Remainders DEF Parity

LEMMA EncodedIsSound ==
    ASSUME NEW data \in SUBSET DataBits
    PROVE  /\ Encoded(data) \in SUBSET WordBits
           /\ Encoded(data) \cap DataBits = data
           /\ \A k \in 1..5 : Parity(Encoded(data), k) = 0
<1> DEFINE checks == {10 + k : k \in {j \in 1..4 : Parity(data, j) = 1}}
           coded == data \cup checks
           whole == IF Cardinality(coded) % 2 = 1 THEN {15} ELSE {}
<1>1. Encoded(data) = coded \cup whole
  BY Zenon DEF Encoded
<1>2. checks \subseteq 11..14
  OBVIOUS
<1>3. whole \subseteq {15}
  OBVIOUS
<1>4. data \subseteq 0..10 /\ 0..10 \subseteq WordBits /\ 11..14 \subseteq WordBits
      /\ {15} \subseteq WordBits
  BY DEF DataBits, WordBits
<1>5. ASSUME NEW k \in 1..4 PROVE 10 + k \in checks <=> Parity(data, k) = 1
  OBVIOUS
<1>6. Cardinality(coded) % 2 = 1 <=> whole = {15}
  OBVIOUS
<1>7. Cardinality(coded) % 2 # 1 <=> whole = {}
  OBVIOUS
<1> HIDE DEF checks, whole
<1>0. data \in SUBSET WordBits /\ coded \in SUBSET WordBits
  BY <1>2, <1>4, Zenon
<1>8. Encoded(data) \in SUBSET WordBits /\ Encoded(data) \cap DataBits = data
  <2>1. Encoded(data) \in SUBSET WordBits
    BY <1>0, <1>1, <1>3, <1>4, Zenon
  <2>2. \A x \in DataBits : x \notin 11..14 /\ x # 15
    BY DEF DataBits
  <2>q. QED
    BY <1>1, <1>2, <1>3, <2>1, <2>2, Zenon
<1>9. ASSUME NEW k \in 1..4 PROVE Parity(Encoded(data), k) = 0
  <2> DEFINE C == Checked[k]
  <2>1. C \subseteq 0..14 /\ (\A j \in 1..4 : 10 + j \in C <=> j = k)
    BY ChecksOverlap
  <2>2. Parity(Encoded(data), k) = Cardinality(Encoded(data) \cap C) % 2
        /\ Parity(data, k) = Cardinality(data \cap C) % 2
    BY DEF Parity
  <2>3. Parity(data, k) \in {0, 1}
    BY <1>0, ParityOfData
  <2>4. IsFiniteSet(data \cap C)
    BY <1>0, WordsAreFinite
  <2> HIDE DEF C
  <2>5. \A x \in checks : x \in C => x = 10 + k
    <3>1. \A x \in checks : \E j \in 1..4 : x = 10 + j
      BY <1>2
    <3>q. QED
      BY <2>1, <3>1
  <2>0. whole \cap C = {}
    <3>1. 15 \notin C
      BY <2>1
    <3>q. QED
      BY <1>3, <3>1, Zenon
  <2>6. CASE Parity(data, k) = 1
    <3>1. 10 + k \in checks /\ 10 + k \in C /\ 10 + k \notin data
      BY <1>4, <1>5, <2>1, <2>6
    <3>2. Encoded(data) \cap C = Flip(data \cap C, {10 + k})
      <4>1. Encoded(data) \cap C = (data \cap C) \cup {10 + k}
        BY <1>1, <2>0, <2>5, <3>1, Zenon
      <4>2. Flip(data \cap C, {10 + k}) = (data \cap C) \cup {10 + k}
        BY <3>1, Zenon DEF Flip
      <4>q. QED
        BY <4>1, <4>2, Zenon
    <3>3. Cardinality(Flip(data \cap C, {10 + k})) % 2 = 1 - (Cardinality(data \cap C) % 2)
      BY <2>4, FlipChangesParity, Zenon
    <3>4. Parity(Encoded(data), k) = 1 - Parity(data, k)
      BY <2>2, <3>2, <3>3, Zenon
    <3>q. QED
      BY <2>6, <3>4
  <2>7. CASE Parity(data, k) = 0
    <3>1. 10 + k \notin checks
      BY <1>5, <2>7
    <3>0. checks \cap C = {}
      BY <2>5, <3>1, Zenon
    <3>2. Encoded(data) \cap C = data \cap C
      BY <1>1, <2>0, <3>0, Zenon
    <3>q. QED
      BY <2>2, <2>7, <3>2
  <2>q. QED
    BY <2>3, <2>6, <2>7
<1>10. Parity(Encoded(data), 5) = 0
  <2>1. Parity(Encoded(data), 5) = Cardinality(Encoded(data)) % 2
    <3>1. Encoded(data) \cap Checked[5] = Encoded(data)
      BY <1>8, ChecksOverlap
    <3>q. QED
      BY <3>1 DEF Parity
  <2>2. IsFiniteSet(coded) /\ Cardinality(coded) \in Nat
    BY <1>0, WordsAreFinite, FS_CardinalityType
  <2>3. Cardinality(coded) % 2 \in {0, 1}
    BY <2>2, Remainders
  <2>4. CASE whole = {15}
    <3>1. Encoded(data) = Flip(coded, {15})
      <4>1. 15 \notin coded
        BY <1>2, <1>4
      <4>q. QED
        BY <1>1, <2>4, <4>1, Zenon DEF Flip
    <3>2. Cardinality(Flip(coded, {15})) % 2 = 1 - (Cardinality(coded) % 2)
      BY <2>2, FlipChangesParity, Zenon
    <3>q. QED
      BY <1>6, <2>1, <2>4, <3>1, <3>2
  <2>5. CASE whole = {}
    <3>1. Encoded(data) = coded
      BY <1>1, <2>5
    <3>q. QED
      BY <1>7, <2>1, <2>3, <2>5, <3>1
  <2>q. QED
    BY <1>6, <1>7, <2>4, <2>5
<1>q. QED
  BY <1>8, <1>9, <1>10

LEMMA OneBitCheck ==
    ASSUME NEW data \in SUBSET DataBits, NEW i \in WordBits
    PROVE  /\ Check(Encoded(data)) = 0
           /\ Flip(Encoded(data), {i}) \in SUBSET WordBits
           /\ \A k \in 1..5 : Parity(Flip(Encoded(data), {i}), k) =
                                 (IF i \in Checked[k] THEN 1 ELSE 0)
           /\ Check(Flip(Encoded(data), {i})) = Column(i)
<1> DEFINE w == Encoded(data)
<1>1. w \in SUBSET WordBits /\ \A k \in 1..5 : Parity(w, k) = 0
  BY EncodedIsSound
<1> HIDE DEF w
<1>2. Check(w) = 0
  BY <1>1 DEF Check
<1>3. Flip(w, {i}) \in SUBSET WordBits
  BY <1>1 DEF Flip
<1>4. \A k \in 1..5 : Parity(Flip(w, {i}), k) = (IF i \in Checked[k] THEN 1 ELSE 0)
  BY <1>1, FlipChangesCheck
<1>5. Check(Flip(w, {i})) = Column(i)
  BY <1>4 DEF Check, Column
<1>q. QED
  BY <1>2, <1>3, <1>4, <1>5 DEF w

LEMMA TwoBitCheck ==
    ASSUME NEW data \in SUBSET DataBits, NEW i \in WordBits, NEW j \in WordBits, i # j
    PROVE  Check(Flip(Encoded(data), {i, j})) \in 1..15
<1> DEFINE one == Flip(Encoded(data), {i})
           bit(x, k) == IF x \in Checked[k] THEN 1 ELSE 0
           p(k) == Parity(Flip(one, {j}), k)
<1>1. one \in SUBSET WordBits /\ \A k \in 1..5 : Parity(one, k) = bit(i, k)
  BY OneBitCheck
<1>2. Flip(Encoded(data), {i, j}) = Flip(one, {j})
  BY DEF Flip
<1> HIDE DEF one
<1>3. \A k \in 1..5 : p(k) = IF bit(i, k) = bit(j, k) THEN 0 ELSE 1
  BY <1>1, FlipChangesCheck
<1>4. Check(Flip(one, {j})) = p(1) + 2 * p(2) + 4 * p(3) + 8 * p(4) + 16 * p(5)
  BY DEF Check
<1>5. Column(i) = bit(i, 1) + 2 * bit(i, 2) + 4 * bit(i, 3) + 8 * bit(i, 4) + 16 * bit(i, 5)
      /\ Column(j) = bit(j, 1) + 2 * bit(j, 2) + 4 * bit(j, 3) + 8 * bit(j, 4) + 16 * bit(j, 5)
  BY DEF Column
<1>6. bit(i, 5) = 1 /\ bit(j, 5) = 1
  BY ChecksOverlap
<1>7. Column(i) # Column(j)
  BY ColumnsDiffer
<1>8. \A k \in 1..5 : p(k) \in {0, 1} /\ bit(i, k) \in {0, 1} /\ bit(j, k) \in {0, 1}
  BY <1>3
<1> HIDE DEF p, bit
<1>9. p(5) = 0
  BY <1>3, <1>6
<1>10. \E k \in 1..4 : p(k) = 1
  <2>1. SUFFICES ASSUME \A k \in 1..4 : p(k) # 1 PROVE FALSE
    OBVIOUS
  <2>2. bit(i, 1) = bit(j, 1) /\ bit(i, 2) = bit(j, 2) /\ bit(i, 3) = bit(j, 3)
        /\ bit(i, 4) = bit(j, 4)
    BY <1>3, <2>1
  <2>q. QED
    BY <1>5, <1>6, <1>7, <2>2
<1>11. p(1) \in {0, 1} /\ p(2) \in {0, 1} /\ p(3) \in {0, 1} /\ p(4) \in {0, 1}
  BY <1>8
<1>12. p(1) = 1 \/ p(2) = 1 \/ p(3) = 1 \/ p(4) = 1
  BY <1>10
<1>q. QED
  BY <1>2, <1>4, <1>9, <1>11, <1>12

(***************************************************************************)
(* The code of the EEPROM's words, for each of the 2048 data: a sound word *)
(* decodes to its data, one flipped bit is repaired whichever it is, and   *)
(* two flipped bits are never taken for a sound or a repairable word       *)
(* (HammingDecode).                                                        *)
(***************************************************************************)
THEOREM HammingDecodes ==
    ASSUME NEW data \in SUBSET DataBits, NEW i \in WordBits, NEW j \in WordBits
    PROVE  /\ Check(Encoded(data)) = 0 /\ Decoded(Encoded(data)) = data
           /\ LET one == Flip(Encoded(data), {i}) IN Check(one) > 15 /\ Check(one) # 0 /\ Decoded(one) = data
           /\ i # j => Check(Flip(Encoded(data), {i, j})) \in 1..15
<1> DEFINE w == Encoded(data)
           one == Flip(w, {i})
<1>1. w \cap DataBits = data /\ Check(w) = 0
  BY EncodedIsSound, OneBitCheck
<1>2. Check(one) = Column(i) /\ Column(i) \in 16..31 /\ BadBit[Column(i) - 15] = i
  BY OneBitCheck, ColumnsDiffer
<1>3. i # j => Check(Flip(w, {i, j})) \in 1..15
  BY TwoBitCheck
<1>4. Decoded(one) = Flip(one, {i}) \cap DataBits
  BY <1>2 DEF Decoded
<1>5. Flip(one, {i}) = w
  BY DEF Flip
<1> HIDE DEF w
<1>6. Decoded(w) = data
  BY <1>1 DEF Decoded
<1>q. QED
  BY <1>1, <1>2, <1>3, <1>4, <1>5, <1>6 DEF w
=============================================================================
