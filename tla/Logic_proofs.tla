---------------------------- MODULE Logic_proofs ----------------------------
(***************************************************************************)
(* Get_CRC() computes CRC-32 of every body; and proofs about Logic for any *)
(* threads, objects and packages: types, ReplyReachesRequester and         *)
(* OnlyIntactAnswered.                                                     *)
(***************************************************************************)
EXTENDS Logic, ListLemmas

-----------------------------------------------------------------------------
(* Words, bit by bit.                                                      *)

\* A sum over GF(2).
LEMMA InSymDiff ==
    \A A, B, x : x \in SymDiff(A, B) <=> ~(x \in A <=> x \in B)
  BY DEF SymDiff

\* Reflect() turns the order of n bits round.
LEMMA InReflect ==
    ASSUME NEW ref, NEW n \in Nat, NEW y
    PROVE  y \in Reflect(ref, n) <=> y \in 0 .. n - 1 /\ n - 1 - y \in ref
<1>1. ASSUME y \in Reflect(ref, n) PROVE y \in 0 .. n - 1 /\ n - 1 - y \in ref
  <2>1. PICK i \in 1 .. n : i - 1 \in ref /\ y = n - i
    BY <1>1 DEF Reflect
  <2>2. n - 1 - y = i - 1 /\ y \in 0 .. n - 1
    BY <2>1
  <2> QED BY <2>1, <2>2
<1>2. ASSUME y \in 0 .. n - 1, n - 1 - y \in ref PROVE y \in Reflect(ref, n)
  <2> DEFINE i == n - y
  <2>1. i \in 1 .. n /\ i - 1 = n - 1 - y /\ y = n - i
    BY <1>2
  <2>2. i - 1 \in ref
    BY <1>2, <2>1
  <2> HIDE DEF i
  <2> QED BY <2>1, <2>2 DEF Reflect
<1> QED BY <1>1, <1>2

\* Shifts to the left lose what leaves the word.
LEMMA InShiftLeft ==
    ASSUME NEW word \in SUBSET Int, NEW n \in Nat, NEW y \in Int
    PROVE  y \in ShiftLeft(word, n) <=> y \in 0 .. 31 /\ y - n \in word
<1>1. ASSUME y - n \in word PROVE y \in {i + n : i \in word}
  <2>1. y = (y - n) + n
    OBVIOUS
  <2> QED BY <1>1, <2>1
<1>2. ASSUME y \in {i + n : i \in word} PROVE y - n \in word
  <2>1. PICK i \in word : y = i + n
    BY <1>2
  <2>2. y - n = i
    BY <2>1
  <2> QED BY <2>2
<1> QED BY <1>1, <1>2 DEF ShiftLeft

\* So do shifts to the right.
LEMMA InShiftRight ==
    ASSUME NEW word \in SUBSET Int, NEW n \in Nat, NEW y \in Int
    PROVE  y \in ShiftRight(word, n) <=> y \in 0 .. 31 /\ y + n \in word
<1>1. ASSUME y + n \in word PROVE y \in {i - n : i \in word}
  <2>1. y = (y + n) - n
    OBVIOUS
  <2> QED BY <1>1, <2>1
<1>2. ASSUME y \in {i - n : i \in word} PROVE y + n \in word
  <2>1. PICK i \in word : y = i - n
    BY <1>2
  <2>2. y + n = i
    BY <2>1
  <2> QED BY <2>2
<1> QED BY <1>1, <1>2 DEF ShiftRight

\* A turn of the table's loop keeps a word a word.
LEMMA WordShift ==
    ASSUME NEW word \in Word
    PROVE  /\ Shift(word) \in Word
           /\ \A y \in 0 .. 31 :
                 y \in Shift(word) <=>
                     ~(y - 1 \in word <=> 31 \in word /\ y \in Polynomial)
<1>1. word \in SUBSET Int /\ 1 \in Nat
  BY DEF Word
<1>2. \A y \in 0 .. 31 : y \in ShiftLeft(word, 1) <=> y - 1 \in word
  BY <1>1, InShiftLeft
<1>3. ShiftLeft(word, 1) \subseteq 0 .. 31
  BY DEF ShiftLeft
<1>4. Polynomial \subseteq 0 .. 31
  BY DEF Polynomial
<1>5. (IF 31 \in word THEN Polynomial ELSE {}) \subseteq 0 .. 31
  BY <1>4
<1>6. Shift(word) \in Word
  BY <1>3, <1>5 DEF Shift, SymDiff, Word
<1>7. ASSUME NEW y \in 0 .. 31
      PROVE  y \in Shift(word) <=> ~(y - 1 \in word <=> 31 \in word /\ y \in Polynomial)
  <2>1. y \in Shift(word) <=> ~(y \in ShiftLeft(word, 1)
                                <=> y \in (IF 31 \in word THEN Polynomial ELSE {}))
    BY InSymDiff DEF Shift
  <2>2. y \in (IF 31 \in word THEN Polynomial ELSE {}) <=> 31 \in word /\ y \in Polynomial
    OBVIOUS
  <2> QED BY <1>2, <2>1, <2>2
<1> QED BY <1>6, <1>7

-----------------------------------------------------------------------------
(* The three loops.                                                        *)

\* The loop over the bits of a table entry.
LEMMA ShiftedTurns ==
    ASSUME NEW byte
    PROVE  /\ Shifted(byte)[0] = ShiftLeft(Reflect(byte, 8), 24)
           /\ \A j \in 1 .. 8 : Shifted(byte)[j] = Shift(Shifted(byte)[j - 1])
<1> DEFINE w0 == ShiftLeft(Reflect(byte, 8), 24)
           Turns(f) == [j \in 0 .. 8 |-> IF j = 0 THEN w0 ELSE Shift(f[j - 1])]
           turn == [j \in 1 .. 8 |-> [word \in Word |-> Shift(word)]]
<1>1. w0 \in Word
  BY DEF Word, ShiftLeft
<1>2. turn \in [1 .. 8 -> [Word -> Word]]
  BY WordShift
<1>3. \A j \in 1 .. 8, word \in Word : turn[j][word] = Shift(word)
  OBVIOUS
<1> HIDE DEF w0, turn
<1>4. PICK f \in [0 .. 8 -> Word] : f[0] = w0 /\ \A j \in 1 .. 8 : f[j] = turn[j][f[j - 1]]
  <2> DEFINE last == 8
  <2>1. last \in Nat /\ turn \in [1 .. last -> [Word -> Word]]
    BY <1>2
  <2> HIDE DEF last
  <2>2. \E f \in [0 .. last -> Word] : f[0] = w0 /\ \A j \in 1 .. last : f[j] = turn[j][f[j - 1]]
    BY <1>1, <2>1, LoopExists
  <2> QED BY <2>2 DEF last
<1>5. ASSUME NEW j \in 0 .. 8 PROVE f[j] = IF j = 0 THEN w0 ELSE Shift(f[j - 1])
  <2>1. CASE j # 0
    <3>1. j \in 1 .. 8 /\ j - 1 \in 0 .. 8
      BY <2>1
    <3> QED BY <1>3, <1>4, <2>1, <3>1
  <2> QED BY <1>4, <2>1
<1>6. f = Turns(f)
  BY <1>5
<1>7. Shifted(byte) = CHOOSE g : g = Turns(g)
  BY Zenon DEF Shifted, w0
<1> HIDE DEF Turns
<1>8. Shifted(byte) = Turns(Shifted(byte))
  BY <1>6, <1>7, Zenon
<1> USE DEF Turns
<1>9. \A j \in 0 .. 8 : Shifted(byte)[j] = IF j = 0 THEN w0 ELSE Shift(Shifted(byte)[j - 1])
  <2> DEFINE s == Shifted(byte)
  <2>1. s = Turns(s)
    BY <1>8
  <2> HIDE DEF s
  <2>2. \A j \in 0 .. 8 : s[j] = IF j = 0 THEN w0 ELSE Shift(s[j - 1])
    BY <2>1
  <2> QED BY <2>2 DEF s
<1> QED BY <1>9 DEF w0

\* One byte of Get_CRC(), with the table looked up.
LEMMA WordAdd ==
    ASSUME NEW crc \in Word, NEW byte \in Byte
    PROVE  /\ Add(crc, byte) \in Word
           /\ LET index == SymDiff(crc \cap (0 .. 7), byte)
              IN  /\ index \in Byte
                  /\ Add(crc, byte) = SymDiff(ShiftRight(crc, 8),
                                              Reflect(Shifted(index)[8], 32))
<1> DEFINE index == SymDiff(crc \cap (0 .. 7), byte)
           entry == Reflect(Shifted(index)[8], 32)
<1>1. index \in Byte
  BY DEF SymDiff, Byte
<1>2. crc32_table[index] = entry
  BY <1>1 DEF crc32_table
<1>3. Add(crc, byte) = SymDiff(ShiftRight(crc, 8), entry)
  BY <1>2 DEF Add
<1>4. entry \subseteq 0 .. 31
  <2>1. 32 \in Nat
    OBVIOUS
  <2>2. \A y : y \in Reflect(Shifted(index)[8], 32) => y \in 0 .. 31
    BY <2>1, InReflect
  <2> QED BY <2>2
<1>5. ShiftRight(crc, 8) \subseteq 0 .. 31
  BY DEF ShiftRight
<1> HIDE DEF entry
<1>6. Add(crc, byte) \in Word
  BY <1>3, <1>4, <1>5 DEF SymDiff, Word
<1> QED BY <1>1, <1>3, <1>6 DEF entry

\* The loop over the bytes.
LEMMA AddedTurns ==
    ASSUME NEW buffer \in Seq(Byte)
    PROVE  /\ Added(buffer)[0] = 0 .. 31
           /\ \A n \in 1 .. Len(buffer) :
                 Added(buffer)[n] = Add(Added(buffer)[n - 1], buffer[n])
<1> DEFINE N == Len(buffer)
           Turns(f) == [n \in 0 .. N |-> IF n = 0 THEN 0 .. 31 ELSE Add(f[n - 1], buffer[n])]
           turn == [n \in 1 .. N |-> [crc \in Word |-> Add(crc, buffer[n])]]
<1>0. N \in Nat /\ \A n \in 1 .. N : buffer[n] \in Byte
  BY LenProperties, ElementOfSeq
<1> HIDE DEF N
<1>1. 0 .. 31 \in Word
  BY DEF Word
<1>2. turn \in [1 .. N -> [Word -> Word]]
  BY <1>0, WordAdd
<1>3. \A n \in 1 .. N, crc \in Word : turn[n][crc] = Add(crc, buffer[n])
  OBVIOUS
<1> HIDE DEF turn
<1>4. PICK f \in [0 .. N -> Word] : f[0] = 0 .. 31 /\ \A n \in 1 .. N : f[n] = turn[n][f[n - 1]]
  <2> DEFINE ones == 0 .. 31
  <2>1. ones \in Word /\ N \in Nat
    BY <1>0, <1>1
  <2> HIDE DEF ones, Turns
  <2>2. \E f \in [0 .. N -> Word] : f[0] = ones /\ \A n \in 1 .. N : f[n] = turn[n][f[n - 1]]
    <3>1. \A t \in [1 .. N -> [Word -> Word]] : \E f \in [0 .. N -> Word] :
             f[0] = ones /\ \A n \in 1 .. N : f[n] = t[n][f[n - 1]]
      BY <2>1, LoopExists
    <3> QED BY <1>2, <3>1
  <2> QED BY <2>2 DEF ones
<1>5. ASSUME NEW n \in 0 .. N PROVE f[n] = IF n = 0 THEN 0 .. 31 ELSE Add(f[n - 1], buffer[n])
  <2>1. CASE n # 0
    <3>1. n \in 1 .. N /\ n - 1 \in 0 .. N
      BY <1>0, <2>1
    <3> QED BY <1>3, <1>4, <2>1, <3>1
  <2> QED BY <1>4, <2>1
<1>6. f = Turns(f)
  BY <1>5
<1>7. Added(buffer) = CHOOSE g : g = Turns(g)
  BY Zenon DEF Added, N
<1> HIDE DEF Turns
<1>8. Added(buffer) = Turns(Added(buffer))
  BY <1>6, <1>7, Zenon
<1> USE DEF Turns
<1>9. \A n \in 0 .. N :
         Added(buffer)[n] = IF n = 0 THEN 0 .. 31 ELSE Add(Added(buffer)[n - 1], buffer[n])
  <2> DEFINE s == Added(buffer)
  <2>1. s = Turns(s)
    BY <1>8
  <2> HIDE DEF s
  <2>2. \A n \in 0 .. N : s[n] = IF n = 0 THEN 0 .. 31 ELSE Add(s[n - 1], buffer[n])
    BY <2>1
  <2> QED BY <2>2 DEF s
<1>10. /\ Added(buffer)[0] = 0 .. 31
       /\ \A n \in 1 .. N : Added(buffer)[n] = Add(Added(buffer)[n - 1], buffer[n])
  <2>1. 0 \in 0 .. N /\ \A n \in 1 .. N : n \in 0 .. N /\ n # 0
    BY <1>0
  <2> QED BY <1>9, <2>1
<1> QED BY <1>10 DEF N

\* The steps of the division.
LEMMA DividedTurns ==
    ASSUME NEW body \in Seq(Byte)
    PROVE  /\ Divided(body)[0] = Inverted(body)
           /\ \A i \in 1 .. 8 * Len(body) :
                 Divided(body)[i] = Divide(Divided(body)[i - 1], 32 + 8 * Len(body) - i)
<1> DEFINE size == 8 * Len(body)
           X == SUBSET Int
           Turns(f) == [i \in 0 .. size |-> IF i = 0 THEN Inverted(body)
                                            ELSE Divide(f[i - 1], 32 + size - i)]
           turn == [i \in 1 .. size |-> [rest \in X |-> Divide(rest, 32 + size - i)]]
<1>0. size \in Nat
  BY LenProperties
<1>1. Inverted(body) \in X
  <2>1. ASSUME NEW i \in DOMAIN body, NEW k \in body[i]
        PROVE  32 + 8 * (Len(body) - i) + 7 - k \in Int
    <3>1. i \in 1 .. Len(body) /\ Len(body) \in Nat /\ body[i] \in Byte
      BY LenProperties, ElementOfSeq
    <3>2. k \in Int
      BY <3>1 DEF Byte
    <3> QED BY <3>1, <3>2
  <2>2. BodyPolynomial(body) \subseteq Int
    BY <2>1 DEF BodyPolynomial
  <2> QED BY <2>2 DEF Inverted, SymDiff
<1>2. turn \in [1 .. size -> [X -> X]]
  <2>1. ASSUME NEW i \in 1 .. size, NEW rest \in X PROVE Divide(rest, 32 + size - i) \in X
    <3> DEFINE e == 32 + size - i
    <3>1. e \in Int
      BY <1>0
    <3> HIDE DEF e
    <3>2. \A g \in Generator : e - 32 + g \in Int
      BY <3>1 DEF Generator, Polynomial
    <3>3. Divide(rest, e) \in X
      BY <3>2 DEF Divide, SymDiff
    <3> QED BY <3>3 DEF e
  <2> HIDE DEF size, X
  <2> QED BY <2>1
<1> HIDE DEF size
<1>3. \A i \in 1 .. size, rest \in X : turn[i][rest] = Divide(rest, 32 + size - i)
  OBVIOUS
<1> HIDE DEF turn, X
<1>4. PICK f \in [0 .. size -> X] :
         f[0] = Inverted(body) /\ \A i \in 1 .. size : f[i] = turn[i][f[i - 1]]
  BY <1>0, <1>1, <1>2, LoopExists
<1>5. ASSUME NEW i \in 0 .. size
      PROVE  f[i] = IF i = 0 THEN Inverted(body) ELSE Divide(f[i - 1], 32 + size - i)
  <2>1. CASE i # 0
    <3>1. i \in 1 .. size /\ i - 1 \in 0 .. size
      BY <1>0, <2>1
    <3> QED BY <1>3, <1>4, <2>1, <3>1
  <2> QED BY <1>4, <2>1
<1>6. f = Turns(f)
  BY <1>5
<1>7. Divided(body) = CHOOSE g : g = Turns(g)
  BY Zenon DEF Divided, size
<1> HIDE DEF Turns
<1>8. Divided(body) = Turns(Divided(body))
  BY <1>6, <1>7, Zenon
<1> USE DEF Turns
<1>9. \A i \in 0 .. size :
         Divided(body)[i] = IF i = 0 THEN Inverted(body)
                            ELSE Divide(Divided(body)[i - 1], 32 + size - i)
  <2> DEFINE s == Divided(body)
  <2>1. s = Turns(s)
    BY <1>8
  <2> HIDE DEF s
  <2>2. \A i \in 0 .. size : s[i] = IF i = 0 THEN Inverted(body)
                                    ELSE Divide(s[i - 1], 32 + size - i)
    BY <2>1
  <2> QED BY <2>2 DEF s
<1> QED BY <1>0, <1>9 DEF size

-----------------------------------------------------------------------------
(* Get_CRC() computes CRC-32: the table's loop does eight steps of the      *)
(* division at once, on what the register holds of the rest.                *)

\* The bits of byte k in the polynomial of a body.
LEMMA BodyBit ==
    ASSUME NEW body \in Seq(Byte), NEW k \in 1 .. Len(body), NEW b \in 0 .. 7
    PROVE  32 + 8 * (Len(body) - k) + 7 - b \in BodyPolynomial(body) <=> b \in body[k]
<1> DEFINE N == Len(body)
           Exponent(i, m) == 32 + 8 * (N - i) + 7 - m
<1>1. N \in Nat /\ DOMAIN body = 1 .. N /\ \A i \in 1 .. N : body[i] \in SUBSET (0 .. 7)
  BY LenProperties, ElementOfSeq DEF Byte
<1>2. \A x : x \in BodyPolynomial(body) <=> \E i \in 1 .. N : \E m \in body[i] : x = Exponent(i, m)
  <2>1. \A x : x \in BodyPolynomial(body) <=> \E i \in DOMAIN body : x \in {Exponent(i, m) : m \in body[i]}
    BY DEF BodyPolynomial
  <2> HIDE DEF N, Exponent
  <2> QED BY <1>1, <2>1
<1> HIDE DEF N
<1>3. ASSUME NEW i \in 1 .. N, NEW m \in body[i], Exponent(k, b) = Exponent(i, m) PROVE b \in body[k]
  <2>1. m \in 0 .. 7 /\ k \in 1 .. N
    BY <1>1 DEF N
  <2>2. i = k /\ m = b
    BY <1>1, <1>3, <2>1
  <2> QED BY <2>2
<1>4. k \in 1 .. N
  BY DEF N
<1> HIDE DEF Exponent
<1>5. Exponent(k, b) \in BodyPolynomial(body) <=> b \in body[k]
  BY <1>2, <1>3, <1>4
<1> QED BY <1>5 DEF Exponent, N

\* The polynomial of a body starts above the 32 terms of the remainder.
LEMMA BodyRange ==
    ASSUME NEW body \in Seq(Byte), NEW x \in BodyPolynomial(body)
    PROVE  x \in 32 .. 8 * Len(body) + 31
<1>1. /\ Len(body) \in Nat /\ DOMAIN body = 1 .. Len(body)
      /\ \A i \in 1 .. Len(body) : body[i] \in SUBSET (0 .. 7)
  BY LenProperties, ElementOfSeq DEF Byte
<1>2. PICK i \in 1 .. Len(body) : \E m \in body[i] : x = 32 + 8 * (Len(body) - i) + 7 - m
  BY <1>1 DEF BodyPolynomial
<1>3. PICK m \in 0 .. 7 : x = 32 + 8 * (Len(body) - i) + 7 - m
  BY <1>1, <1>2
<1> QED BY <1>1, <1>3

\* A rest is the sum of a word at exponent base and of other terms.
Sum(rest, word, base, low) ==
    \A x \in Int : x \in rest <=> ~(x - base \in word <=> x \in low)

\* One step of the division on a rest with a word at exponent base and nothing
\* else so high up is one turn of the loop on that word.
LEMMA DivideShift ==
    ASSUME NEW base \in Int, NEW word \in Word, NEW rest, NEW low,
           Sum(rest, word, base, low), base + 31 \notin low
    PROVE  Sum(Divide(rest, base + 31), Shift(word), base - 1, low)
<1>0. \A x \in Int : x \in rest <=> ~(x - base \in word <=> x \in low)
  BY DEF Sum
<1> DEFINE e == base + 31
           multiple == {e - 32 + g : g \in Generator}
<1>1. e \in rest <=> 31 \in word
  <2>1. e \in Int /\ e - base = 31
    OBVIOUS
  <2> HIDE DEF e
  <2>2. e \notin low
    BY DEF e
  <2> QED BY <1>0, <2>1, <2>2
<1>2. \A x \in Int : x \in multiple <=> x - (base - 1) \in Generator
  <2>1. ASSUME NEW x \in Int, x \in multiple PROVE x - (base - 1) \in Generator
    <3>1. PICK g \in Generator : x = e - 32 + g
      BY <2>1
    <3>2. g \in Int
      BY DEF Generator, Polynomial
    <3>3. x - (base - 1) = g
      BY <3>1, <3>2
    <3> QED BY <3>3
  <2>2. ASSUME NEW x \in Int, x - (base - 1) \in Generator PROVE x \in multiple
    <3>1. x = e - 32 + (x - (base - 1))
      OBVIOUS
    <3> HIDE DEF e
    <3> QED BY <2>2, <3>1
  <2> QED BY <2>1, <2>2
<1>3. \A x : x \in Divide(rest, e) <=> ~(x \in rest <=> 31 \in word /\ x \in multiple)
  BY <1>1, InSymDiff DEF Divide
<1> HIDE DEF e, multiple
<1>4. word \subseteq 0 .. 31
  BY DEF Word
<1>5. ASSUME NEW x \in Int
      PROVE  x \in Divide(rest, e) <=> ~(x - (base - 1) \in Shift(word) <=> x \in low)
  <2> DEFINE y == x - (base - 1)
  <2>1. y \in Int /\ x - base = y - 1
    OBVIOUS
  <2>2. x \in rest <=> ~(y - 1 \in word <=> x \in low)
    BY <1>0, <2>1
  <2>3. x \in multiple <=> y \in Generator
    BY <1>2
  <2> HIDE DEF y
  <2>4. CASE y \in 0 .. 31
    <3>1. y \in Shift(word) <=> ~(y - 1 \in word <=> 31 \in word /\ y \in Polynomial)
      BY <2>4, WordShift
    <3>2. y \in Generator <=> y \in Polynomial
      BY <2>4 DEF Generator
    <3> QED BY <1>3, <2>2, <2>3, <3>1, <3>2 DEF y
  <2>5. CASE y \notin 0 .. 31
    <3>1. y \notin Shift(word)
      BY <2>5, WordShift DEF Word
    <3>2. y \in Generator <=> y = 32
      BY <2>1, <2>5 DEF Generator, Polynomial
    <3>3. y - 1 \in word <=> y = 32 /\ 31 \in word
      BY <1>4, <2>1, <2>5
    <3> QED BY <1>3, <2>2, <2>3, <3>1, <3>2, <3>3 DEF y
  <2> QED BY <2>4, <2>5
<1> QED BY <1>5 DEF e, Sum

\* After k bytes the rest is the register, read backwards, above the terms of
\* the bytes still to come.
Agree(body, k) ==
    LET base == 8 * (Len(body) - k)
    IN  /\ Added(body)[k] \in Word
        /\ \A x \in Int :
              x \in Divided(body)[8 * k]
                  <=> ~(base + 31 - x \in Added(body)[k]
                        <=> x \in BodyPolynomial(body) /\ x < base + 32)

\* Before the first byte.
LEMMA AgreeFirst ==
    ASSUME NEW body \in Seq(Byte) PROVE Agree(body, 0)
<1> DEFINE size == 8 * Len(body)
<1>1. size \in Nat /\ 8 * (Len(body) - 0) = size
  BY LenProperties
<1>2. Added(body)[0] = 0 .. 31 /\ Divided(body)[8 * 0] = Inverted(body)
  <2>1. 8 * 0 = 0
    OBVIOUS
  <2>2. Divided(body)[0] = Inverted(body)
    BY DividedTurns
  <2> QED BY <2>1, <2>2, AddedTurns
<1>3. \A x \in BodyPolynomial(body) : x \in Int /\ x < size + 32
  BY <1>1, BodyRange
<1>4. \A x \in Int : x \in Inverted(body) <=> ~(x \in size .. size + 31 <=> x \in BodyPolynomial(body))
  BY InSymDiff DEF Inverted
<1> HIDE DEF size
<1>5. ASSUME NEW x \in Int
      PROVE  x \in Inverted(body)
                 <=> ~(size + 31 - x \in 0 .. 31
                       <=> x \in BodyPolynomial(body) /\ x < size + 32)
  <2>1. x \in size .. size + 31 <=> size + 31 - x \in 0 .. 31
    BY <1>1
  <2> QED BY <1>3, <1>4, <2>1
<1>6. 0 .. 31 \in Word
  BY DEF Word
<1> QED BY <1>1, <1>2, <1>5, <1>6 DEF Agree

\* Eight steps of the division and eight turns of the loop.
LEMMA EightSteps ==
    ASSUME NEW base \in Int, NEW w, NEW r, NEW low,
           w[0] \in Word,
           \A j \in 1 .. 8 : w[j] = Shift(w[j - 1]),
           \A j \in 1 .. 8 : r[j] = Divide(r[j - 1], base + 32 - j),
           \A x \in low : x \in Int /\ x < base + 24,
           Sum(r[0], w[0], base, low)
    PROVE  w[8] \in Word /\ Sum(r[8], w[8], base - 8, low)
<1> DEFINE Same(j) == w[j] \in Word /\ Sum(r[j], w[j], base - j, low)
           P == {j \in Nat : j <= 8 => Same(j)}
<1>1. 0 \in P
  <2>1. base - 0 = base
    OBVIOUS
  <2> QED BY <2>1
<1>2. ASSUME NEW j \in Nat, j <= 7, Same(j)
      PROVE  Same(j + 1)
  <2> DEFINE top == base - j
             n == j + 1
  <2>1. /\ top \in Int /\ top - 1 = base - n /\ top + 31 = base + 32 - n
        /\ n \in 1 .. 8 /\ n - 1 = j
    BY <1>2
  <2>2. top + 31 \notin low
    BY <1>2
  <2>3. w[j] \in Word /\ Sum(r[j], w[j], top, low)
    BY <1>2
  <2> HIDE DEF top, n
  <2>4. w[n] = Shift(w[j]) /\ r[n] = Divide(r[j], top + 31)
    BY <2>1
  <2>5. Sum(Divide(r[j], top + 31), Shift(w[j]), top - 1, low)
    BY <2>1, <2>2, <2>3, DivideShift
  <2>6. w[n] \in Word
    BY <2>3, <2>4, WordShift
  <2>7. Sum(r[n], w[n], base - n, low)
    BY <2>1, <2>4, <2>5
  <2> QED BY <2>6, <2>7 DEF n
<1> HIDE DEF Same
<1>3. \A j \in Nat : j \in P => j + 1 \in P
  BY <1>2
<1>4. \A j \in Nat : j \in P
  <2> HIDE DEF P
  <2> QED BY <1>1, <1>3, SetInduction, Zenon
<1>5. Same(8)
  BY <1>4
<1> QED BY <1>5 DEF Same

\* One byte: the eight steps that use up the eight highest terms.
LEMMA AgreeStep ==
    ASSUME NEW body \in Seq(Byte), NEW k \in 1 .. Len(body), Agree(body, k - 1)
    PROVE  Agree(body, k)
<1> DEFINE N == Len(body)
           base == 8 * (N - k) + 8
           start == 8 * (k - 1)
           c == Added(body)[k - 1]
           byte == body[k]
           index == SymDiff(c \cap (0 .. 7), byte)
           w == Shifted(index)
           r == [j \in 0 .. 8 |-> Divided(body)[start + j]]
           low == {x \in Int : x < base + 24 /\ x \in r[0]}
           poly == BodyPolynomial(body)
<1>1. /\ N \in Nat /\ k \in 1 .. N /\ base \in Int /\ start \in Nat
      /\ base = 8 * (N - (k - 1)) /\ start + 0 = start /\ start + 8 = 8 * k
      /\ byte \in Byte
  BY LenProperties, ElementOfSeq
<1>2. c \in Word /\ \A x \in Int : x \in Divided(body)[start]
                        <=> ~(base + 31 - x \in c <=> x \in poly /\ x < base + 32)
  BY <1>1 DEF Agree
<1>3. \A b \in 0 .. 7 : base + 31 - b \in poly <=> b \in byte
  <2>1. ASSUME NEW b \in 0 .. 7 PROVE base + 31 - b \in poly <=> b \in byte
    <3>1. 32 + 8 * (N - k) + 7 - b = base + 31 - b
      BY <1>1
    <3>2. 32 + 8 * (N - k) + 7 - b \in poly <=> b \in byte
      BY BodyBit
    <3> QED BY <3>1, <3>2
  <2> QED BY <2>1
<1>4. Added(body)[k] = Add(c, byte)
  BY AddedTurns
<1>5. /\ Add(c, byte) \in Word
      /\ index \in Byte
      /\ Add(c, byte) = SymDiff(ShiftRight(c, 8), Reflect(w[8], 32))
  BY <1>1, <1>2, WordAdd
<1>6. w[0] = ShiftLeft(Reflect(index, 8), 24) /\ \A j \in 1 .. 8 : w[j] = Shift(w[j - 1])
  BY ShiftedTurns
<1>7. \A j \in 1 .. 8 : r[j] = Divide(r[j - 1], base + 32 - j)
  <2>1. ASSUME NEW j \in 1 .. 8 PROVE r[j] = Divide(r[j - 1], base + 32 - j)
    <3> DEFINE i == start + j
               size == 8 * N
    <3>1. /\ i \in 1 .. size /\ i - 1 = start + (j - 1) /\ 32 + size - i = base + 32 - j
          /\ j \in 0 .. 8 /\ j - 1 \in 0 .. 8
      BY <1>1
    <3>2. \A m \in 1 .. size : Divided(body)[m] = Divide(Divided(body)[m - 1], 32 + size - m)
      BY DividedTurns
    <3> HIDE DEF size
    <3>3. Divided(body)[i] = Divide(Divided(body)[i - 1], 32 + size - i)
      BY <3>1, <3>2
    <3>4. r[j] = Divided(body)[i] /\ r[j - 1] = Divided(body)[start + (j - 1)]
      BY <3>1
    <3> HIDE DEF i, r
    <3> QED BY <3>1, <3>3, <3>4
  <2> QED BY <2>1
<1>8. r[0] = Divided(body)[start] /\ r[8] = Divided(body)[8 * k]
  BY <1>1
<1> HIDE DEF N, base, start, c, byte, w, r, poly
<1>9. \A b \in 0 .. 7 : b \in index <=> ~(b \in c <=> b \in byte)
  BY InSymDiff
<1> HIDE DEF index
<1>10. \A x \in Int : x \in r[0] <=> ~(base + 31 - x \in c <=> x \in poly /\ x < base + 32)
  BY <1>2, <1>8
<1>11. \A y \in Int : y \in w[0] <=> y \in 24 .. 31 /\ 31 - y \in index
  <2>1. ASSUME NEW y \in Int PROVE y \in w[0] <=> y \in 24 .. 31 /\ 31 - y \in index
    <3> DEFINE mirrored == Reflect(index, 8)
    <3>1. 8 \in Nat /\ 24 \in Nat /\ y - 24 \in Int
      OBVIOUS
    <3>2. \A m : m \in Reflect(index, 8) <=> m \in 0 .. 8 - 1 /\ 8 - 1 - m \in index
      BY <3>1, InReflect
    <3>3. mirrored \in SUBSET Int
      BY <3>2
    <3>4. y - 24 \in mirrored <=> y \in 24 .. 31 /\ 31 - y \in index
      <4>1. y - 24 \in 0 .. 8 - 1 <=> y \in 24 .. 31
        OBVIOUS
      <4>2. 8 - 1 - (y - 24) = 31 - y
        OBVIOUS
      <4> QED BY <3>2, <4>1, <4>2
    <3> HIDE DEF mirrored
    <3>5. y \in ShiftLeft(mirrored, 24) <=> y \in 0 .. 31 /\ y - 24 \in mirrored
      BY <3>1, <3>3, InShiftLeft
    <3> QED BY <1>6, <3>4, <3>5 DEF mirrored
  <2> QED BY <2>1
<1>12. w[0] \in Word
  BY <1>6 DEF ShiftLeft, Word
<1>13. \A x \in low : x \in Int /\ x < base + 24
  OBVIOUS
<1>14. \A x \in Int : x \in low <=> x < base + 24 /\ x \in r[0]
  OBVIOUS
<1> HIDE DEF low
<1>15. \A m \in c : m \in 0 .. 31 /\ m \in Int
  <2>1. \A m \in c : m \in 0 .. 31
    BY <1>2 DEF Word
  <2>2. \A m \in 0 .. 31 : m \in Int
    OBVIOUS
  <2> QED BY <2>1, <2>2, Zenon
<1>16. \A x \in Int : x \in r[0] <=> ~(x - base \in w[0] <=> x \in low)
  <2>1. ASSUME NEW x \in Int PROVE x \in r[0] <=> ~(x - base \in w[0] <=> x \in low)
    <3> DEFINE b == base + 31 - x
    <3>1. b \in Int /\ x = base + 31 - b /\ 31 - (x - base) = b /\ x - base \in Int
      BY <1>1
    <3>2. x - base \in w[0] <=> x - base \in 24 .. 31 /\ b \in index
      BY <1>11, <3>1
    <3>3. x \in r[0] <=> ~(b \in c <=> x \in poly /\ x < base + 32)
      BY <1>10
    <3>4. x - base \in 24 .. 31 <=> b \in 0 .. 7
      BY <1>1
    <3>5. /\ x < base + 24 <=> b > 7
          /\ x < base + 32 <=> b >= 0
      BY <1>1
    <3> HIDE DEF b
    <3>6. CASE b \in 0 .. 7
      <4>1. x \in poly <=> b \in byte
        BY <1>3, <3>1, <3>6
      <4>2. b \in index <=> ~(b \in c <=> b \in byte)
        BY <1>9, <3>6
      <4>3. x < base + 32 /\ ~(x < base + 24)
        BY <3>5, <3>6
      <4> QED BY <1>14, <3>2, <3>3, <3>4, <3>6, <4>1, <4>2, <4>3
    <3>7. CASE b > 7
      BY <1>14, <3>1, <3>2, <3>4, <3>5, <3>7
    <3>8. CASE b < 0
      <4>1. b \notin c
        <5>1. b \notin 0 .. 31
          <6>1. b \in Int
            BY <3>1
          <6> QED BY <3>8, <6>1
        <5> QED BY <1>15, <5>1
      <4>2. ~(x < base + 32) /\ ~(x < base + 24) /\ b \notin 0 .. 7
        BY <3>1, <3>5, <3>8
      <4> QED BY <1>14, <3>2, <3>3, <3>4, <4>1, <4>2
    <3> QED BY <3>1, <3>6, <3>7, <3>8
  <2> QED BY <2>1
<1>17. /\ w[8] \in Word
       /\ \A x \in Int : x \in r[8] <=> ~(x - (base - 8) \in w[8] <=> x \in low)
  <2>1. Sum(r[0], w[0], base, low)
    BY <1>16 DEF Sum
  <2>2. w[8] \in Word /\ Sum(r[8], w[8], base - 8, low)
    BY <1>1, <1>6, <1>7, <1>12, <1>13, <2>1, EightSteps
  <2> QED BY <2>2 DEF Sum
<1>18. \A m \in w[8] : m \in 0 .. 31
  BY <1>17 DEF Word
<1>19. \A z \in Int : z \in Add(c, byte)
                          <=> z \in 0 .. 31 /\ ~(z + 8 \in c <=> 31 - z \in w[8])
  <2>1. ASSUME NEW z \in Int
        PROVE  z \in Add(c, byte) <=> z \in 0 .. 31 /\ ~(z + 8 \in c <=> 31 - z \in w[8])
    <3> DEFINE entry == w[8]
    <3>1. 8 \in Nat /\ 32 \in Nat /\ 32 - 1 = 31 /\ c \in SUBSET Int
      <4>1. \A m \in c : m \in Int
        BY <1>15
      <4> QED BY <4>1
    <3> HIDE DEF entry
    <3>2. z \in ShiftRight(c, 8) <=> z \in 0 .. 31 /\ z + 8 \in c
      BY <3>1, InShiftRight
    <3>3. \A y : y \in Reflect(entry, 32) <=> y \in 0 .. 32 - 1 /\ 32 - 1 - y \in entry
      BY <3>1, InReflect
    <3>4. z \in Reflect(entry, 32) <=> z \in 0 .. 31 /\ 31 - z \in entry
      BY <3>1, <3>3
    <3>5. z \in Add(c, byte) <=> ~(z \in ShiftRight(c, 8) <=> z \in Reflect(entry, 32))
      BY <1>5, InSymDiff DEF entry
    <3> QED BY <3>2, <3>4, <3>5 DEF entry
  <2> QED BY <2>1
<1>20. \A x \in Int : x \in r[8] <=> ~(base + 23 - x \in Add(c, byte)
                                       <=> x \in poly /\ x < base + 24)
  <2>1. ASSUME NEW x \in Int
        PROVE  x \in r[8] <=> ~(base + 23 - x \in Add(c, byte) <=> x \in poly /\ x < base + 24)
    <3> DEFINE z == base + 23 - x
    <3>1. /\ z \in Int /\ z + 8 = base + 31 - x /\ 31 - z = x - (base - 8)
          /\ x < base + 24 <=> z >= 0
          /\ x < base + 24 => x < base + 32
      BY <1>1
    <3>2. x \in r[8] <=> ~(31 - z \in w[8] <=> x \in low)
      BY <1>17, <3>1
    <3>3. x \in r[0] <=> ~(z + 8 \in c <=> x \in poly /\ x < base + 32)
      BY <1>10, <3>1
    <3>4. z \in Add(c, byte) <=> z \in 0 .. 31 /\ ~(z + 8 \in c <=> 31 - z \in w[8])
      BY <1>19, <3>1
    <3> HIDE DEF z
    <3>5. CASE z \in 0 .. 31
      <4>1. x < base + 24
        BY <3>1, <3>5
      <4> QED BY <1>14, <3>1, <3>2, <3>3, <3>4, <3>5, <4>1 DEF z
    <3>6. CASE z > 31
      <4>1. x < base + 24 /\ z \notin 0 .. 31
        BY <3>1, <3>6
      <4>2. z + 8 \notin c /\ 31 - z \notin w[8]
        <5>1. z + 8 \notin 0 .. 31 /\ 31 - z \notin 0 .. 31
          <6>1. z \in Int
            BY <3>1
          <6> QED BY <3>6, <6>1
        <5> QED BY <1>15, <1>18, <5>1
      <4> QED BY <1>14, <3>1, <3>2, <3>3, <3>4, <4>1, <4>2 DEF z
    <3>7. CASE z < 0
      <4>1. ~(x < base + 24) /\ z \notin 0 .. 31
        BY <3>1, <3>7
      <4>2. 31 - z \notin w[8]
        <5>1. 31 - z \notin 0 .. 31
          <6>1. z \in Int
            BY <3>1
          <6> QED BY <3>7, <6>1
        <5> QED BY <1>18, <5>1
      <4> QED BY <1>14, <3>2, <3>4, <4>1, <4>2 DEF z
    <3>8. z \in 0 .. 31 \/ z > 31 \/ z < 0
      BY <3>1
    <3> QED BY <3>5, <3>6, <3>7, <3>8
  <2> QED BY <2>1
<1>21. 8 * (N - k) + 31 = base + 23 /\ 8 * (N - k) + 32 = base + 24
  BY <1>1 DEF base
<1>22. /\ Added(body)[k] \in Word
       /\ \A x \in Int : x \in Divided(body)[8 * k]
             <=> ~(8 * (N - k) + 31 - x \in Added(body)[k]
                   <=> x \in poly /\ x < 8 * (N - k) + 32)
  <2>1. Added(body)[k] \in Word
    BY <1>4, <1>5
  <2>2. ASSUME NEW x \in Int
        PROVE  x \in Divided(body)[8 * k]
             <=> ~(8 * (N - k) + 31 - x \in Added(body)[k]
                   <=> x \in poly /\ x < 8 * (N - k) + 32)
    <3>1. x \in r[8] <=> ~(base + 23 - x \in Add(c, byte) <=> x \in poly /\ x < base + 24)
      BY <1>20
    <3>2. r[8] = Divided(body)[8 * k] /\ Add(c, byte) = Added(body)[k]
      BY <1>4, <1>8
    <3>3. /\ 8 * (N - k) + 31 - x = base + 23 - x
          /\ x < 8 * (N - k) + 32 <=> x < base + 24
      BY <1>1, <1>21
    <3> QED BY <3>1, <3>2, <3>3, Zenon
  <2> QED BY <2>1, <2>2
<1> QED BY <1>22 DEF Agree, N, poly

\* After any number of bytes.
LEMMA AgreeAlways ==
    ASSUME NEW body \in Seq(Byte) PROVE \A k \in 0 .. Len(body) : Agree(body, k)
<1> DEFINE N == Len(body)
           P == {k \in Nat : k <= N => Agree(body, k)}
<1>1. N \in Nat
  BY LenProperties
<1>2. 0 \in P
  BY AgreeFirst
<1>3. ASSUME NEW k \in Nat, k \in P PROVE k + 1 \in P
  <2>1. CASE k + 1 <= N
    <3> DEFINE n == k + 1
    <3>1. n \in 1 .. N /\ n - 1 = k /\ k <= N /\ n \in Nat
      BY <1>1, <2>1
    <3> HIDE DEF n
    <3>2. Agree(body, n - 1)
      BY <1>3, <3>1
    <3>3. Agree(body, n)
      BY <3>1, <3>2, AgreeStep
    <3>4. n \in P
      BY <3>1, <3>3
    <3> QED BY <3>4 DEF n
  <2>2. CASE ~(k + 1 <= N)
    BY <2>2
  <2> QED BY <2>1, <2>2
<1>4. \A k \in Nat : k \in P
  <2> HIDE DEF P
  <2> QED BY <1>2, <1>3, SetInduction, Zenon
<1> QED BY <1>1, <1>4

\* Get_CRC() returns the CRC-32 of the bytes it is given, whatever they are and
\* however many: the table and the shifting register compute what the long
\* division by the generator leaves.
THEOREM GetCrcIsRemainder ==
    ASSUME NEW body \in Seq(Byte) PROVE Get_CRC(body) = Remainder(body)
<1> DEFINE N == Len(body)
           crc == Added(body)[N]
           rest == Divided(body)[8 * N]
<1>1. N \in Nat /\ N \in 0 .. N /\ 8 * (N - N) = 0
  BY LenProperties
<1>2. Agree(body, N)
  BY <1>1, AgreeAlways
<1>3. \A x \in BodyPolynomial(body) : ~(x < 32)
  BY <1>1, BodyRange
<1>4. crc \in Word /\ \A x \in Int : x \in rest
          <=> ~(8 * (N - N) + 31 - x \in crc
                <=> x \in BodyPolynomial(body) /\ x < 8 * (N - N) + 32)
  BY <1>2 DEF Agree
<1>5. \A m \in crc : m \in 0 .. 31
  BY <1>4 DEF Word
<1> HIDE DEF N, crc, rest
<1>6. \A x \in 0 .. 31 : x \in rest <=> 31 - x \in crc
  <2>1. ASSUME NEW x \in 0 .. 31 PROVE x \in rest <=> 31 - x \in crc
    <3>1. 8 * (N - N) + 31 - x = 31 - x /\ x \in Int /\ x \notin BodyPolynomial(body)
      BY <1>1, <1>3
    <3> QED BY <1>4, <3>1
  <2> QED BY <2>1
<1>7. ASSUME NEW y
      PROVE  y \in SymDiff(crc, 0 .. 31) <=> y \in {31 - e : e \in (0 .. 31) \ rest}
  <2>1. y \in SymDiff(crc, 0 .. 31) <=> y \in 0 .. 31 /\ y \notin crc
    <3>1. y \in SymDiff(crc, 0 .. 31) <=> ~(y \in crc <=> y \in 0 .. 31)
      BY DEF SymDiff
    <3> QED BY <1>5, <3>1
  <2>2. ASSUME y \in 0 .. 31, y \notin crc PROVE y \in {31 - e : e \in (0 .. 31) \ rest}
    <3> DEFINE e == 31 - y
    <3>1. e \in 0 .. 31 /\ 31 - e = y
      BY <2>2
    <3>2. e \notin rest
      BY <1>6, <2>2, <3>1
    <3> HIDE DEF e
    <3> QED BY <3>1, <3>2
  <2>3. ASSUME y \in {31 - e : e \in (0 .. 31) \ rest} PROVE y \in 0 .. 31 /\ y \notin crc
    <3>1. PICK e \in (0 .. 31) \ rest : y = 31 - e
      BY <2>3
    <3>2. e \in 0 .. 31 /\ 31 - e \notin crc
      BY <1>6, <3>1
    <3> QED BY <3>1, <3>2
  <2> QED BY <2>1, <2>2, <2>3
<1>8. SymDiff(crc, 0 .. 31) = {31 - e : e \in (0 .. 31) \ rest}
  BY <1>7
<1> QED BY <1>8 DEF Get_CRC, Remainder, N, crc, rest

-----------------------------------------------------------------------------
(* The inductive invariant.                                                *)

\* A thread at work has taken a request.
AtWork == \A t \in Thread : pc[t] # "idle" => request[t] \in 1 .. taken

\* A request is current only as long as its object is bound to its client.
Sequences ==
    \A n \in 1 .. Len(received) :
        LET r == received[n] IN
        /\ r.seq <= currsequence[r.conn]
        /\ r.seq = currsequence[r.conn] => bound[r.conn] /\ r.client = client[r.conn]

\* A reply answers a request that was taken, with that request's header.
Headers ==
    \A i \in 1 .. Len(replies) :
        /\ replies[i].request \in 1 .. taken
        /\ replies[i].conn = received[replies[i].request].conn
        /\ replies[i].seq = received[replies[i].request].seq

\* A request is in one thread's hands, and is answered by it once.
Alone ==
    /\ \A s, t \in Thread : pc[s] # "idle" /\ pc[t] # "idle" /\ request[s] = request[t] => s = t
    /\ \A t \in Thread : \A i \in 1 .. Len(replies) :
          pc[t] \in {"check", "lock", "reply"} => replies[i].request # request[t]
    /\ \A i, j \in 1 .. Len(replies) : replies[i].request = replies[j].request => i = j

\* What the handlers answer has been through all tests.
Tested(p) == p \in WithGoodCrc /\ (PingToAnswer(p) \/ RegisterToAnswer(p))

Intact ==
    /\ \A t \in Thread : pc[t] \in {"lock", "reply"} => Tested(received[request[t]].package)
    /\ \A i \in 1 .. Len(replies) : Tested(received[replies[i].request].package)

Inv == TypeOK /\ AtWork /\ Sequences /\ Headers /\ Alone /\ Intact

-----------------------------------------------------------------------------
(* Types.                                                                  *)

LEMMA InitInv == Init => Inv
<1> SUFFICES ASSUME Init PROVE Inv
  OBVIOUS
<1>1. received = <<>> /\ Len(received) = 0 /\ replies = <<>> /\ Len(replies) = 0
  BY DEF Init
<1>2. <<>> \in Seq(Request) /\ <<>> \in Seq(Reply)
  OBVIOUS
<1>3. client \in [Connection -> 1 .. MaxClients] /\ currsequence \in [Connection -> Nat]
  BY LogicAssumption DEF Init
<1>4. taken \in 0 .. Len(received) /\ Len(received) <= MaxRequest /\ request \in [Thread -> 0 .. taken]
  BY <1>1, LogicAssumption DEF Init
<1>5. TypeOK
  BY <1>1, <1>2, <1>3, <1>4 DEF TypeOK, Init
<1>6. \A t \in Thread : pc[t] = "idle"
  BY DEF Init
<1> QED BY <1>1, <1>5, <1>6 DEF Inv, AtWork, Sequences, Headers, Alone, Intact

\* Received requests stay where they are.
LEMMA ReceiveIs ==
    ASSUME TypeOK, NEW c \in Connection, NEW p \in Package, Receive(c, p)
    PROVE  LET r == [conn |-> c, seq |-> currsequence[c], client |-> client[c], package |-> p] IN
           /\ bound[c] /\ r \in Request
           /\ received' \in Seq(Request) /\ Len(received') = Len(received) + 1
           /\ Len(received') <= MaxRequest
           /\ \A n \in 1 .. Len(received) : received'[n] = received[n]
           /\ received'[Len(received) + 1] = r
<1> DEFINE r == [conn |-> c, seq |-> currsequence[c], client |-> client[c], package |-> p]
<1>1. r \in Request
  <2>1. currsequence[c] \in Nat /\ client[c] \in 1 .. MaxClients
    BY DEF TypeOK
  <2> QED BY <2>1 DEF Request
<1>2. /\ bound[c] /\ Len(received) < MaxRequest /\ received' = Append(received, r)
      /\ received \in Seq(Request) /\ Len(received) \in Nat
  BY LenProperties DEF Receive, TypeOK
<1> HIDE DEF r
<1>3. /\ received' \in Seq(Request) /\ Len(received') = Len(received) + 1
      /\ \A n \in 1 .. Len(received) : received'[n] = received[n]
      /\ received'[Len(received) + 1] = r
  BY <1>1, <1>2, AppendProperties
<1>4. Len(received') <= MaxRequest
  BY <1>2, <1>3, LogicAssumption
<1> QED BY <1>1, <1>2, <1>3, <1>4 DEF r

\* A thread that is at work has its request.
LEMMA AtRequest ==
    ASSUME TypeOK, AtWork, NEW t \in Thread, pc[t] # "idle"
    PROVE  /\ request[t] \in 1 .. taken /\ request[t] \in 1 .. Len(received)
           /\ request[t] \in 1 .. MaxRequest
           /\ Current(t) \in Request /\ Current(t).conn \in Connection
<1>1. request[t] \in 1 .. taken /\ taken \in 0 .. Len(received) /\ Len(received) \in Nat
  BY LenProperties DEF TypeOK, AtWork
<1>2. request[t] \in 1 .. Len(received) /\ Len(received) <= MaxRequest /\ MaxRequest \in Nat
  BY <1>1, LogicAssumption DEF TypeOK
<1>3. Current(t) \in Request
  BY <1>2, ElementOfSeq DEF Current, TypeOK
<1> QED BY <1>1, <1>2, <1>3 DEF Request

\* A handler's reply.
LEMMA InSendQueueIs ==
    ASSUME TypeOK, AtWork, NEW t \in Thread, pc[t] # "idle", InSendQueue(t)
    PROVE  /\ replies' \in Seq(Reply) /\ Len(replies') = Len(replies) + 1 /\ Len(replies) \in Nat
           /\ \A i \in 1 .. Len(replies) : replies'[i] = replies[i]
           /\ replies'[Len(replies) + 1] = ReplyHeader(t)
<1>1. ReplyHeader(t) \in Reply
  <2>1. Current(t) \in Request /\ request[t] \in 1 .. MaxRequest
    BY AtRequest
  <2>2. Current(t).package.code \in Nat
    BY <2>1, LogicAssumption DEF Request
  <2> QED BY <2>1, <2>2 DEF ReplyHeader, Reply, Request
<1>2. replies \in Seq(Reply) /\ replies' = Append(replies, ReplyHeader(t))
  BY DEF TypeOK, InSendQueue
<1> QED BY <1>1, <1>2, AppendProperties, LenProperties

LEMMA NextType == TypeOK /\ AtWork /\ [Next]_vars => TypeOK' /\ AtWork'
<1> SUFFICES ASSUME TypeOK, AtWork, [Next]_vars PROVE TypeOK' /\ AtWork'
  OBVIOUS
<1> USE DEF TypeOK, AtWork
<1>1. ASSUME NEW c \in Connection, NEW p \in Package, Receive(c, p) PROVE TypeOK' /\ AtWork'
  <2>1. /\ received' \in Seq(Request) /\ Len(received') = Len(received) + 1 /\ Len(received') <= MaxRequest
        /\ Len(received) \in Nat
    BY <1>1, ReceiveIs, LenProperties
  <2>2. taken' \in 0 .. Len(received') /\ taken' = taken
    BY <1>1, <2>1 DEF Receive
  <2> QED BY <1>1, <2>1, <2>2 DEF Receive, objVars
<1>2. ASSUME NEW c \in Connection, Retire(c) PROVE TypeOK' /\ AtWork'
  <2>1. currsequence' \in [Connection -> Nat] /\ bound' \in [Connection -> BOOLEAN]
    BY <1>2 DEF Retire
  <2> QED BY <1>2, <2>1 DEF Retire
<1>3. ASSUME NEW c \in Connection, Bind(c) PROVE TypeOK' /\ AtWork'
  <2>1. client[c] + 1 \in 1 .. MaxClients
    BY <1>3, LogicAssumption DEF Bind
  <2>2. client' = [client EXCEPT ![c] = client[c] + 1]
    BY <1>3 DEF Bind
  <2>3. client' \in [Connection -> 1 .. MaxClients] /\ client'[c] \in 1 .. MaxClients
    BY <2>1, <2>2
  <2>4. pinged' \in [Connection -> 1 .. MaxClients] /\ currsequence' \in [Connection -> Nat]
        /\ bound' \in [Connection -> BOOLEAN]
    BY <1>3, <2>3 DEF Bind
  <2> QED BY <1>3, <2>3, <2>4 DEF Bind
<1>4. ASSUME NEW t \in Thread, Take(t) PROVE TypeOK' /\ AtWork'
  <2>1. /\ taken \in Nat /\ taken' = taken + 1 /\ taken' \in 0 .. Len(received)
        /\ UNCHANGED <<objVars, received, logicLock, pinged, replies, crashed>>
        /\ pc' = [pc EXCEPT ![t] = "check"] /\ request' = [request EXCEPT ![t] = taken + 1]
    BY <1>4, LenProperties DEF Take, At
  <2>2. request' \in [Thread -> 0 .. taken']
    BY <2>1
  <2>3. AtWork'
    BY <2>1
  <2> QED BY <2>1, <2>2, <2>3 DEF objVars
<1>5. ASSUME NEW t \in Thread, Check(t) PROVE TypeOK' /\ AtWork'
  <2>1. /\ pc[t] = "check" /\ crashed' \in BOOLEAN
        /\ pc' = [pc EXCEPT ![t] = "lock"] \/ pc' = [pc EXCEPT ![t] = "idle"]
        /\ UNCHANGED <<objVars, received, taken, request, logicLock, pinged, replies>>
    BY <1>5 DEF Check, At
  <2> QED BY <2>1 DEF objVars
<1>6. ASSUME NEW t \in Thread, LockLogic(t) \/ UnlockLogic(t) PROVE TypeOK' /\ AtWork'
  <2>1. /\ pc[t] # "idle"
        /\ pc' = [pc EXCEPT ![t] = "reply"] \/ pc' = [pc EXCEPT ![t] = "idle"]
        /\ UNCHANGED <<objVars, received, taken, request, pinged, replies, crashed>>
    BY <1>6 DEF LockLogic, UnlockLogic, At
  <2>2. logicLock' \in [Connection -> Thread \cup {NoThread}]
    BY <1>6 DEF LockLogic, UnlockLogic
  <2> QED BY <2>1, <2>2 DEF objVars
<1>7. ASSUME NEW t \in Thread, RegisterHandler(t) \/ PingHandler(t) PROVE TypeOK' /\ AtWork'
  <2>1. /\ pc[t] = "reply" /\ pc' = [pc EXCEPT ![t] = "unlock"] /\ InSendQueue(t)
        /\ UNCHANGED <<objVars, received, taken, request, logicLock, crashed>>
        /\ pinged' = pinged \/ pinged' = [pinged EXCEPT ![Current(t).conn] = Current(t).client]
    BY <1>7 DEF RegisterHandler, PingHandler, At
  <2>2. replies' \in Seq(Reply)
    BY <2>1, InSendQueueIs
  <2>3. Current(t) \in Request
    BY <2>1, AtRequest
  <2>4. pinged' \in [Connection -> 1 .. MaxClients]
    BY <2>1, <2>3 DEF Request
  <2> QED BY <2>1, <2>2, <2>4 DEF objVars
<1>8. CASE UNCHANGED vars
  BY <1>8 DEF vars, objVars
<1> QED BY <1>1, <1>2, <1>3, <1>4, <1>5, <1>6, <1>7, <1>8 DEF Next, Process

\* Every variable keeps its type, and a thread at work has a request.
THEOREM TypeCorrect == Spec => []TypeOK
<1>1. Init => TypeOK /\ AtWork
  BY InitInv DEF Inv
<1> QED BY <1>1, NextType, PTL DEF Spec

-----------------------------------------------------------------------------
(* Whose request it is.                                                    *)

LEMMA NextSequences == TypeOK /\ Sequences /\ [Next]_vars => Sequences'
<1> SUFFICES ASSUME TypeOK, Sequences, [Next]_vars PROVE Sequences'
  OBVIOUS
<1>0. \A n \in 1 .. Len(received) : received[n].conn \in Connection /\ received[n].seq \in Nat
  <2>1. \A n \in 1 .. Len(received) : received[n] \in Request
    BY ElementOfSeq DEF TypeOK
  <2> QED BY <2>1 DEF Request
<1>1. ASSUME NEW c \in Connection, NEW p \in Package, Receive(c, p) PROVE Sequences'
  <2> DEFINE r == [conn |-> c, seq |-> currsequence[c], client |-> client[c], package |-> p]
  <2>1. /\ bound[c] /\ Len(received') = Len(received) + 1 /\ Len(received) \in Nat
        /\ \A n \in 1 .. Len(received) : received'[n] = received[n]
        /\ received'[Len(received) + 1] = r
    BY <1>1, ReceiveIs, LenProperties DEF TypeOK
  <2>2. UNCHANGED <<currsequence, client, bound>>
    BY <1>1 DEF Receive, objVars
  <2>3. ASSUME NEW n \in 1 .. Len(received')
        PROVE  LET q == received'[n] IN
               /\ q.seq <= currsequence[q.conn]
               /\ q.seq = currsequence[q.conn] => bound[q.conn] /\ q.client = client[q.conn]
    <3>1. CASE n \in 1 .. Len(received)
      BY <2>1, <3>1 DEF Sequences
    <3>2. CASE n = Len(received) + 1
      <4>1. received'[n] = r /\ currsequence[c] \in Nat
        BY <2>1, <3>2 DEF TypeOK
      <4> QED BY <2>1, <4>1
    <3> QED BY <2>1, <3>1, <3>2
  <2> QED BY <2>2, <2>3 DEF Sequences
<1>2. ASSUME NEW c \in Connection, Retire(c) \/ Bind(c) PROVE Sequences'
  <2>1. /\ currsequence'[c] > currsequence[c]
        /\ \A d \in Connection : d # c =>
              currsequence'[d] = currsequence[d] /\ client'[d] = client[d] /\ bound'[d] = bound[d]
        /\ UNCHANGED received
    BY <1>2 DEF Retire, Bind, TypeOK
  <2>2. ASSUME NEW n \in 1 .. Len(received)
        PROVE  LET q == received[n] IN
               /\ q.seq <= currsequence'[q.conn]
               /\ q.seq = currsequence'[q.conn] => bound'[q.conn] /\ q.client = client'[q.conn]
    <3>1. CASE received[n].conn = c
      <4>1. received[n].seq <= currsequence[c] /\ received[n].seq \in Nat /\ currsequence[c] \in Nat
            /\ currsequence'[c] \in Nat
        <5>1. currsequence \in [Connection -> Nat]
          BY DEF TypeOK
        <5>2. currsequence'[c] \in Nat
          BY <1>2, <5>1 DEF Retire, Bind
        <5> QED BY <1>0, <3>1, <5>1, <5>2 DEF Sequences
      <4>2. received[n].seq < currsequence'[c]
        BY <2>1, <4>1
      <4> QED BY <3>1, <4>1, <4>2
    <3>2. CASE received[n].conn # c
      BY <1>0, <2>1, <3>2 DEF Sequences
    <3> QED BY <3>1, <3>2
  <2> QED BY <2>1, <2>2 DEF Sequences
<1>3. CASE UNCHANGED <<objVars, received>>
  BY <1>3 DEF objVars, Sequences
<1> QED BY <1>1, <1>2, <1>3
        DEF Next, Process, Take, Check, LockLogic, RegisterHandler, PingHandler, UnlockLogic, vars

\* Which steps add a reply, and whose it is.
LEMMA ReplySteps ==
    ASSUME TypeOK, AtWork, [Next]_vars
    PROVE  \/ UNCHANGED replies
           \/ \E t \in Thread :
                 /\ pc[t] = "reply" /\ pc' = [pc EXCEPT ![t] = "unlock"]
                 /\ UNCHANGED <<received, taken, request>>
                 /\ Len(replies') = Len(replies) + 1 /\ Len(replies) \in Nat
                 /\ \A i \in 1 .. Len(replies) : replies'[i] = replies[i]
                 /\ replies'[Len(replies) + 1] = ReplyHeader(t)
<1>1. ASSUME NEW t \in Thread, RegisterHandler(t) \/ PingHandler(t)
      PROVE  /\ pc[t] = "reply" /\ pc' = [pc EXCEPT ![t] = "unlock"] /\ InSendQueue(t)
             /\ UNCHANGED <<received, taken, request>>
  BY <1>1 DEF RegisterHandler, PingHandler, At
<1>2. (\E t \in Thread : RegisterHandler(t) \/ PingHandler(t)) \/ UNCHANGED replies
  BY DEF Next, Process, Receive, Retire, Bind, Take, Check, LockLogic, UnlockLogic, vars
<1> QED BY <1>1, <1>2, InSendQueueIs

\* Requests stay what they are.
LEMMA ReceivedSteps ==
    ASSUME TypeOK, [Next]_vars
    PROVE  /\ \A n \in 1 .. Len(received) : n \in 1 .. Len(received') /\ received'[n] = received[n]
           /\ taken' >= taken /\ taken \in 0 .. Len(received) /\ taken' \in Nat /\ Len(received) \in Nat
<1>0. taken \in 0 .. Len(received) /\ Len(received) \in Nat
  BY LenProperties DEF TypeOK
<1>1. ASSUME NEW c \in Connection, NEW p \in Package, Receive(c, p)
      PROVE  /\ \A n \in 1 .. Len(received) : n \in 1 .. Len(received') /\ received'[n] = received[n]
             /\ taken' = taken
  <2>1. Len(received') = Len(received) + 1 /\ \A n \in 1 .. Len(received) : received'[n] = received[n]
    BY <1>1, ReceiveIs
  <2> QED BY <1>0, <1>1, <2>1 DEF Receive
<1>2. (\E c \in Connection, p \in Package : Receive(c, p))
      \/ (UNCHANGED received /\ (taken' = taken \/ taken' = taken + 1))
  BY DEF Next, Process, Retire, Bind, Take, Check, LockLogic, RegisterHandler, PingHandler,
         UnlockLogic, vars
<1> QED BY <1>0, <1>1, <1>2

LEMMA NextHeaders == TypeOK /\ AtWork /\ Headers /\ [Next]_vars => Headers'
<1> SUFFICES ASSUME TypeOK, AtWork, Headers, [Next]_vars PROVE Headers'
  OBVIOUS
<1>0. /\ \A n \in 1 .. taken : n \in 1 .. Len(received) /\ received'[n] = received[n]
      /\ \A n \in 1 .. taken : n \in 1 .. taken'
  BY ReceivedSteps
<1>1. CASE UNCHANGED replies
  BY <1>0, <1>1 DEF Headers
<1>2. ASSUME NEW t \in Thread, pc[t] = "reply", UNCHANGED <<received, taken>>,
             Len(replies') = Len(replies) + 1, Len(replies) \in Nat,
             \A i \in 1 .. Len(replies) : replies'[i] = replies[i],
             replies'[Len(replies) + 1] = ReplyHeader(t)
      PROVE  Headers'
  <2>1. ASSUME NEW i \in 1 .. Len(replies')
        PROVE  /\ replies'[i].request \in 1 .. taken
               /\ replies'[i].conn = received[replies'[i].request].conn
               /\ replies'[i].seq = received[replies'[i].request].seq
    <3>1. CASE i \in 1 .. Len(replies)
      BY <1>2, <3>1 DEF Headers
    <3>2. CASE i = Len(replies) + 1
      <4>1. replies'[i] = ReplyHeader(t) /\ request[t] \in 1 .. taken
        BY <1>2, <3>2, AtRequest
      <4> QED BY <4>1 DEF ReplyHeader, Current
    <3> QED BY <1>2, <3>1, <3>2
  <2> QED BY <1>2, <2>1 DEF Headers
<1> QED BY <1>1, <1>2, ReplySteps

\* A reply whose sequence number is current when the send thread looks reaches
\* the client that asked, however often objects are given to other clients
\* while a logic thread is at work.
THEOREM ReplyReachesRequesterAlways == Spec => []ReplyReachesRequester
<1> DEFINE I == TypeOK /\ AtWork /\ Sequences /\ Headers
<1>1. Init => I
  BY InitInv DEF Inv
<1>2. I /\ [Next]_vars => I'
  BY NextType, NextSequences, NextHeaders
<1>3. I => ReplyReachesRequester
  <2> SUFFICES ASSUME I, NEW i \in DOMAIN replies, replies[i].seq = currsequence[replies[i].conn]
               PROVE  /\ bound[replies[i].conn]
                      /\ received[replies[i].request].conn = replies[i].conn
                      /\ received[replies[i].request].client = client[replies[i].conn]
    BY DEF ReplyReachesRequester
  <2>1. i \in 1 .. Len(replies) /\ taken \in 0 .. Len(received) /\ Len(received) \in Nat
    BY LenProperties DEF TypeOK
  <2>2. /\ replies[i].request \in 1 .. Len(received)
        /\ replies[i].conn = received[replies[i].request].conn
        /\ replies[i].seq = received[replies[i].request].seq
    BY <2>1 DEF Headers
  <2> QED BY <2>2 DEF Sequences
<1> QED BY <1>1, <1>2, <1>3, PTL DEF Spec

-----------------------------------------------------------------------------
(* One answer, and only to what passes all tests.                          *)

\* The pc of the threads.
LEMMA PcSteps ==
    ASSUME TypeOK, [Next]_vars
    PROVE  \/ \E t \in Thread : /\ pc[t] = "idle" /\ pc' = [pc EXCEPT ![t] = "check"]
                                /\ request' = [request EXCEPT ![t] = taken + 1] /\ taken' = taken + 1
                                /\ UNCHANGED <<received, replies>>
           \/ /\ UNCHANGED request
              /\ \A t \in Thread : /\ pc'[t] # "idle" => pc[t] # "idle"
                                   /\ pc'[t] \in {"check", "lock", "reply"} =>
                                          pc[t] \in {"check", "lock", "reply"}
                                   /\ pc'[t] = "reply" => pc[t] \in {"lock", "reply"}
                                   /\ pc'[t] = "lock" => pc[t] = "lock" \/ Check(t)
<1>1. ASSUME NEW t \in Thread, Take(t)
      PROVE  /\ pc[t] = "idle" /\ pc' = [pc EXCEPT ![t] = "check"]
             /\ request' = [request EXCEPT ![t] = taken + 1] /\ taken' = taken + 1
             /\ UNCHANGED <<received, replies>>
  BY <1>1 DEF Take, At
<1> DEFINE Same == /\ UNCHANGED request
                   /\ \A t \in Thread : /\ pc'[t] # "idle" => pc[t] # "idle"
                                        /\ pc'[t] \in {"check", "lock", "reply"} =>
                                               pc[t] \in {"check", "lock", "reply"}
                                        /\ pc'[t] = "reply" => pc[t] \in {"lock", "reply"}
                                        /\ pc'[t] = "lock" => pc[t] = "lock" \/ Check(t)
<1>2. ASSUME NEW t \in Thread, Check(t) PROVE Same
  <2>1. /\ pc[t] = "check" /\ UNCHANGED request
        /\ pc' = [pc EXCEPT ![t] = "lock"] \/ pc' = [pc EXCEPT ![t] = "idle"]
    BY <1>2 DEF Check, At
  <2> QED BY <1>2, <2>1 DEF TypeOK
<1>3. ASSUME NEW t \in Thread, LockLogic(t) PROVE Same
  BY <1>3 DEF LockLogic, At, TypeOK
<1>4. ASSUME NEW t \in Thread, RegisterHandler(t) \/ PingHandler(t) PROVE Same
  BY <1>4 DEF RegisterHandler, PingHandler, At, TypeOK
<1>5. ASSUME NEW t \in Thread, UnlockLogic(t) PROVE Same
  BY <1>5 DEF UnlockLogic, At, TypeOK
<1>6. CASE UNCHANGED <<pc, request>>
  BY <1>6
<1>7. \/ \E t \in Thread : Take(t) \/ Check(t) \/ LockLogic(t) \/ RegisterHandler(t) \/ PingHandler(t)
                           \/ UnlockLogic(t)
      \/ UNCHANGED <<pc, request>>
  BY DEF Next, Process, Receive, Retire, Bind, vars
<1> QED BY <1>1, <1>2, <1>3, <1>4, <1>5, <1>6, <1>7

LEMMA NextAlone == TypeOK /\ AtWork /\ Headers /\ Alone /\ [Next]_vars => Alone'
<1> SUFFICES ASSUME TypeOK, AtWork, Headers, Alone, [Next]_vars PROVE Alone'
  OBVIOUS
<1>1. \A s, t \in Thread : pc'[s] # "idle" /\ pc'[t] # "idle" /\ request'[s] = request'[t] => s = t
  <2>1. ASSUME NEW t \in Thread, pc' = [pc EXCEPT ![t] = "check"],
               request' = [request EXCEPT ![t] = taken + 1]
        PROVE  \A s, u \in Thread :
                  pc'[s] # "idle" /\ pc'[u] # "idle" /\ request'[s] = request'[u] => s = u
    <3>1. \A s \in Thread : pc[s] # "idle" => request[s] # taken + 1
      BY DEF AtWork, TypeOK
    <3> QED BY <2>1, <3>1 DEF Alone, TypeOK
  <2> QED BY <2>1, PcSteps DEF Alone
<1>2. ASSUME NEW t \in Thread, NEW i \in 1 .. Len(replies'), pc'[t] \in {"check", "lock", "reply"}
      PROVE  replies'[i].request # request'[t]
  <2>1. ASSUME NEW u \in Thread, pc' = [pc EXCEPT ![u] = "check"],
               request' = [request EXCEPT ![u] = taken + 1], UNCHANGED replies
        PROVE  replies'[i].request # request'[t]
    <3>1. replies[i].request \in 1 .. taken /\ taken \in Nat
      BY <2>1, LenProperties DEF Headers, TypeOK
    <3> QED BY <1>2, <2>1, <3>1 DEF Alone, TypeOK
  <2>2. ASSUME UNCHANGED request, pc[t] \in {"check", "lock", "reply"}
        PROVE  replies'[i].request # request'[t]
    <3>1. CASE UNCHANGED replies
      BY <2>2, <3>1 DEF Alone
    <3>2. ASSUME NEW u \in Thread, pc[u] = "reply", pc' = [pc EXCEPT ![u] = "unlock"],
                 Len(replies') = Len(replies) + 1, Len(replies) \in Nat,
                 \A j \in 1 .. Len(replies) : replies'[j] = replies[j],
                 replies'[Len(replies) + 1] = ReplyHeader(u)
          PROVE  replies'[i].request # request'[t]
      <4>1. u # t
        BY <1>2, <3>2 DEF TypeOK
      <4>2. request[u] # request[t]
        BY <2>2, <3>2, <4>1 DEF Alone
      <4>3. CASE i \in 1 .. Len(replies)
        BY <2>2, <3>2, <4>3 DEF Alone
      <4>4. CASE i = Len(replies) + 1
        BY <2>2, <3>2, <4>2, <4>4 DEF ReplyHeader
      <4> QED BY <3>2, <4>3, <4>4
    <3> QED BY <3>1, <3>2, ReplySteps
  <2> QED BY <1>2, <2>1, <2>2, PcSteps
<1>3. ASSUME NEW i \in 1 .. Len(replies'), NEW j \in 1 .. Len(replies'),
             replies'[i].request = replies'[j].request
      PROVE  i = j
  <2>1. CASE UNCHANGED replies
    BY <1>3, <2>1 DEF Alone
  <2>2. ASSUME NEW u \in Thread, pc[u] = "reply",
               Len(replies') = Len(replies) + 1, Len(replies) \in Nat,
               \A k \in 1 .. Len(replies) : replies'[k] = replies[k],
               replies'[Len(replies) + 1] = ReplyHeader(u)
        PROVE  i = j
    <3>1. \A k \in 1 .. Len(replies) : replies'[k].request # request[u]
      BY <2>2 DEF Alone
    <3>2. replies'[Len(replies) + 1].request = request[u]
      BY <2>2 DEF ReplyHeader
    <3>3. \A k, l \in 1 .. Len(replies) : replies'[k].request = replies'[l].request => k = l
      BY <2>2 DEF Alone
    <3> QED BY <1>3, <2>2, <3>1, <3>2, <3>3
  <2> QED BY <2>1, <2>2, ReplySteps
<1> QED BY <1>1, <1>2, <1>3 DEF Alone

\* What check() lets through.
LEMMA CheckIs ==
    ASSUME TypeOK, NEW t \in Thread, Check(t), pc'[t] = "lock"
    PROVE  Tested(Current(t).package)
<1> DEFINE p == Current(t).package
           Handled == /\ Acceptable(Current(t)) /\ p.code \in DOMAIN msgHandlers
                      /\ \/ msgHandlers[p.code] = "PingHandler" /\ PingToAnswer(p)
                         \/ msgHandlers[p.code] = "RegisterHandler" /\ RegisterToAnswer(p)
<1>1. pc' = [pc EXCEPT ![t] = IF Handled THEN "lock" ELSE "idle"]
  BY DEF Check, At
<1>2. Handled
  BY <1>1 DEF TypeOK
<1> QED BY <1>2 DEF Tested, Acceptable

LEMMA NextIntact == TypeOK /\ AtWork /\ Headers /\ Intact /\ [Next]_vars => Intact'
<1> SUFFICES ASSUME TypeOK, AtWork, Headers, Intact, [Next]_vars PROVE Intact'
  OBVIOUS
<1>0. \A n \in 1 .. taken : received'[n] = received[n]
  BY ReceivedSteps
<1>1. ASSUME NEW t \in Thread, pc'[t] \in {"lock", "reply"}
      PROVE  Tested(received'[request'[t]].package)
  <2>1. /\ request'[t] = request[t] /\ pc[t] # "idle"
        /\ pc[t] \in {"lock", "reply"} \/ (Check(t) /\ pc'[t] = "lock")
    BY <1>1, PcSteps DEF TypeOK
  <2>2. request[t] \in 1 .. taken
    BY <2>1, AtRequest
  <2>3. Tested(received[request[t]].package)
    BY <2>1, CheckIs DEF Intact, Current
  <2> QED BY <1>0, <2>1, <2>2, <2>3
<1>2. ASSUME NEW i \in 1 .. Len(replies')
      PROVE  Tested(received'[replies'[i].request].package)
  <2>1. CASE i \in 1 .. Len(replies) /\ replies'[i] = replies[i]
    BY <1>0, <2>1 DEF Headers, Intact
  <2>2. ASSUME NEW u \in Thread, pc[u] = "reply", UNCHANGED received, replies'[i] = ReplyHeader(u)
        PROVE  Tested(received'[replies'[i].request].package)
    BY <2>2 DEF Intact, ReplyHeader
  <2> QED BY <2>1, <2>2, ReplySteps
<1> QED BY <1>1, <1>2 DEF Intact

\* Tested means answerable.
LEMMA TestedIsDeserving ==
    ASSUME NEW p \in Package, Tested(p)
    PROVE  p \in Deserving
<1>1. p.body \in Seq(Byte) /\ p.crc = IF p.body = <<>> THEN {} ELSE Get_CRC(p.body)
  BY LogicAssumption DEF Tested, WithGoodCrc, CrcMatches
<1>2. CASE PingToAnswer(p)
  <2>1. p.code = CMD_PING /\ p.body = <<>>
    BY <1>1, <1>2, EmptySeq DEF PingToAnswer
  <2> QED BY <1>1, <2>1 DEF Answerable, Deserving
<1>3. CASE RegisterToAnswer(p)
  <2>1. p.code = CMD_REGISTER /\ Len(p.body) = RegisterLength /\ p.body # <<>>
    BY <1>1, <1>3, EmptySeq, LogicAssumption DEF RegisterToAnswer
  <2>2. p.crc = Remainder(p.body)
    BY <1>1, <2>1, GetCrcIsRemainder
  <2> QED BY <2>1, <2>2 DEF Answerable, Deserving
<1> QED BY <1>2, <1>3 DEF Tested

\* Nobody gets an answer to a damaged or malformed request, or two answers:
\* what the table-driven check of the code lets through has the CRC-32 of its
\* body, whatever bytes the body has.
THEOREM OnlyIntactAnsweredAlways == Spec => []OnlyIntactAnswered
<1> DEFINE I == TypeOK /\ AtWork /\ Headers /\ Alone /\ Intact
<1>1. Init => I
  BY InitInv DEF Inv
<1>2. I /\ [Next]_vars => I'
  BY NextType, NextHeaders, NextAlone, NextIntact
<1>3. I => OnlyIntactAnswered
  <2> SUFFICES ASSUME I PROVE OnlyIntactAnswered
    OBVIOUS
  <2>1. DOMAIN replies = 1 .. Len(replies) /\ taken \in 0 .. Len(received) /\ Len(received) \in Nat
    BY LenProperties DEF TypeOK
  <2>2. ASSUME NEW i \in 1 .. Len(replies) PROVE received[replies[i].request].package \in Deserving
    <3>1. replies[i].request \in 1 .. Len(received)
      BY <2>1 DEF Headers
    <3>2. received[replies[i].request] \in Request
      BY <3>1, ElementOfSeq DEF TypeOK
    <3>3. received[replies[i].request].package \in Package
      BY <3>2 DEF Request
    <3> QED BY <3>3, TestedIsDeserving DEF Intact
  <2> QED BY <2>1, <2>2 DEF Alone, OnlyIntactAnswered
<1> QED BY <1>1, <1>2, <1>3, PTL DEF Spec
=============================================================================
