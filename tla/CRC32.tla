------------------------------- MODULE CRC32 -------------------------------
(***************************************************************************)
(* SerCRC32, the check sum of package bodies, in full width.  A word or a  *)
(* byte is the set of its bits that are 1; bit 0 is the lowest.            *)
(***************************************************************************)
EXTENDS Integers, Sequences, FiniteSetsExt

Word == SUBSET (0 .. 31)
Byte == SUBSET (0 .. 7)

ShiftLeft(word, n) == {i + n : i \in word} \cap (0 .. 31)
ShiftRight(word, n) == {i - n : i \in word} \cap (0 .. 31)

\* ulPolynomial, 0x04c11db7
Polynomial == {26, 23, 22, 16, 12, 11, 10, 8, 7, 5, 4, 2, 1, 0}

\* Mutant: the loop ends one bit early.
ReflectShort(ref, ch) == {ch - i : i \in {j \in 1 .. ch - 1 : j - 1 \in ref}}

\* Bit i - 1 becomes bit ch - i.
Reflect(ref, ch) == {ch - i : i \in {j \in 1 .. ch : j - 1 \in ref}}

\* One turn of the loop over the bits: a division step, one place up.
Shift(word) == SymDiff(ShiftLeft(word, 1), IF 31 \in word THEN Polynomial ELSE {})

\* crc32_table[i] after each turn.
Shifted(byte) ==
    LET word[j \in 0 .. 8] ==
            IF j = 0 THEN ShiftLeft(Reflect(byte, 8), 24) ELSE Shift(word[j - 1])
    IN  word

crc32_table == [byte \in Byte |-> Reflect(Shifted(byte)[8], 32)]

Add(crc, byte) ==
    SymDiff(ShiftRight(crc, 8), crc32_table[SymDiff(crc \cap (0 .. 7), byte)])

\* crc after each byte.
Added(buffer) ==
    LET crc[n \in 0 .. Len(buffer)] ==
            IF n = 0 THEN 0 .. 31 ELSE Add(crc[n - 1], buffer[n])
    IN  crc

Get_CRC(buffer) == SymDiff(Added(buffer)[Len(buffer)], 0 .. 31)

-----------------------------------------------------------------------------
(* What CRC-32 is: the bits of the body, lowest of each byte first, are    *)
(* the coefficients of a polynomial over GF(2), highest exponent first.    *)
(* Its first 32 coefficients are inverted, it is divided by the generator, *)
(* and the remainder is inverted and read backwards.                       *)

Generator == Polynomial \cup {32}

BodyPolynomial(body) ==
    UNION {{32 + 8 * (Len(body) - i) + 7 - k : k \in body[i]} : i \in DOMAIN body}

Inverted(body) ==
    SymDiff(BodyPolynomial(body), 8 * Len(body) .. 8 * Len(body) + 31)

\* The term of exponent e, if there is one, is taken away with a multiple of
\* the generator.
Divide(rest, e) ==
    IF e \in rest THEN SymDiff(rest, {e - 32 + g : g \in Generator}) ELSE rest

\* What is left after each step.
Divided(body) ==
    LET size == 8 * Len(body)
        rest[i \in 0 .. size] ==
            IF i = 0 THEN Inverted(body) ELSE Divide(rest[i - 1], 32 + size - i)
    IN  rest

Remainder(body) == {31 - e : e \in (0 .. 31) \ Divided(body)[8 * Len(body)]}

=============================================================================
