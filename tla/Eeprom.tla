------------------------------- MODULE Eeprom -------------------------------
(***************************************************************************)
(* The error-correcting code of the thermal camera's EEPROM                *)
(* (HammingDecode in MLX90641_API.c).  A 16-bit word is the set of the     *)
(* positions of its ones: 11 data bits, four check bits and a parity bit   *)
(* over all.                                                               *)
(***************************************************************************)
EXTENDS Integers, FiniteSets

DataBits == 0..10
WordBits == 0..15

\* The bits that parity[0..4] adds up.
Checked ==
    <<{0, 1, 3, 4, 6, 8, 10, 11}, {0, 2, 3, 5, 6, 9, 10, 12},
      {1, 2, 3, 7, 8, 9, 10, 13}, {4, 5, 6, 7, 8, 9, 10, 14}, WordBits>>

Parity(word, k) == Cardinality(word \cap Checked[k]) % 2

\* check: 0 for a word without errors.
Check(word) ==
    Parity(word, 1) + 2 * Parity(word, 2) + 4 * Parity(word, 3)
    + 8 * Parity(word, 4) + 16 * Parity(word, 5)

\* The bit that each check from 16 to 31 tells to flip, in that order.
BadBitSwapped == <<15, 11, 12, 0, 13, 1, 3, 2, 14, 4, 5, 6, 7, 8, 9, 10>>
BadBit == <<15, 11, 12, 0, 13, 1, 2, 3, 14, 4, 5, 6, 7, 8, 9, 10>>

Flip(word, bits) == (word \ bits) \cup (bits \ word)

Corrected == -9
Uncorrectable == -10

\* The data kept of a word, and the status once a word has been decoded:
\* a correction never hides an earlier word that could not be corrected.
Decoded(word) ==
    (IF Check(word) > 15 THEN Flip(word, {BadBit[Check(word) - 15]}) ELSE word) \cap DataBits

StatusAfterLast(status, word) ==
    CASE Check(word) = 0 -> status
      [] Check(word) > 15 -> Corrected
      [] OTHER -> Uncorrectable
StatusAfter(status, word) ==
    CASE Check(word) = 0 -> status
      [] Check(word) > 15 -> IF status = 0 THEN Corrected ELSE status
      [] OTHER -> Uncorrectable

\* For reference: the word without errors that holds the data.
Encoded(data) ==
    LET checks == {10 + k : k \in {j \in 1..4 : Parity(data, j) = 1}}
        word == data \cup checks
    IN word \cup (IF Cardinality(word) % 2 = 1 THEN {15} ELSE {})
=============================================================================
