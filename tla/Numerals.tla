------------------------------ MODULE Numerals ------------------------------
(* How the kernel prints numbers: console_put_hex and console_put_dec of    *)
(* kernel/console.c, the directives of console_vprintf                      *)
(* (kernel/console_utils.c), and itoa_unsigned and itoa_signed of           *)
(* kernel/kernel.c, which kprintf uses.                                     *)
EXTENDS Integers, Sequences

CONSTANTS
  WordMod,      \* 2^32
  HexWidth      \* 8

\* 16 to the power of i.
Sixteens[i \in 0 .. HexWidth] == IF i = 0 THEN 1 ELSE 16 * Sixteens[i - 1]

ASSUME NumeralsAssumption ==
  /\ WordMod \in Nat \ {0} /\ WordMod % 2 = 0
  /\ HexWidth \in Nat /\ WordMod <= Sixteens[HexWidth]

Lower == <<"0", "1", "2", "3", "4", "5", "6", "7", "8", "9", "a", "b", "c", "d", "e", "f">>
Upper == <<"0", "1", "2", "3", "4", "5", "6", "7", "8", "9", "A", "B", "C", "D", "E", "F">>

\* Digits are taken from the low end and printed in reverse, at least one.
Numeral(n, base) ==
  LET num[m \in 0 .. n] == IF m < base THEN <<Lower[m + 1]>>
                          ELSE Append(num[m \div base], Lower[(m % base) + 1])
  IN num[n]

\* console_put_hex: all digits of the word, in capitals, the i-th one from what is
\* left after a shift by the digits behind it.
HexDigits(n) ==
  LET shifted[i \in 0 .. HexWidth] == IF i = 0 THEN n ELSE shifted[i - 1] \div 16
  IN [i \in 1 .. HexWidth |-> Upper[(shifted[HexWidth - i] % 16) + 1]]

\* Mutant: the sign is not looked at.
Decimal_unsigned(n) == Numeral(n, 10)

\* %d: a word taken as a signed number.  The most negative one is its own
\* negation; its one digit is then '0' minus something, and there is no second.
Decimal(n) ==
  CASE n < WordMod \div 2 -> Numeral(n, 10)
    [] n = WordMod \div 2 -> <<"-", "junk">>
    [] OTHER -> <<"-">> \o Numeral(WordMod - n, 10)

\* %x: padded with zeros, and cut, to HexWidth digits.
Hex(n) ==
  LET digits == Numeral(n, 16)
      padded == [i \in 1 .. HexWidth |-> "0"] \o digits
  IN SubSeq(padded, Len(padded) - HexWidth + 1, Len(padded))

\* itoa_signed: the most negative number is negated as an unsigned one, and right.
itoa_signed(n) ==
  IF n < WordMod \div 2 THEN Numeral(n, 10) ELSE <<"-">> \o Numeral(WordMod - n, 10)
=============================================================================
