-------------------------------- MODULE Crc --------------------------------
(***************************************************************************)
(* The checksum as the comment of crc16_ccitt (firmware/src/protocol.c,    *)
(* lines 57 to 71) defines it: the remainder of a division of polynomials  *)
(* over the field of two elements.  Not reversed, not XOR'd, initially 0.  *)
(*                                                                         *)
(* A polynomial is the set of its exponents, and so is a binary number:    *)
(* the set of the positions of its ones.  The sum of two polynomials is    *)
(* the exclusive or of two numbers.                                        *)
(***************************************************************************)
EXTENDS Integers, Sequences

\* x^16 + x^12 + x^5 + 1
Generator == {16, 12, 5, 0}

Xor(p, q) == (p \ q) \union (q \ p)

Times(p, k) == {e + k : e \in p}

Bits(n) == {e \in 0 .. 15 : (n \div 2^e) % 2 = 1}

\* The k-th of n steps of a long division takes away the multiple of the
\* generator with the exponent n + 16 - k, if the rest r has it.
Reduce(r, n, k) ==
  IF n + 16 - k \in r THEN Xor(r, Times(Generator, n - k)) ELSE r

\* The rests of a polynomial of a degree below n + 16.
Division(p, n) ==
  LET rest[k \in 0 .. n] == IF k = 0 THEN p ELSE Reduce(rest[k - 1], n, k)
  IN  rest

Remainder(p, n) == Division(p, n)[n]

\* A message is read as one polynomial, its first byte first.
Polynomial(message) ==
  UNION {Times(Bits(message[k]), 8 * (Len(message) - k)) : k \in DOMAIN message}

Checksum(message) == Remainder(Times(Polynomial(message), 16), 8 * Len(message))
=============================================================================
