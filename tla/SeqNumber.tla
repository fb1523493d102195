------------------------------ MODULE SeqNumber ------------------------------
(***************************************************************************)
(* tcp::SeqNumber (src/network/tcp/seq_number.h): a 32-bit sequence number *)
(* with wrap-around arithmetic and serial-number comparison.               *)
(*                                                                         *)
(* The width is a parameter: the code has Half = 2^31.  Sums and           *)
(* differences of two numbers wrap at most once, so Wrap, the remainder    *)
(* modulo 2^32 on those values, is written without a division.             *)
(***************************************************************************)
EXTENDS Integers

CONSTANT Half    \* 2^31 in the code: half of the sequence space

ASSUME HalfAssumption == Half \in Nat \ {0}

Modulus == 2 * Half

SeqNumbers == 0 .. Modulus - 1

Wrap(x) == IF x >= Modulus THEN x - Modulus ELSE IF x < 0 THEN x + Modulus ELSE x

\* operator+ and operator+=
SeqPlus(a, n) == Wrap(a + n)

\* operator-: the distance from b forward to a, as a uint32_t
SeqMinus(a, b) == Wrap(a - b)

\* operator<=> is "less": int32_t(a - b) is negative
SeqLess(a, b) == a # b /\ SeqMinus(a, b) >= Half

\* operator<=> is "greater": what remains after "equal" and "less"
SeqGreater(a, b) == a # b /\ ~ SeqLess(a, b)

SeqLeq(a, b) == ~ SeqGreater(a, b)
=============================================================================
