-------------------------- MODULE WrappingIntegers --------------------------
(***************************************************************************)
(* 32-bit sequence numbers and 64-bit stream positions                     *)
(* (libsponge/wrapping_integers.hh and .cc).                               *)
(*                                                                         *)
(* The width is a parameter: HalfRange stands for 2^31 and Modulus for     *)
(* 2^32, so a small instance wraps around after a few bytes.  Absolute     *)
(* (uint64_t) positions are unbounded naturals: no stream reaches 2^64.    *)
(***************************************************************************)
EXTENDS Integers

CONSTANT HalfRange

ASSUME HalfRangeAssumption == HalfRange \in Nat \ {0}

Modulus == 2 * HalfRange

\* The raw values of class WrappingInt32.
WrappingInt32 == 0 .. Modulus - 1

wrap(n, isn) == ((n % Modulus) + isn) % Modulus

\* Mutants of unwrap: the correction towards zero is missing; the upper
\* candidate wins a tie.
UnwrapBelowZero(n, isn, checkpoint) ==
  LET offset == (n - wrap(checkpoint, isn)) % Modulus
  IN  IF offset < HalfRange THEN checkpoint + offset ELSE checkpoint - Modulus + offset

UnwrapTieUpwards(n, isn, checkpoint) ==
  LET offset == (n - wrap(checkpoint, isn)) % Modulus
  IN  IF offset <= HalfRange \/ checkpoint < Modulus - offset
      THEN checkpoint + offset
      ELSE checkpoint - Modulus + offset

unwrap(n, isn, checkpoint) ==
  LET offset == (n - wrap(checkpoint, isn)) % Modulus
  IN  IF offset < HalfRange \/ checkpoint < Modulus - offset
      THEN checkpoint + offset
      ELSE checkpoint - Modulus + offset
=============================================================================
