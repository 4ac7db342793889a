-------------------------- MODULE InternetChecksum --------------------------
(***************************************************************************)
(* Class InternetChecksum (libsponge/util/util.hh and .cc) as a value.     *)
(* A byte is below ByteBase, 256 in the code; a 16-bit word is below       *)
(* ByteBase^2 and a 32-bit one below ByteBase^4, where they wrap around.   *)
(***************************************************************************)
EXTENDS Integers, Sequences

CONSTANT ByteBase

ASSUME ByteBaseAssumption == ByteBase \in Nat \ {0, 1}

U16 == ByteBase ^ 2
U32 == ByteBase ^ 4

NewChecksum(initial_sum) == [sum |-> initial_sum, parity |-> FALSE]

\* Mutant: every call of add starts with a high byte.
AddFromEven(c, data) ==
  LET sum[i \in 0 .. Len(data)] ==
        IF i = 0 THEN c.sum
        ELSE (sum[i - 1] + IF i % 2 = 1 THEN data[i] * ByteBase ELSE data[i]) % U32
  IN  [sum |-> sum[Len(data)], parity |-> FALSE]

\* Bytes are the high and the low half of a word in turn; _parity tells which
\* one the first byte is, and is left for the next call.
add(c, data) ==
  LET low(i) == c.parity = (i % 2 = 1)
      sum[i \in 0 .. Len(data)] ==
        IF i = 0 THEN c.sum
        ELSE (sum[i - 1] + IF low(i) THEN data[i] ELSE data[i] * ByteBase) % U32
  IN  [sum |-> sum[Len(data)], parity |-> low(Len(data) + 1)]

\* The loop in value() adds the two halves while the high one is not zero; from
\* a 32-bit sum that is twice at most, and once more changes nothing.
value(c) ==
  LET Halves(x) == (x \div U16) + (x % U16)
  IN  U16 - 1 - Halves(Halves(c.sum))
=============================================================================
