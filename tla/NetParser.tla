----------------------------- MODULE NetParser -----------------------------
(***************************************************************************)
(* NetParser and NetUnparser (libsponge/util/parser.hh and .cc).  A parser *)
(* is the record of its Buffer and its error; each reading method is a     *)
(* pair of operators, the value it returns and the parser it leaves.       *)
(***************************************************************************)
EXTENDS BufferOps, InternetChecksum

NewParser(buffer) == [buffer |-> buffer, error |-> "NoError"]

error(p) == p.error # "NoError"

\* Mutant: an error is forgotten when the next read would fit.
CheckAfresh(p, n) ==
  [p EXCEPT !.error = IF n > Len(str(p.buffer)) THEN "PacketTooShort"
                                                ELSE "NoError"]

\* A shortage is recorded for good: nothing clears the error.
check_size(p, n) ==
  IF n > Len(str(p.buffer)) THEN [p EXCEPT !.error = "PacketTooShort"] ELSE p

\* NetParser::remove_prefix, and the end of _parse_int.
skip(p, n) ==
  LET q == check_size(p, n)
  IN  IF error(q) THEN q ELSE [q EXCEPT !.buffer = TrimBuffer(@, n)]

\* What u8, u16 and u32 return, for len = 1, 2 and 4.
parse_int(p, len) ==
  IF error(check_size(p, len)) THEN 0
  ELSE FoldLeft(LAMBDA ret, byte : ret * ByteBase + byte, 0,
                SubSeq(str(p.buffer), 1, len))

unparse_int(val, len) ==
  [i \in 1 .. len |-> (val \div ByteBase ^ (len - i)) % ByteBase]
=============================================================================
