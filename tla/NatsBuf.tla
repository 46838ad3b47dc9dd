------------------------------- MODULE NatsBuf -------------------------------
(***************************************************************************)
(* The growing buffer of utils/src/buf.c, as a record with its content cs, *)
(* its capacity cap and the status st of the last call; a call is made only*)
(* while the status is OK.  mem is how many allocations still succeed.     *)
(***************************************************************************)
EXTENDS Integers, SequencesExt

CONSTANTS
  IntMax,        \* 0x7FFFFFFF
  MinExtra,      \* the 64 bytes a buffer grows by at least
  FirstCapacity, \* REQ_BUF_HINT
  Overflow       \* what a build makes of an int sum past IntMax, see AppendByte

ASSUME BufAssumption ==
  /\ IntMax \in Nat /\ MinExtra \in Nat \ {0} /\ FirstCapacity \in 1..(IntMax - 1)
  /\ Overflow \in {"NO_MEMORY", "INVALID_ARG"}

\* natsBuf_Init, over a memory in which n allocations succeed.
BufInit(n) == [cs |-> <<>>, cap |-> IF n = 0 THEN 0 ELSE FirstCapacity,
               mem |-> IF n = 0 THEN 0 ELSE n - 1, st |-> IF n = 0 THEN "NO_MEMORY" ELSE "OK"]

BufFail(b, s) == [b EXCEPT !.st = s]
Put(b, cs) == IF b.st = "OK" THEN [b EXCEPT !.cs = @ \o cs] ELSE b
Extra(n) == IF n \div 10 < MinExtra THEN MinExtra ELSE n \div 10

Expand(b, newSize) ==
  IF newSize <= b.cap THEN BufFail(b, "INVALID_ARG")
  ELSE IF b.mem = 0 THEN BufFail(b, "NO_MEMORY")
  ELSE [b EXCEPT !.cap = newSize, !.mem = @ - 1]

\* natsBuf_Append: the sums are made in 64 bits.
BufAppend(b, cs) ==
  LET n == Len(b.cs) + Len(cs)
  IN IF b.st # "OK" \/ cs = <<>> THEN b
     ELSE IF n >= IntMax THEN BufFail(b, "NO_MEMORY")
     ELSE IF n <= b.cap THEN Put(b, cs)
     ELSE IF n + Extra(n) >= IntMax THEN BufFail(b, "NO_MEMORY")
     ELSE Put(Expand(b, n + Extra(n)), cs)

\* natsBuf_AppendByte: the sum is an int.  When it overflows, the check that
\* follows sees a negative size, or the compiler has dropped the check and
\* Expand sees it.
AppendByte(b, c) ==
  IF b.st # "OK" \/ Len(b.cs) < b.cap THEN Put(b, <<c>>)
  ELSE IF b.cap + Extra(b.cap) > IntMax THEN BufFail(b, Overflow)
  ELSE Put(Expand(b, b.cap + Extra(b.cap)), <<c>>)
=============================================================================
