------------------------------ MODULE Marshal ------------------------------
(***************************************************************************)
(* The message codec of the 9p device (marshall and unmarshall in          *)
(* virtio.cpp): integers of 1, 2, 4 and 8 bytes in little-endian order,    *)
(* strings with a 16-bit length.  A byte has BYTE values.                  *)
(***************************************************************************)
EXTENDS Integers, Sequences, SequencesExt

CONSTANT BYTE

Width == [b |-> 1, h |-> 2, w |-> 4, d |-> 8]

LittleEndian(v, n) == [i \in 1..n |-> (v \div BYTE^(i - 1)) % BYTE]

\* Mutant: the high byte goes first.
MutPut(c, v) == IF c = "s" THEN LittleEndian(Len(v), 2) \o v ELSE Reverse(LittleEndian(v, Width[c]))

Put(c, v) == IF c = "s" THEN LittleEndian(Len(v), 2) \o v ELSE LittleEndian(v, Width[c])

marshall(fmt, vals) == FoldLeft(LAMBDA buf, i : buf \o Put(fmt[i], vals[i]), <<>>, [i \in 1..Len(fmt) |-> i])

Number(bytes) == FoldRight(LAMBDA x, n : x + BYTE * n, bytes, 0)

\* memcpy_from_queue of n bytes at the offset, n > 0 bytes past the end fail.
Bytes(buf, offset, n) == SubSeq(buf, offset + 1, offset + n)

\* One field: st is [ok, offset, vals].
Get(buf, st, c) ==
    LET n == IF c = "s" THEN 2 ELSE Width[c]
        fits == st.offset + n <= Len(buf)
        num == Number(Bytes(buf, st.offset, n))
    IN  IF ~st.ok \/ ~fits THEN [st EXCEPT !.ok = FALSE]
        ELSE IF c /= "s" THEN [st EXCEPT !.offset = @ + n, !.vals = Append(@, num)]
        ELSE IF st.offset + 2 + num > Len(buf) THEN [st EXCEPT !.ok = FALSE]
        ELSE [st EXCEPT !.offset = @ + 2 + num, !.vals = Append(@, Bytes(buf, st.offset + 2, num))]

unmarshall(buf, offset, fmt) ==
    FoldLeft(LAMBDA st, c : Get(buf, st, c), [ok |-> TRUE, offset |-> offset, vals |-> <<>>], fmt)

(***************************************************************************)
(* Reference                                                               *)
(***************************************************************************)
Codes == <<"b", "h", "w", "s">>

\* The formats of up to three fields, numbered from 0.
Format(n) == IF n < 4 THEN <<Codes[n + 1]>>
             ELSE IF n < 20 THEN <<Codes[((n - 4) % 4) + 1], Codes[((n - 4) \div 4) + 1]>>
             ELSE LET m == n - 20 IN <<Codes[(m % 4) + 1], Codes[((m \div 4) % 4) + 1], Codes[(m \div 16) + 1]>>

Formats == 84

ValuesOf(c) == IF c = "s" THEN {<<>>, <<1>>, <<0, 1>>} ELSE {0, 1, BYTE^Width[c] - 1, BYTE^(Width[c] - 1)}

\* unmarshall gives back what marshall wrote and ends where it ended, behind a
\* header of any length; it refuses every message that is cut short.
RoundTrip(n) ==
    LET fmt == Format(n)
        all == FoldLeft(LAMBDA S, c : {Append(v, x) : v \in S, x \in ValuesOf(c)}, {<<>>}, fmt)
    IN  \A vals \in all :
          LET buf == <<0>> \o marshall(fmt, vals)
              back == unmarshall(buf, 1, fmt)
          IN  /\ back.ok /\ back.vals = vals /\ back.offset = Len(buf)
              /\ \A cut \in 1..(Len(buf) - 1) : ~unmarshall(SubSeq(buf, 1, cut), 1, fmt).ok
=============================================================================
