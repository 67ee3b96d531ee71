----------------------------- MODULE DescChain -----------------------------
(***************************************************************************)
(* The walks of virtio.cpp over a chain of descriptors.  A chain is a      *)
(* sequence of records [len, write]; its last element has no NEXT flag.    *)
(* A byte of the chain is named <<descriptor, position>>.                  *)
(***************************************************************************)
EXTENDS Integers, Sequences, FiniteSets, SequencesExt

Failed == -1

\* The first descriptor from d on that satisfies P, or Failed past the end.
FindFrom(chain, d, P(_)) ==
    LET found == {i \in d..Len(chain) : P(i)}
    IN  IF found = {} THEN Failed ELSE CHOOSE i \in found : \A j \in found : i <= j

Before(chain, first, d) == FoldLeft(LAMBDA n, x : n + x.len, 0, SubSeq(chain, first, d - 1))

\* The copy loop: from byte offset of descriptor d, count > 0 bytes to go.
RECURSIVE CopyLoop(_, _, _, _, _)
CopyLoop(chain, d, offset, count, done) ==
    LET l == IF count < chain[d].len - offset THEN count ELSE chain[d].len - offset
        bytes == done \o [i \in 1..l |-> <<d, offset + i - 1>>]
    IN  IF count = l THEN [ret |-> 0, bytes |-> bytes]
        ELSE IF d = Len(chain) THEN [ret |-> Failed, bytes |-> bytes]
        ELSE IF chain[d + 1].write /= chain[d].write THEN [ret |-> Failed, bytes |-> bytes]
        ELSE CopyLoop(chain, d + 1, 0, count - l, bytes)

\* Mutant: the descriptor at the offset is looked for from the chain's head.
MutCopy(chain, offset, count, to_queue) ==
    LET at == FindFrom(chain, 1, LAMBDA i : offset < Before(chain, 1, i + 1))
    IN  IF count = 0 THEN [ret |-> 0, bytes |-> <<>>]
        ELSE IF at = Failed \/ \E i \in 1..at : chain[i].write /= to_queue THEN [ret |-> Failed, bytes |-> <<>>]
        ELSE CopyLoop(chain, at, offset - Before(chain, 1, at), count, <<>>)

memcpy_to_from_queue(chain, offset, count, to_queue) ==
    LET first == IF to_queue THEN FindFrom(chain, 1, LAMBDA i : chain[i].write) ELSE 1
        at == FindFrom(chain, first, LAMBDA i : offset < Before(chain, first, i + 1))
    IN  IF count = 0 THEN [ret |-> 0, bytes |-> <<>>]
        ELSE IF first = Failed THEN [ret |-> Failed, bytes |-> <<>>]
        ELSE IF at = Failed \/ \E i \in first..at : chain[i].write /= to_queue THEN [ret |-> Failed, bytes |-> <<>>]
        ELSE CopyLoop(chain, at, offset - Before(chain, first, at), count, <<>>)

get_desc_rw_size(chain) ==
    LET first == FindFrom(chain, 1, LAMBDA i : chain[i].write)
        stop == IF first = Failed THEN Len(chain) + 1 ELSE first
    IN  IF first /= Failed /\ FindFrom(chain, first, LAMBDA i : ~chain[i].write) /= Failed
        THEN [ret |-> Failed, read_size |-> 0, write_size |-> 0]
        ELSE [ret |-> 0, read_size |-> Before(chain, 1, stop), write_size |-> Before(chain, stop, Len(chain) + 1)]

(***************************************************************************)
(* Reference: the chain laid out flat.                                     *)
(***************************************************************************)
CONSTANT MaxLen   \* largest descriptor tried

DescTypes == 2 * (MaxLen + 1)

\* The chains of one to three descriptors, numbered from 0.
Chains == DescTypes + DescTypes^2 + DescTypes^3

Desc(n) == [len |-> n \div 2, write |-> n % 2 = 1]

ChainOf(n) ==
    IF n < DescTypes THEN <<Desc(n)>>
    ELSE IF n < DescTypes + DescTypes^2
    THEN LET m == n - DescTypes IN <<Desc(m % DescTypes), Desc(m \div DescTypes)>>
    ELSE LET m == n - DescTypes - DescTypes^2
         IN  <<Desc(m % DescTypes), Desc((m \div DescTypes) % DescTypes), Desc(m \div DescTypes^2)>>

\* The bytes of the first run of descriptors with the wanted flag: at the
\* chain's head for reading, anywhere for writing.
FlatRun(chain, write) ==
    LET starts == {i \in 1..Len(chain) : chain[i].write = write}
        first == IF write THEN CHOOSE i \in starts : \A j \in starts : i <= j ELSE 1
        run == {i \in first..Len(chain) : \A j \in first..i : chain[j].write = write}
    IN  IF starts = {} THEN <<>>
        ELSE FlattenSeq([k \in 1..Cardinality(run) |->
                 [b \in 1..chain[first + k - 1].len |-> <<first + k - 1, b - 1>>]])

\* memcpy_to_from_queue succeeds exactly when the run holds the whole range,
\* and moves the bytes of the range in order, those that exist when it fails
\* half way; get_desc_rw_size gives the length of the two runs and refuses
\* exactly the chains with a readable descriptor after a writable one.
ChainCopyExact(n) ==
    LET chain == ChainOf(n)
        rw == get_desc_rw_size(chain)
    IN  /\ (rw.ret = 0) <=> \A i, j \in 1..Len(chain) : (i < j /\ chain[i].write) => chain[j].write
        /\ rw.ret = 0 => rw.read_size = Len(FlatRun(chain, FALSE)) /\ rw.write_size = Len(FlatRun(chain, TRUE))
        /\ \A to_queue \in BOOLEAN, offset \in 0..(2 * MaxLen + 1), count \in 1..(2 * MaxLen + 1) :
               LET flat == FlatRun(chain, to_queue)
                   copy == memcpy_to_from_queue(chain, offset, count, to_queue)
               IN  /\ (copy.ret = 0) <=> (offset + count <= Len(flat))
                   /\ copy.bytes = [i \in {k \in 1..count : offset + k <= Len(flat)} |-> flat[offset + i]]
=============================================================================
