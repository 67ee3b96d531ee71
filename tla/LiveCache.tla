----------------------------- MODULE LiveCache -----------------------------
(***************************************************************************)
(* The live cache that follows the guest's memory accesses, and the warm-up*)
(* list a checkpoint takes from it.  A set is the sequence of its ways,    *)
(* most recently used first; a line is its tag, the store mark st and the  *)
(* order of its last access.  Tag 0 marks a way that was never filled.     *)
(***************************************************************************)
EXTENDS Integers, Sequences, SequencesExt

CONSTANTS
    Sets,           \* number of sets
    Assoc,          \* ways of a set
    Tags,           \* line addresses the guest touches, all > 0
    Tracked,        \* those inside mem_base .. mem_end
    MaxOrder        \* bound on maxOrder

VARIABLES
    content,        \* the ways of each set, as content[] orders them
    maxOrder,       \* the order the next access gets
    recent          \* the tracked lines by last access, newest first

livevars == <<content, maxOrder, recent>>

SetOf(tag) == tag % Sets

Empty == [tag |-> 0, st |-> FALSE, order |-> 0]

TypeOK ==
    /\ content \in [0..(Sets - 1) -> [1..Assoc -> [tag : Tags \union {0}, st : BOOLEAN, order : 0..MaxOrder]]]
    /\ maxOrder \in 0..MaxOrder

Init ==
    /\ content = [s \in 0..(Sets - 1) |-> [w \in 1..Assoc |-> Empty]]
    /\ maxOrder = 0
    /\ recent = <<>>

----------------------------------------------------------------------------
Hits(set, tag) == {w \in 1..Assoc : set[w].tag = tag}

\* Mutant: a hit leaves the ways in their places.
MutToFront(set, w, line) == [set EXCEPT ![w] = line]

\* The pointer shuffle of findLinePrivate and findLine2Replace: way w moves to
\* the front, the ways before it move back by one.
ToFront(set, w, line) ==
    [i \in 1..Assoc |-> IF i = 1 THEN line ELSE IF i <= w THEN set[i - 1] ELSE set[i]]

\* findLinePrivate and, on a miss, findLine2Replace with the LRU policy: the way
\* the access uses.
WayFor(set, tag) == IF Hits(set, tag) /= {} THEN CHOOSE w \in Hits(set, tag) : TRUE ELSE Assoc

\* The store mark after an access: a write sets it, a read miss clears it.
Mark(line, tag, st) == IF line.tag = tag THEN line.st \/ st ELSE st

\* LiveCache::read (st = FALSE) and LiveCache::write (st = TRUE).
Touched(cache, tag, st, order) ==
    LET set == cache[SetOf(tag)]
        w   == WayFor(set, tag)
    IN  [cache EXCEPT ![SetOf(tag)] =
           ToFront(set, w, [tag |-> tag, st |-> Mark(set[w], tag, st), order |-> order])]

Access(tag, st) ==
    /\ maxOrder < MaxOrder
    /\ IF tag \in Tracked
       THEN /\ content' = Touched(content, tag, st, maxOrder)
            /\ maxOrder' = maxOrder + 1
            /\ recent' = <<tag>> \o SelectSeq(recent, LAMBDA t : t /= tag)
       ELSE UNCHANGED livevars

Next == \E tag \in Tags, st \in BOOLEAN : Access(tag, st)

Spec == Init /\ [][Next]_livevars

----------------------------------------------------------------------------
RECURSIVE Merge(_, _)
Merge(a, b) ==
    IF b = <<>> THEN a
    ELSE IF a = <<>> THEN b
    ELSE IF a[1].order <= b[1].order THEN <<a[1]>> \o Merge(Tail(a), b)
    ELSE <<b[1]>> \o Merge(a, Tail(b))

\* Mutant: the lines stay in the order of the sets.
Unsorted(arr) == arr

RECURSIVE mergeSort(_)
mergeSort(arr) ==
    IF Len(arr) < 2 THEN arr
    ELSE LET mid == Len(arr) \div 2
         IN  Merge(mergeSort(SubSeq(arr, 1, mid)), mergeSort(SubSeq(arr, mid + 1, Len(arr))))

\* getPLine for every line number.
Lines == FlattenSeq([s \in 1..Sets |-> content[s - 1]])

\* LiveCache::traverse: the lines with a nonzero order (the order of a way that
\* was never filled is whatever malloc left, but its tag is 0), oldest first.
traverse == SelectSeq(mergeSort(SelectSeq(Lines, LAMBDA l : l.order /= 0)), LAMBDA l : l.tag /= 0)

\* The warm-up loop of the boot ROM reads every line of the list and then
\* writes the marked ones; here it runs against an empty cache.
WarmedUp ==
    LET Load(cache, l) == LET r == Touched(cache, l.tag, FALSE, 0)
                          IN  IF l.st THEN Touched(r, l.tag, TRUE, 0) ELSE r
    IN  FoldLeft(Load, [s \in 0..(Sets - 1) |-> [w \in 1..Assoc |-> Empty]], traverse)

\* The lines a set holds, in the order of replacement; the line of the very
\* first access has order 0 until it is used again and is left out.
Held(cache, s, Keep(_)) ==
    [i \in 1..Len(SelectSeq(cache[s], Keep)) |->
       LET l == SelectSeq(cache[s], Keep)[i] IN [tag |-> l.tag, st |-> l.st]]

\* Replaying the warm-up list of traverse into an empty cache of the same
\* geometry gives the lines, the store marks and the order of replacement the
\* live cache had (the line of order 0 excepted, which traverse drops).
WarmupReproduces ==
    \A s \in 0..(Sets - 1) :
      Held(WarmedUp, s, LAMBDA l : l.tag /= 0) = Held(content, s, LAMBDA l : l.tag /= 0 /\ l.order /= 0)

\* The cache holds exactly the most recently used tracked lines of each set,
\* newest first: findLine and fillLine together implement LRU replacement.
HoldsMostRecent ==
    \A s \in 0..(Sets - 1) :
      LET wanted == SelectSeq(recent, LAMBDA t : SetOf(t) = s)
      IN  \A w \in 1..Assoc : content[s][w].tag = IF w <= Len(wanted) THEN wanted[w] ELSE 0
=============================================================================
