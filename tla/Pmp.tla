---------------------------------- MODULE Pmp ----------------------------------
(***************************************************************************)
(* The physical memory protection registers (riscv_cpu.cpp csr_write of    *)
(* pmpcfg and pmpaddr, unpack_pmpaddrs).                                   *)
(*                                                                         *)
(* The registers are decoded into a table of byte ranges whenever one of   *)
(* them changes; every access is checked against the table (Mmu).  A range *)
(* of type TOR starts at the address of the entry before, so one address   *)
(* register can take part in two ranges.  A locked entry stays as it is    *)
(* until the hart is reset.  An entry's permissions are left out.          *)
(***************************************************************************)
EXTENDS Integers, Sequences

CONSTANTS
  PMP_N,       \* number of entries, all in one pmpcfg register
  AddrBits     \* bits of a pmpaddr register (PMPADDR_MASK)

ASSUME PmpAssumption == PMP_N \in Nat /\ AddrBits \in Nat

\* 1llu << n, as far as it is needed.
Pow2[n \in 0..(AddrBits + 3)] == IF n = 0 THEN 1 ELSE 2 * Pow2[n - 1]

Entries == 0..(PMP_N - 1)
Addrs == 0..(Pow2[AddrBits] - 1)
Types == {"OFF", "TOR", "NA4", "NAPOT"}
Cfg == [L : BOOLEAN, A : Types]

VARIABLES
  csr_pmpcfg, csr_pmpaddr,
  pmptable          \* the table: the ranges of the entries that are not off, in order

pmpvars == <<csr_pmpcfg, csr_pmpaddr, pmptable>>

PmpTypeOK ==
  /\ csr_pmpcfg \in [Entries -> Cfg]
  /\ csr_pmpaddr \in [Entries -> Addrs]
  /\ Len(pmptable) <= PMP_N
  /\ \A k \in DOMAIN pmptable : pmptable[k].lo \in Nat /\ pmptable[k].hi \in Nat

PmpInit ==
  /\ csr_pmpcfg = [i \in Entries |-> [L |-> FALSE, A |-> "OFF"]]
  /\ csr_pmpaddr = [i \in Entries |-> 0]
  /\ pmptable = <<>>

--------------------------------------------------------------------------------

\* The number of ones below the lowest zero of a.
TrailingOnes(a) ==
  CHOOSE j \in 0..AddrBits : (a \div Pow2[j]) % 2 = 0 /\ \A i \in 0..(j - 1) : (a \div Pow2[i]) % 2 = 1

\* The range unpack_pmpaddrs gives entry i of the registers (cfg, addr).
RangeOf(cfg, addr, i) ==
  LET j == TrailingOnes(addr[i]) + 3
      lo == 4 * addr[i] - ((4 * addr[i]) % Pow2[j])
  IN  CASE cfg[i].A = "TOR"   -> [lo |-> IF i = 0 THEN 0 ELSE 4 * addr[i - 1], hi |-> 4 * addr[i]]
        [] cfg[i].A = "NA4"   -> [lo |-> 4 * addr[i], hi |-> 4 * addr[i] + 4]
        [] cfg[i].A = "NAPOT" -> [lo |-> lo, hi |-> lo + Pow2[j]]

Active(cfg) == {i \in Entries : cfg[i].A # "OFF"}

\* Mutant: the table is not emptied first.
UnpackMore(cfg, addr) ==
  LET table[i \in 0..PMP_N] ==
        IF i = 0 THEN pmptable
        ELSE IF i - 1 \in Active(cfg) THEN Append(table[i - 1], RangeOf(cfg, addr, i - 1)) ELSE table[i - 1]
  IN  table[PMP_N]

\* The table after each number of entries.
Unpacked(cfg, addr) ==
  LET table[i \in 0..PMP_N] ==
        IF i = 0 THEN <<>>
        ELSE IF i - 1 \in Active(cfg) THEN Append(table[i - 1], RangeOf(cfg, addr, i - 1)) ELSE table[i - 1]
  IN  table

unpack_pmpaddrs(cfg, addr) == Unpacked(cfg, addr)[PMP_N]

\* csr_write of pmpcfg with val: locked entries keep what they have.
WritePmpcfg(val) ==
  /\ csr_pmpcfg' = [i \in Entries |-> IF csr_pmpcfg[i].L THEN csr_pmpcfg[i] ELSE val[i]]
  /\ UNCHANGED csr_pmpaddr
  /\ pmptable' = unpack_pmpaddrs(csr_pmpcfg', csr_pmpaddr)

\* Whether csr_write leaves pmpaddr i alone: the entry is locked, or it is the
\* start of a locked range.
AddrLockedAlone(i) == csr_pmpcfg[i].L

AddrLocked(i) ==
  \/ csr_pmpcfg[i].L
  \/ i + 1 \in Entries /\ csr_pmpcfg[i + 1].A = "TOR" /\ csr_pmpcfg[i + 1].L

WritePmpaddrStale(i, a) ==
  /\ ~AddrLocked(i)
  /\ csr_pmpaddr' = [csr_pmpaddr EXCEPT ![i] = a]
  /\ UNCHANGED csr_pmpcfg
  /\ pmptable' = IF csr_pmpcfg[i].A = "OFF" THEN pmptable ELSE unpack_pmpaddrs(csr_pmpcfg, csr_pmpaddr')

WritePmpaddr(i, a) ==
  /\ ~AddrLocked(i)
  /\ csr_pmpaddr' = [csr_pmpaddr EXCEPT ![i] = a]
  /\ UNCHANGED csr_pmpcfg
  /\ pmptable' = unpack_pmpaddrs(csr_pmpcfg, csr_pmpaddr')

\* Bound: a write of pmpcfg changes one entry at a time.
PmpNext ==
  \/ \E i \in Entries, c \in Cfg : WritePmpcfg([csr_pmpcfg EXCEPT ![i] = c])
  \/ \E i \in Entries, a \in Addrs : WritePmpaddr(i, a)

PmpSpec == PmpInit /\ [][PmpNext]_pmpvars

--------------------------------------------------------------------------------

\* How many entries below j are not off, and the place of entry i in the table.
Before(cfg) ==
  LET before[j \in 0..PMP_N] ==
        IF j = 0 THEN 0 ELSE IF j - 1 \in Active(cfg) THEN before[j - 1] + 1 ELSE before[j - 1]
  IN  before

Place(i) == Before(csr_pmpcfg)[i] + 1

\* The words (of four bytes) entry i matches, as the privileged architecture
\* defines it: up to the register from the one before, one word, or the words
\* that agree with the register above its lowest zero bit.
Matches(i) ==
  LET a == csr_pmpaddr[i]
      j == TrailingOnes(a) + 1
  IN  CASE csr_pmpcfg[i].A = "TOR" -> (IF i = 0 THEN 0 ELSE csr_pmpaddr[i - 1])..(a - 1)
        [] csr_pmpcfg[i].A = "NA4" -> {a}
        [] csr_pmpcfg[i].A = "NAPOT" -> {w \in 0..Pow2[AddrBits + 1] : w \div Pow2[j] = a \div Pow2[j]}

\* The decoded table covers the words the registers say, entry by entry: it is
\* never out of date, also after a write of the address register of an entry
\* that is off but starts the range of the next one.
TableExact ==
  \A i \in Active(csr_pmpcfg) :
    {w \in 0..Pow2[AddrBits + 1] : pmptable[Place(i)].lo <= 4 * w /\ 4 * w < pmptable[Place(i)].hi}
      = Matches(i)

\* A locked entry keeps its range whatever is written to any of the registers,
\* the address register its range starts at included.
KeepsLocked ==
  \A i \in Active(csr_pmpcfg) :
    csr_pmpcfg[i].L => i \in Active(csr_pmpcfg)' /\ pmptable'[Place(i)'] = pmptable[Place(i)]

\* The unpacked PMP table is what the registers say after every write of one,
\* and the range of a locked entry never changes.
PmpRangesExact == [][TableExact' /\ KeepsLocked]_pmpvars
================================================================================
