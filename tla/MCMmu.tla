--------------------------------- MODULE MCMmu ---------------------------------
(***************************************************************************)
(* Two pages of two words, page 0 and 1 both RAM, one TLB slot so that the *)
(* pages compete for it, one page table whose entries are at word 1.       *)
(***************************************************************************)
EXTENDS Mmu

MCPteWord == [r \in Roots |-> 1]

\* A user page for everything, and an execute-only page of the supervisor.
MCPtes ==
  { [v |-> TRUE, u |-> TRUE, xwr |-> {"R", "W", "X"}, ppn |-> 0],
    [v |-> TRUE, u |-> FALSE, xwr |-> {"X"}, ppn |-> 1] }

Region(lo, hi, perm, locked) ==
  [lo |-> lo, hi |-> hi, perm |-> perm, locked |-> locked]

\* PMP entries that cover whole pages.
PagePmp ==
  { <<>>,
    <<Region(0, 4, {"R", "W", "X"}, FALSE)>>,
    <<Region(0, 2, {"R", "X"}, TRUE), Region(0, 4, {"R", "W"}, FALSE)>> }
================================================================================
