-------------------------------- MODULE Gold --------------------------------
(***************************************************************************)
(* The gold memory model behind the in-order bridge (GOLDMEM_INORDER): each*)
(* load, store and AMO the co-simulation commits is replayed in a Gold_core*)
(* per hart over a Gold_mem that all of them share, and the value the      *)
(* design under test read is compared with the gold value.  A Gold_data is *)
(* a function from its byte addresses to bytes.  inorder() numbers the     *)
(* entries in the order it puts them at the front of rob, so that the queue*)
(* is the set of its entries: older means a smaller number.                *)
(***************************************************************************)
EXTENDS Integers

CONSTANTS
    Cores,
    GoldAddrs,      \* byte addresses
    Byte,           \* byte values
    MaxInsts        \* bound on global_instid

\* Addresses and instruction numbers are numbers.
ASSUME GoldAssumption == GoldAddrs \subseteq Nat /\ MaxInsts \in Nat

VARIABLES
    ram,            \* dromajo's memory
    mem_byte,       \* Gold_mem: the bytes it has seen
    rob,            \* the entries of each core
    instid,         \* global_instid
    check           \* what the last check said: "ok", "fail"

goldvars == <<ram, mem_byte, rob, instid, check>>

NoData == [a \in {} |-> 0]

\* A Rob_entry: its number and what it stores (nothing for a load; a load is
\* performed as it enters, so ld_data, performed and error say nothing here).
Entry(id, st) == [rid |-> id, st |-> st]

\* Aligned accesses of one and of two bytes.
Ranges == {{a} : a \in GoldAddrs} \cup {{a, a + 1} : a \in {x \in GoldAddrs : x % 2 = 0 /\ x + 1 \in GoldAddrs}}

GoldTypeOK ==
    /\ ram \in [GoldAddrs -> Byte]
    /\ DOMAIN mem_byte \subseteq GoldAddrs /\ \A a \in DOMAIN mem_byte : mem_byte[a] \in Byte
    /\ instid \in 0..MaxInsts
    /\ \A c \in Cores : {e.rid : e \in rob[c]} \subseteq 1..instid
    /\ check \in {"ok", "fail"}

GoldInit ==
    /\ ram \in [GoldAddrs -> Byte]
    /\ mem_byte = NoData
    /\ rob = [c \in Cores |-> {}]
    /\ instid = 0
    /\ check = "ok"

----------------------------------------------------------------------------
\* The bytes of d written over those of m.
Over(m, d) == [a \in DOMAIN m \cup DOMAIN d |-> IF a \in DOMAIN d THEN d[a] ELSE m[a]]

\* The bytes of a range of addresses.
Bytes(memory, range) == [a \in range |-> memory[a]]

\* Gold_data::has_partial_overlap: the first or the last byte of newer is in d.
Overlaps(d, newer) ==
    \E a \in DOMAIN newer \cap DOMAIN d : ~({a - 1, a + 1} \subseteq DOMAIN newer)

\* Gold_data::update_newer: the addresses at which newer replaces a byte of d.
update_newer(d, newer) == IF Overlaps(d, newer) THEN DOMAIN d \cap DOMAIN newer ELSE {}

\* Gold_mem::ld_perform: a byte never seen is taken from dromajo's memory by
\* dromajo_get_byte_direct and remembered.
Seen(m, memory, range) == Over(Bytes(memory, range), m)

\* The loop of Gold_core::ld_perform: the stores older than the load, oldest
\* first, replace bytes of d, so that a byte is the youngest such store's.
Forward(entries, id, d) ==
    [a \in DOMAIN d |->
       LET stores == {e \in entries : e.rid < id /\ a \in update_newer(d, e.st)}
       IN  IF stores = {} THEN d[a]
           ELSE (CHOOSE e \in stores : \A f \in stores : f.rid <= e.rid).st[a]]

LdPerform(entries, id, range, m) == Forward(entries, id, Bytes(m, range))

\* Mutant: a globally performed store stays in the buffer.
KeepStore(entries, id) == entries

\* The end of Gold_core::st_globally_perform: when everything older than the
\* store is a load it is retired with the store, otherwise only the store goes.
Retire(entries, id) ==
    IF \A e \in entries : e.rid < id => e.st = NoData
    THEN {e \in entries : e.rid > id}
    ELSE {e \in entries : e.rid /= id}

\* Mutant: a byte already seen is not written again.
MutStPerform(m, d) == Over(d, m)

\* Gold_mem::st_perform.
StPerform(m, d) == Over(m, d)

\* check_inorder_load: rd is what the design under test read.
GoldLoad(c, range, rd) ==
    LET id == instid + 1
        m  == Seen(mem_byte, ram, range)
        q  == rob[c] \cup {Entry(id, NoData)}
    IN  /\ instid < MaxInsts /\ check = "ok"
        /\ instid' = id
        /\ mem_byte' = m
        /\ rob' = [rob EXCEPT ![c] = q]
        /\ check' = IF LdPerform(q, id, range, m) = rd THEN "ok" ELSE "fail"
        /\ UNCHANGED ram

\* check_inorder_store: dromajo has executed the instruction, so memory already
\* holds d when the bridge is called.
GoldStore(c, d) ==
    LET id == instid + 1
        q  == rob[c] \cup {Entry(id, d)}
    IN  /\ instid < MaxInsts /\ check = "ok"
        /\ instid' = id
        /\ ram' = Over(ram, d)
        /\ mem_byte' = StPerform(mem_byte, d)
        /\ rob' = [rob EXCEPT ![c] = Retire(q, id)]
        /\ UNCHANGED check

\* check_inorder_amo: st is what dromajo stored (last_data_value), rd what the
\* design under test read; the gold load is performed before the store, but
\* dromajo's memory already holds st.
GoldAmo(c, st, rd) ==
    LET id    == instid + 1
        after == Over(ram, st)
        m     == Seen(mem_byte, after, DOMAIN st)
        q     == rob[c] \cup {Entry(id, st)}
        ok    == LdPerform(q, id, DOMAIN st, m) = rd
    IN  /\ instid < MaxInsts /\ check = "ok"
        /\ instid' = id
        /\ ram' = after
        /\ mem_byte' = IF ok THEN StPerform(m, st) ELSE m
        /\ rob' = [rob EXCEPT ![c] = IF ok THEN Retire(q, id) ELSE q]
        /\ check' = IF ok THEN "ok" ELSE "fail"

GoldNext ==
    \E c \in Cores, range \in Ranges :
      \/ \E rd \in [range -> Byte] : GoldLoad(c, range, rd)
      \/ \E st \in [range -> Byte] : GoldStore(c, st)
      \/ \E st, rd \in [range -> Byte] : GoldAmo(c, st, rd)

GoldSpec == GoldInit /\ [][GoldNext]_goldvars

----------------------------------------------------------------------------
\* The gold memory agrees with dromajo's on every byte it has seen, and no
\* store lingers in a reorder buffer where it would be forwarded to a later load
\* of its core although another core has stored since.
GoldTracksMemory ==
    check = "ok" =>
      /\ \A a \in DOMAIN mem_byte : mem_byte[a] = ram[a]
      /\ \A c \in Cores : \A e \in rob[c] : e.st = NoData

\* At an instruction that is checked.
ExactVerdict ==
    instid' /= instid =>
      \A c \in Cores, range \in Ranges :
        /\ \A rd \in [range -> Byte] :
             GoldLoad(c, range, rd) => (check' = "ok" <=> rd = Bytes(ram, range))
        /\ \A st, rd \in [range -> Byte] :
             GoldAmo(c, st, rd) /\ range \subseteq DOMAIN mem_byte =>
               (check' = "ok" <=> rd = Bytes(ram, range))

\* A load is failed exactly when the design under test read something else than
\* the latest store to each byte, whichever core made it, and the gold memory
\* keeps agreeing with dromajo's.  (An AMO is left out when it is the first
\* access to one of its bytes: the gold memory then takes the byte from memory
\* the AMO has already written.)
VerdictExact == [][ExactVerdict /\ GoldTracksMemory']_goldvars
=============================================================================
