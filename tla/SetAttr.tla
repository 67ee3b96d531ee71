------------------------------ MODULE SetAttr ------------------------------
(***************************************************************************)
(* fs_setattr of fs_disk.cpp: up to five host calls in a fixed order, each *)
(* of which may fail.  The host (external) drops the set-user-id bit when  *)
(* the owner changes and stamps the change time on every call.             *)
(***************************************************************************)
EXTENDS Integers, Sequences, SequencesExt, FiniteSets

Bits == <<"UID", "MODE", "SIZE", "MTIME", "CTIME">>

MaskOf(n) == {Bits[i] : i \in {j \in 1..5 : (n \div 2^(j - 1)) % 2 = 1}}

Fresh == [owner |-> "old", suid |-> FALSE, size |-> "old", mtime |-> "old", ctime |-> "old"]

Needs == [chown |-> "UID", chmod |-> "MODE", truncate |-> "SIZE", utimens |-> "MTIME"]

Calls(mask) == SelectSeq(<<"chown", "chmod", "truncate", "utimens">>, LAMBDA c : Needs[c] \in mask)

Host(obj, call) ==
    CASE call = "chown" -> [obj EXCEPT !.owner = "new", !.suid = FALSE, !.ctime = "now"]
      [] call = "chmod" -> [obj EXCEPT !.suid = TRUE, !.ctime = "now"]
      [] call = "truncate" -> [obj EXCEPT !.size = "new", !.mtime = "now", !.ctime = "now"]
      [] call = "utimens" -> [obj EXCEPT !.mtime = "new", !.ctime = "now"]
      [] call = "touch" -> [obj EXCEPT !.ctime = "now"]

\* Mutant: the mode is set before the owner.
MutSequence(mask) ==
    SelectSeq(<<"chmod", "chown", "truncate", "utimens">>, LAMBDA c : Needs[c] \in mask)

\* The calls for a mask: a change time alone takes an lchown that changes nothing.
CallSequence(mask) ==
    IF Calls(mask) = <<>> /\ "CTIME" \in mask THEN <<"touch">> ELSE Calls(mask)

\* The k-th call fails (none when k is beyond the last).
fs_setattr(obj, mask, k) ==
    LET calls == CallSequence(mask)
    IN  [err |-> k <= Len(calls),
         obj |-> FoldLeft(Host, obj, SubSeq(calls, 1, IF k <= Len(calls) THEN k - 1 ELSE Len(calls)))]

\* A setattr that succeeds gives the object every attribute of the mask, the
\* set-user-id bit and the modification time included although other calls of
\* the sequence touch them, and no other; one that fails has changed only
\* attributes of the mask and those the host changes along.
SetAttrExact(n) ==
    LET mask == MaskOf(n)
    IN  \A k \in 1..5 :
          LET r == fs_setattr(Fresh, mask, k)
          IN  /\ ~r.err => /\ (r.obj.owner = "new") <=> ("UID" \in mask)
                           /\ r.obj.suid <=> ("MODE" \in mask)
                           /\ (r.obj.size = "new") <=> ("SIZE" \in mask)
                           /\ (r.obj.mtime = "new") <=> ("MTIME" \in mask)
                           /\ (r.obj.ctime = "now") <=> (mask /= {})
              /\ r.err => /\ r.obj.owner = "new" => "UID" \in mask
                          /\ r.obj.suid => {"MODE"} \subseteq mask /\ ("UID" \in mask => r.obj.owner = "new")
                          /\ r.obj.mtime = "now" => "SIZE" \in mask
=============================================================================
