----------------------------- MODULE MCDevices -----------------------------
(***************************************************************************)
(* The devices and their back ends, which share no state, checked side by  *)
(* side with the pure functions of MCFunctions: the variable unit selects  *)
(* the one that runs, the others stay in an initial state.                 *)
(***************************************************************************)
EXTENDS Plic, P9, Uart, BlockFile, VirtioInput, MCFunctions, TLC

VARIABLE unit

allvars == <<unit, input, p9vars, inputvars, uartvars, diskvars, vars>>

MCButtons == <<"left", "right", "middle">>

ASSUME PlicSound == PlicAssumption

Symmetry == Permutations(Names) \cup Permutations(Fids)

MCInit ==
    /\ unit \in {"functions", "p9", "input", "uart", "disk", "plic"}
    /\ IF unit = "functions" THEN FnInit ELSE input = [fn |-> "none", a |-> 0]
    /\ P9Init
    /\ InputInit
    /\ UartInit
    /\ DiskInit /\ (unit /= "disk" => mode = "RO" /\ file = [s \in Numbers |-> 0])
    /\ Init

\* A simulator that has crashed stops.
MCNext ==
    \/ unit = "functions" /\ FnNext /\ UNCHANGED <<unit, p9vars, inputvars, uartvars, diskvars, vars>>
    \/ unit = "p9" /\ P9Next /\ UNCHANGED <<unit, input, inputvars, uartvars, diskvars, vars>>
    \/ unit = "input" /\ InputNext /\ UNCHANGED <<unit, input, p9vars, uartvars, diskvars, vars>>
    \/ unit = "uart" /\ UartNext /\ UNCHANGED <<unit, input, p9vars, inputvars, diskvars, vars>>
    \/ unit = "disk" /\ DiskNext /\ UNCHANGED <<unit, input, p9vars, inputvars, uartvars, vars>>
    \/ unit = "plic" /\ Next /\ UNCHANGED <<unit, input, p9vars, inputvars, uartvars, diskvars>>
    \/ unit = "plic" /\ crashed /\ UNCHANGED allvars

MCSpec == MCInit /\ [][MCNext]_allvars
=============================================================================
