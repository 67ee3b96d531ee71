------------------------------- MODULE MCMainLoop ------------------------------
(***************************************************************************)
(* Command lines and guests for MainLoop.  With slices of two instructions *)
(* and a budget counted modulo 8, the budget 7 is never used up.           *)
(***************************************************************************)
EXTENDS MainLoop

Setup(n, budget, after, stfs, exits, ks) ==
  [ncpus |-> n, maxinsns |-> budget, trace |-> after, stf_trace |-> stfs,
   exit_on_stop_opc |-> exits, kinds |-> ks]

\* Two harts without an STF trace, two with one, one hart that stops at the
\* STOP marker, and a budget that ends a run.
MCSetups ==
  { Setup(2, 7, 5, FALSE, FALSE,
          {"plain", "trap", "ecall", "shutdown", "return", "wfi", "tohost"}),
    Setup(2, 7, 4, TRUE, FALSE, {"plain", "csr", "start", "stop", "trap", "return"}),
    Setup(1, 7, 7, TRUE, TRUE,
          {"plain", "csr", "badcsr", "tohost", "start", "stop", "trap", "return", "wfi"}),
    Setup(1, 6, 12, FALSE, FALSE, {"plain", "trap", "return"}) }

\* One hart whose guest executes CSR instructions.
CsrSetups == {Setup(1, 7, 7, FALSE, FALSE, {"plain", "csr"})}

\* Two harts, of which either may execute the STOP marker.
StopSetups == {Setup(2, 7, 7, TRUE, TRUE, {"plain", "start", "stop"})}

\* A budget that is not a number of whole slices, and one that is, for two harts.
BudgetSetups == {Setup(1, 3, 7, FALSE, FALSE, {"plain"}),
                 Setup(2, 4, 7, FALSE, FALSE, {"plain"})}
================================================================================
