-------------------------------- MODULE Uart --------------------------------
(***************************************************************************)
(* The console input path: the terminal, the escape filter of console_read *)
(* (dromajo_main.cpp), and the UARTs that share it: the DesignWare UART    *)
(* with its interrupt (dw_apb_uart.cpp) and the receive register of the    *)
(* SiFive UART (riscv_machine.cpp).  A typed byte is a record [id, ch], so *)
(* that it can be followed; "C-b" is the escape character (2), "C-a" is 1. *)
(***************************************************************************)
EXTENDS Integers, Sequences

CONSTANTS Chars,     \* what is typed
          MaxTyped   \* how much of it

Bits == {"RDI", "THRI", "MSI"}   \* interrupt enable bits that can matter

VARIABLES stdin,              \* typed and not read yet
          typed,              \* everything typed
          console_esc_state,
          ier,
          dlab,               \* bit 7 of lcr: registers 0 and 1 are the divisor
          lsr,                \* "RXRDY", "THREMPTY"; no code sets an error bit
          rhr,                \* receive holding register
          irq,                \* the line into the PLIC, and last_irq_level
          got,                \* bytes the guest received from the DesignWare UART
          sifive              \* bytes the guest received from the SiFive UART

uartvars == <<stdin, typed, console_esc_state, ier, dlab, lsr, rhr, irq, got, sifive>>

NoByte == [id |-> 0, ch |-> "none"]

(***************************************************************************)
(* console_read for one byte.  It may use up a byte and return nothing.    *)
(***************************************************************************)
Taken == IF stdin = <<>> THEN <<>>
         ELSE IF console_esc_state THEN (IF Head(stdin).ch = "C-a" THEN <<Head(stdin)>> ELSE <<>>)
         ELSE IF Head(stdin).ch = "C-b" THEN <<>> ELSE <<Head(stdin)>>

EscAfter == IF stdin = <<>> THEN console_esc_state
            ELSE ~console_esc_state /\ Head(stdin).ch = "C-b"

console_read ==
    /\ stdin' = IF stdin = <<>> THEN <<>> ELSE Tail(stdin)
    /\ console_esc_state' = EscAfter

(***************************************************************************)
(* The DesignWare UART.                                                    *)
(***************************************************************************)

\* update_isr, priorities 1 to 4; msr is 0, so its test always holds.
Cause(e, l) ==
    IF "RDI" \in e /\ "RXRDY" \in l THEN 4
    ELSE IF "THRI" \in e /\ "THREMPTY" \in l THEN 2
    ELSE IF "MSI" \in e THEN 0
    ELSE 1

\* set_irq is called when the level differs from the last one.
update_isr(e, l) == irq' = IF Cause(e, l) = 1 THEN 0 ELSE 1

\* Mutant: the register is filled although it still holds a byte.
MutPoll(l) ==
    /\ console_read
    /\ lsr' = IF Taken = <<>> THEN l ELSE l \cup {"RXRDY"}
    /\ rhr' = IF Taken = <<>> THEN rhr ELSE Head(Taken)
    /\ update_isr(ier, lsr')

\* dw_apb_uart_poll from the line status l.
dw_apb_uart_poll(l) ==
    IF "RXRDY" \in l
    THEN /\ lsr' = l
         /\ UNCHANGED <<stdin, console_esc_state, rhr, irq>>
    ELSE /\ console_read
         /\ lsr' = IF Taken = <<>> THEN l ELSE l \cup {"RXRDY"}
         /\ rhr' = IF Taken = <<>> THEN rhr ELSE Head(Taken)
         /\ update_isr(ier, lsr')

\* The guest counts a byte it reads only if the line status says it is ready.
read_rhr ==
    /\ ~dlab
    /\ lsr' = lsr \ {"RXRDY"}
    /\ update_isr(ier, lsr')
    /\ got' = IF "RXRDY" \in lsr THEN Append(got, rhr) ELSE got
    /\ UNCHANGED <<stdin, typed, console_esc_state, ier, dlab, rhr, sifive>>

write_thr ==
    /\ ~dlab
    /\ dw_apb_uart_poll(lsr)
    /\ UNCHANGED <<typed, ier, dlab, got, sifive>>

\* Mutant: the new enables take effect at the next update only.
MutIer(e) ==
    /\ ~dlab
    /\ ier' = e
    /\ UNCHANGED <<stdin, typed, console_esc_state, dlab, lsr, rhr, irq, got, sifive>>

write_ier(e) ==
    /\ ~dlab
    /\ ier' = e
    /\ update_isr(e, lsr)
    /\ UNCHANGED <<stdin, typed, console_esc_state, dlab, lsr, rhr, got, sifive>>

write_lcr(d) ==
    /\ dlab' = d
    /\ UNCHANGED <<stdin, typed, console_esc_state, ier, lsr, rhr, irq, got, sifive>>

\* The transmitter is always empty; poll, then update.
read_lsr ==
    /\ IF "RXRDY" \in lsr
       THEN /\ lsr' = lsr \cup {"THREMPTY"}
            /\ update_isr(ier, lsr')
            /\ UNCHANGED <<stdin, console_esc_state, rhr>>
       ELSE dw_apb_uart_poll(lsr \cup {"THREMPTY"})
    /\ UNCHANGED <<typed, ier, dlab, got, sifive>>

\* read_msr clears bits that are clear; the other registers are plain storage.
read_msr ==
    /\ update_isr(ier, lsr)
    /\ UNCHANGED <<stdin, typed, console_esc_state, ier, dlab, lsr, rhr, got, sifive>>

(***************************************************************************)
(* The SiFive UART and the terminal.                                       *)
(***************************************************************************)
uart_read ==
    /\ console_read
    /\ sifive' = sifive \o Taken
    /\ UNCHANGED <<typed, ier, dlab, lsr, rhr, irq, got>>

Type(ch) ==
    /\ Len(typed) < MaxTyped
    /\ LET byte == [id |-> Len(typed) + 1, ch |-> ch]
       IN  /\ typed' = Append(typed, byte)
           /\ stdin' = Append(stdin, byte)
    /\ UNCHANGED <<console_esc_state, ier, dlab, lsr, rhr, irq, got, sifive>>

UartInit ==
    /\ stdin = <<>> /\ typed = <<>> /\ got = <<>> /\ sifive = <<>>
    /\ console_esc_state = FALSE
    /\ ier = {} /\ dlab = FALSE /\ lsr = {} /\ rhr = NoByte /\ irq = 0

UartNext ==
    \/ read_rhr \/ write_thr \/ read_lsr \/ read_msr \/ uart_read
    \/ \E e \in SUBSET Bits : write_ier(e)
    \/ \E d \in BOOLEAN : write_lcr(d)
    \/ \E ch \in Chars : Type(ch)

UartSpec == UartInit /\ [][UartNext]_uartvars

(***************************************************************************)
(* Properties                                                              *)
(***************************************************************************)

\* The interrupt line is high exactly while an enabled cause is present: every
\* handler that changes the enables or the line status calls update_isr, and
\* suppressing set_irq on an unchanged level never leaves a stale line.
UartLineExact == irq = 1 <=> Cause(ier, lsr) /= 1

Held == IF "RXRDY" \in lsr THEN <<rhr>> ELSE <<>>

Ids(bytes) == {bytes[i].id : i \in DOMAIN bytes}

\* Bytes taken from the terminal so far.
Consumed == Len(typed) - Len(stdin)

\* A run of escape characters reaches from byte j + 1 to byte i - 1.
RunFrom(j, i) ==
    /\ \A k \in (j + 1)..(i - 1) : typed[k].ch = "C-b"
    /\ j > 0 => typed[j].ch /= "C-b"

\* Byte i is a command to the console: an odd number of escape characters comes
\* right before it.
Escaped(i) == \E j \in 0..(i - 1) : RunFrom(j, i) /\ (i - 1 - j) % 2 = 1

\* The bytes the escape filter lets through of those read so far.
Passed == {i \in 1..Consumed : IF Escaped(i) THEN typed[i].ch = "C-a" ELSE typed[i].ch /= "C-b"}

\* Every byte that passed the escape filter is in exactly one place: received
\* through one UART or held in the receive register; none is overwritten or
\* delivered twice, and each UART delivers in the order of typing.
NoByteLost ==
    LET dw == got \o Held
    IN  /\ Ids(dw) \cup Ids(sifive) = Passed
        /\ Ids(dw) \cap Ids(sifive) = {}
        /\ \A s \in {dw, sifive} : \A i, j \in DOMAIN s : i < j => s[i].id < s[j].id

\* Every byte that passes the console's escape filter is received once, in
\* order, and the DesignWare UART's line is high exactly while an enabled cause
\* is present.
ConsoleExact == NoByteLost /\ UartLineExact
=============================================================================
