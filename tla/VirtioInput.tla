---------------------------- MODULE VirtioInput ----------------------------
(***************************************************************************)
(* The keyboard and mouse events of the virtio input device (virtio.cpp).  *)
(* A call queues several events, each of which takes one buffer of the     *)
(* guest (virtio_input_queue_event fails when there is none), and the      *)
(* guest acts on what it got when a SYN event arrives.  The host that      *)
(* calls repeats a call that failed until it succeeds.                     *)
(***************************************************************************)
EXTENDS Integers, Sequences, FiniteSets

CONSTANTS Buttons,   \* buttons_list, as a sequence
          Buffers    \* event buffers of the guest

Pressed == {Buttons[i] : i \in DOMAIN Buttons}

ASSUME InputAssumption == Buttons \in Seq(Pressed) /\ Buffers \in Nat

VARIABLES buttons_state,  \* the device's idea of the buttons
          free,           \* event buffers it may still fill
          raw,            \* buttons as the events delivered so far set them
          shown,          \* buttons as of the last SYN
          wanted,         \* argument of the last call
          failed          \* the last call returned an error

inputvars == <<buttons_state, free, raw, shown, wanted, failed>>

\* The events of a call come in this order: X and Y, the wheel if it moved, the
\* buttons that changed in the order of the list, SYN.
Motions(dz) == IF dz THEN 3 ELSE 2

Changed(buttons) == {i \in DOMAIN Buttons : (Buttons[i] \in buttons) /= (Buttons[i] \in buttons_state)}

\* The number of events up to the one for the button at i.
Before(buttons, dz, i) == Motions(dz) + Cardinality({j \in Changed(buttons) : j <= i})

\* The number of events without SYN.
Events(buttons, dz) == Motions(dz) + Cardinality(Changed(buttons))

\* virtio_input_queue_event for each event, up to the first that finds no
\* buffer: the guest hears of these buttons, and of all of them if SYN follows.
Deliver(buttons, dz) ==
    LET told == {Buttons[i] : i \in {k \in Changed(buttons) : Before(buttons, dz, k) <= free}}
        syn == free > Events(buttons, dz)
    IN  /\ raw' = (raw \ told) \cup (told \cap buttons)
        /\ shown' = IF syn THEN raw' ELSE shown
        /\ free' = IF syn THEN free - Events(buttons, dz) - 1 ELSE 0
        /\ failed' = ~syn

\* Mutant: the device takes the new state before the events are queued.
MutMouse(buttons, dz) ==
    /\ failed => buttons = wanted
    /\ wanted' = buttons
    /\ Deliver(buttons, dz)
    /\ buttons_state' = buttons

\* buttons_state changes once all button events are queued, also when SYN fails.
virtio_input_send_mouse_event(buttons, dz) ==
    /\ failed => buttons = wanted
    /\ wanted' = buttons
    /\ Deliver(buttons, dz)
    /\ buttons_state' = IF free >= Events(buttons, dz) THEN buttons ELSE buttons_state

\* The guest gives a buffer back.
GuestRefill ==
    /\ free < Buffers
    /\ free' = free + 1
    /\ UNCHANGED <<buttons_state, raw, shown, wanted, failed>>

InputInit ==
    /\ buttons_state = {} /\ raw = {} /\ shown = {} /\ wanted = {}
    /\ free = 0
    /\ failed = FALSE

InputNext ==
    \/ \E buttons \in SUBSET Pressed, dz \in BOOLEAN : virtio_input_send_mouse_event(buttons, dz)
    \/ GuestRefill

InputSpec == InputInit /\ [][InputNext]_inputvars

\* When a call returns success, the buttons the guest shows are the ones of the
\* call, however many earlier attempts stopped after some of their events: the
\* events of a repeated call are repeated until all were queued, and a SYN that
\* failed is made up for.
ButtonsAgree == ~failed => shown = wanted /\ buttons_state = wanted
=============================================================================
