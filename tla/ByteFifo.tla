------------------------------ MODULE ByteFifo ------------------------------
(***************************************************************************)
(* What a FIFO<size> of the USB device promises: a bounded queue of bytes. *)
(*                                                                         *)
(* A value is a record [q, full]: q is the sequence of bytes that can      *)
(* still be popped, and full is what full() answers.  As long as nobody    *)
(* pushes onto a full FIFO, full means that q holds Size bytes.  A push    *)
(* onto a full FIFO is accepted too, because usbipOut() and                *)
(* usbipControlRequest() push without asking: all that was queued is then  *)
(* lost, and only the bytes pushed since can be popped, while the level    *)
(* shown to the firmware stays at Size until the next pop.                 *)
(***************************************************************************)
LOCAL INSTANCE Integers
LOCAL INSTANCE Sequences

CONSTANT Size

EmptyFifo == [q |-> << >>, full |-> FALSE]

IsEmpty(f) == f.q = << >>

(* The number of bytes the status registers report. *)
Filled(f) == IF f.full THEN Size ELSE Len(f.q)

Push(f, v) ==
  LET kept == IF f.full /\ Len(f.q) = Size THEN << >> ELSE f.q
  IN  [q |-> Append(kept, v), full |-> f.full \/ Len(kept) + 1 = Size]

Front(f) == Head(f.q)

Pop(f) == [q |-> Tail(f.q), full |-> FALSE]

=============================================================================
