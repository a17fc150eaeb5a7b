--------------------------- MODULE SspUartFormat ----------------------------
(***************************************************************************)
(* The decoding of the four format bits of UCR, which both halves of the   *)
(* SSP UART use while a frame is on the line: seven data bits, two stop    *)
(* bits, a parity bit, and its kind (odd, even, space, mark).              *)
(***************************************************************************)
EXTENDS Naturals

Len7(f)    == f \in 12 .. 15
NumStop(f) == f \in 7 .. 11 \cup {14, 15}
ParEn(f)   == f \notin {0, 1, 6, 7}
Par(f)     == CASE f \in {3, 9, 13, 15} -> "even"
                [] f \in {4, 10} -> "space"
                [] f \in {5, 11} -> "mark"
                [] OTHER -> "odd"
=============================================================================
