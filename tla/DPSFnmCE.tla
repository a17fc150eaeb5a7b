------------------------------ MODULE DPSFnmCE ------------------------------
(***************************************************************************)
(* The dual-port synchronous FIFO src/ip/SSP_UART_Avalon/DPSFnmCE.v, used  *)
(* twice by SSP_UART.v: as transmit and as receive holding register.       *)
(* One step is one rising edge of Clk: every register takes the value of   *)
(* its next-value operator, computed from the registers before the edge.   *)
(*                                                                         *)
(* The depth of the code is 2^addr with addr >= 1.  The model only needs   *)
(* it to be even, so that the two top bits of Cnt are the full flag and    *)
(* "at least half of the depth"; an addr-bit counter wraps at the depth.   *)
(***************************************************************************)
EXTENDS Naturals, Sequences

CONSTANTS Half,      \* half of the depth: 2^(addr-1)
          Word       \* the values of the width-bit data bus

ASSUME HalfAssumption == Half \in Nat \ {0}

VARIABLES RAM,       \* the memory; the .coe file it is initialised from is arbitrary
          A,         \* write address
          DPRA,      \* read address
          WCnt,      \* word count modulo the depth
          nEF,       \* registered empty flag, active low
          rFF        \* registered full flag

vars == <<RAM, A, DPRA, WCnt, nEF, rFF>>

Depth == 2 * Half
Addr  == 0 .. Depth - 1
Bit   == {0, 1}

TypeOK ==
    /\ RAM \in [Addr -> Word]
    /\ A \in Addr
    /\ DPRA \in Addr
    /\ WCnt \in Addr
    /\ nEF \in Bit
    /\ rFF \in Bit

-----------------------------------------------------------------------------
(* Outputs: combinational functions of the registers.                      *)

EF  == nEF = 0
FF  == rFF = 1
HF  == FF \/ WCnt >= Half                     \* Cnt[addr] | Cnt[addr-1]
Cnt == IF FF THEN Depth + WCnt ELSE WCnt      \* {FF, WCnt}
DO  == RAM[DPRA]

-----------------------------------------------------------------------------
(* Combinational control: a write when full and a read when empty are      *)
(* ignored; CE marks the clocks that change the number of words.           *)

Wr(we) == we /\ ~FF
Rd(re) == re /\ ~EF
CE(we, re) == ~(Wr(we) <=> Rd(re))

(* Mutated forms of the four definitions below, one plausible slip each:   *)
(* the address counter one bit too wide, the memory written when full, the *)
(* read address enabled by RE alone, the empty flag enabled on every clock.*)
IncTooWide(c)         == IF c = Depth THEN 0 ELSE c + 1
NextRAMUnguarded(we, di) == IF we THEN [RAM EXCEPT ![A] = di] ELSE RAM
NextDPRAUnguarded(re) == IF re THEN (IF DPRA = Depth - 1 THEN 0 ELSE DPRA + 1) ELSE DPRA
NextnEFAlways(we, re) == IF re /\ Cnt = 1 THEN 0 ELSE 1

Inc(c) == IF c = Depth - 1 THEN 0 ELSE c + 1
Dec(c) == IF c = 0 THEN Depth - 1 ELSE c - 1

NextRAM(we, di) == IF Wr(we) THEN [RAM EXCEPT ![A] = di] ELSE RAM
NextA(we)       == IF Wr(we) THEN Inc(A) ELSE A
NextDPRA(re)    == IF Rd(re) THEN Inc(DPRA) ELSE DPRA

NextWCnt(we, re) ==
    IF ~CE(we, re) THEN WCnt ELSE IF Wr(we) THEN Inc(WCnt) ELSE Dec(WCnt)

NextnEF(we, re) ==
    IF ~CE(we, re) THEN nEF ELSE IF re /\ Cnt = 1 THEN 0 ELSE 1

NextrFF(we, re) ==
    IF ~CE(we, re) THEN rFF ELSE IF we /\ WCnt = Depth - 1 THEN 1 ELSE 0

-----------------------------------------------------------------------------
Init ==
    /\ RAM \in [Addr -> Word]
    /\ A = 0
    /\ DPRA = 0
    /\ WCnt = 0
    /\ nEF = 0
    /\ rFF = 0

(* A clock with Rst low.                                                   *)
Clock(we, re, di) ==
    /\ RAM'  = NextRAM(we, di)
    /\ A'    = NextA(we)
    /\ DPRA' = NextDPRA(re)
    /\ WCnt' = NextWCnt(we, re)
    /\ nEF'  = NextnEF(we, re)
    /\ rFF'  = NextrFF(we, re)

(* A clock with Rst high (SSP_UART.v drives it with Rst | ClrTHR or        *)
(* Rst | ClrRHR).  The memory port has no reset: a write asserted in the   *)
(* same clock still reaches the RAM.                                       *)
Reset(we, di) ==
    /\ RAM'  = NextRAM(we, di)
    /\ A'    = 0
    /\ DPRA' = 0
    /\ WCnt' = 0
    /\ nEF'  = 0
    /\ rFF'  = 0

Next ==
    \E we \in BOOLEAN, di \in Word :
        \/ \E re \in BOOLEAN : Clock(we, re, di)
        \/ Reset(we, di)

Spec == Init /\ [][Next]_vars

-----------------------------------------------------------------------------
(* The words in the FIFO, oldest first, as a user counts them: one per     *)
(* accepted write that no accepted read has taken.  They lie in the RAM    *)
(* from DPRA onwards, wrapping at the depth.                               *)

Slot(i) == IF DPRA + i < Depth THEN DPRA + i ELSE DPRA + i - Depth
Count   == IF FF THEN Depth ELSE WCnt
Content == [i \in 1 .. Count |-> RAM[Slot(i - 1)]]

(* The three status flags, each registered or decoded separately, agree    *)
(* with the number of words stored: the USR status fields, the TRDY and    *)
(* RRDY bits and the interrupt edges are all derived from them.            *)
FlagsExact ==
    /\ EF <=> Count = 0
    /\ FF <=> Count = Depth
    /\ HF <=> Count >= Half
    /\ Cnt = Count

(* Write and read address differ by exactly the word count, modulo the     *)
(* depth: no word is skipped or read twice after any number of wraps.      *)
PointersAgree == A = IF FF THEN DPRA ELSE Slot(WCnt)

(* The inductive invariant: the flags and the pointers.                    *)
IInv == TypeOK /\ FlagsExact /\ PointersAgree

(* The FIFO is the bounded queue, for any use of its inputs.               *)
Abs == INSTANCE BoundedQueue WITH Capacity <- Depth, queue <- Content

ImplementsQueue == Abs!Spec
=============================================================================
