----------------------------- MODULE SspUartRx ------------------------------
(***************************************************************************)
(* The receive side of the SSP UART: the receive state machine UART_RXSM.v *)
(* on a line that carries frames of eight data bits without parity, rests  *)
(* and breaks; the receive FIFO; the registers USR and RDR; the receive    *)
(* timeout; and the loop of Soft/main.c that polls bit 6 of USR.           *)
(*                                                                         *)
(* The line changes once per bit.  In its waiting states the state machine *)
(* looks at it sixteen times per bit (Tick), in the others once, half way  *)
(* (Sample).  The bus is idle nearly always, and then UCR takes USR: the   *)
(* format bits are the receive and transmit status, whatever was written   *)
(* to UCR.  The FIFO is the bounded queue that DPSFnmCE implements.        *)
(***************************************************************************)
EXTENDS Naturals, Sequences, SspUartFormat

CONSTANTS Depth,     \* the words the receive FIFO holds: 64
          Half,      \* the words at which it is called half full: 32
          Target     \* the characters the program reads before it ends

ASSUME SspRxAssumption ==
    /\ Depth \in Nat
    /\ Half \in 2 .. Depth - 1
    /\ Target \in Nat \ {0}

VARIABLES pos,        \* the bit on the line: its place in a frame, rest or break
          RxD,        \* its level: TRUE is mark
          RxSM, bit,  \* the receive state machine, and the data bit it waits for
          sampled,    \* it has sampled the bit on the line
          whole,      \* RSR holds the data bits of one frame, each in its place
          RHR,        \* the receive FIFO
          popping,    \* the pulse that takes the word read is on its way
          armed, RcvTimeout, iRTO,
          pc, count,  \* the program, and how many characters it has read
          met,        \* history: the receiver met the start bit of a frame
          clean,      \* history: the FIFO was empty when that frame began
          inBreak     \* history: words received since the break began

line    == <<pos, RxD>>
rxsm    == <<RxSM, bit, whole>>
timeout == <<armed, RcvTimeout, iRTO>>
program == <<pc, count>>
history == <<met, clean, inBreak>>
vars == <<line, rxsm, sampled, RHR, popping, timeout, program, history>>

Start == 0
Stop  == 9
Rest  == 10
Break == 11

\* A received word: the eight bits of a frame, or others; and the error flag.
Item == [whole : BOOLEAN, err : BOOLEAN]

Waiting  == {"WaitMark", "ChkMark", "Idle", "RcvError"}
Sampling == {"ChkStart", "Shift", "ChkParity", "ChkStop2", "ChkStop1"}

RF1 == INSTANCE BoundedQueue WITH Capacity <- Depth, queue <- RHR, Word <- Item

(* The receive status: empty, less than half full, half full, full.        *)
RS == IF RHR = << >> THEN 0
      ELSE IF Len(RHR) < Half THEN 1
      ELSE IF Len(RHR) < Depth THEN 2
      ELSE 3

(* The formats an idle bus leaves in UCR: the transmitter is idle or sends *)
(* the few words of the program.                                           *)
FMT == {4 * RS + ts : ts \in {0, 1}}

TypeOK ==
    /\ pos \in 0 .. Break /\ RxD \in BOOLEAN
    /\ RxSM \in Waiting \cup Sampling /\ bit \in 0 .. 7 /\ whole \in BOOLEAN
    /\ sampled \in BOOLEAN
    /\ RHR \in Seq(Item) /\ Len(RHR) <= Depth
    /\ popping \in BOOLEAN
    /\ armed \in BOOLEAN /\ RcvTimeout \in BOOLEAN /\ iRTO \in BOOLEAN
    /\ pc \in {"off", "poll", "read", "sleep", "last", "done"} /\ count \in 0 .. Target
    /\ met \in BOOLEAN /\ clean \in BOOLEAN /\ inBreak \in 0 .. 2

Init ==
    /\ pos = Rest /\ RxD = TRUE
    /\ RxSM = "WaitMark" /\ bit = 0 /\ whole = FALSE
    /\ sampled = FALSE
    /\ RHR = << >>
    /\ popping = FALSE
    /\ armed = FALSE /\ RcvTimeout = FALSE /\ iRTO = FALSE
    /\ pc = "off" /\ count = 0
    /\ met = FALSE /\ clean = FALSE /\ inBreak = 0

-----------------------------------------------------------------------------
(* The line.                                                               *)
Settled ==
    IF RxSM \in Sampling THEN sampled
    ELSE (RxSM = "Idle" /\ RxD) \/ (RxSM = "WaitMark" /\ ~RxD)

NextBit ==
    /\ Settled
    /\ sampled' = FALSE
    /\ \/ pos < Stop /\ pos' = pos + 1
       \/ pos \in {Stop, Rest} /\ pos' \in {Start, Rest, Break}
       \/ pos = Break /\ pos' \in {Rest, Break}
    /\ RxD' \in IF pos' \in {Start, Break} THEN {FALSE}
                ELSE IF pos' \in {Stop, Rest} THEN {TRUE} ELSE BOOLEAN
    /\ inBreak' = IF pos' = Break THEN inBreak ELSE 0
    /\ UNCHANGED <<rxsm, RHR, popping, timeout, program, met, clean>>

(* Noise shorter than half a bit.                                          *)
Glitch ==
    /\ RxSM = "Idle" /\ pos = Rest
    /\ RxSM' = "ChkStart"
    /\ sampled' = FALSE
    /\ UNCHANGED <<line, bit, whole, RHR, popping, timeout, program, history>>

-----------------------------------------------------------------------------
(* The receive state machine.                                              *)

(* A word for the FIFO, ignored if it is full; it arms the timeout.        *)
WE_RHR(err) ==
    /\ IF Len(RHR) < Depth THEN RF1!Put([whole |-> whole, err |-> err]) ELSE UNCHANGED RHR
    /\ armed' = TRUE
    /\ met' = FALSE
    /\ inBreak' = IF pos = Break THEN inBreak + 1 ELSE inBreak
    /\ UNCHANGED <<RcvTimeout, iRTO, clean>>

NoWord == UNCHANGED <<RHR, timeout, history>>

\* A slip: after an error the line is not waited for.
AfterErrorIdle == "Idle"

AfterError == "WaitMark"

Tick ==
    /\ \/ RxSM = "RcvError" /\ RxSM' = AfterError /\ WE_RHR(TRUE)
       \/ RxSM = "WaitMark" /\ RxD /\ RxSM' = "ChkMark" /\ NoWord
       \/ RxSM = "ChkMark" /\ RxSM' = (IF RxD THEN "Idle" ELSE "WaitMark") /\ NoWord
       \/ /\ RxSM = "Idle" /\ ~RxD /\ RxSM' = "ChkStart"
          /\ met' = (pos = Start)
          /\ clean' = (RHR = << >>)
          /\ UNCHANGED <<RHR, timeout, inBreak>>
    /\ UNCHANGED <<line, bit, whole, sampled, popping, program>>

StopFirst(f) == IF NumStop(f) THEN "ChkStop2" ELSE "ChkStop1"

(* Slips of the state after data bit i: one bit too few; one too many.     *)
AfterDataShort(i, f) ==
    IF i < 6 THEN "Shift" ELSE IF ParEn(f) THEN "ChkParity" ELSE StopFirst(f)

AfterDataLong(i, f) ==
    IF i < 8 THEN "Shift" ELSE IF ParEn(f) THEN "ChkParity" ELSE StopFirst(f)

AfterData(i, f) ==
    IF i < 6 \/ (i = 6 /\ ~Len7(f)) THEN "Shift"
    ELSE IF i = 6 \/ ParEn(f) THEN "ChkParity"
    ELSE StopFirst(f)

(* The parity error: for odd and even parity it depends on the data.       *)
ParErr(f) == IF Par(f) = "space" THEN {RxD} ELSE IF Par(f) = "mark" THEN {~RxD} ELSE BOOLEAN

ChkStart ==
    /\ RxSM = "ChkStart"
    /\ RxSM' = IF RxD THEN "Idle" ELSE "Shift"
    /\ bit' = 0
    /\ whole' = TRUE
    /\ NoWord

(* A bit goes to its place in RSR, whichever bit is on the line; RSR is    *)
(* not whole either when it ends with seven bits.                          *)
Shift(f) ==
    /\ RxSM = "Shift"
    /\ RxSM' = AfterData(bit, f)
    /\ bit' = IF RxSM' = "Shift" THEN bit + 1 ELSE 0
    /\ whole' = (whole /\ pos = bit + 1 /\ (bit = 6 => RxSM' = "Shift"))
    /\ NoWord

ChkParity(f) ==
    /\ RxSM = "ChkParity"
    /\ \E bad \in ParErr(f) : RxSM' = IF bad THEN "RcvError" ELSE StopFirst(f)
    /\ UNCHANGED <<bit, whole>>
    /\ NoWord

ChkStop ==
    /\ \/ RxSM = "ChkStop2" /\ RxSM' = (IF RxD THEN "ChkStop1" ELSE "RcvError") /\ NoWord
       \/ RxSM = "ChkStop1" /\ RxD /\ RxSM' = "Idle" /\ WE_RHR(FALSE)
       \/ RxSM = "ChkStop1" /\ ~RxD /\ RxSM' = "RcvError" /\ NoWord
    /\ UNCHANGED <<bit, whole>>

Sample ==
    /\ ~sampled
    /\ sampled' = TRUE
    /\ ChkStart \/ ChkStop \/ \E f \in FMT : Shift(f) \/ ChkParity(f)
    /\ UNCHANGED <<line, popping, program>>

-----------------------------------------------------------------------------
(* The bus interface.                                                      *)
pUSR == 1
pRDR == 3

\* A slip in the wrapper: SSP_En for a read of any register.
SSP_EnAnyRead(ra) == TRUE

SSP_En(ra)  == ra = pRDR
Clr_Int(ra) == ra = pUSR /\ SSP_En(ra)

(* USR and RDR follow the FIFO by one clock of the bus, which is not       *)
(* modelled: a word in the FIFO is a word in RDR.                          *)
RRDY == RHR # << >>

(* The pulse of re1ce reaches the FIFO some clocks after the read.         *)
RE_RHR ==
    /\ popping
    /\ popping' = FALSE
    /\ IF RRDY THEN RF1!Get ELSE UNCHANGED RHR
    /\ armed' = FALSE /\ RcvTimeout' = FALSE
    /\ UNCHANGED <<line, rxsm, sampled, iRTO, program, history>>

(* Three character times without a word and without a read; the time is    *)
(* not counted.                                                            *)
Timeout ==
    /\ armed
    /\ armed' = FALSE
    /\ RcvTimeout' = TRUE
    /\ iRTO' = (iRTO \/ ~RcvTimeout)
    /\ UNCHANGED <<line, rxsm, sampled, RHR, popping, program, history>>

Device == Tick \/ Sample \/ RE_RHR

-----------------------------------------------------------------------------
(* The program.                                                            *)
Unread == UNCHANGED <<line, rxsm, sampled, RHR, popping, armed, RcvTimeout, history>>

(* The write of UCR lasts until the next idle bus cycle; the one to TDR    *)
(* (0x1800) clears the transmit FIFO only: what the receive FIFO holds     *)
(* from before is read as an answer.                                       *)
Begin ==
    /\ pc = "off" /\ pc' = "poll"
    /\ Unread /\ UNCHANGED <<count, iRTO>>

\* The test of bit 6, which is set in two of the four states; a slip: bit 7.
Bit7 == RS \in {2, 3}

Bit6 == RS \in {1, 3}

Poll ==
    /\ pc = "poll"
    /\ pc' = IF Bit6 THEN "read" ELSE "sleep"
    /\ iRTO' = (iRTO /\ ~Clr_Int(pUSR))
    /\ Unread /\ UNCHANGED count

\* The sleep is thousands of clocks: the word read is gone.  A slip: no sleep.
NoSleep == TRUE

Slept == ~popping

ReadRDR ==
    /\ pc = "read"
    /\ pc' = "sleep"
    /\ count' = count + 1
    /\ popping' = RRDY
    /\ UNCHANGED <<line, rxsm, sampled, RHR, timeout, history>>

Sleep ==
    /\ pc = "sleep"
    /\ Slept
    /\ pc' = IF count = Target THEN "last" ELSE "poll"
    /\ Unread /\ UNCHANGED <<count, iRTO>>

(* The last write to TDR (0x1C00) clears both FIFOs.                       *)
ClearRHR ==
    /\ pc = "last" /\ pc' = "done"
    /\ RF1!Clear
    /\ UNCHANGED <<line, rxsm, sampled, popping, timeout, count, history>>

Program == Poll \/ ReadRDR \/ Sleep \/ ClearRHR

Next == NextBit \/ Glitch \/ Device \/ Timeout \/ Begin \/ Program

Spec == Init /\ [][Next]_vars

(* The clocks run and the program is scheduled; the line promises nothing. *)
FairSpec == Spec /\ WF_vars(RE_RHR) /\ WF_vars(Program)

-----------------------------------------------------------------------------
(* Whatever the idle bus has made of the format, a frame whose start bit   *)
(* the receiver met is never given up: it leaves one word, late and with   *)
(* the error flag perhaps, as long as there is room for one.  If the FIFO  *)
(* was empty when the frame began, that word is its eight bits and is not  *)
(* flagged.                                                                *)
EndsFrame == RxSM' # RxSM /\ (RxSM = "RcvError" \/ RxSM' = "Idle")

FramesDelivered ==
    [][met /\ EndsFrame =>
         /\ RHR' = RHR => Len(RHR) = Depth
         /\ clean => RHR' = << [whole |-> TRUE, err |-> FALSE] >>]_vars

(* "line break conditions are not expected to cause the RxSM to receive    *)
(* more than one character" (UART_RXSM.v:278): one word, which may end a   *)
(* frame before the break, and no other until the line has been marking.   *)
BreakGivesOneWord == inBreak <= 1

(* The program reads each word once and in order: when it reads RDR after  *)
(* bit 6, there is a word in it and the one read before is gone.           *)
ReadTakesHead ==
    [][pc = "read" /\ pc' = "sleep" => RRDY /\ ~popping]_vars

(* "Rst on Clr_Int" (UART_INT.v:120): no read of USR does it, because the  *)
(* wrapper raises SSP_En for reads of RDR only.  Once set, the timeout     *)
(* flag, and with it the interrupt request, stays until reset.             *)
TimeoutFlagStays == [][iRTO => iRTO']_vars

(* The polling program does not pass over characters for ever, except in a *)
(* FIFO between half full and full, where bit 6 is clear.                  *)
PollingIsServed == []<>(pc \in {"off", "last", "done"} \/ RS \in {0, 2})
=============================================================================
