----------------------------- MODULE SspUartTx ------------------------------
(***************************************************************************)
(* The transmit side of the SSP UART as SSP_UART_Avalon.v wires it to the  *)
(* bus: the writes to TDR with their hold and clear bits, the transmit     *)
(* FIFO, the transmit state machine UART_TXSM.v and the control register   *)
(* UCR, whose format bits the state machine reads while it shifts.         *)
(*                                                                         *)
(* One step is a bus cycle, a change of the CTS input, or one enable       *)
(* CE_TxSM of the state machine: 16 CE_16x ticks apart outside Idle, so    *)
(* the FIFO read it caused is over before the next.  The FIFO is the       *)
(* bounded queue that DPSFnmCE is proved to implement.  A bus write is one *)
(* step: the re1ce pulse that carries it to the UART clock arrives before  *)
(* the next bus access of the processor.                                   *)
(***************************************************************************)
EXTENDS Naturals, Sequences, SspUartFormat

CONSTANTS Half,      \* half of the depth of the transmit FIFO
          Mode,      \* the values of MD the software writes, within 0 .. 3
          Format,    \* the values of FMT the software writes, within 0 .. 15
          Ids        \* words are numbered modulo Ids as they are accepted

Depth == 2 * Half
Word  == 0 .. Ids - 1

(* Enough numbers to tell apart all words in flight: in the FIFO, in TSR,  *)
(* and the next one.                                                       *)
ASSUME SspTxAssumption ==
    /\ Half \in Nat \ {0}
    /\ Mode \subseteq 0 .. 3
    /\ Format \subseteq 0 .. 15
    /\ Ids \in Nat /\ Ids > Depth + 2

VARIABLES MD, FMT,   \* fields of UCR
          xCTS,      \* the external CTS input
          THR,       \* the words in the transmit FIFO
          TxHold,    \* the hold bit of the last word written
          TxSM,      \* the state of the transmit state machine
          bit,       \* the data bit shifted in state Shift
          TSR,       \* the shift register: a word and its parity bit
          frame,     \* history: what the line has carried since the start bit
          steady,    \* history: the format has not changed since TSR was loaded
          written,   \* history: the number of the next word to be accepted
          due        \* history: the oldest word accepted, not cleared, not framed

ucr     == <<MD, FMT>>
txsm    == <<TxSM, bit, TSR>>
numbers == <<written, due>>
vars == <<ucr, xCTS, THR, TxHold, txsm, frame, steady, numbers>>

TF1 == INSTANCE BoundedQueue WITH Capacity <- Depth, queue <- THR

-----------------------------------------------------------------------------
Decoded(f) == <<Len7(f), NumStop(f), ParEn(f), Par(f)>>

(* What the line carries in one bit time: a start bit, a bit of a word, a  *)
(* parity bit of some kind over some number of data bits, or a mark.       *)
Start         == <<"start", 0, 0>>
Mark          == <<"stop", 0, 0>>
DataBit(w, i) == <<"data", w, i>>
ParBit(f)     == <<Par(f), IF Len7(f) THEN 7 ELSE 8, 0>>

Symbol ==
    {Start, Mark} \cup {DataBit(w, i) : w \in Word, i \in 0 .. 7}
        \cup {ParBit(f) : f \in 0 .. 15}

Ones == [word |-> Ids, par |-> Mark]            \* TSR while idle: no word

TF_FF == Len(THR) = Depth
TF_HF == Len(THR) >= Half
TRDY  == ~TF_FF
TF_EF == THR = << >> \/ TxHold                  \* what UART_TXSM sees

(* Every mode but 1 ignores CTS; slip: none does.                          *)
CTSiAllModes == xCTS
CTSi         == MD = 1 => xCTS

TxIdle == TxSM = "Idle"

(* The transmit status field of USR; a transmitter held with words in its  *)
(* FIFO is idle and reports "empty", the combination called not possible.  *)
TS == IF TxIdle THEN 0
      ELSE IF TF_FF THEN 3
      ELSE IF TF_HF THEN 2
      ELSE 1

States == {"Idle", "StartDelay", "StartBit", "Shift", "ParityBit",
           "StopBit2", "StopBit1", "StopDelay"}

TypeOK ==
    /\ MD \in 0 .. 3
    /\ FMT \in 0 .. 15
    /\ xCTS \in BOOLEAN
    /\ THR \in Seq(Word) /\ Len(THR) <= Depth
    /\ TxHold \in BOOLEAN
    /\ TxSM \in States
    /\ bit \in 0 .. 7
    /\ TSR \in [word : 0 .. Ids, par : Symbol]
    /\ frame \in Seq(Symbol) /\ Len(frame) <= 12
    /\ steady \in BOOLEAN
    /\ written \in Word /\ due \in Word

-----------------------------------------------------------------------------
Init ==
    /\ MD = 0 /\ FMT = 0                        \* UCR is zero after reset
    /\ xCTS \in BOOLEAN
    /\ THR = << >>
    /\ TxHold = FALSE
    /\ TxSM = "Idle"
    /\ bit = 0
    /\ TSR = Ones
    /\ frame = << >>
    /\ steady = TRUE
    /\ written = 0 /\ due = 0

SetFormat(f) ==
    /\ FMT' = f
    /\ steady' = (steady /\ Decoded(f) = Decoded(FMT))

WriteUCR(md, f) ==
    /\ MD' = md
    /\ SetFormat(f)
    /\ UNCHANGED <<xCTS, THR, TxHold, txsm, frame, numbers>>

(* A bus cycle without an access selects register 0 without a write, and   *)
(* then UCR takes USR: MD is kept, FMT becomes the receive and transmit    *)
(* status.  rs is the receive status.                                      *)
IdleBus(rs) ==
    /\ SetFormat(4 * rs + TS)
    /\ UNCHANGED <<MD, xCTS, THR, TxHold, txsm, frame, numbers>>

(* A write to TDR without TFC.  Ignored, hold bit included, if not TRDY.   *)
WriteTDR(hld) ==
    /\ TRDY
    /\ TF1!Put(written)
    /\ written' = (written + 1) % Ids
    /\ TxHold' = hld
    /\ UNCHANGED <<ucr, xCTS, txsm, frame, steady, due>>

(* A write to TDR with TFC: the word written with it goes the way of those *)
(* it clears.  It needs TRDY as well.  The numbers of the cleared words    *)
(* are used again.                                                         *)
ClearTHR(hld) ==
    /\ TRDY
    /\ TF1!Clear
    /\ written' = due
    /\ TxHold' = hld
    /\ UNCHANGED <<ucr, xCTS, txsm, frame, steady, due>>

ChangeCTS ==
    /\ xCTS' = ~xCTS
    /\ UNCHANGED <<ucr, THR, TxHold, txsm, frame, steady, numbers>>

-----------------------------------------------------------------------------
(* The transmit state machine.                                             *)

Wake ==
    /\ TxSM = "Idle"
    /\ ~TF_EF
    /\ TxSM' = "StartDelay"
    /\ UNCHANGED <<ucr, xCTS, THR, TxHold, bit, TSR, frame, steady, numbers>>

(* Slips: a load that does not wait for CTS; a start after the stop delay  *)
(* that does not either.                                                   *)
Ld_TSRNoCTS == ~TF_EF
AfterDelayNoCTS == IF TF_EF THEN "Idle" ELSE "StartBit"

Ld_TSR == ~TF_EF /\ CTSi

(* The successors of StartDelay and StopDelay, and of the last stop bit.   *)
AfterDelay == IF TF_EF THEN "Idle" ELSE IF CTSi THEN "StartBit" ELSE "StartDelay"
AfterStop  == IF TF_EF THEN "StopDelay" ELSE "StartBit"

LoadTSR ==
    \/ /\ Ld_TSR
       /\ TSR' = [word |-> Head(THR), par |-> ParBit(FMT)]
       /\ TF1!Get
       /\ steady' = TRUE
    \/ /\ ~Ld_TSR
       /\ TSR' = IF TxSM' = "Idle" THEN Ones ELSE TSR
       /\ UNCHANGED <<THR, steady>>

(* The end of StartDelay, of StopDelay and of the last stop bit: the only  *)
(* places where TSR may be loaded and a frame may start.                   *)
BetweenFrames ==
    /\ \/ TxSM \in {"StartDelay", "StopDelay"} /\ TxSM' = AfterDelay
       \/ TxSM = "StopBit1" /\ TxSM' = AfterStop
    /\ LoadTSR
    /\ bit' = 0
    /\ frame' = IF TxSM' = "StartBit" THEN <<Start>> ELSE << >>
    /\ due' = IF TxSM' = "StartBit" /\ TSR'.word = due THEN (due + 1) % Ids ELSE due
    /\ UNCHANGED <<ucr, xCTS, TxHold, written>>

(* The state after data bit i; slips: parity taken for every 8-bit format, *)
(* one data bit too many.                                                  *)
StopFirst == IF NumStop(FMT) THEN "StopBit2" ELSE "StopBit1"

AfterDataAlwaysParity(i) ==
    IF i < 6 \/ (i = 6 /\ ~Len7(FMT)) THEN "Shift" ELSE "ParityBit"

AfterDataOneMore(i) ==
    IF i < 7 \/ (i = 7 /\ ~Len7(FMT)) THEN "Shift"
    ELSE IF i = 7 \/ ParEn(FMT) THEN "ParityBit"
    ELSE StopFirst

AfterData(i) ==
    IF i < 6 \/ (i = 6 /\ ~Len7(FMT)) THEN "Shift"
    ELSE IF i = 6 \/ ParEn(FMT) THEN "ParityBit"
    ELSE StopFirst

(* What the line carries in a state.                                       *)
Line(s, i) ==
    CASE s = "Shift"     -> DataBit(TSR.word, i)
      [] s = "ParityBit" -> TSR.par
      [] OTHER           -> Mark

ShiftBit ==
    /\ TxSM \in {"StartBit", "Shift", "ParityBit", "StopBit2"}
    /\ bit' = IF TxSM = "Shift" /\ AfterData(bit) = "Shift" THEN bit + 1 ELSE 0
    /\ TxSM' = CASE TxSM = "StartBit"  -> "Shift"
                 [] TxSM = "Shift"     -> AfterData(bit)
                 [] TxSM = "ParityBit" -> StopFirst
                 [] TxSM = "StopBit2"  -> "StopBit1"
    /\ frame' = Append(frame, Line(TxSM', bit'))
    /\ UNCHANGED <<ucr, xCTS, THR, TxHold, TSR, steady, numbers>>

Bit == Wake \/ BetweenFrames \/ ShiftBit

Next ==
    \/ \E md \in Mode, f \in Format : WriteUCR(md, f)
    \/ \E rs \in 0 .. 3 : IdleBus(rs)
    \/ \E hld \in BOOLEAN : WriteTDR(hld) \/ ClearTHR(hld)
    \/ ChangeCTS
    \/ Bit

Spec == Init /\ [][Next]_vars

(* The baud rate generator never stops.                                    *)
FairSpec == Spec /\ WF_vars(Bit)

(* Besides, the software goes on writing words without the hold bit, as    *)
(* far as the transmitter takes them.                                      *)
ReleasingSpec == FairSpec /\ WF_vars(WriteTDR(FALSE))

-----------------------------------------------------------------------------
(* The frame a format asks for: the reference the states are checked with. *)
Frame(f, t) ==
    <<Start>>
      \o [i \in 1 .. (IF Len7(f) THEN 7 ELSE 8) |-> DataBit(t.word, i - 1)]
      \o (IF ParEn(f) THEN << ParBit(f) >> ELSE << >>)
      \o (IF NumStop(f) THEN <<Mark, Mark>> ELSE <<Mark>>)

(* A frame during which the format was left alone is, bit for bit, the     *)
(* frame of the configured format with the word that was loaded: data      *)
(* length, parity kind and position, and number of stop bits.              *)
FrameAsConfigured == TxSM = "StopBit1" /\ steady => frame = Frame(FMT, TSR)

Starts == TxSM # "StartBit" /\ TxSM' = "StartBit"

(* Words are framed in the order they were accepted, none is skipped, and  *)
(* what a start bit is followed by is always a word: the one that is due,  *)
(* or, only when CTS was withdrawn before the end of the last stop bit of  *)
(* a handshaking transmitter, the one framed just before.                  *)
FramesInOrder ==
    [][Starts => \/ TSR'.word = due
                 \/ MD = 1 /\ ~xCTS /\ TxSM = "StopBit1" /\ TSR' = TSR]_vars

(* The FIFO and the next number agree on what is still to be sent: no word *)
(* is lost between the bus, the FIFO and the shift register.               *)
NothingLost ==
    /\ (due + Len(THR)) % Ids = written
    /\ \A i \in 1 .. Len(THR) : THR[i] = (due + i - 1) % Ids

(* An accepted word that is neither held nor waiting for CTS is framed,    *)
(* unless it is cleared.                                                   *)
AcceptedIsSent ==
    \A w \in Word : (THR # << >> /\ due = w) ~> (due # w \/ THR = << >> \/ TxHold \/ MD = 1)

(* "1 - hold until Tx FIFO filled" (SSP_UART.v:251): a transmitter held    *)
(* until its FIFO is full goes on to send.                                 *)
HoldEndsWhenFilled == (TxHold /\ TF_FF) ~> ~(TxHold /\ TF_FF)

(* CTS is the permission to send: no frame starts while a handshaking      *)
(* transmitter sees it withdrawn ("TxSM goes to pStart from pShift if CTS  *)
(* is not asserted when the current word has been shifted",                *)
(* UART_TXSM.v:63-67; pStart waits for CTS).                               *)
NoFrameWithoutCTS == [][Starts => CTSi]_vars
=============================================================================
