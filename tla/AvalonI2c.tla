------------------------------ MODULE AvalonI2c ------------------------------
(***************************************************************************)
(* The I2C master core i2c_0 (altera_avalon_i2c*.v) as its driver sees it: *)
(* the registers, the command and the receive FIFO, and the master state   *)
(* machine at the granularity of one command.  The bit timing, SCL and SDA *)
(* are left out: a command takes any time, its acknowledge is the choice   *)
(* of the device on the bus.  The bus has one master, so arbitration is    *)
(* never lost; ARBLOST_DET would act exactly as NACK_DET does.             *)
(*                                                                         *)
(* The driver only ever selects thresholds of half a FIFO.                 *)
(***************************************************************************)
EXTENDS Naturals, Sequences

CONSTANTS Half       \* half of FIFO_DEPTH; 128 in soc_system.v

ASSUME HalfFifoAssumption == Half \in Nat \ {0}

VARIABLES ctrl_en,   \* CTRL[0]
          nack_det,  \* ISR[2]
          txfifo,    \* TFR_CMD FIFO: commands, oldest first
          rxfifo,    \* RX_DATA FIFO: one entry per byte, the command that read it
          fsm,       \* mst_fsm_state
          cmd,       \* tx_shifter: the command being executed
          rw_cmd     \* the direction of the last address: TRUE is read

core == <<ctrl_en, nack_det, txfifo, rxfifo, fsm, cmd, rw_cmd>>

FIFO_DEPTH == 2 * Half

(* A command: the restart and stop bits, and the rest of the byte.  For an *)
(* address that is its direction; for a data byte of a read, which one.    *)
(* AddressNoStart is the slip of masking the restart bit away.             *)
AddressNoStart(read) == [restart |-> FALSE, stop |-> FALSE, arg |-> IF read THEN 1 ELSE 0]

Address(read) == [restart |-> TRUE, stop |-> FALSE, arg |-> IF read THEN 1 ELSE 0]
Data(stop, arg) == [restart |-> FALSE, stop |-> stop, arg |-> arg]

NoCommand == Data(FALSE, 0)

State == {"IDLE", "PRE_START", "POP_TX_FIFO", "GEN_7BIT_ADDR", "TX_BYTE", "RX_BYTE",
          "BUS_HOLD", "GEN_STOP", "PRE_IDLE"}

(* An aborted transfer keeps both FIFOs in reset until software clears     *)
(* NACK_DET by writing the bit to ISR.  FlushNever forgets that.           *)
FlushNever == FALSE

flush_txfifo == nack_det

TX_READY == ctrl_en /\ Len(txfifo) <= Half

CoreInit ==
    /\ ctrl_en = FALSE
    /\ nack_det = FALSE
    /\ txfifo = << >>
    /\ rxfifo = << >>
    /\ fsm = "IDLE"
    /\ cmd = NoCommand
    /\ rw_cmd = FALSE

-----------------------------------------------------------------------------
(* Register accesses.                                                      *)

(* The rising edge of ctrl_en is the only way out of IDLE.                 *)
WriteCtrl(en) ==
    /\ ctrl_en' = en
    /\ fsm' = IF fsm = "IDLE" /\ en /\ ~ctrl_en THEN "PRE_START" ELSE fsm
    /\ UNCHANGED <<nack_det, txfifo, rxfifo, cmd, rw_cmd>>

(* A slip of put_txfifo: the FIFO in reset still takes the word.           *)
PushedUnflushed(c) == Append(txfifo, c)

Pushed(c) ==
    IF flush_txfifo \/ Len(txfifo) = FIFO_DEPTH THEN txfifo ELSE Append(txfifo, c)

WriteTfrCmd(c) ==
    /\ txfifo' = Pushed(c)
    /\ UNCHANGED <<ctrl_en, nack_det, rxfifo, fsm, cmd, rw_cmd>>

(* Slips of get_rxfifo: never taking the byte, and clearing the FIFO.      *)
TakenNone == rxfifo
TakenAll == << >>

Taken == IF rxfifo = << >> THEN << >> ELSE Tail(rxfifo)

(* A read of the empty FIFO takes nothing and returns some word of its RAM.*)
ReadRxData ==
    /\ rxfifo' = Taken
    /\ UNCHANGED <<ctrl_en, nack_det, txfifo, fsm, cmd, rw_cmd>>

-----------------------------------------------------------------------------
(* The master state machine.                                               *)

(* PRE_START and GEN_START.                                                *)
GenStart ==
    /\ fsm = "PRE_START"
    /\ ~flush_txfifo
    /\ txfifo # << >>
    /\ fsm' = "POP_TX_FIFO"
    /\ UNCHANGED <<ctrl_en, nack_det, txfifo, rxfifo, cmd, rw_cmd>>

(* The first command after a start condition is sent as an address, a      *)
(* later one with its restart bit set after a repeated start.  sent is     *)
(* sent_7bit_addr: cmd is the last command of this transfer, if any.       *)
AfterPop(sent, c) ==
    IF ~sent \/ c.restart THEN "GEN_7BIT_ADDR"
    ELSE IF rw_cmd THEN "RX_BYTE" ELSE "TX_BYTE"

Pop(sent) ==
    /\ cmd' = Head(txfifo)
    /\ txfifo' = Tail(txfifo)
    /\ fsm' = AfterPop(sent, Head(txfifo))
    /\ UNCHANGED <<ctrl_en, nack_det, rxfifo, rw_cmd>>

PopFirst == fsm = "POP_TX_FIFO" /\ Pop(FALSE)

(* The command is done and the device has acknowledged it: the next one    *)
(* is fetched at once, or the bus is held until there is one.              *)
PopNext == fsm = "BUS_HOLD" /\ txfifo # << >> /\ Pop(TRUE)

Abort ==
    /\ nack_det' = TRUE
    /\ txfifo' = << >>
    /\ rxfifo' = << >>
    /\ fsm' = "GEN_STOP"

SendAddress(ack) ==
    /\ fsm = "GEN_7BIT_ADDR"
    /\ rw_cmd' = (cmd.arg % 2 = 1)
    /\ IF ack THEN fsm' = "BUS_HOLD" /\ UNCHANGED <<nack_det, txfifo, rxfifo>> ELSE Abort
    /\ UNCHANGED <<ctrl_en, cmd>>

SendByte(ack) ==
    /\ fsm = "TX_BYTE"
    /\ IF ack
         THEN /\ fsm' = IF cmd.stop THEN "GEN_STOP" ELSE "BUS_HOLD"
              /\ UNCHANGED <<nack_det, txfifo, rxfifo>>
         ELSE Abort
    /\ UNCHANGED <<ctrl_en, cmd, rw_cmd>>

(* A byte that finds the receive FIFO full is dropped (RX_OVER).           *)
ReceiveByte ==
    /\ fsm = "RX_BYTE"
    /\ rxfifo' = IF Len(rxfifo) = FIFO_DEPTH THEN rxfifo ELSE Append(rxfifo, cmd)
    /\ fsm' = IF cmd.stop THEN "GEN_STOP" ELSE "BUS_HOLD"
    /\ UNCHANGED <<ctrl_en, nack_det, txfifo, cmd, rw_cmd>>

GenStop ==
    /\ fsm = "GEN_STOP"
    /\ fsm' = IF txfifo # << >> THEN "PRE_START" ELSE "PRE_IDLE"
    /\ UNCHANGED <<ctrl_en, nack_det, txfifo, rxfifo, cmd, rw_cmd>>

LeavePreIdle ==
    /\ fsm = "PRE_IDLE"
    /\ \/ txfifo # << >> /\ ~flush_txfifo /\ fsm' = "PRE_START"
       \/ (txfifo = << >> \/ flush_txfifo) /\ ~ctrl_en /\ fsm' = "IDLE"
    /\ UNCHANGED <<ctrl_en, nack_det, txfifo, rxfifo, cmd, rw_cmd>>

CoreStep ==
    \/ GenStart
    \/ PopFirst
    \/ PopNext
    \/ \E ack \in BOOLEAN : SendAddress(ack) \/ SendByte(ack)
    \/ ReceiveByte
    \/ GenStop
    \/ LeavePreIdle
=============================================================================
