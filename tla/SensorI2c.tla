------------------------------ MODULE SensorI2c ------------------------------
(***************************************************************************)
(* How main.c reads the humidity and temperature sensor, once per round,   *)
(* through the I2C core: enable the core, queue a measurement command,     *)
(* queue a read of six bytes and take each byte from RX_DATA right after   *)
(* queueing the command that fetches it, disable the core, start again.    *)
(* One step of the program is one register access that matters; the core   *)
(* and the bus run at their own pace.                                      *)
(***************************************************************************)
EXTENDS AvalonI2c, FiniteSets

CONSTANTS Bytes      \* bytes of a reading; 6 in main.c

ASSUME BytesAssumption == Bytes \in Nat \ {0}

VARIABLES pc,        \* what the program does next
          k,         \* which command of the round it is at
          owed       \* history: reads that found no byte since the last refusal

prog == <<pc, k>>
vars == <<core, prog, owed>>

(* The commands of a round, in order (get_RH_and_temperature).  A data     *)
(* command of the read transfer carries the index of its byte, any other   *)
(* the number of bytes.                                                    *)
Commands == 4 + Bytes
Command(i) ==
    IF i = 1 THEN Address(FALSE)
    ELSE IF i = 2 THEN Data(FALSE, Bytes)
    ELSE IF i = 3 THEN Data(TRUE, Bytes)
    ELSE IF i = 4 THEN Address(TRUE)
    ELSE Data(i = Commands, i - 5)

IsRead(c) == ~c.restart /\ c.arg < Bytes

CommandSet == {Command(i) : i \in 1 .. Commands} \cup {NoCommand}

PC == {"disable", "enable", "poll", "push", "read", "report"}

TypeOK ==
    /\ ctrl_en \in BOOLEAN /\ nack_det \in BOOLEAN /\ rw_cmd \in BOOLEAN
    /\ txfifo \in Seq(CommandSet) /\ Len(txfifo) <= FIFO_DEPTH
    /\ rxfifo \in Seq(CommandSet) /\ Len(rxfifo) <= FIFO_DEPTH
    /\ fsm \in State
    /\ cmd \in CommandSet
    /\ pc \in PC
    /\ k \in 1 .. Commands
    /\ owed \in 0 .. FIFO_DEPTH + Bytes

Init ==
    /\ CoreInit
    /\ pc = "disable"
    /\ k = 1
    /\ owed = 0

-----------------------------------------------------------------------------
(* init: CTRL = 0, the timing registers, CTRL = 0x29.                      *)
Disable ==
    /\ pc = "disable"
    /\ WriteCtrl(FALSE)
    /\ pc' = "enable"
    /\ UNCHANGED <<k, owed>>

Enable ==
    /\ pc = "enable"
    /\ WriteCtrl(TRUE)
    /\ pc' = "poll"
    /\ k' = 1
    /\ UNCHANGED owed

(* A slip of the wait: queueing without looking at TX_READY.               *)
MayPushBlind == TRUE

MayPush == TX_READY

(* while (!(ISR & 1)): the loop ends when TX_READY is read as one.         *)
Poll ==
    /\ pc = "poll"
    /\ MayPush
    /\ pc' = "push"
    /\ UNCHANGED <<core, k, owed>>

(* i2c_writeadd, i2c_writedata and i2c_read_add end with the write of      *)
(* TFR_CMD; i2c_readdata goes on to RX_DATA.                               *)
Push ==
    /\ pc = "push"
    /\ WriteTfrCmd(Command(k))
    /\ IF k > 4 THEN pc' = "read" /\ k' = k ELSE pc' = "poll" /\ k' = k + 1
    /\ UNCHANGED owed

(* Slip of the last read: one too many.                                    *)
LastReadLate(i) == i > Commands

LastRead(i) == i = Commands

(* data[k - 5] = RX_DATA.                                                  *)
Read ==
    /\ pc = "read"
    /\ ReadRxData
    /\ owed' = IF rxfifo = << >> /\ ~nack_det THEN owed + 1 ELSE owed
    /\ IF LastRead(k) THEN pc' = "report" /\ k' = 1 ELSE pc' = "poll" /\ k' = k + 1

(* The values are printed and stored; after a second, CTRL = 0.            *)
Report ==
    /\ pc = "report"
    /\ WriteCtrl(FALSE)
    /\ pc' = "disable"
    /\ UNCHANGED <<k, owed>>

ProgramStep == Disable \/ Enable \/ Poll \/ Push \/ Read \/ Report

(* The core; a refusal makes it forget every command and byte.             *)
HardwareStep ==
    /\ CoreStep
    /\ owed' = IF nack_det' THEN 0 ELSE owed
    /\ UNCHANGED prog

Next == ProgramStep \/ HardwareStep

Spec == Init /\ [][Next]_vars

(* The program runs, and the device answers every command in the end.      *)
FairSpec == Spec /\ WF_vars(ProgramStep) /\ WF_vars(HardwareStep)

-----------------------------------------------------------------------------
(* Reads whose byte has been asked for and has not arrived.                *)
Reads(s) == Cardinality({i \in DOMAIN s : IsRead(s[i])})
Pending == Reads(txfifo) + (IF fsm = "RX_BYTE" THEN 1 ELSE 0)

(* The program waits for TX_READY before every command, so the command     *)
(* FIFO never overflows and silently drops one (main.c:375, 389, 403, 435).*)
NoCommandDropped == pc = "push" => Len(txfifo) < FIFO_DEPTH

(* The core decides by position what a command is: the first after a start *)
(* is an address.  Whatever the device refuses and whenever the program    *)
(* restarts the core, it never takes a data command for one, nor sends a   *)
(* read command as data.                                                   *)
CommandsInPlace ==
    /\ fsm = "GEN_7BIT_ADDR" => cmd.restart
    /\ fsm = "RX_BYTE" => IsRead(cmd)
    /\ fsm = "TX_BYTE" => ~cmd.restart /\ ~IsRead(cmd)

(* A read that finds the FIFO empty leaves its byte behind: the bytes in   *)
(* the FIFO and on their way are exactly those of the reads that came too  *)
(* early (main.c:439-444 reads RX_DATA without waiting for RX_READY).      *)
EveryMissLeavesAByte ==
    ~nack_det => Len(rxfifo) + Pending = owed + (IF pc = "read" THEN 1 ELSE 0)

(* The bytes left behind never fill the receive FIFO, however many rounds  *)
(* leave some: no byte is ever dropped.                                    *)
NoByteDropped == fsm = "RX_BYTE" => Len(rxfifo) < FIFO_DEPTH

(* A byte is the one asked for as long as no read has come too early; after*)
(* that many early reads every byte is taken for the one that many         *)
(* places later: from the first miss on, temperature and humidity are made *)
(* of other bytes (main.c:464-466).                                        *)
ReadingShifted ==
    [][pc = "read" /\ rxfifo # << >> =>
         Head(rxfifo).arg = (k - 5 - owed) % Bytes]_vars

(* Once the device has refused a byte no transfer is ever started again:   *)
(* NACK_DET is only cleared by a write to ISR, which main.c never does.    *)
RefusalIsForever ==
    [][nack_det => nack_det' /\ (fsm' = fsm \/ fsm' \in {"PRE_START", "PRE_IDLE", "IDLE"})]_vars

(* Every round ends, whatever the device answers.                          *)
RoundsComplete == pc = "disable" ~> pc = "report"

(* When i2c_readdata has announced that the read is done (main.c:442), the *)
(* byte it returns has been received.                                      *)
ReadDoneMeansReceived == pc = "read" /\ ~nack_det => rxfifo # << >>
=============================================================================
