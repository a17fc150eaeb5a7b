------------------------------ MODULE I2cSlave ------------------------------
(***************************************************************************)
(* The I2C slave in the FPGA (serialInterface.v, registerInterface.v): 256 *)
(* registers with a second port on the processor's bus, and an address     *)
(* pointer that moves on after every byte.  A step of the slave is what it *)
(* does with a start condition, with a byte and its acknowledge bit, or    *)
(* with a stop condition; its bits and its debouncing are not modelled.    *)
(***************************************************************************)
EXTENDS Integers

CONSTANTS MaxByte    \* the largest value of a byte: 255

ASSUME ByteAssumption == MaxByte \in Nat

Byte == 0 .. MaxByte

VARIABLES streamSt,  \* where it is in a transfer
          startDet,  \* startStopDetState is START_DET
          regAddr,   \* the address pointer
          txData,    \* the byte it is sending
          mem,       \* the registers
          attached   \* it is connected to the bus

slave == <<streamSt, startDet, regAddr, txData, mem, attached>>

Stream == {"idle", "read", "write_addr", "write_data"}

\* The bytes on the bus: the slave's address with the direction bit, or data.  The
\* state the slave is in tells which one it takes a byte for, so they may be kept apart.
AddrW == MaxByte + 1
AddrR == MaxByte + 2

\* The pointer is a register of eight bits; and one that does not wrap around.
AfterUnbounded(r) == r + 1

After(r) == (r + 1) % (MaxByte + 1)

SlaveTypeOK ==
    /\ streamSt \in Stream
    /\ startDet \in BOOLEAN
    /\ regAddr \in Byte
    /\ txData \in Byte
    /\ mem \in [Byte -> Byte]
    /\ attached \in BOOLEAN

SlaveInit ==
    /\ streamSt = "idle"
    /\ startDet = FALSE
    /\ regAddr \in Byte
    /\ txData \in Byte
    /\ mem = [r \in Byte |-> 0]
    /\ attached = TRUE

-----------------------------------------------------------------------------
(* A start condition resets the state machine, wherever it was; the        *)
(* address pointer is the one register the reset leaves alone.             *)
SlaveStart ==
    /\ IF attached THEN streamSt' = "idle" /\ startDet' = TRUE
                   ELSE UNCHANGED <<streamSt, startDet>>
    /\ UNCHANGED <<regAddr, txData, mem, attached>>

SlaveStop ==
    /\ IF attached THEN streamSt' = "idle" /\ startDet' = FALSE
                   ELSE UNCHANGED <<streamSt, startDet>>
    /\ UNCHANGED <<regAddr, txData, mem, attached>>

(* It is about to send a byte: the register is latched and the pointer     *)
(* moves on before the first bit is out.                                   *)
Load ==
    /\ txData' = mem[regAddr]
    /\ regAddr' = After(regAddr)

(* A byte from a master; the slave answers ack.                            *)
TakeAddress(b) ==
    /\ streamSt = "idle"
    /\ IF b = AddrR THEN streamSt' = "read" /\ Load
                    ELSE streamSt' = "write_addr" /\ UNCHANGED <<regAddr, txData>>
    /\ startDet' = FALSE
    /\ UNCHANGED mem

TakePointer(b) ==
    /\ streamSt = "write_addr"
    /\ streamSt' = "write_data"
    /\ regAddr' = b
    /\ UNCHANGED <<startDet, txData, mem>>

TakeData(b) ==
    /\ streamSt = "write_data"
    /\ mem' = [mem EXCEPT ![regAddr] = b]
    /\ regAddr' = After(regAddr)
    /\ UNCHANGED <<streamSt, startDet, txData>>

Accepts(b) ==
    attached /\ (streamSt = "idle" => startDet /\ b \in {AddrW, AddrR})

SlaveTakes(b) ==
    /\ Accepts(b)
    /\ TakeAddress(b) \/ TakePointer(b) \/ TakeData(b)
    /\ UNCHANGED attached

(* A byte it does not take: not its address, or no start before it.        *)
SlaveIgnores ==
    /\ IF attached THEN startDet' = FALSE ELSE UNCHANGED startDet
    /\ UNCHANGED <<streamSt, regAddr, txData, mem, attached>>

(* A byte for a master, which answers with an acknowledge or not.          *)
SlaveSends(ack) ==
    /\ attached
    /\ streamSt = "read"
    /\ IF ack THEN Load /\ UNCHANGED streamSt
              ELSE streamSt' = "idle" /\ UNCHANGED <<regAddr, txData>>
    /\ UNCHANGED <<startDet, mem, attached>>

(* The port on the processor's bus.                                        *)
LocalWrite(r, v) ==
    /\ mem' = [mem EXCEPT ![r] = v]
    /\ UNCHANGED <<streamSt, startDet, regAddr, txData, attached>>
=============================================================================
