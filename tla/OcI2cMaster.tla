---------------------------- MODULE OcI2cMaster -----------------------------
(***************************************************************************)
(* The OpenCores I2C master (i2c_master_top.v, i2c_master_byte_ctrl.v,     *)
(* i2c_master_bit_ctrl.v) on a bus with one slave and possibly another     *)
(* master.  A step of the core is a start condition, a byte with its       *)
(* acknowledge bit, or a stop condition.                                   *)
(*                                                                         *)
(* Registers are read and written many clocks apart, so the clock by which *)
(* TIP follows the command register is not modelled; the delay by which    *)
(* BUSY follows the bus is, because it includes the rise time of the lines.*)
(***************************************************************************)
EXTENDS I2cSlave

VARIABLES core_en,   \* the enable bit of ctr
          cr,        \* the command bits of cr that are set
          txr,       \* the byte to send
          rxr,       \* the byte received
          rxack,     \* status: no acknowledge was received
          al,        \* status: arbitration was lost
          irq_flag,  \* status: a command has ended
          busy,      \* status: a start condition was seen, and no stop
          c_state,   \* the state of the byte controller
          owner      \* who has put the last start condition on the bus

core == <<core_en, cr, txr, rxr, rxack, al, irq_flag, c_state>>
master == <<core, busy, owner>>

CommandBit == {"STA", "STO", "RD", "WR", "ACK"}
CState == {"idle", "start", "read", "write", "stop"}

MasterTypeOK ==
    /\ core_en \in BOOLEAN
    /\ cr \subseteq CommandBit
    /\ txr \in Byte \cup {AddrW, AddrR}
    /\ rxr \in Byte
    /\ rxack \in BOOLEAN /\ al \in BOOLEAN /\ irq_flag \in BOOLEAN
    /\ busy \in BOOLEAN
    /\ c_state \in CState
    /\ owner \in {"free", "core", "other"}

MasterInit ==
    /\ core_en = FALSE
    /\ cr = {}
    /\ txr = 0
    /\ rxr = 0
    /\ rxack = FALSE /\ al = FALSE /\ irq_flag = FALSE
    /\ busy = FALSE
    /\ c_state = "idle"
    /\ owner = "free"

tip == cr \cap {"RD", "WR"} # {}

-----------------------------------------------------------------------------
(* Register accesses.                                                      *)
\* CTR: disabling the core leaves a command in cr; the driver does it once.
WriteCTR(en) ==
    /\ core_en' = en
    /\ UNCHANGED <<cr, txr, rxr, rxack, al, irq_flag, c_state, busy, owner>>

\* TXR and then CR, always with the bit that acknowledges the interrupt.
WriteCommand(bits, byte) ==
    /\ txr' = byte
    /\ IF core_en THEN cr' = bits /\ irq_flag' = FALSE
                  ELSE UNCHANGED <<cr, irq_flag>>
    /\ UNCHANGED <<core_en, rxr, rxack, al, c_state, busy, owner>>

-----------------------------------------------------------------------------
(* The byte controller.                                                    *)
Done ==
    /\ cr' = cr \cap {"ACK"}
    /\ irq_flag' = TRUE
    /\ c_state' = "idle"

\* After a byte: a stop condition if the command asks for one.
ByteDone ==
    IF "STO" \in cr THEN c_state' = "stop" /\ UNCHANGED <<cr, irq_flag>> ELSE Done

\* A slip: a lost arbitration is remembered for ever.
NextAlSticky == al

NextAl == al /\ "STA" \notin cr

Begin ==
    /\ c_state = "idle"
    /\ cr \cap {"RD", "WR", "STO"} # {}
    /\ c_state' = IF "STA" \in cr THEN "start"
                  ELSE IF "RD" \in cr THEN "read"
                  ELSE IF "WR" \in cr THEN "write" ELSE "stop"
    /\ al' = NextAl
    /\ UNCHANGED <<core_en, cr, txr, rxr, rxack, irq_flag, busy, owner, slave>>

(* The start condition does not look at the bus: if another master has     *)
(* just begun, both send their address byte.                               *)
Start ==
    /\ c_state = "start"
    /\ c_state' = IF "RD" \in cr THEN "read" ELSE "write"
    /\ owner' = IF owner = "free" THEN "core" ELSE owner
    /\ SlaveStart
    /\ UNCHANGED <<core_en, cr, txr, rxr, rxack, al, irq_flag, busy>>

Acknowledged(byte) ==
    /\ SlaveTakes(byte)
    /\ rxack' = FALSE

NotAcknowledged(byte) ==
    /\ ~Accepts(byte)
    /\ SlaveIgnores
    /\ rxack' = TRUE

WriteByte ==
    /\ c_state = "write"
    /\ owner = "core"
    /\ Acknowledged(txr) \/ NotAcknowledged(txr)
    /\ ByteDone
    /\ UNCHANGED <<core_en, txr, rxr, al, busy, owner>>

(* The byte read ends with the acknowledge bit of the command, which comes *)
(* back as rxack because nobody else drives the line.                      *)
ReadByte ==
    /\ c_state = "read"
    /\ owner = "core"
    /\ SlaveSends("ACK" \notin cr)
    /\ rxr' = txData
    /\ rxack' = ("ACK" \in cr)
    /\ ByteDone
    /\ UNCHANGED <<core_en, txr, al, busy, owner>>

(* The stop condition does not look at the bus either: ordered during      *)
(* another master's transfer, it may cut that transfer short.              *)
Stop ==
    /\ c_state = "stop"
    /\ \/ owner' = "free" /\ SlaveStop
       \/ owner = "other" /\ UNCHANGED <<owner, slave>>
    /\ Done
    /\ UNCHANGED <<core_en, txr, rxr, rxack, al, busy>>

-----------------------------------------------------------------------------
(* The other master talks to other devices; the slave sees its start and   *)
(* stop conditions and ignores its bytes.                                  *)
Quiet == owner = "free" /\ c_state \in {"idle", "start"}

OtherStarts ==
    /\ Quiet
    /\ owner' = "other"
    /\ SlaveStart
    /\ UNCHANGED <<core, busy>>

OtherStops ==
    /\ owner = "other"
    /\ c_state # "write"
    /\ owner' = "free"
    /\ SlaveStop
    /\ UNCHANGED <<core, busy>>

(* Two masters send an address byte.  The core sees a low line where it    *)
(* left it high: it gives up its command (i2c_al); or the other one does.  *)
LoseArbitration ==
    /\ c_state = "write"
    /\ owner = "other"
    /\ cr' = cr \cap {"ACK"}
    /\ al' = TRUE
    /\ irq_flag' = TRUE
    /\ rxack' = FALSE
    /\ c_state' = "idle"
    /\ SlaveIgnores
    /\ UNCHANGED <<core_en, txr, rxr, busy, owner>>

WinArbitration ==
    /\ c_state = "write"
    /\ owner = "other"
    /\ owner' = "core"
    /\ UNCHANGED <<core, busy, slave>>

(* BUSY follows the conditions on the bus.                                 *)
SeeBus ==
    /\ busy # (owner # "free")
    /\ busy' = (owner # "free")
    /\ UNCHANGED <<core, owner, slave>>

CoreStep ==
    Begin \/ Start \/ WriteByte \/ ReadByte \/ Stop \/ LoseArbitration \/ WinArbitration
=============================================================================
