---------------------------- MODULE OcI2cDriver -----------------------------
(***************************************************************************)
(* The four transfer functions of I2C_Opencore_software/main.c on the      *)
(* OpenCores master and the slave in the FPGA.  A function is a list of    *)
(* commands; before the first one it waits for a free bus, after each one  *)
(* it waits for the interrupt flag and tests the acknowledge bit, and on   *)
(* any failure it begins again.  One step is one access to a register.     *)
(*                                                                         *)
(* The environment may connect and disconnect the slave and have another   *)
(* master use the bus, Faults times in all, between transfers of the       *)
(* driver.  The counters of the device structure are not modelled.         *)
(***************************************************************************)
EXTENDS OcI2cMaster, Sequences

CONSTANTS Faults     \* how often the environment disturbs the bus

ASSUME FaultsAssumption == Faults \in Nat

VARIABLES pc,        \* what the driver does next
          call,      \* the function it is in, with its arguments
          k,         \* the command it is at
          result,    \* what the last read returned
          faults,    \* how many disturbances are left
          before     \* history: the registers and the pointer when the call began

driver == <<pc, call, k, result>>
vars == <<master, slave, driver, faults, before>>

Snapshot == [regs |-> mem, ptr |-> regAddr]

\* The abstract device: a call takes effect when it returns.
Device == INSTANCE RegisterDevice
    WITH regs <- IF pc = "idle" THEN mem ELSE before.regs,
         ptr  <- IF pc = "idle" THEN regAddr ELSE before.ptr

PC == {"off", "idle", "tip", "top", "busy", "stop", "stopping", "issue", "await", "rxr"}

-----------------------------------------------------------------------------
(* The commands of the four functions.                                     *)
Cmd(bits, byte) == [bits |-> bits, byte |-> byte]

\* A slip: the last byte without its stop condition.
WriteUnstopped(c) ==
    << Cmd({"STA", "WR"}, AddrW), Cmd({"WR"}, c.data) >>

oc_i2c_master_write(c) ==
    << Cmd({"STA", "WR"}, AddrW), Cmd({"STO", "WR"}, c.data) >>

oc_i2c_master_write_reg(c) ==
    << Cmd({"STA", "WR"}, AddrW), Cmd({"WR"}, c.reg), Cmd({"STO", "WR"}, c.data) >>

\* The read command leaves the transmit register as it is.
oc_i2c_master_read(c) ==
    << Cmd({"STA", "WR"}, AddrR), Cmd({"RD", "ACK", "STO"}, AddrR) >>

oc_i2c_master_read_reg(c) ==
    << Cmd({"STA", "WR"}, AddrW), Cmd({"WR"}, c.reg),
       Cmd({"STA", "WR"}, AddrR), Cmd({"RD", "ACK", "STO"}, AddrR) >>

Program(c) ==
    IF c.fn = "write" THEN oc_i2c_master_write(c)
    ELSE IF c.fn = "write_reg" THEN oc_i2c_master_write_reg(c)
    ELSE IF c.fn = "read" THEN oc_i2c_master_read(c)
    ELSE oc_i2c_master_read_reg(c)

Reads(c) == c.fn \in {"read", "read_reg"}

TypeOK ==
    /\ SlaveTypeOK
    /\ MasterTypeOK
    /\ pc \in PC
    /\ call \in Device!Call \cup {Device!NoCall}
    /\ pc \notin {"off", "idle"} => k \in 1 .. Len(Program(call))
    /\ result \in Byte \cup {Device!NoValue}
    /\ faults \in 0 .. Faults
    /\ before \in [regs : [Byte -> Byte], ptr : Byte]

Init ==
    /\ SlaveInit
    /\ MasterInit
    /\ pc = "off"
    /\ call = Device!NoCall
    /\ k = 1
    /\ result = Device!NoValue
    /\ faults = Faults
    /\ before = Snapshot

-----------------------------------------------------------------------------
\* A step of the driver that reads the status register and goes on to p.
Goto(p) ==
    /\ pc' = p
    /\ UNCHANGED <<master, slave, call, k, result, faults, before>>

(* oc_i2c_master_init: the core is disabled, given its prescaler, enabled. *)
oc_i2c_master_init ==
    /\ pc = "off"
    /\ WriteCTR(TRUE)
    /\ pc' = "idle"
    /\ UNCHANGED <<slave, call, k, result, faults, before>>

Enter(c) ==
    /\ pc = "idle"
    /\ pc' = "tip"
    /\ call' = c
    /\ k' = 1
    /\ before' = Snapshot
    /\ UNCHANGED <<master, slave, result, faults>>

WaitTip ==
    /\ pc = "tip"
    /\ ~tip
    /\ Goto("top")

\* The head of the loop, and the test of the inner one.
ReadBusy ==
    /\ pc \in {"top", "busy"}
    /\ Goto(IF ~busy THEN "issue" ELSE IF pc = "top" THEN "busy" ELSE "stop")

OrderStop ==
    /\ pc = "stop"
    /\ WriteCommand({"STO"}, txr)
    /\ pc' = "stopping"
    /\ UNCHANGED <<slave, call, k, result, faults, before>>

\* A slip: TIP alone, which is clear while a stop condition is generated.
EndedTipOnly == ~tip

Ended == ~tip /\ irq_flag

WaitStop ==
    /\ pc = "stopping"
    /\ Ended
    /\ Goto(IF busy THEN "busy" ELSE "issue")

Issue ==
    /\ pc = "issue"
    /\ LET cmd == Program(call)[k] IN
         WriteCommand(cmd.bits, IF "WR" \in cmd.bits THEN cmd.byte ELSE txr)
    /\ pc' = "await"
    /\ UNCHANGED <<slave, call, k, result, faults, before>>

\* A slip: the acknowledge bit alone.
FailedAckOnly == rxack # ("RD" \in Program(call)[k].bits)

\* A byte sent must be acknowledged, the byte read must not be.
Failed == al \/ rxack # ("RD" \in Program(call)[k].bits)

Finish ==
    /\ k = Len(Program(call))
    /\ k' = k
    /\ IF Reads(call) THEN pc' = "rxr" /\ UNCHANGED call
                      ELSE pc' = "idle" /\ call' = Device!NoCall

Await ==
    /\ pc = "await"
    /\ Ended
    /\ \/ Failed /\ pc' = "top" /\ k' = 1 /\ UNCHANGED call
       \/ ~Failed /\ k < Len(Program(call)) /\ pc' = "issue" /\ k' = k + 1 /\ UNCHANGED call
       \/ ~Failed /\ Finish
    /\ UNCHANGED <<master, slave, result, faults, before>>

ReadRXR ==
    /\ pc = "rxr"
    /\ result' = rxr
    /\ pc' = "idle"
    /\ call' = Device!NoCall
    /\ UNCHANGED <<master, slave, k, faults, before>>

DriverStep ==
    oc_i2c_master_init \/ WaitTip \/ ReadBusy \/ OrderStop \/ WaitStop \/ Issue \/ Await \/ ReadRXR

\* main writes the slave's registers directly.
WriteSlave(r, v) ==
    /\ pc = "idle"
    /\ LocalWrite(r, v)
    /\ UNCHANGED <<master, driver, faults, before>>

-----------------------------------------------------------------------------
Core == CoreStep /\ UNCHANGED <<driver, faults, before>>
Bus == SeeBus /\ UNCHANGED <<driver, faults, before>>
OtherEnds == OtherStops /\ UNCHANGED <<driver, faults, before>>

OtherBegins ==
    /\ faults > 0 /\ faults' = faults - 1
    /\ OtherStarts
    /\ UNCHANGED <<driver, before>>

Disconnect ==
    /\ faults > 0 /\ faults' = faults - 1
    /\ owner = "free"
    /\ attached /\ attached' = FALSE
    /\ UNCHANGED <<streamSt, startDet, regAddr, txData, mem, master, driver, before>>

Connect ==
    /\ owner = "free"
    /\ ~attached /\ attached' = TRUE
    /\ UNCHANGED <<streamSt, startDet, regAddr, txData, mem, master, driver, faults, before>>

Next ==
    \/ \E c \in Device!Call : Enter(c)
    \/ DriverStep
    \/ \E r, v \in Byte : WriteSlave(r, v)
    \/ Core \/ Bus
    \/ OtherBegins \/ OtherEnds
    \/ Disconnect \/ Connect

(* The driver runs, the core and the lines have no way to stall, another   *)
(* master ends its transfers, and a slave that was disconnected comes back *)
(* at a moment at which the bus is free, which retries make rare: SF.      *)
Fairness ==
    /\ WF_vars(DriverStep)
    /\ WF_vars(Core) /\ WF_vars(Bus)
    /\ WF_vars(OtherEnds)
    /\ SF_vars(Connect)

Spec == Init /\ [][Next]_vars
FairSpec == Spec /\ Fairness

-----------------------------------------------------------------------------
(* The driver never writes the command register while a command is in it:  *)
(* its bits would replace those of the transfer in progress, or be erased  *)
(* when that one ends.  Between the two there is only the interrupt flag,  *)
(* because TIP is clear while a stop condition of its own is generated.    *)
CommandsOnlyToAnIdleCore ==
    pc \in {"tip", "top", "busy", "stop", "issue", "idle", "rxr"} =>
        c_state = "idle" /\ cr \cap {"STA", "STO", "RD", "WR"} = {}

(* A call that returns has released the bus: nothing it started is left    *)
(* unstopped, also after refusals, lost arbitration and stops it ordered   *)
(* on the way.                                                             *)
BusReleasedBetweenCalls ==
    pc \in {"off", "idle"} => owner # "core"

(* With all its retries the driver behaves like a device whose calls take  *)
(* effect once and in order: a register read is the last value written to  *)
(* it, over the bus or by the processor, and the address pointer moves by  *)
(* one byte, although a repeated transfer may repeat its address phase.    *)
DeviceBehaviour == Device!Spec

(* Every call returns, as long as the slave comes back and other masters   *)
(* use the bus finitely often.                                             *)
CallsReturn == pc # "idle" ~> pc = "idle"
=============================================================================
