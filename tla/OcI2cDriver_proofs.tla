------------------------ MODULE OcI2cDriver_proofs --------------------------
(***************************************************************************)
(* Proofs about the I2C driver: it writes no command into one in progress, *)
(* it releases the bus, and with all its retries it is a RegisterDevice.   *)
(* The argument: a transfer can only fail at its first byte, and a failure *)
(* there has left the slave's pointer and registers alone.                 *)
(***************************************************************************)
EXTENDS OcI2cDriver, TLAPS

-----------------------------------------------------------------------------
(* The inductive invariant.                                                *)

CoreIdle == c_state = "idle" /\ cr \cap {"STA", "STO", "RD", "WR"} = {}

cmd == Program(call)[k]
Last == k = Len(Program(call))

\* Nothing of the call has happened to the slave.
Untouched == mem = before.regs /\ regAddr = before.ptr

\* What the call does to the pointer, and the value it reads.
Pointer ==
    IF call.fn = "write" THEN call.data
    ELSE IF call.fn = "read" THEN After(before.ptr) ELSE After(call.reg)

Value == IF call.fn = "read" THEN before.regs[before.ptr] ELSE before.regs[call.reg]

Effect ==
    /\ regAddr = Pointer
    /\ mem = IF call.fn = "write_reg" THEN [before.regs EXCEPT ![call.reg] = call.data]
             ELSE before.regs
    /\ Reads(call) => rxr = Value

\* Between two commands of a call: the slave is waiting for the byte of the next one.
Midway(s) ==
    /\ owner = "core" /\ attached /\ ~al
    /\ mem = before.regs
    /\ s = 1 /\ call.fn # "read" => streamSt = "write_addr" /\ regAddr = before.ptr
    /\ s = 2 => streamSt = "write_data" /\ regAddr = call.reg
    /\ s = 3 \/ call.fn = "read" =>
         streamSt = "read" /\ regAddr = Pointer /\ txData = Value

\* The call has done s of its commands.
Stage(s) ==
    IF s = 0 THEN Untouched
    ELSE IF s = Len(Program(call)) THEN owner # "core" /\ Effect
    ELSE Midway(s)

\* The slave after the start condition of a command.
Addressed ==
    /\ owner # "free" /\ ~al
    /\ attached => streamSt = "idle" /\ startDet
    /\ mem = before.regs
    /\ k = 1 => regAddr = before.ptr
    /\ k # 1 => owner = "core" /\ attached /\ regAddr = call.reg

InProgress ==
    /\ cr = cmd.bits
    /\ "WR" \in cmd.bits => txr = cmd.byte
    /\ c_state = "idle" => Stage(k - 1)
    /\ c_state = "start" => "STA" \in cmd.bits /\ Stage(k - 1) /\ ~al
    /\ c_state = "write" => /\ "WR" \in cmd.bits
                            /\ IF "STA" \in cmd.bits THEN Addressed ELSE Stage(k - 1)
    /\ c_state = "read" => "RD" \in cmd.bits /\ Stage(k - 1)
    /\ c_state = "stop" => Last /\ ~Failed /\ Effect

CoreInv ==
    /\ core_en <=> pc # "off"
    /\ irq_flag \/ pc \notin {"stopping", "await"} => CoreIdle
    /\ pc = "stopping" /\ ~irq_flag => cr = {"STO"} /\ c_state \in {"idle", "stop"}

CallInv ==
    /\ call = Device!NoCall <=> pc \in {"off", "idle"}
    /\ pc \in {"off", "idle"} => owner # "core"
    /\ pc = "off" => before = Snapshot
    /\ pc \in {"tip", "top", "busy", "stop", "stopping"} => k = 1 /\ Untouched
    /\ pc = "issue" => Stage(k - 1)
    /\ pc = "await" /\ ~irq_flag => InProgress
    /\ pc = "await" /\ irq_flag /\ Failed => k = 1 /\ Untouched
    /\ pc = "await" /\ irq_flag /\ ~Failed => Stage(k)
    /\ pc = "rxr" => Reads(call) /\ Last /\ Stage(k)

IInv == TypeOK /\ CoreInv /\ CallInv

-----------------------------------------------------------------------------
(* The commands of the four functions.                                     *)
LEMMA Lengths ==
  ASSUME NEW c \in Device!Call
  PROVE  /\ c.fn \in {"write", "write_reg", "read", "read_reg"}
         /\ c.fn \in {"write", "write_reg"} => c.data \in Byte
         /\ c.fn \in {"write_reg", "read_reg"} => c.reg \in Byte
         /\ c.fn \in {"write", "read"} => Len(Program(c)) = 2
         /\ c.fn = "write_reg" => Len(Program(c)) = 3
         /\ c.fn = "read_reg" => Len(Program(c)) = 4
         /\ c # Device!NoCall
<1> USE DEF Program, oc_i2c_master_write, oc_i2c_master_write_reg, oc_i2c_master_read,
            oc_i2c_master_read_reg, Device!NoCall, Device!Byte, Byte
<1>1. CASE c \in [fn : {"write"}, data : Byte]
  BY <1>1
<1>2. CASE c \in [fn : {"write_reg"}, reg : Byte, data : Byte]
  BY <1>2
<1>3. CASE c \in [fn : {"read"}]
  BY <1>3
<1>4. CASE c \in [fn : {"read_reg"}, reg : Byte]
  BY <1>4
<1> QED BY <1>1, <1>2, <1>3, <1>4 DEF Device!Call

LEMMA Places ==
  ASSUME call \in Device!Call, k \in 1 .. Len(Program(call))
  PROVE  /\ k \in 1 .. 4
         /\ k = 1 => ~Last
         /\ k = 2 => (Last <=> call.fn \in {"write", "read"})
         /\ k = 3 => call.fn \in {"write_reg", "read_reg"}
         /\ k = 3 => (Last <=> call.fn = "write_reg")
         /\ k = 4 => call.fn = "read_reg" /\ Last
<1> USE DEF Last
<1>1. CASE call.fn \in {"write", "read"}
  <2>1. Len(Program(call)) = 2
    BY <1>1, Lengths
  <2> QED BY <1>1, <2>1
<1>2. CASE call.fn = "write_reg"
  <2>1. Len(Program(call)) = 3
    BY <1>2, Lengths
  <2> QED BY <1>2, <2>1
<1>3. CASE call.fn = "read_reg"
  <2>1. Len(Program(call)) = 4
    BY <1>3, Lengths
  <2> QED BY <1>3, <2>1
<1>4. call.fn \in {"write", "write_reg", "read", "read_reg"}
  BY Lengths
<1> QED BY <1>1, <1>2, <1>3, <1>4

(* Each command in terms of its place: the first one and the third of      *)
(* read_reg carry a start condition, the last one a stop condition.        *)
LEMMA Commands ==
  ASSUME call \in Device!Call, k \in 1 .. Len(Program(call))
  PROVE  /\ cmd.bits \subseteq CommandBit
         /\ "STA" \in cmd.bits <=> k = 1 \/ (k = 3 /\ call.fn = "read_reg")
         /\ "STO" \in cmd.bits <=> Last
         /\ "RD" \in cmd.bits <=> Last /\ Reads(call)
         /\ "WR" \in cmd.bits <=> "RD" \notin cmd.bits
         /\ "ACK" \in cmd.bits <=> "RD" \in cmd.bits
         /\ "WR" \in cmd.bits =>
              cmd.byte = IF k = 1 THEN IF call.fn = "read" THEN AddrR ELSE AddrW
                         ELSE IF Last THEN call.data
                         ELSE IF k = 2 THEN call.reg ELSE AddrR
<1> USE DEF cmd, Last, Reads, Cmd, CommandBit
<1>1. CASE call.fn = "write"
  <2>1. Program(call) = oc_i2c_master_write(call)
    BY <1>1 DEF Program
  <2>2. Len(Program(call)) = 2
    BY <1>1, Lengths
  <2>3. k = 1 \/ k = 2
    BY <2>2
  <2> QED BY <1>1, <2>1, <2>2, <2>3 DEF oc_i2c_master_write
<1>2. CASE call.fn = "write_reg"
  <2>1. Program(call) = oc_i2c_master_write_reg(call)
    BY <1>2 DEF Program
  <2>2. Len(Program(call)) = 3
    BY <1>2, Lengths
  <2>3. k = 1 \/ k = 2 \/ k = 3
    BY <2>2
  <2> QED BY <1>2, <2>1, <2>2, <2>3 DEF oc_i2c_master_write_reg
<1>3. CASE call.fn = "read"
  <2>1. Program(call) = oc_i2c_master_read(call)
    BY <1>3 DEF Program
  <2>2. Len(Program(call)) = 2
    BY <1>3, Lengths
  <2>3. k = 1 \/ k = 2
    BY <2>2
  <2> QED BY <1>3, <2>1, <2>2, <2>3 DEF oc_i2c_master_read
<1>4. CASE call.fn = "read_reg"
  <2>1. Program(call) = oc_i2c_master_read_reg(call)
    BY <1>4 DEF Program
  <2>2. Len(Program(call)) = 4
    BY <1>4, Lengths
  <2>3. k = 1 \/ k = 2 \/ k = 3 \/ k = 4
    BY <2>2
  <2> QED BY <1>4, <2>1, <2>2, <2>3 DEF oc_i2c_master_read_reg
<1> QED BY <1>1, <1>2, <1>3, <1>4, Lengths

LEMMA InitIInv == ASSUME Init PROVE IInv
<1> USE DEF Init, SlaveInit, MasterInit
<1>1. SlaveTypeOK /\ MasterTypeOK
  <2>1. 0 \in Byte
    BY ByteAssumption DEF Byte
  <2> QED BY <2>1 DEF SlaveTypeOK, MasterTypeOK, Stream, CState
<1>2. before \in [regs : [Byte -> Byte], ptr : Byte]
  BY <1>1 DEF Snapshot, SlaveTypeOK
<1>3. TypeOK
  BY <1>1, <1>2, FaultsAssumption DEF TypeOK, PC
<1>4. CoreInv
  BY DEF CoreInv, CoreIdle
<1>5. CallInv
  BY DEF CallInv
<1> QED BY <1>3, <1>4, <1>5 DEF IInv

-----------------------------------------------------------------------------
(* What the invariant says of the place of the driver and of the core.     *)
LEMMA InCall ==
  ASSUME IInv, pc \notin {"off", "idle"}
  PROVE  /\ call \in Device!Call
         /\ k \in 1 .. Len(Program(call))
         /\ Len(Program(call)) \in 2 .. 4
BY Lengths DEF IInv, TypeOK, CallInv

LEMMA Transferring ==
  ASSUME IInv, c_state \in {"start", "write", "read"}
  PROVE  pc = "await" /\ ~irq_flag /\ InProgress
<1>1. ~CoreIdle /\ c_state \notin {"idle", "stop"}
  BY DEF CoreIdle
<1>2. ~irq_flag /\ pc \in {"stopping", "await"}
  BY <1>1 DEF IInv, CoreInv
<1>3. pc = "await"
  BY <1>1, <1>2 DEF IInv, CoreInv
<1> QED BY <1>2, <1>3 DEF IInv, CallInv

LEMMA MidwayOwns ==
  ASSUME IInv, pc # "off", pc # "idle", k # 1, Stage(k - 1)
  PROVE  Midway(k - 1)
BY InCall DEF Stage

LEMMA Owned ==
  ASSUME IInv
  PROVE  /\ c_state = "write" => owner # "free"
         /\ c_state = "read" => owner = "core"
         /\ c_state \in {"write", "read"} /\ k # 1 => owner = "core" /\ attached
<1> SUFFICES ASSUME c_state \in {"write", "read"}
             PROVE  /\ owner # "free"
                    /\ c_state = "read" => k # 1
                    /\ k # 1 => owner = "core" /\ attached
  OBVIOUS
<1>1. pc = "await" /\ InProgress
  BY Transferring
<1>2. /\ "STA" \in cmd.bits <=> k = 1 \/ (k = 3 /\ call.fn = "read_reg")
      /\ "RD" \in cmd.bits => k # 1
  <2>1. call \in Device!Call /\ k \in 1 .. Len(Program(call)) /\ Len(Program(call)) > 1
    BY <1>1, InCall
  <2> QED BY <2>1, Commands DEF Last
<1>3. CASE c_state = "write" /\ "STA" \in cmd.bits
  BY <1>1, <1>3 DEF InProgress, Addressed
<1>4. CASE ~(c_state = "write" /\ "STA" \in cmd.bits)
  <2>1. k # 1 /\ Stage(k - 1)
    BY <1>1, <1>2, <1>4 DEF InProgress
  <2> QED BY <1>1, <2>1, MidwayOwns DEF Midway
<1> QED BY <1>3, <1>4

-----------------------------------------------------------------------------
(* Steps of the surroundings: they happen while the core does not own the  *)
(* bus, and touch neither the pointer nor the registers.                   *)
LEMMA SurroundingsIInv ==
  ASSUME IInv,
         Bus \/ OtherBegins \/ OtherEnds \/ Disconnect \/ Connect
  PROVE  IInv'
<1>1. /\ UNCHANGED <<core, driver, before, regAddr, txData, mem>>
      /\ owner = "core" => UNCHANGED <<owner, streamSt, startDet, attached>>
      /\ owner # "core" => owner' # "core"
      /\ c_state = "write" => UNCHANGED <<owner, streamSt, startDet, attached>>
  <2> USE Owned DEF master
  <2>1. CASE Bus
    BY <2>1 DEF Bus, SeeBus, slave
  <2>2. CASE OtherBegins
    BY <2>2 DEF OtherBegins, OtherStarts, Quiet, SlaveStart
  <2>3. CASE OtherEnds
    BY <2>3 DEF OtherEnds, OtherStops, SlaveStop
  <2>4. CASE Disconnect
    BY <2>4 DEF Disconnect
  <2>5. CASE Connect
    BY <2>5 DEF Connect
  <2> QED BY <2>1, <2>2, <2>3, <2>4, <2>5
<1>2. TypeOK'
  <2>1. faults' \in 0 .. Faults
    BY FaultsAssumption DEF IInv, TypeOK, Bus, OtherBegins, OtherEnds, Disconnect, Connect
  <2>2. /\ streamSt' \in Stream /\ startDet' \in BOOLEAN /\ attached' \in BOOLEAN
        /\ busy' \in BOOLEAN /\ owner' \in {"free", "core", "other"}
    BY DEF IInv, TypeOK, SlaveTypeOK, MasterTypeOK, master, slave, Stream, Bus, SeeBus,
           OtherBegins, OtherStarts, SlaveStart, OtherEnds, OtherStops, SlaveStop,
           Disconnect, Connect
  <2> QED BY <1>1, <2>1, <2>2 DEF IInv, TypeOK, SlaveTypeOK, MasterTypeOK, core, driver
<1>3. CoreInv'
  BY <1>1 DEF IInv, CoreInv, CoreIdle, core, driver
<1>4. Effect <=> Effect'
  BY <1>1 DEF Effect, Pointer, Value, Reads, core, driver
<1>5. ASSUME NEW s, Stage(s) PROVE Stage(s)'
  BY <1>1, <1>4, <1>5 DEF Stage, Untouched, Midway, Pointer, Value, core, driver
<1>6. ASSUME InProgress PROVE InProgress'
  BY <1>1, <1>4, <1>5, <1>6 DEF InProgress, cmd, Addressed, Last, Failed, core, driver
<1>7. CallInv'
  BY <1>1, <1>5, <1>6 DEF IInv, CallInv, Untouched, Snapshot, Failed, Last, core, driver
<1> QED BY <1>2, <1>3, <1>7 DEF IInv

-----------------------------------------------------------------------------
(* Steps of the driver.                                                    *)
LEMMA StageStays ==
  ASSUME NEW s, Stage(s), UNCHANGED <<slave, owner, rxr, call, before>>, al' => al
  PROVE  Stage(s)'
BY DEF Stage, Untouched, Effect, Midway, Pointer, Value, Reads, slave

LEMMA InitMasterIInv == ASSUME IInv, oc_i2c_master_init PROVE IInv'
<1> USE DEF oc_i2c_master_init, WriteCTR
<1>1. TypeOK'
  BY DEF IInv, TypeOK, SlaveTypeOK, MasterTypeOK, PC, slave
<1>2. CoreInv'
  BY DEF IInv, CoreInv, CoreIdle
<1>3. CallInv'
  BY DEF IInv, CallInv
<1> QED BY <1>1, <1>2, <1>3 DEF IInv

LEMMA EnterIInv == ASSUME IInv, NEW c \in Device!Call, Enter(c) PROVE IInv'
<1> USE DEF Enter
<1>1. TypeOK'
  <2>1. k' \in 1 .. Len(Program(call'))
    BY Lengths
  <2>2. before' \in [regs : [Byte -> Byte], ptr : Byte]
    BY DEF IInv, TypeOK, SlaveTypeOK, Snapshot
  <2>3. SlaveTypeOK'
    BY DEF IInv, TypeOK, SlaveTypeOK, slave
  <2>4. MasterTypeOK'
    BY DEF IInv, TypeOK, MasterTypeOK, master, core
  <2> QED BY <2>1, <2>2, <2>3, <2>4 DEF IInv, TypeOK, PC
<1>2. CoreInv'
  BY DEF IInv, CoreInv, CoreIdle, master, core
<1>3. CallInv'
  BY Lengths DEF IInv, CallInv, Untouched, Snapshot, slave
<1> QED BY <1>1, <1>2, <1>3 DEF IInv

(* A read of the status register, and a decision.                          *)
LEMMA GotoIInv ==
  ASSUME IInv, NEW p \in {"top", "busy", "stop", "issue"}, Goto(p),
         pc \in {"tip", "top", "busy", "stopping"},
         pc = "stopping" => irq_flag
  PROVE  IInv'
<1> USE DEF Goto
<1>1. TypeOK'
  BY DEF IInv, TypeOK, SlaveTypeOK, MasterTypeOK, PC, slave, master, core
<1>2. CoreInv'
  BY DEF IInv, CoreInv, CoreIdle, master, core
<1>3. CallInv'
  BY DEF IInv, CallInv, Untouched, Stage, slave, master, core
<1> QED BY <1>1, <1>2, <1>3 DEF IInv

LEMMA OrderStopIInv == ASSUME IInv, OrderStop PROVE IInv'
<1> USE DEF OrderStop, WriteCommand
<1>1. core_en /\ CoreIdle
  BY DEF IInv, CoreInv
<1>2. TypeOK'
  <2>1. SlaveTypeOK'
    BY DEF IInv, TypeOK, SlaveTypeOK, slave
  <2>2. {"STO"} \subseteq CommandBit
    BY DEF CommandBit
  <2>3. MasterTypeOK'
    BY <1>1, <2>2 DEF IInv, TypeOK, MasterTypeOK
  <2> QED BY <2>1, <2>3 DEF IInv, TypeOK, PC
<1>3. CoreInv'
  BY <1>1 DEF IInv, CoreInv, CoreIdle
<1>4. CallInv'
  BY <1>1 DEF IInv, CallInv, Untouched, slave
<1> QED BY <1>2, <1>3, <1>4 DEF IInv

LEMMA IssueIInv == ASSUME IInv, Issue PROVE IInv'
<1> USE DEF Issue
<1>1. core_en /\ CoreIdle
  BY DEF IInv, CoreInv
<1>2. /\ call \in Device!Call /\ k \in 1 .. Len(Program(call)) /\ Len(Program(call)) \in 2 .. 4
  BY InCall
<1>3. /\ cr' = cmd.bits
      /\ txr' = IF "WR" \in cmd.bits THEN cmd.byte ELSE txr
      /\ irq_flag' = FALSE
      /\ UNCHANGED <<core_en, rxr, rxack, al, c_state, busy, owner>>
  BY <1>1 DEF WriteCommand, cmd
<1>4. TypeOK'
  <2>1. txr' \in Byte \cup {AddrW, AddrR}
    <3>1. CASE "WR" \in cmd.bits
      BY <1>2, <1>3, <3>1, Commands, Lengths DEF Last, Reads
    <3>2. CASE "WR" \notin cmd.bits
      BY <1>3, <3>2 DEF IInv, TypeOK, MasterTypeOK
    <3> QED BY <3>1, <3>2
  <2>2. cr' \subseteq CommandBit
    BY <1>2, <1>3, Commands
  <2> QED BY <1>3, <2>1, <2>2 DEF IInv, TypeOK, SlaveTypeOK, MasterTypeOK, PC, slave
<1>5. CoreInv'
  BY <1>3 DEF IInv, CoreInv, CoreIdle
<1>6. CallInv'
  <2>1. Stage(k - 1)'
    BY <1>3, StageStays DEF IInv, CallInv
  <2>2. InProgress'
    BY <1>1, <1>3, <2>1 DEF InProgress, CoreIdle, cmd
  <2> QED BY <1>3, <2>2 DEF IInv, CallInv
<1> QED BY <1>4, <1>5, <1>6 DEF IInv

LEMMA AwaitIInv == ASSUME IInv, Await PROVE IInv'
<1> USE DEF Await, Finish
<1>1. CoreIdle /\ core_en /\ irq_flag
  BY DEF IInv, CoreInv, Ended
<1>2. /\ call \in Device!Call /\ k \in 1 .. Len(Program(call)) /\ Len(Program(call)) \in 2 .. 4
  BY InCall
<1>3. UNCHANGED <<slave, master, before, result, faults>>
  OBVIOUS
<1>4. CoreInv'
  BY <1>1 DEF IInv, CoreInv, CoreIdle, master, core
<1>5. CASE Failed
  <2>1. k = 1 /\ Untouched /\ pc' = "top" /\ k' = 1 /\ call' = call
    BY <1>1, <1>5 DEF IInv, CallInv
  <2>2. TypeOK'
    BY <1>2, <2>1 DEF IInv, TypeOK, SlaveTypeOK, MasterTypeOK, PC, slave, master, core
  <2>3. CallInv'
    BY <1>2, <2>1, Lengths DEF CallInv, Untouched, slave
  <2> QED BY <1>4, <2>2, <2>3 DEF IInv
<1>6. CASE ~Failed /\ k < Len(Program(call))
  <2>1. Stage(k) /\ pc' = "issue" /\ k' = k + 1 /\ call' = call
    BY <1>1, <1>6 DEF IInv, CallInv
  <2>2. TypeOK'
    BY <1>2, <1>6, <2>1 DEF IInv, TypeOK, SlaveTypeOK, MasterTypeOK, PC, slave, master, core
  <2>3. PICK s : s = k /\ Stage(s)
    BY <2>1
  <2>4. Stage(s)' /\ k' - 1 = s
    BY <1>2, <1>3, <2>1, <2>3, StageStays DEF master, core
  <2>5. CallInv'
    BY <1>2, <2>1, <2>4, Lengths DEF CallInv
  <2> QED BY <1>4, <2>2, <2>5 DEF IInv
<1>7. CASE ~Failed /\ k = Len(Program(call))
  <2>1. Stage(k) /\ k' = k /\ owner # "core"
    BY <1>1, <1>2, <1>7 DEF IInv, CallInv, Stage
  <2>2. PICK s : s = k /\ Stage(s)
    BY <2>1
  <2>3. CASE Reads(call)
    <3>1. pc' = "rxr" /\ call' = call
      BY <1>7, <2>3
    <3>2. TypeOK'
      BY <1>2, <2>1, <3>1 DEF IInv, TypeOK, SlaveTypeOK, MasterTypeOK, PC, slave, master, core
    <3>3. Stage(s)' /\ k' = s
      BY <1>3, <2>1, <2>2, <3>1, StageStays DEF master, core
    <3>4. CallInv'
      BY <1>2, <1>7, <2>1, <2>3, <3>1, <3>3, Lengths DEF CallInv, Last, Reads
    <3> QED BY <1>4, <3>2, <3>4 DEF IInv
  <2>4. CASE ~Reads(call)
    <3>1. pc' = "idle" /\ call' = Device!NoCall
      BY <1>7, <2>4
    <3>2. TypeOK'
      BY <1>2, <2>1, <3>1 DEF IInv, TypeOK, SlaveTypeOK, MasterTypeOK, PC, slave, master, core
    <3>3. CallInv'
      BY <1>3, <2>1, <3>1 DEF CallInv, master
    <3> QED BY <1>4, <3>2, <3>3 DEF IInv
  <2> QED BY <2>3, <2>4
<1> QED BY <1>2, <1>5, <1>6, <1>7

LEMMA ReadRXRIInv == ASSUME IInv, ReadRXR PROVE IInv'
<1> USE DEF ReadRXR
<1>1. owner # "core"
  BY InCall DEF IInv, CallInv, Stage, Last
<1>2. TypeOK'
  BY DEF IInv, TypeOK, SlaveTypeOK, MasterTypeOK, PC, slave, master, core
<1>3. CoreInv'
  BY DEF IInv, CoreInv, CoreIdle, master, core
<1>4. CallInv'
  BY <1>1 DEF CallInv, master
<1> QED BY <1>2, <1>3, <1>4 DEF IInv

LEMMA WriteSlaveIInv == ASSUME IInv, NEW r \in Byte, NEW v \in Byte, WriteSlave(r, v) PROVE IInv'
<1> USE DEF WriteSlave, LocalWrite
<1>1. TypeOK'
  BY DEF IInv, TypeOK, SlaveTypeOK, MasterTypeOK, PC, driver, master, core
<1>2. CoreInv'
  BY DEF IInv, CoreInv, CoreIdle, driver, master, core
<1>3. CallInv'
  BY DEF IInv, CallInv, driver, master
<1> QED BY <1>1, <1>2, <1>3 DEF IInv

LEMMA DriverIInv == ASSUME IInv, DriverStep PROVE IInv'
<1>1. CASE WaitTip
  BY <1>1, GotoIInv DEF WaitTip
<1>2. CASE ReadBusy
  BY <1>2, GotoIInv DEF ReadBusy
<1>3. CASE WaitStop
  BY <1>3, GotoIInv DEF WaitStop, Ended
<1> QED BY <1>1, <1>2, <1>3, InitMasterIInv, OrderStopIInv, IssueIInv, AwaitIInv, ReadRXRIInv
        DEF DriverStep

-----------------------------------------------------------------------------
(* Steps of the core.                                                      *)
LEMMA BeginIInv == ASSUME IInv, Begin, UNCHANGED <<driver, faults, before>> PROVE IInv'
<1> USE DEF Begin, driver
<1>1. pc \in {"stopping", "await"} /\ ~irq_flag /\ c_state' # "idle"
  BY DEF IInv, CoreInv, CoreIdle
<1>2. TypeOK'
  BY DEF IInv, TypeOK, SlaveTypeOK, MasterTypeOK, CState, NextAl, slave
<1>3. CoreInv'
  BY <1>1 DEF IInv, CoreInv
<1>4. CASE pc = "stopping"
  <2>1. CallInv'
    BY <1>1, <1>4 DEF IInv, CallInv, Untouched, slave
  <2> QED BY <1>2, <1>3, <2>1 DEF IInv
<1>5. CASE pc = "await"
  <2>1. InProgress /\ Stage(k - 1)
    BY <1>1, <1>5 DEF IInv, CallInv, InProgress
  <2>2. Stage(k - 1)'
    BY <2>1, StageStays DEF NextAl
  <2>3. c_state' # "stop"
    BY <1>5, <2>1, InCall, Commands DEF InProgress
  <2>4. InProgress'
    BY <1>1, <2>1, <2>2, <2>3 DEF InProgress, cmd, NextAl
  <2>5. CallInv'
    BY <1>1, <1>5, <2>4 DEF IInv, CallInv
  <2> QED BY <1>2, <1>3, <2>5 DEF IInv
<1> QED BY <1>1, <1>4, <1>5

LEMMA StartIInv == ASSUME IInv, Start, UNCHANGED <<driver, faults, before>> PROVE IInv'
<1> USE DEF Start, driver
<1>1. pc = "await" /\ ~irq_flag /\ InProgress
  BY Transferring
<1>2. "STA" \in cmd.bits /\ Stage(k - 1) /\ ~al
  BY <1>1 DEF InProgress
<1>3. /\ call \in Device!Call /\ k \in 1 .. Len(Program(call)) /\ Len(Program(call)) \in 2 .. 4
  BY <1>1, InCall
<1>4. /\ k = 1 \/ (k = 3 /\ call.fn = "read_reg")
      /\ "RD" \notin cmd.bits /\ "WR" \in cmd.bits
  BY <1>2, <1>3, Commands, Places
<1>5. c_state' = "write"
  BY <1>1, <1>4 DEF InProgress
<1>6. TypeOK'
  <2>1. /\ owner' \in {"free", "core", "other"} /\ c_state' \in CState
        /\ streamSt' \in Stream /\ startDet' \in BOOLEAN
    BY <1>5 DEF IInv, TypeOK, SlaveTypeOK, MasterTypeOK, CState, Stream, SlaveStart
  <2> QED BY <2>1 DEF IInv, TypeOK, SlaveTypeOK, MasterTypeOK, SlaveStart
<1>7. CoreInv'
  BY <1>1, <1>5 DEF IInv, CoreInv
<1>8. Addressed'
  <2>1. CASE k = 1
    <3>1. Untouched
      BY <1>2, <2>1 DEF Stage
    <3> QED BY <1>2, <2>1, <3>1 DEF Addressed, Untouched, SlaveStart, IInv, TypeOK, MasterTypeOK
  <2>2. CASE k = 3
    <3>1. Midway(2)
      BY <1>1, <1>2, <2>2, MidwayOwns
    <3> QED BY <1>2, <2>2, <3>1 DEF Addressed, Midway, SlaveStart
  <2> QED BY <1>4, <2>1, <2>2
<1>9. CallInv'
  <2>1. InProgress'
    BY <1>1, <1>2, <1>4, <1>5, <1>8 DEF InProgress, cmd
  <2> QED BY <1>1, <2>1 DEF IInv, CallInv
<1> QED BY <1>6, <1>7, <1>9 DEF IInv

(* A byte that is not acknowledged is the first one.                       *)
LEMMA OnlyTheFirstFails ==
  ASSUME IInv, c_state = "write", ~Accepts(txr)
  PROVE  k = 1
<1> SUFFICES ASSUME k # 1 PROVE FALSE
  OBVIOUS
<1>1. pc = "await" /\ InProgress /\ "WR" \in cmd.bits /\ txr = cmd.byte
  BY Transferring DEF InProgress
<1>2. attached
  BY Owned
<1>3. /\ call \in Device!Call /\ k \in 1 .. Len(Program(call)) /\ Len(Program(call)) \in 2 .. 4
  BY <1>1, InCall
<1>4. CASE "STA" \in cmd.bits
  <2>1. streamSt = "idle" /\ startDet
    BY <1>1, <1>2, <1>4 DEF InProgress, Addressed
  <2>2. k = 3 /\ call.fn = "read_reg" /\ ~Last
    BY <1>1, <1>3, <1>4, Commands, Places
  <2>3. cmd.byte = AddrR
    BY <1>1, <1>3, <2>2, Commands
  <2> QED BY <1>1, <1>2, <2>1, <2>3 DEF Accepts
<1>5. CASE "STA" \notin cmd.bits
  <2>1. Midway(k - 1)
    BY <1>1, <1>5, MidwayOwns DEF InProgress
  <2>2. ~(Last /\ Reads(call))
    BY <1>1, <1>3, Commands
  <2>3. (k = 2 /\ call.fn # "read") \/ k = 3
    BY <1>3, <2>2, Places, Lengths DEF Reads
  <2>4. streamSt # "idle"
    BY <2>1, <2>3 DEF Midway
  <2> QED BY <1>2, <2>4 DEF Accepts
<1> QED BY <1>4, <1>5

(* What the slave makes of a byte it acknowledges.                         *)
LEMMA AcknowledgedByte ==
  ASSUME IInv, WriteByte, Acknowledged(txr), UNCHANGED <<driver, faults, before>>
  PROVE  /\ ~al
         /\ ~Last => Midway(k)'
         /\ Last => Effect'
<1> USE DEF WriteByte, Acknowledged, SlaveTakes, Accepts, driver
<1>1. pc = "await" /\ InProgress /\ "WR" \in cmd.bits /\ txr = cmd.byte
  BY Transferring DEF InProgress
<1>2. /\ call \in Device!Call /\ k \in 1 .. Len(Program(call)) /\ Len(Program(call)) \in 2 .. 4
  BY <1>1, InCall
<1>3. CASE "STA" \in cmd.bits
  <2>1. Addressed /\ TakeAddress(txr)
    BY <1>1, <1>3 DEF InProgress, Addressed, TakeAddress, TakePointer, TakeData
  <2>2. k = 1 \/ (k = 3 /\ call.fn = "read_reg")
    BY <1>2, <1>3, Commands
  <2>3. ~Last
    BY <1>2, <2>2, Places
  <2>4. CASE k = 1 /\ call.fn # "read"
    <3>1. txr = AddrW /\ AddrW # AddrR
      BY <1>1, <1>2, <2>4, Commands, ByteAssumption DEF AddrW, AddrR
    <3> QED BY <2>1, <2>3, <2>4, <3>1 DEF TakeAddress, Addressed, Midway
  <2>5. CASE k = 1 /\ call.fn = "read"
    <3>1. txr = AddrR
      BY <1>1, <1>2, <2>5, Commands
    <3> QED BY <2>1, <2>3, <2>5, <3>1 DEF TakeAddress, Load, Addressed, Midway, Pointer, Value
  <2>6. CASE k = 3 /\ call.fn = "read_reg"
    <3>1. txr = AddrR
      BY <1>1, <1>2, <2>3, <2>6, Commands
    <3> QED BY <2>1, <2>3, <2>6, <3>1 DEF TakeAddress, Load, Addressed, Midway, Pointer, Value
  <2> QED BY <2>2, <2>4, <2>5, <2>6
<1>4. CASE "STA" \notin cmd.bits
  <2>1. k # 1 /\ ~(Last /\ Reads(call)) /\ ~(k = 3 /\ call.fn = "read_reg")
    BY <1>1, <1>2, <1>4, Commands
  <2>2. Midway(k - 1)
    BY <1>1, <1>4, <2>1, MidwayOwns DEF InProgress
  <2>3. (k = 2 /\ call.fn # "read") \/ (k = 3 /\ call.fn = "write_reg")
    BY <1>2, <2>1, Places, Lengths DEF Reads
  <2>4. CASE k = 2 /\ Last
    <3>1. call.fn = "write" /\ txr = call.data
      BY <1>1, <1>2, <2>3, <2>4, Commands, Places
    <3>2. TakePointer(txr)
      BY <2>2, <2>4, <3>1 DEF Midway, TakeAddress, TakePointer, TakeData
    <3> QED BY <2>2, <2>4, <3>1, <3>2 DEF TakePointer, Midway, Effect, Pointer, Reads
  <2>5. CASE k = 2 /\ ~Last
    <3>1. txr = call.reg
      <4>1. cmd.byte = call.reg
        BY <1>1, <1>2, <2>5, Commands
      <4> QED BY <1>1, <4>1
    <3>2. TakePointer(txr)
      BY <2>2, <2>5, <3>1 DEF Midway, TakeAddress, TakePointer, TakeData
    <3> QED BY <2>2, <2>5, <3>1, <3>2 DEF TakePointer, Midway
  <2>6. CASE k = 3
    <3>1. call.fn = "write_reg" /\ Last /\ txr = call.data
      BY <1>1, <1>2, <2>3, <2>6, Commands, Places
    <3>2. TakeData(txr)
      BY <2>2, <2>6, <3>1 DEF Midway, TakeAddress, TakePointer, TakeData
    <3> QED BY <2>2, <2>6, <3>1, <3>2 DEF TakeData, Midway, Effect, Pointer, Reads
  <2> QED BY <2>3, <2>4, <2>5, <2>6
<1> QED BY <1>3, <1>4

(* A byte the slave takes for a register or for its pointer is one.        *)
LEMMA DataByte ==
  ASSUME IInv, c_state = "write", attached, streamSt # "idle"
  PROVE  txr \in Byte
<1>1. pc = "await" /\ InProgress /\ "WR" \in cmd.bits /\ txr = cmd.byte
  BY Transferring DEF InProgress
<1>2. call \in Device!Call /\ k \in 1 .. Len(Program(call))
  BY <1>1, InCall
<1>3. "STA" \notin cmd.bits
  BY <1>1 DEF InProgress, Addressed
<1>4. k # 1 /\ ~(k = 3 /\ call.fn = "read_reg") /\ ~(Last /\ Reads(call))
  BY <1>1, <1>2, <1>3, Commands
<1>5. CASE Last
  <2>1. cmd.byte = call.data
    BY <1>1, <1>2, <1>4, <1>5, Commands
  <2> QED BY <1>1, <1>2, <1>4, <1>5, <2>1, Lengths DEF Reads
<1>6. CASE ~Last
  <2>1. k = 2 /\ call.fn \in {"write_reg", "read_reg"}
    BY <1>2, <1>4, <1>6, Places, Lengths
  <2>2. cmd.byte = call.reg
    BY <1>1, <1>2, <1>6, <2>1, Commands
  <2> QED BY <1>1, <1>2, <2>1, <2>2, Lengths
<1> QED BY <1>5, <1>6

LEMMA WriteByteIInv == ASSUME IInv, WriteByte, UNCHANGED <<driver, faults, before>> PROVE IInv'
<1> USE DEF WriteByte, driver
<1>1. pc = "await" /\ ~irq_flag /\ InProgress /\ "WR" \in cmd.bits /\ cr = cmd.bits
  BY Transferring DEF InProgress
<1>2. /\ call \in Device!Call /\ k \in 1 .. Len(Program(call)) /\ Len(Program(call)) \in 2 .. 4
  BY <1>1, InCall
<1>3. /\ "STO" \in cr <=> Last
      /\ "RD" \notin cmd.bits
      /\ cr \subseteq CommandBit
  BY <1>1, <1>2, Commands
<1>4. /\ Last => c_state' = "stop" /\ UNCHANGED <<cr, irq_flag>>
      /\ ~Last => CoreIdle' /\ irq_flag' /\ cr' \subseteq CommandBit
  BY <1>3 DEF ByteDone, Done, CoreIdle
<1>5. TypeOK'
  <2>1. SlaveTypeOK'
    <3>1. CASE Acknowledged(txr)
      <4>1. \A r \in Byte : After(r) \in Byte
        BY ByteAssumption DEF After, Byte
      <4>2. UNCHANGED attached
        BY <3>1 DEF Acknowledged, SlaveTakes
      <4>3. CASE TakeAddress(txr)
        <5>1. mem[regAddr] \in Byte /\ After(regAddr) \in Byte
          BY <4>1 DEF IInv, TypeOK, SlaveTypeOK
        <5>2. streamSt' \in Stream /\ regAddr' \in Byte /\ txData' \in Byte
              /\ startDet' \in BOOLEAN /\ UNCHANGED mem
          BY <4>3, <5>1 DEF TakeAddress, Load, IInv, TypeOK, SlaveTypeOK, Stream
        <5> QED BY <4>2, <5>2 DEF IInv, TypeOK, SlaveTypeOK
      <4>4. CASE TakePointer(txr)
        <5>1. txr \in Byte
          BY <3>1, <4>4, DataByte DEF TakePointer, Acknowledged, SlaveTakes, Accepts
        <5> QED BY <4>2, <4>4, <5>1 DEF TakePointer, IInv, TypeOK, SlaveTypeOK, Stream
      <4>5. CASE TakeData(txr)
        <5>1. txr \in Byte /\ After(regAddr) \in Byte
          <6>1. After(regAddr) \in Byte
            BY <4>1 DEF IInv, TypeOK, SlaveTypeOK
          <6> QED BY <3>1, <4>5, <6>1, DataByte DEF TakeData, Acknowledged, SlaveTakes, Accepts
        <5> QED BY <4>2, <4>5, <5>1 DEF TakeData, IInv, TypeOK, SlaveTypeOK
      <4> QED BY <3>1, <4>3, <4>4, <4>5 DEF Acknowledged, SlaveTakes
    <3>2. CASE NotAcknowledged(txr)
      BY <3>2 DEF NotAcknowledged, SlaveIgnores, IInv, TypeOK, SlaveTypeOK
    <3> QED BY <3>1, <3>2
  <2>2. rxack' \in BOOLEAN
    BY DEF Acknowledged, NotAcknowledged
  <2>3. cr' \subseteq CommandBit /\ irq_flag' \in BOOLEAN /\ c_state' \in CState
    BY <1>1, <1>3, <1>4 DEF CState, CoreIdle, IInv, TypeOK, MasterTypeOK
  <2> QED BY <2>1, <2>2, <2>3 DEF IInv, TypeOK, MasterTypeOK
<1>6. CoreInv'
  BY <1>1, <1>4 DEF IInv, CoreInv
<1>7. CASE Acknowledged(txr)
  <2>1. rxack' = FALSE /\ ~al' /\ ~Failed'
    <3>1. ~al
      BY <1>7, AcknowledgedByte
    <3>2. rxack' = FALSE
      BY <1>7 DEF Acknowledged
    <3>3. ~("RD" \in Program(call)[k].bits)'
      BY <1>3 DEF cmd
    <3> HIDE DEF WriteByte
    <3>4. ~al'
      BY <3>1 DEF WriteByte
    <3>5. rxack' = ("RD" \in Program(call)[k].bits)'
      <4>1. rxack' \in BOOLEAN
        BY <3>2
      <4> QED BY <3>2, <3>3, <4>1
    <3> QED BY <3>2, <3>4, <3>5, Zenon DEF Failed
  <2>2. CASE Last
    <3>1. Effect'
      BY <1>7, <2>2, AcknowledgedByte
    <3>2. InProgress'
      BY <1>1, <1>4, <2>1, <2>2, <3>1 DEF InProgress, cmd, Last
    <3>3. CallInv'
      BY <1>1, <1>4, <2>2, <3>2 DEF IInv, CallInv
    <3> QED BY <1>5, <1>6, <3>3 DEF IInv
  <2>3. CASE ~Last
    <3>1. Stage(k)'
      BY <1>2, <1>7, <2>3, AcknowledgedByte DEF Stage, Last
    <3>2. CallInv'
      BY <1>1, <1>4, <2>1, <2>3, <3>1 DEF IInv, CallInv
    <3> QED BY <1>5, <1>6, <3>2 DEF IInv
  <2> QED BY <2>2, <2>3
<1>8. CASE NotAcknowledged(txr)
  <2>1. k = 1 /\ ~Last
    BY <1>2, <1>8, OnlyTheFirstFails, Places DEF NotAcknowledged
  <2>2. rxack' = TRUE /\ Failed'
    BY <1>3, <1>8 DEF NotAcknowledged, Failed, cmd
  <2>3. Untouched'
    <3>1. Addressed
      BY <1>1, <1>2, <2>1, Commands DEF InProgress
    <3> QED BY <1>8, <2>1, <3>1 DEF Addressed, NotAcknowledged, SlaveIgnores, Untouched
  <2>4. CallInv'
    BY <1>1, <1>4, <2>1, <2>2, <2>3 DEF IInv, CallInv
  <2> QED BY <1>5, <1>6, <2>4 DEF IInv
<1> QED BY <1>7, <1>8

LEMMA ReadByteIInv == ASSUME IInv, ReadByte, UNCHANGED <<driver, faults, before>> PROVE IInv'
<1> USE DEF ReadByte, driver
<1>1. pc = "await" /\ ~irq_flag /\ InProgress /\ "RD" \in cmd.bits /\ Stage(k - 1) /\ cr = cmd.bits
  BY Transferring DEF InProgress
<1>2. /\ call \in Device!Call /\ k \in 1 .. Len(Program(call)) /\ Len(Program(call)) \in 2 .. 4
  BY <1>1, InCall
<1>3. Last /\ Reads(call) /\ "STO" \in cr /\ "ACK" \in cr /\ "WR" \notin cmd.bits
  BY <1>1, <1>2, Commands
<1>4. (k = 2 /\ call.fn = "read") \/ k = 4
  BY <1>2, <1>3, Places DEF Reads
<1>5. Midway(k - 1)
  BY <1>1, <1>4, MidwayOwns
<1>6. c_state' = "stop" /\ UNCHANGED <<cr, irq_flag>>
  BY <1>3 DEF ByteDone
<1>7. Effect'
  <2>1. regAddr = Pointer /\ txData = Value /\ mem = before.regs
    BY <1>4, <1>5 DEF Midway
  <2>2. call.fn # "write_reg"
    BY <1>3 DEF Reads
  <2> QED BY <1>3, <2>1, <2>2 DEF Effect, Pointer, Value, SlaveSends
<1>8. ~Failed'
  BY <1>1, <1>3, <1>5 DEF Failed, cmd, Midway
<1>9. TypeOK'
  <2>1. streamSt' \in Stream /\ c_state' \in CState /\ rxack' \in BOOLEAN /\ rxr' \in Byte
    BY <1>3, <1>6 DEF SlaveSends, Stream, CState, IInv, TypeOK, SlaveTypeOK
  <2>2. UNCHANGED <<startDet, regAddr, txData, mem, attached, cr, irq_flag>>
    BY <1>3, <1>6 DEF SlaveSends
  <2> QED BY <2>1, <2>2 DEF IInv, TypeOK, SlaveTypeOK, MasterTypeOK
<1>10. CoreInv'
  BY <1>1, <1>6 DEF IInv, CoreInv
<1>11. CallInv'
  <2>1. InProgress'
    BY <1>1, <1>3, <1>6, <1>7, <1>8 DEF InProgress, cmd, Last
  <2> QED BY <1>1, <1>6, <2>1 DEF IInv, CallInv
<1> QED BY <1>9, <1>10, <1>11 DEF IInv

LEMMA StopIInv == ASSUME IInv, Stop, UNCHANGED <<driver, faults, before>> PROVE IInv'
<1> USE DEF Stop, driver
<1>1. pc \in {"stopping", "await"} /\ ~irq_flag
  BY DEF IInv, CoreInv, CoreIdle
<1>2. /\ CoreIdle' /\ irq_flag' /\ cr' \subseteq CommandBit
      /\ owner' \in {"free", "other"}
      /\ UNCHANGED <<regAddr, mem, txData, attached>>
      /\ streamSt' \in Stream /\ startDet' \in BOOLEAN
  BY DEF Done, CoreIdle, SlaveStop, Stream, slave, CommandBit,
         IInv, TypeOK, SlaveTypeOK, MasterTypeOK
<1>3. TypeOK'
  <2>1. c_state' \in CState /\ irq_flag' \in BOOLEAN
    BY DEF Done, CState
  <2> QED BY <1>2, <2>1 DEF IInv, TypeOK, SlaveTypeOK, MasterTypeOK
<1>4. CoreInv'
  BY <1>1, <1>2 DEF IInv, CoreInv
<1>5. CASE pc = "stopping"
  <2>1. CallInv'
    BY <1>1, <1>2, <1>5 DEF IInv, CallInv, Untouched
  <2> QED BY <1>3, <1>4, <2>1 DEF IInv
<1>6. CASE pc = "await"
  <2>1. Last /\ ~Failed /\ Effect
    BY <1>1, <1>6 DEF IInv, CallInv, InProgress
  <2>2. k \in 1 .. Len(Program(call))
    BY <1>6, InCall
  <2>3. ~Failed'
    BY <2>1 DEF Failed
  <2>4. Effect'
    BY <1>2, <2>1 DEF Effect, Pointer, Value, Reads
  <2>5. Stage(k)'
    BY <1>2, <2>1, <2>2, <2>4 DEF Stage, Last
  <2>6. CallInv'
    BY <1>2, <1>6, <2>3, <2>5 DEF IInv, CallInv
  <2> QED BY <1>3, <1>4, <2>6 DEF IInv
<1> QED BY <1>1, <1>5, <1>6

(* Arbitration is only lost in the first byte, and to somebody else's.     *)
LEMMA LoseArbitrationIInv ==
  ASSUME IInv, LoseArbitration, UNCHANGED <<driver, faults, before>>
  PROVE  IInv'
<1> USE DEF LoseArbitration, driver
<1>1. pc = "await" /\ InProgress /\ k = 1
  BY Transferring, Owned
<1>2. Addressed
  <2>1. call \in Device!Call /\ k \in 1 .. Len(Program(call))
    BY <1>1, InCall
  <2> QED BY <1>1, <2>1, Commands DEF InProgress
<1>3. CoreIdle' /\ cr' \subseteq CommandBit /\ UNCHANGED <<streamSt, regAddr, txData, mem, attached>>
  BY DEF CoreIdle, CommandBit, SlaveIgnores
<1>4. TypeOK'
  <2>1. c_state' \in CState /\ irq_flag' \in BOOLEAN /\ al' \in BOOLEAN /\ rxack' \in BOOLEAN
    BY DEF CState
  <2>2. startDet' \in BOOLEAN
    BY DEF SlaveIgnores, IInv, TypeOK, SlaveTypeOK
  <2> QED BY <1>3, <2>1, <2>2 DEF IInv, TypeOK, SlaveTypeOK, MasterTypeOK
<1>5. CoreInv'
  BY <1>1, <1>3 DEF IInv, CoreInv
<1>6. CallInv'
  <2>1. Untouched' /\ Failed'
    BY <1>1, <1>2, <1>3 DEF Addressed, Untouched, Failed
  <2> QED BY <1>1, <2>1 DEF IInv, CallInv
<1> QED BY <1>4, <1>5, <1>6 DEF IInv

LEMMA WinArbitrationIInv ==
  ASSUME IInv, WinArbitration, UNCHANGED <<driver, faults, before>>
  PROVE  IInv'
<1> USE DEF WinArbitration, driver, core, slave
<1>1. pc = "await" /\ ~irq_flag /\ InProgress /\ k = 1
  BY Transferring, Owned
<1>2. Addressed
  <2>1. call \in Device!Call /\ k \in 1 .. Len(Program(call))
    BY <1>1, InCall
  <2> QED BY <1>1, <2>1, Commands DEF InProgress
<1>3. TypeOK'
  BY DEF IInv, TypeOK, SlaveTypeOK, MasterTypeOK
<1>4. CoreInv'
  BY DEF IInv, CoreInv, CoreIdle
<1>5. CallInv'
  <2>1. Addressed'
    BY <1>1, <1>2 DEF Addressed
  <2>2. InProgress'
    <3>1. call \in Device!Call /\ k \in 1 .. Len(Program(call)) /\ "STA" \in cmd.bits
      BY <1>1, InCall, Commands
    <3> QED BY <1>1, <2>1, <3>1 DEF InProgress, cmd
  <2> QED BY <1>1, <2>2 DEF IInv, CallInv
<1> QED BY <1>3, <1>4, <1>5 DEF IInv

LEMMA CoreIInv == ASSUME IInv, Core PROVE IInv'
BY BeginIInv, StartIInv, WriteByteIInv, ReadByteIInv, StopIInv, LoseArbitrationIInv,
   WinArbitrationIInv DEF Core, CoreStep

LEMMA NextIInv == ASSUME IInv, [Next]_vars PROVE IInv'
<1>1. CASE \E c \in Device!Call : Enter(c)
  BY <1>1, EnterIInv
<1>2. CASE \E r, v \in Byte : WriteSlave(r, v)
  BY <1>2, WriteSlaveIInv
<1>3. CASE UNCHANGED vars
  <2> USE <1>3 DEF vars, master, core, slave, driver
  <2>1. TypeOK'
    BY DEF IInv, TypeOK, SlaveTypeOK, MasterTypeOK
  <2>2. CoreInv'
    BY DEF IInv, CoreInv, CoreIdle
  <2>3. ASSUME NEW s, Stage(s) PROVE Stage(s)'
    BY <2>3, StageStays
  <2>4. ASSUME InProgress PROVE InProgress'
    BY <2>3, <2>4 DEF InProgress, cmd, Addressed, Last, Failed, Effect, Pointer, Value, Reads
  <2>5. CallInv'
    BY <2>3, <2>4 DEF IInv, CallInv, Untouched, Snapshot, Failed, Last, Reads
  <2> QED BY <2>1, <2>2, <2>5 DEF IInv
<1> QED BY <1>1, <1>2, <1>3, DriverIInv, CoreIInv, SurroundingsIInv DEF Next

-----------------------------------------------------------------------------
(* The invariant holds of every behaviour.                                 *)
THEOREM InvariantHolds == Spec => []IInv
BY InitIInv, NextIInv, PTL DEF Spec

(* Every variable keeps its type.                                          *)
THEOREM TypeCorrect == Spec => []TypeOK
<1>1. IInv => TypeOK
  BY DEF IInv
<1> QED BY <1>1, InvariantHolds, PTL

(* The driver writes no command into one that is in progress, whatever     *)
(* bits the interrupt flag and TIP have on the way.                        *)
THEOREM CommandsSafe == Spec => []CommandsOnlyToAnIdleCore
<1>1. IInv => CommandsOnlyToAnIdleCore
  BY DEF IInv, CoreInv, CoreIdle, CommandsOnlyToAnIdleCore
<1> QED BY <1>1, InvariantHolds, PTL

(* A call that returns has released the bus.                               *)
THEOREM BusReleased == Spec => []BusReleasedBetweenCalls
<1>1. IInv => BusReleasedBetweenCalls
  BY DEF IInv, CallInv, BusReleasedBetweenCalls
<1> QED BY <1>1, InvariantHolds, PTL

-----------------------------------------------------------------------------
(* The driver is a RegisterDevice: the step with which a call returns is   *)
(* where it takes effect, and the invariant says what it has done by then. *)
LEMMA DeviceInit == ASSUME Init PROVE Device!Init
<1>1. mem \in [Byte -> Byte] /\ regAddr \in Byte /\ before = Snapshot
  BY InitIInv DEF Init, IInv, TypeOK, SlaveTypeOK
<1> QED BY <1>1 DEF Init, Device!Init, Device!Byte, Byte, Snapshot

\* A step that neither begins nor ends a call is not seen, and outside a
\* call neither are those that leave the pointer and the registers alone.
LEMMA Unseen ==
  ASSUME pc' = pc \/ (pc # "idle" /\ pc' # "idle"),
         pc = "idle" => UNCHANGED <<mem, regAddr>>,
         UNCHANGED <<call, result, before>>
  PROVE  UNCHANGED Device!vars
BY DEF Device!vars

LEMMA Returned ==
  ASSUME IInv, pc \in {"await", "rxr"}, Stage(k), Last,
         pc' = "idle", call' = Device!NoCall, UNCHANGED <<mem, regAddr>>,
         IF Reads(call) THEN result' = rxr ELSE result' = result
  PROVE  Device!Next
<1> USE DEF Device!Return, Device!After, After
<1>1. call \in Device!Call /\ Effect
  BY InCall DEF Stage, Last
<1>2. CASE call.fn = "write"
  BY <1>1, <1>2 DEF Effect, Pointer, Reads, Device!Next, Device!SetPointer
<1>3. CASE call.fn = "write_reg"
  BY <1>1, <1>3 DEF Effect, Pointer, Reads, Device!Next, Device!WriteRegister
<1>4. CASE call.fn = "read"
  BY <1>1, <1>4 DEF Effect, Pointer, Value, Reads, Device!Next, Device!ReadNext
<1>5. CASE call.fn = "read_reg"
  BY <1>1, <1>5 DEF Effect, Pointer, Value, Reads, Device!Next, Device!ReadRegister
<1> QED BY <1>1, <1>2, <1>3, <1>4, <1>5, Lengths

LEMMA DeviceStep == ASSUME IInv, [Next]_vars PROVE [Device!Next]_(Device!vars)
<1> USE DEF slave, master, driver
<1>1. ASSUME NEW c \in Device!Call, Enter(c) PROVE Device!Next
  <2>1. call = Device!NoCall
    BY <1>1 DEF Enter, IInv, CallInv
  <2>2. Device!Invoke(c)
    BY <1>1, <2>1 DEF Enter, Snapshot, Device!Invoke
  <2> QED BY <2>2 DEF Device!Next
<1>2. CASE oc_i2c_master_init
  <2>1. mem = before.regs /\ regAddr = before.ptr
    BY <1>2 DEF oc_i2c_master_init, IInv, CallInv, Snapshot
  <2> QED BY <1>2, <2>1 DEF oc_i2c_master_init, WriteCTR, Device!vars
<1>3. CASE WaitTip \/ ReadBusy \/ OrderStop \/ WaitStop \/ Issue
  BY <1>3, Unseen DEF WaitTip, ReadBusy, OrderStop, WaitStop, Issue, Goto
<1>4. CASE Await
  <2>1. CASE pc' = "idle"
    <3>1. irq_flag /\ ~Failed /\ Last /\ ~Reads(call) /\ call' = Device!NoCall
      BY <1>4, <2>1 DEF Await, Finish, Ended, Last
    <3>2. Stage(k)
      BY <1>4, <3>1 DEF Await, IInv, CallInv
    <3> QED BY <1>4, <2>1, <3>1, <3>2, Returned DEF Await
  <2>2. CASE pc' # "idle"
    BY <1>4, <2>2, Unseen DEF Await, Finish
  <2> QED BY <2>1, <2>2
<1>5. CASE ReadRXR
  <2>1. Reads(call) /\ Last /\ Stage(k)
    BY <1>5 DEF ReadRXR, IInv, CallInv
  <2> QED BY <1>5, <2>1, Returned DEF ReadRXR
<1>6. ASSUME NEW r \in Byte, NEW v \in Byte, WriteSlave(r, v) PROVE Device!Next
  <2>1. call = Device!NoCall
    BY <1>6 DEF WriteSlave, IInv, CallInv
  <2>2. Device!WriteLocally(r, v)
    BY <1>6, <2>1 DEF WriteSlave, LocalWrite, Device!WriteLocally
  <2> QED BY <2>2 DEF Device!Next, Device!Byte, Byte
<1>7. CASE Core
  <2>1. pc # "idle"
    BY <1>7 DEF IInv, CoreInv, CoreIdle, Core, CoreStep, Begin, Start, WriteByte, ReadByte,
                Stop, LoseArbitration, WinArbitration
  <2> QED BY <1>7, <2>1, Unseen DEF Core
<1>8. CASE Bus \/ OtherBegins \/ OtherEnds \/ Disconnect \/ Connect
  BY <1>8, Unseen DEF Bus, SeeBus, OtherBegins, OtherStarts, SlaveStart, OtherEnds, OtherStops,
                      SlaveStop, Disconnect, Connect
<1>9. CASE UNCHANGED vars
  BY <1>9, Unseen DEF vars
<1> QED BY <1>1, <1>2, <1>3, <1>4, <1>5, <1>6, <1>7, <1>8, <1>9 DEF Next, DriverStep

(* With all its retries, and whatever another master and the connection of *)
(* the slave do meanwhile, every call takes effect once and in order.      *)
THEOREM DriverIsDevice == Spec => DeviceBehaviour
BY DeviceInit, DeviceStep, InvariantHolds, PTL DEF Spec, DeviceBehaviour, Device!Spec
=============================================================================
