--------------------------- MODULE RegisterDevice ---------------------------
(***************************************************************************)
(* What a program may expect of a device with addressable registers and an *)
(* address pointer, such as the I2C slave: every call that returns has     *)
(* taken effect exactly once, in the order of the calls.                   *)
(***************************************************************************)
EXTENDS Integers

CONSTANTS MaxByte    \* the largest value of a register, and the last address

Byte == 0 .. MaxByte

VARIABLES regs,      \* the value of each register
          ptr,       \* the register the next access without an address uses
          call,      \* the call in progress
          result     \* what the last read returned

vars == <<regs, ptr, call, result>>

NoCall == [fn |-> "none"]
NoValue == -1

Call ==
    [fn : {"write"}, data : Byte] \cup [fn : {"write_reg"}, reg : Byte, data : Byte]
    \cup [fn : {"read"}] \cup [fn : {"read_reg"}, reg : Byte]

After(r) == (r + 1) % (MaxByte + 1)

Init ==
    /\ regs \in [Byte -> Byte]
    /\ ptr \in Byte
    /\ call = NoCall
    /\ result = NoValue

Invoke(c) ==
    /\ call = NoCall
    /\ call' = c
    /\ UNCHANGED <<regs, ptr, result>>

\* A single byte written to the device is an address.
SetPointer ==
    /\ call.fn = "write"
    /\ ptr' = call.data
    /\ UNCHANGED <<regs, result>>

WriteRegister ==
    /\ call.fn = "write_reg"
    /\ regs' = [regs EXCEPT ![call.reg] = call.data]
    /\ ptr' = After(call.reg)
    /\ UNCHANGED result

ReadNext ==
    /\ call.fn = "read"
    /\ result' = regs[ptr]
    /\ ptr' = After(ptr)
    /\ UNCHANGED regs

ReadRegister ==
    /\ call.fn = "read_reg"
    /\ result' = regs[call.reg]
    /\ ptr' = After(call.reg)
    /\ UNCHANGED regs

Return ==
    /\ SetPointer \/ WriteRegister \/ ReadNext \/ ReadRegister
    /\ call' = NoCall

\* The registers have a second port, used between two calls.
WriteLocally(r, v) ==
    /\ call = NoCall
    /\ regs' = [regs EXCEPT ![r] = v]
    /\ UNCHANGED <<ptr, call, result>>

Next ==
    \/ \E c \in Call : Invoke(c)
    \/ Return
    \/ \E r, v \in Byte : WriteLocally(r, v)

Spec == Init /\ [][Next]_vars
=============================================================================
