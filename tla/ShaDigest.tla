----------------------------- MODULE ShaDigest -----------------------------
(***************************************************************************)
(* The program's use of the SHA-256 engine: SHA_256_Intit sets the         *)
(* addresses and the length, clears, resets and starts the engine, and     *)
(* SHA_256_CheckDone polls the status register until the digest has been   *)
(* written.  The program hashes Runs messages one after the other, in the  *)
(* same buffers.                                                           *)
(***************************************************************************)
EXTENDS ShaController

CONSTANT Runs           \* bound: messages hashed

ASSUME ShaAssumption ==
  /\ Rounds \in Nat \ {0, 1} /\ Blocks \in Nat \ {0}
  /\ Words \in Nat \ {0, 1} /\ DigestWords \in Nat \ {0}
  /\ FifoDepth \in Nat
  /\ Words * Blocks < FifoDepth \* 15 blocks of 16 words in a FIFO of 256
  /\ MaxPending \in Nat \ {0} /\ Runs \in Nat \ {0}
  /\ MaxRatio \in 1 .. 2        \* a bus of 150 MHz, a core of 80 MHz

VARIABLES
  pc,       \* what the program does next
  run,      \* the message being hashed; the message in the buffer
  clocked,  \* a bus clock edge has passed since the last register write
  leftover  \* the engine was started with words of another run in it

vars == <<shaVars, pc, run, clocked, leftover>>

Init ==
  /\ ControllerInit
  /\ pc = "message" /\ run = 0 /\ clocked = TRUE /\ leftover = FALSE

-----------------------------------------------------------------------------
(* main stores the padded message where the last one was. *)
Message ==
  /\ pc = "message" /\ run < Runs
  /\ run' = run + 1
  /\ pc' = "clear"
  /\ UNCHANGED <<shaVars, clocked, leftover>>

(* SHA_256_Configure_Control *)
Control(at, value, next) ==
  /\ pc = at /\ clocked
  /\ control' = value
  /\ pc' = next
  /\ clocked' = FALSE
  /\ UNCHANGED <<rm, pending, fifo, q, tm, mem, wm, digest, coreVars, phase,
                 run>>

(* Slip: the engine is started again without a reset. *)
SHA_256_IntitUnreset ==
  Control("clear", "run", "poll") /\ leftover' = FALSE

(* Slip: the reset is never released. *)
SHA_256_IntitHeld ==
  \/ Control("clear", "clear", "reset") /\ UNCHANGED leftover
  \/ Control("reset", "reset", "poll") /\ UNCHANGED leftover

(* SHA_256_Intit: the address and length registers keep their values.      *)
SHA_256_Intit ==
  \/ Control("clear", "clear", "reset") /\ UNCHANGED leftover
  \/ Control("reset", "reset", "start") /\ UNCHANGED leftover
  \/ /\ Control("start", "run", "poll")
     /\ leftover' = (pending # << >> \/ fifo # << >>)

(* SHA_256_CheckDone: leave the loop when the write master is done.        *)
SHA_256_CheckDone ==
  /\ pc = "poll" /\ clocked /\ master_write_done
  /\ pc' = "done"
  /\ UNCHANGED <<shaVars, run, clocked, leftover>>

(* main reads the digest and goes on. *)
ReadDigest ==
  /\ pc = "done"
  /\ pc' = "message"
  /\ UNCHANGED <<shaVars, run, clocked, leftover>>

Program == Message \/ SHA_256_Intit \/ SHA_256_CheckDone \/ ReadDigest

Bus(waitR, valid, waitW) ==
  /\ BusEdge(waitR, valid, waitW, run)
  /\ clocked' = TRUE
  /\ UNCHANGED <<pc, run, leftover>>

BusClock == \E waitR, valid, waitW \in BOOLEAN : Bus(waitR, valid, waitW)

(* A bus clock in which the memory makes the engine wait for nothing.      *)
FreeBus == \E waitR \in BOOLEAN :
             /\ waitR = (Len(pending) = MaxPending)
             /\ Bus(waitR, pending # << >>, FALSE)

ShaClock == ShaEdge(run) /\ UNCHANGED <<pc, run, clocked, leftover>>

Next == Program \/ BusClock \/ ShaClock

Spec == Init /\ [][Next]_vars

FairSpec == Spec /\ WF_vars(Program) /\ WF_vars(ShaClock) /\ SF_vars(FreeBus)

-----------------------------------------------------------------------------
(* Every register holds a value of its width. *)
TypeOK ==
  /\ control \in {"clear", "reset", "run"}
  /\ rm \in [state : 0 .. 3, index : 0 .. Length]
  /\ wm \in [state : 0 .. 3, index : 0 .. DigestWords]
  /\ Len(fifo) <= FifoDepth /\ Len(pending) <= MaxPending
  /\ Len(mem) <= Words
  /\ tm.state \in 0 .. 3 /\ tm.count \in 0 .. Words - 1
  /\ cmp \in [state : 0 .. 4, iterations : 0 .. Rounds,
              block_i : 0 .. Blocks - 1]
  /\ digest \in [1 .. DigestWords -> 0 .. Runs]
  /\ phase \in 0 .. MaxRatio
  /\ pc \in {"message", "clear", "reset", "start", "poll", "done"}

(* The block handed over the clock boundary is always one whole block of   *)
(* the message, and the block after the one handed over before: mem is not *)
(* taken while it is being shifted or out of turn, and no block replaces   *)
(* one that the Scheduler has not used.                                    *)
BlocksHandedOver ==
  [][core.pulse /\ ~leftover /\ sch'.message # sch.message =>
       /\ ~sch.ready
       /\ \E b \in 0 .. Blocks - 1 :
            /\ sch'.message = Block(run, b)
            /\ sch.message = IF b = 0 THEN Nothing ELSE Block(run, b - 1)]_vars

(* When SHA_256_CheckDone returns, SDRAM holds the digest of the message   *)
(* that is in the buffer now, every word of it - unless the memory was     *)
(* late with a block, in which case the digest is always wrong, and        *)
(* nothing says so.  Only such a run leaves words behind for the next one, *)
(* which the reset does not remove.                                        *)
DigestRightUnlessLate ==
  pc = "done" /\ ~leftover =>
    /\ digest = [w \in 1 .. DigestWords |-> IF late THEN 0 ELSE run]
    /\ ~late => pending = << >> /\ fifo = << >>

(* A digest is always reported, late memory or not. *)
CheckDoneReturns == pc = "poll" ~> pc = "done"
=============================================================================
