------------------------------ MODULE ShaCore ------------------------------
(***************************************************************************)
(* The SHA-256 core: the block controller of SHA_256.v, the message        *)
(* Scheduler and the Compressor, all on the core's own clock.  The         *)
(* Scheduler turns one block into Rounds round words, one per clock; the   *)
(* Compressor uses one per clock and starts the next block by itself.      *)
(*                                                                         *)
(* A block is the sequence of the words it is made of and a round word is  *)
(* <<block, round>>.  The hash value is abstracted to hashOK: every round  *)
(* so far used the round word it should have.                              *)
(***************************************************************************)
EXTENDS Naturals, Sequences

CONSTANTS Rounds,      \* rounds per block (64 in the code)
          Blocks       \* iNumberBlock, the blocks of a message

VARIABLES
  core,     \* controller_state, and pulse = oReadBlock
  sch,      \* the Scheduler: busy (scheduler_state), iterations, the loaded
            \*   message, ready (data_ready), the block W being expanded
  oW,       \* the round word on its way to the Compressor
  cmp,      \* the Compressor: state, iterations, block_i
  hashOK,   \* H is the hash of the blocks it should be the hash of
  late      \* a block was started whose round words had not been started

coreVars == <<core, sch, oW, cmp, hashOK, late>>

Nothing == << >>

CoreInit ==
  /\ core = [state |-> 0, pulse |-> FALSE]
  /\ sch = [busy |-> FALSE, iterations |-> 0, message |-> Nothing,
            ready |-> FALSE, W |-> Nothing]
  /\ oW = Nothing
  /\ cmp = [state |-> 0, iterations |-> 0, block_i |-> 0]
  /\ hashOK = TRUE
  /\ late = FALSE

oDone == cmp.state = 4

(* Slip: a block is taken whether or not the last one has been used. *)
DataRequestAlways == TRUE

DataRequest == ~sch.ready

(* !iEnable: every register of the core is reset. *)
Disabled ==
  /\ core' = [state |-> 0, pulse |-> FALSE]
  /\ sch' = [sch EXCEPT !.busy = FALSE, !.iterations = 0, !.message = Nothing,
                        !.ready = FALSE]
  /\ oW' = Nothing
  /\ cmp' = [state |-> 0, iterations |-> 0, block_i |-> 0]
  /\ hashOK' = TRUE
  /\ late' = FALSE

-----------------------------------------------------------------------------
(* SHA_256: a pulse of oReadBlock takes each block that is offered.        *)
TakeBlock(state) == core' = [state |-> state, pulse |-> TRUE]

Controller(dataValid) ==
  CASE core.state = 0 ->
         IF dataValid /\ DataRequest THEN TakeBlock(1) ELSE UNCHANGED core
    [] core.state = 1 ->
         IF oDone THEN core' = [state |-> 3, pulse |-> FALSE]
         ELSE IF dataValid /\ DataRequest THEN TakeBlock(2)
         ELSE core' = [core EXCEPT !.pulse = FALSE]
    [] core.state = 2 -> core' = [state |-> 1, pulse |-> FALSE]
    [] core.state = 3 -> UNCHANGED core

(* Scheduler: the load of the next block runs beside the expansion of the  *)
(* present one; taking the loaded block wins over a load in the same clock.*)
Scheduler(iMessage) ==
  LET taking == ~sch.busy /\ sch.ready
      last   == sch.busy /\ sch.iterations = Rounds - 1
  IN  /\ sch' = [ busy       |-> taking \/ (sch.busy /\ ~last),
                  iterations |-> IF taking THEN 0
                                 ELSE IF sch.busy
                                      THEN (sch.iterations + 1) % Rounds
                                      ELSE sch.iterations,
                  message    |-> IF core.pulse THEN iMessage ELSE sch.message,
                  ready      |-> ~taking /\ (core.pulse \/ sch.ready),
                  W          |-> IF taking THEN sch.message ELSE sch.W ]
      /\ oW' = IF sch.busy THEN <<sch.W, sch.iterations>> ELSE oW

(* Compressor: after the first start it never waits for the Scheduler.     *)
Compressor(blockWanted) ==
  LET fed == sch.busy /\ sch.iterations = 0
  IN  CASE cmp.state = 0 ->
             /\ cmp' = IF sch.ready THEN [cmp EXCEPT !.state = 1] ELSE cmp
             /\ UNCHANGED <<hashOK, late>>
        [] cmp.state = 1 ->
             /\ cmp' = [cmp EXCEPT !.state = 2]
             /\ UNCHANGED <<hashOK, late>>
        [] cmp.state = 2 ->
             /\ cmp' = [cmp EXCEPT !.iterations = @ + 1,
                                   !.state = IF cmp.iterations + 1 = Rounds
                                             THEN 3 ELSE 2]
             /\ hashOK' = (hashOK /\ oW = <<blockWanted[cmp.block_i],
                                            cmp.iterations>>)
             /\ UNCHANGED late
        [] cmp.state = 3 /\ cmp.block_i = Blocks - 1 ->
             /\ cmp' = [cmp EXCEPT !.iterations = 0, !.state = 4]
             /\ UNCHANGED <<hashOK, late>>
        [] cmp.state = 3 /\ cmp.block_i # Blocks - 1 ->
             /\ cmp' = [cmp EXCEPT !.iterations = 0, !.state = 2,
                                   !.block_i = @ + 1]
             /\ late' = (late \/ ~fed)
             /\ UNCHANGED hashOK
        [] cmp.state = 4 -> UNCHANGED <<cmp, hashOK, late>>

(* One edge of the core's clock. *)
CoreEdge(enable, dataValid, iMessage, blockWanted) ==
  IF enable
  THEN Controller(dataValid) /\ Scheduler(iMessage) /\ Compressor(blockWanted)
  ELSE Disabled

=============================================================================
