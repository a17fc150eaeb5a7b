--------------------------- MODULE ShaController ---------------------------
(***************************************************************************)
(* SHA_256_Controller: a read master fetches the padded message from SDRAM *)
(* into a FIFO, the block assembler shifts Words words at a time into the  *)
(* block register mem and offers it to the SHA-256 core, and when the core *)
(* is done a write master stores the digest.  All of this runs on the bus  *)
(* clock; the core (ShaCore) has a clock of its own, slower, but by less   *)
(* than a factor of MaxRatio.                                              *)
(*                                                                         *)
(* A word is <<run, index>>: word index of the message of that run.        *)
(***************************************************************************)
EXTENDS ShaCore

CONSTANTS Words,        \* words per block (16 in the code)
          DigestWords,  \* words of the digest (8 in the code)
          FifoDepth,    \* words in the FIFO (256 in the code)
          MaxPending,   \* bound: reads the interconnect keeps in flight
          MaxRatio      \* most bus clock edges between two core clock edges

VARIABLES
  control,  \* the control register: "clear" (4), "reset" (0) or "run" (3)
  rm,       \* read master: state, and index = (address - start) / 4
  pending,  \* reads accepted by the bus whose data has not come back
  fifo, q,  \* the FIFO and its output register
  tm,       \* assembler: state, count, rd (fifo_read), write_done, enable
  mem,      \* the block register
  wm,       \* write master: state, and index = (address - start) / 4
  digest,   \* the digest words in SDRAM: the run they belong to, 0 if wrong
  phase     \* bus clock edges since the last core clock edge

busVars == <<control, rm, pending, fifo, q, tm, mem, wm, digest>>
shaVars == <<busVars, coreVars, phase>>

Length == Words * Blocks
resetn == control = "run"
start_read == control = "run"
oRead == rm.state = 2
fifo_full == Len(fifo) = FifoDepth
(* Slip of the end of the message: one word too many. *)
master_read_doneLate == rm.index = Length + 1

master_read_done == rm.index = Length
master_write_done == wm.index = DigestWords
Block(run, b) == [w \in 1 .. Words |-> <<run, b * Words + w - 1>>]

ControllerInit ==
  /\ control = "reset"
  /\ rm = [state |-> 0, index |-> 0]
  /\ pending = << >> /\ fifo = << >> /\ q = Nothing
  /\ tm = [state |-> 0, count |-> 0, rd |-> FALSE, write_done |-> FALSE,
           enable |-> FALSE]
  /\ mem = Nothing
  /\ wm = [state |-> 0, index |-> 0]
  /\ digest = [w \in 1 .. DigestWords |-> 0]
  /\ phase = 0
  /\ CoreInit

-----------------------------------------------------------------------------
(* The read master: one read at a time, not waiting for its data.          *)
ReadMaster(wait) ==
  rm' = CASE ~resetn -> [state |-> 0, index |-> 0]
          [] resetn /\ rm.state = 0 ->
               IF start_read THEN [state |-> 1, index |-> 0] ELSE rm
          [] resetn /\ rm.state = 1 -> [rm EXCEPT !.state = 2]
          [] resetn /\ rm.state = 2 ->
               IF wait \/ fifo_full
               THEN rm ELSE [state |-> 3, index |-> rm.index + 1]
          [] resetn /\ rm.state = 3 ->
               IF master_read_done THEN rm ELSE [rm EXCEPT !.state = 1]

(* The interconnect: a read is accepted in a clock without wait; data      *)
(* comes back in order, at least one clock later.                          *)
Interconnect(wait, valid, run) ==
  /\ Len(pending) = MaxPending => wait
  /\ valid => pending # << >>
  /\ pending' = (IF valid THEN Tail(pending) ELSE pending)
                \o (IF oRead /\ ~wait THEN <<<<run, rm.index>>>> ELSE << >>)

(* The FIFO: its asynchronous clear is control[2]; resetn does not reach   *)
(* it, and whatever data the bus returns is written.                       *)
Fifo(valid) ==
  LET popping == tm.rd /\ fifo # << >>
  IN  /\ fifo' = IF control = "clear" THEN << >>
                 ELSE (IF popping THEN Tail(fifo) ELSE fifo)
                      \o (IF valid /\ ~fifo_full
                          THEN <<Head(pending)>> ELSE << >>)
      /\ q' = IF control # "clear" /\ popping THEN Head(fifo) ELSE q

(* mem <= {mem[479:0], fifo_out_data} *)
ShiftIn(word) ==
  mem' = IF Len(mem) < Words THEN Append(mem, word)
         ELSE Append(Tail(mem), word)

(* The assembler: a word takes three clocks; with the last one the block   *)
(* is offered until the core has taken it.                                 *)
Assembler ==
  IF ~resetn
  THEN /\ tm' = [state |-> 0, count |-> 0, rd |-> FALSE, write_done |-> FALSE,
                 enable |-> FALSE]
       /\ UNCHANGED mem
  ELSE CASE tm.state = 0 ->
              /\ tm' = IF fifo # << >> /\ ~tm.write_done
                       THEN [tm EXCEPT !.rd = TRUE, !.state = 1] ELSE tm
              /\ UNCHANGED mem
         [] tm.state = 1 ->
              /\ tm' = [tm EXCEPT !.rd = FALSE, !.state = 2]
              /\ UNCHANGED mem
         [] tm.state = 2 ->
              /\ ShiftIn(q)
              /\ tm' = IF tm.count = Words - 1
                       THEN [tm EXCEPT !.count = 0, !.state = 3,
                                       !.write_done = TRUE, !.enable = TRUE]
                       ELSE [tm EXCEPT !.count = @ + 1, !.state = 0]
         [] tm.state = 3 ->
              /\ tm' = IF core.pulse
                       THEN [tm EXCEPT !.write_done = FALSE, !.count = 0,
                                       !.state = 0]
                       ELSE tm
              /\ UNCHANGED mem

(* The write master: started by oDone, one digest word per write.          *)
WriteMaster(wait, run) ==
  /\ wm' = CASE ~resetn -> [state |-> 0, index |-> 0]
             [] resetn /\ wm.state = 0 ->
                  IF oDone THEN [state |-> 1, index |-> 0] ELSE wm
             [] resetn /\ wm.state = 1 -> [wm EXCEPT !.state = 2]
             [] resetn /\ wm.state = 2 ->
                  IF wait THEN wm ELSE [state |-> 3, index |-> wm.index + 1]
             [] resetn /\ wm.state = 3 ->
                  IF master_write_done THEN wm ELSE [wm EXCEPT !.state = 1]
  /\ digest' = IF wm.state = 2 /\ ~wait
               THEN [digest EXCEPT ![wm.index + 1] = IF hashOK THEN run ELSE 0]
               ELSE digest

(* One edge of the bus clock: every register moves at once. *)
BusEdge(waitR, valid, waitW, run) ==
  /\ phase < MaxRatio
  /\ phase' = phase + 1
  /\ ReadMaster(waitR)
  /\ Interconnect(waitR, valid, run)
  /\ Fifo(valid)
  /\ Assembler
  /\ WriteMaster(waitW, run)
  /\ UNCHANGED <<control, coreVars>>

(* One edge of the core clock: at least one bus edge after the last.       *)
ShaEdge(run) ==
  /\ phase > 0
  /\ phase' = 0
  /\ CoreEdge(tm.enable, tm.write_done, mem, [b \in 0 .. Blocks - 1 |-> Block(run, b)])
  /\ UNCHANGED busVars
=============================================================================
