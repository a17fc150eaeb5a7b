-------------------------- MODULE ShaDigest_proofs --------------------------
(***************************************************************************)
(* The SHA-256 engine for every number and size of blocks, every number of *)
(* rounds and every memory: it hands over whole blocks in order, and the   *)
(* digest is the right one exactly if the memory was never late.           *)
(***************************************************************************)
EXTENDS ShaDigest, SequenceTheorems, TLAPS

-----------------------------------------------------------------------------
(* Registers.                                                              *)
Word == Nat \X Nat

Signals == [state : 0 .. 3, count : 0 .. Words - 1, rd : BOOLEAN,
            write_done : BOOLEAN, enable : BOOLEAN]

Registers ==
  /\ run \in 0 .. Runs /\ clocked \in BOOLEAN /\ leftover \in BOOLEAN
  /\ pending \in Seq(Word) /\ fifo \in Seq(Word) /\ mem \in Seq(Word)
  /\ tm \in Signals
  /\ core \in [state : 0 .. 3, pulse : BOOLEAN]
  /\ sch \in [busy : BOOLEAN, iterations : 0 .. Rounds - 1, message : Seq(Word),
              ready : BOOLEAN, W : Seq(Word)]
  /\ hashOK \in BOOLEAN /\ late \in BOOLEAN

\* An address is put on the bus only while there is a word left.
Masters ==
  /\ rm.state = 0 => rm.index = 0
  /\ rm.state \in {1, 2} => rm.index < Length
  /\ wm.state = 0 => wm.index = 0
  /\ wm.state \in {1, 2} => wm.index < DigestWords

\* The signals of the assembler follow from its state.
Assembling ==
  /\ tm.rd <=> tm.state = 1
  /\ tm.write_done <=> tm.state = 3
  /\ tm.state = 1 => fifo # << >>
  /\ tm.state = 2 => q \in Word
  /\ tm.state = 3 => tm.count = 0 /\ tm.enable

Typed ==
  /\ TypeOK
  /\ Registers
  /\ Masters
  /\ Assembling
  /\ cmp.state # 3 => cmp.iterations < Rounds

-----------------------------------------------------------------------------
(* Reset and start.                                                        *)

\* Every register of the bus side is reset.
AtReset ==
  /\ rm.state = 0 /\ rm.index = 0
  /\ wm.state = 0 /\ wm.index = 0
  /\ tm.state = 0 /\ tm.count = 0 /\ ~tm.enable

\* Every register of the core is reset.
Clean ==
  /\ core.state = 0 /\ ~core.pulse
  /\ ~sch.busy /\ sch.iterations = 0 /\ sch.message = Nothing /\ ~sch.ready
  /\ cmp.state = 0 /\ cmp.iterations = 0 /\ cmp.block_i = 0
  /\ hashOK /\ ~late

\* What the two sides know of each other while the engine runs.
Live ==
  /\ tm.enable \/ Clean
  /\ wm.state # 0 => cmp.state = 4
  /\ cmp.state = 4 /\ core.pulse => wm.index = 0 /\ wm.state <= phase
  /\ core.state = 0 => ~core.pulse /\ ~sch.ready /\ cmp.state = 0
  /\ core.state = 2 => core.pulse
  /\ core.state = 3 => ~core.pulse

\* Started, and the core has not had its clock edge since the reset.
Dirty == AtReset /\ ~core.pulse /\ phase >= 2

Written == Live /\ wm.index = DigestWords

Phases ==
  /\ pc \in {"message", "clear"} =>
       \/ control = "reset" /\ AtReset /\ Clean
       \/ control = "run" /\ Written
  /\ pc = "reset" =>
       /\ control = "clear" /\ ~core.pulse
       /\ IF clocked THEN AtReset /\ (Clean \/ phase >= 1)
          ELSE IF tm.enable THEN cmp.state = 4 /\ core.state \in {1, 3}
          ELSE Clean
  /\ pc = "start" =>
       /\ control = "reset" /\ ~core.pulse /\ AtReset
       /\ Clean \/ phase >= (IF clocked THEN 2 ELSE 1)
  /\ pc = "poll" => control = "run" /\ (Live \/ Dirty)
  /\ pc = "done" => control = "run" /\ Written

-----------------------------------------------------------------------------
(* The words of a message on their way, m blocks handed over.              *)
Popped == rm.index - Len(pending) - Len(fifo)

Shifted == IF tm.state = 2 THEN Popped - 1 ELSE Popped

Assembled(m) == IF tm.state = 3 \/ core.pulse THEN m + 1 ELSE m

InOrder ==
  /\ \A k \in 1 .. Len(fifo) : fifo[k] = <<run, Popped + k - 1>>
  /\ \A k \in 1 .. Len(pending) : pending[k] = <<run, Popped + Len(fifo) + k - 1>>
  /\ tm.state = 2 => q = <<run, Popped - 1>>

Stream(m) ==
  /\ InOrder
  /\ Shifted = Words * Assembled(m) + tm.count
  /\ Len(mem) >= tm.count
  /\ \A k \in 1 .. tm.count :
       mem[Len(mem) - tm.count + k] = <<run, Words * Assembled(m) + k - 1>>
  /\ tm.state = 3 \/ core.pulse => mem = Block(run, m)
  /\ core.pulse => /\ ~sch.ready /\ tm.count = 0
                   /\ IF tm.state = 3 THEN phase = 0 ELSE tm.state < phase
  /\ sch.message = IF m = 0 THEN Nothing ELSE Block(run, m - 1)

(* The blocks the Scheduler has begun.                                     *)
Begun(m) == IF sch.ready THEN m - 1 ELSE m

\* The Scheduler is one clock ahead of the Compressor.
InTime(w) ==
  /\ hashOK
  /\ cmp.state = 0 => w = 0 /\ cmp.block_i = 0
  /\ cmp.state = 1 => w = 1 /\ sch.busy /\ sch.iterations = 0 /\ cmp.block_i = 0
  /\ cmp.state \in {0, 1} => cmp.iterations = 0
  /\ cmp.state = 2 =>
       /\ w = cmp.block_i + 1
       /\ oW = <<Block(run, cmp.block_i), cmp.iterations>>
       /\ IF cmp.iterations + 1 < Rounds
          THEN sch.busy /\ sch.iterations = cmp.iterations + 1
          ELSE ~sch.busy
  /\ cmp.state = 3 =>
       /\ oW = <<Block(run, cmp.block_i), Rounds - 1>>
       /\ IF sch.busy THEN w = cmp.block_i + 2 /\ sch.iterations = 0
          ELSE w = cmp.block_i + 1
  /\ cmp.state = 4 => w >= Blocks

\* A late block never gets its first round word.
Spoilt ==
  \/ ~hashOK
  \/ cmp.state = 2 /\ cmp.iterations = 0 /\ oW # <<Block(run, cmp.block_i), 0>>

Expanding(m) ==
  /\ sch.ready => m > 0
  /\ Begun(m) > 0 => sch.W = Block(run, Begun(m) - 1)
  /\ sch.busy => Begun(m) > 0
  /\ IF late THEN cmp.state >= 2 /\ Spoilt ELSE InTime(Begun(m))

Stored == \A w \in 1 .. wm.index : digest[w] = IF late THEN 0 ELSE run

Hashing == pc \in {"poll", "done"} /\ ~leftover

Hashed ==
  Hashing =>
    \/ Dirty /\ pending = << >> /\ fifo = << >>
    \/ Live /\ Stored /\ \E m \in 0 .. Blocks : Stream(m) /\ Expanding(m)

IInv ==
  /\ Typed
  /\ Phases
  /\ Hashed

-----------------------------------------------------------------------------
(* The registers keep their types.                                         *)

LEMMA Sizes ==
  /\ Rounds \in Nat /\ Rounds >= 2 /\ Blocks \in Nat /\ Blocks >= 1
  /\ Words \in Nat /\ Words >= 2 /\ DigestWords \in Nat /\ DigestWords >= 1
  /\ FifoDepth \in Nat /\ Length \in Nat /\ Length >= 1 /\ Length < FifoDepth
  /\ MaxPending \in Nat /\ MaxPending >= 1 /\ Runs \in Nat /\ Runs >= 1
  /\ MaxRatio \in Nat /\ MaxRatio <= 2
<1>1. Words \in Nat /\ Words >= 2 /\ Blocks \in Nat /\ Blocks >= 1
  BY ShaAssumption
<1>2. Words * Blocks \in Nat /\ Words * Blocks >= 1
  BY <1>1
<1> QED BY <1>1, <1>2, ShaAssumption DEF Length

LEMMA ReadMasterStep ==
  ASSUME Typed, NEW wait \in BOOLEAN, ReadMaster(wait)
  PROVE  /\ rm' \in [state : 0 .. 3, index : 0 .. Length]
         /\ rm'.state = 0 => rm'.index = 0
         /\ rm'.state \in {1, 2} => rm'.index < Length
         /\ ~resetn => rm'.state = 0
         /\ resetn => rm'.index = IF oRead /\ ~wait /\ ~fifo_full THEN rm.index + 1
                                  ELSE rm.index
<1> USE Sizes DEF master_read_done, oRead
<1>1. /\ rm \in [state : 0 .. 3, index : 0 .. Length]
      /\ rm.state = 0 => rm.index = 0
      /\ rm.state \in {1, 2} => rm.index < Length
  BY DEF Typed, TypeOK, Masters
<1>2. CASE ~resetn
  <2>1. rm' = [state |-> 0, index |-> 0]
    BY <1>2 DEF ReadMaster
  <2> QED BY <1>2, <2>1
<1>3. CASE resetn /\ rm.state = 0
  <2>1. rm' = [state |-> 1, index |-> 0]
    BY <1>3 DEF ReadMaster, resetn, start_read
  <2> QED BY <1>1, <1>3, <2>1
<1>4. CASE resetn /\ rm.state = 1
  <2>1. rm' = [rm EXCEPT !.state = 2]
    BY <1>4 DEF ReadMaster
  <2> QED BY <1>1, <1>4, <2>1
<1>5. CASE resetn /\ rm.state = 2
  <2>1. rm' = IF wait \/ fifo_full THEN rm ELSE [state |-> 3, index |-> rm.index + 1]
    BY <1>5 DEF ReadMaster
  <2> QED BY <1>1, <1>5, <2>1
<1>6. CASE resetn /\ rm.state = 3
  <2>1. rm' = IF rm.index = Length THEN rm ELSE [rm EXCEPT !.state = 1]
    BY <1>6 DEF ReadMaster
  <2> QED BY <1>1, <1>6, <2>1
<1> QED BY <1>1, <1>2, <1>3, <1>4, <1>5, <1>6

LEMMA WriteMasterStep ==
  ASSUME Typed, NEW wait \in BOOLEAN, WriteMaster(wait, run)
  PROVE  /\ wm' \in [state : 0 .. 3, index : 0 .. DigestWords]
         /\ wm'.state = 0 => wm'.index = 0
         /\ wm'.state \in {1, 2} => wm'.index < DigestWords
         /\ digest' \in [1 .. DigestWords -> 0 .. Runs]
         /\ ~resetn => wm'.state = 0
         /\ resetn => \/ wm'.state = 0 /\ wm.state = 0
                      \/ wm'.state = 1 /\ wm.state = 0 /\ oDone /\ wm'.index = 0
                      \/ wm'.state = 1 /\ wm.state = 3 /\ wm'.index = wm.index
                      \/ wm'.state = 2 /\ wm.state \in {1, 2} /\ wm'.index = wm.index
                      \/ wm'.state = 3 /\ wm.state = 3 /\ wm'.index = wm.index
                      \/ wm'.state = 3 /\ wm.state = 2 /\ wm'.index = wm.index + 1
         /\ resetn /\ wm.index = DigestWords => wm' = wm
         /\ \A w \in 1 .. DigestWords :
              digest'[w] = IF wm.state = 2 /\ ~wait /\ w = wm.index + 1
                           THEN IF hashOK THEN run ELSE 0
                           ELSE digest[w]
         /\ resetn => wm'.index = IF wm.state = 2 /\ ~wait THEN wm.index + 1 ELSE wm.index
<1> USE Sizes DEF master_write_done
<1>1. /\ wm \in [state : 0 .. 3, index : 0 .. DigestWords]
      /\ wm.state = 0 => wm.index = 0
      /\ wm.state \in {1, 2} => wm.index < DigestWords
      /\ digest \in [1 .. DigestWords -> 0 .. Runs] /\ run \in 0 .. Runs
  BY DEF Typed, TypeOK, Masters, Registers
<1>2. digest' = IF wm.state = 2 /\ ~wait
                THEN [digest EXCEPT ![wm.index + 1] = IF hashOK THEN run ELSE 0]
                ELSE digest
  BY DEF WriteMaster
<1>3. digest' \in [1 .. DigestWords -> 0 .. Runs]
  BY <1>1, <1>2
<1>4. \A w \in 1 .. DigestWords :
        digest'[w] = IF wm.state = 2 /\ ~wait /\ w = wm.index + 1
                     THEN IF hashOK THEN run ELSE 0
                     ELSE digest[w]
  BY <1>1, <1>2
<1>5. CASE ~resetn
  <2>1. wm' = [state |-> 0, index |-> 0]
    BY <1>5 DEF WriteMaster
  <2> QED BY <1>3, <1>4, <1>5, <2>1
<1>6. CASE resetn /\ wm.state = 0
  <2>1. wm' = IF oDone THEN [state |-> 1, index |-> 0] ELSE wm
    BY <1>6 DEF WriteMaster
  <2>2. CASE oDone
    <3>1. wm'.state = 1 /\ wm'.index = 0 /\ wm' \in [state : 0 .. 3, index : 0 .. DigestWords]
      BY <2>1, <2>2
    <3> QED BY <1>1, <1>3, <1>4, <1>6, <2>2, <3>1
  <2>3. CASE ~oDone
    BY <1>1, <1>3, <1>4, <1>6, <2>1, <2>3
  <2> QED BY <2>2, <2>3
<1>7. CASE resetn /\ wm.state = 1
  <2>1. wm' = [wm EXCEPT !.state = 2]
    BY <1>7 DEF WriteMaster
  <2>2. wm'.state = 2 /\ wm'.index = wm.index
    BY <1>1, <2>1
  <2>3. 2 \in 0 .. 3
    OBVIOUS
  <2>4. wm' \in [state : 0 .. 3, index : 0 .. DigestWords]
    BY <1>1, <2>1, <2>3
  <2> QED BY <1>1, <1>3, <1>4, <1>7, <2>2, <2>4
<1>8. CASE resetn /\ wm.state = 2
  <2>1. wm' = IF wait THEN wm ELSE [state |-> 3, index |-> wm.index + 1]
    BY <1>8 DEF WriteMaster
  <2>2. CASE wait
    BY <1>1, <1>3, <1>4, <1>8, <2>1, <2>2
  <2>3. CASE ~wait
    <3>1. /\ wm'.state = 3 /\ wm'.index = wm.index + 1
          /\ wm' \in [state : 0 .. 3, index : 0 .. DigestWords]
      BY <1>1, <1>8, <2>1, <2>3
    <3> QED BY <1>1, <1>3, <1>4, <1>8, <2>3, <3>1
  <2> QED BY <2>2, <2>3
<1>9. CASE resetn /\ wm.state = 3
  <2>1. wm' = IF wm.index = DigestWords THEN wm ELSE [wm EXCEPT !.state = 1]
    BY <1>9 DEF WriteMaster
  <2>2. CASE wm.index = DigestWords
    BY <1>1, <1>3, <1>4, <1>9, <2>1, <2>2
  <2>3. CASE wm.index # DigestWords
    <3>1. wm' = [wm EXCEPT !.state = 1] /\ 1 \in 0 .. 3
      BY <2>1, <2>3
    <3>2. wm'.state = 1 /\ wm'.index = wm.index
      BY <1>1, <3>1
    <3>3. wm' \in [state : 0 .. 3, index : 0 .. DigestWords]
      BY <1>1, <3>1
    <3> QED BY <1>1, <1>3, <1>4, <1>9, <2>3, <3>2, <3>3
  <2> QED BY <2>2, <2>3
<1>10. wm.state = 0 \/ wm.state = 1 \/ wm.state = 2 \/ wm.state = 3
  BY <1>1
<1> QED BY <1>5, <1>6, <1>7, <1>8, <1>9, <1>10, Zenon

\* The interconnect and the FIFO: what goes in, what comes out.
LEMMA PathStep ==
  ASSUME Typed, NEW wait \in BOOLEAN, NEW valid \in BOOLEAN,
         Interconnect(wait, valid, run), Fifo(valid)
  PROVE  /\ pending' \in Seq(Word) /\ Len(pending') <= MaxPending
         /\ fifo' \in Seq(Word) /\ Len(fifo') <= FifoDepth
         /\ control = "clear" => fifo' = << >>
         /\ control # "clear" /\ tm.rd /\ fifo # << >> => q' = Head(fifo)
         /\ ~tm.rd => q' = q
         /\ control # "clear" /\ fifo # << >> /\ ~tm.rd => fifo' # << >>
<1> USE Sizes
<1>1. /\ pending \in Seq(Word) /\ Len(pending) \in Nat /\ Len(pending) <= MaxPending
      /\ fifo \in Seq(Word) /\ Len(fifo) \in Nat /\ Len(fifo) <= FifoDepth
  BY LenProperties DEF Typed, TypeOK, Registers
<1>2. << >> \in Seq(Word) /\ Len(<< >>) = 0
  BY EmptySeq
<1> DEFINE left == IF valid THEN Tail(pending) ELSE pending
           sent == IF oRead /\ ~wait THEN <<<<run, rm.index>>>> ELSE << >>
           popping == tm.rd /\ fifo # << >>
           kept == IF popping THEN Tail(fifo) ELSE fifo
           came == IF valid /\ ~fifo_full THEN <<Head(pending)>> ELSE << >>
<1>3. /\ pending' = left \o sent
      /\ valid => pending # << >>
      /\ Len(pending) = MaxPending => wait
      /\ fifo' = IF control = "clear" THEN << >> ELSE kept \o came
      /\ q' = IF control # "clear" /\ popping THEN Head(fifo) ELSE q
  BY DEF Interconnect, Fifo
<1>4. left \in Seq(Word) /\ Len(left) <= Len(pending) /\ Len(left) \in Nat
  BY <1>1, <1>3, HeadTailProperties
<1>5. sent \in Seq(Word) /\ Len(sent) = IF oRead /\ ~wait THEN 1 ELSE 0
  <2>1. <<run, rm.index>> \in Word
    <3>1. run \in Nat /\ rm.index \in Nat
      BY DEF Typed, TypeOK, Registers
    <3> QED BY <3>1 DEF Word
  <2>2. <<<<run, rm.index>>>> \in Seq(Word) /\ Len(<<<<run, rm.index>>>>) = 1
    BY <2>1
  <2> QED BY <1>2, <2>2
<1>6. kept \in Seq(Word) /\ Len(kept) <= Len(fifo) /\ Len(kept) \in Nat
  BY <1>1, HeadTailProperties
<1>7. came \in Seq(Word) /\ Len(came) = IF valid /\ ~fifo_full THEN 1 ELSE 0
  <2>1. valid => Head(pending) \in Word
    BY <1>1, <1>3, HeadTailProperties
  <2>2. valid => <<Head(pending)>> \in Seq(Word) /\ Len(<<Head(pending)>>) = 1
    BY <2>1
  <2> QED BY <1>2, <2>2
<1> HIDE DEF left, sent, kept, came
<1>8. pending' \in Seq(Word) /\ Len(pending') <= MaxPending
  <2>1. left \o sent \in Seq(Word) /\ Len(left \o sent) = Len(left) + Len(sent)
    BY <1>4, <1>5, ConcatProperties
  <2> QED BY <1>1, <1>3, <1>4, <1>5, <2>1
<1>9. kept \o came \in Seq(Word) /\ Len(kept \o came) = Len(kept) + Len(came)
  BY <1>6, <1>7, ConcatProperties
<1>10. fifo' \in Seq(Word) /\ Len(fifo') <= FifoDepth
  <2>1. Len(came) # 0 => Len(fifo) # FifoDepth
    BY <1>7 DEF fifo_full
  <2> QED BY <1>1, <1>2, <1>3, <1>6, <1>7, <1>9, <2>1
<1>11. control # "clear" /\ fifo # << >> /\ ~tm.rd => fifo' # << >>
  <2> SUFFICES ASSUME control # "clear", fifo # << >>, ~tm.rd PROVE fifo' # << >>
    OBVIOUS
  <2>1. kept = fifo
    BY DEF kept
  <2>2. Len(fifo) # 0
    BY <1>1, EmptySeq
  <2>3. Len(fifo') # 0
    BY <1>1, <1>3, <1>7, <1>9, <2>1, <2>2
  <2> QED BY <1>2, <2>3
<1> QED BY <1>3, <1>8, <1>10, <1>11

LEMMA ShiftStep ==
  ASSUME Typed, tm.state = 2, ShiftIn(q)
  PROVE  /\ mem' \in Seq(Word) /\ Len(mem') <= Words
         /\ Len(mem') = IF Len(mem) < Words THEN Len(mem) + 1 ELSE Words
         /\ mem'[Len(mem')] = q
         /\ \A k \in 0 .. Len(mem) - 1 :
              k + 1 < Len(mem') => mem'[Len(mem') - 1 - k] = mem[Len(mem) - k]
<1> USE Sizes
<1>1. mem \in Seq(Word) /\ Len(mem) \in Nat /\ Len(mem) <= Words /\ q \in Word
  BY LenProperties DEF Typed, TypeOK, Registers, Assembling
<1>2. CASE Len(mem) < Words
  <2>1. mem' = Append(mem, q)
    BY <1>2 DEF ShiftIn
  <2>2. /\ mem' \in Seq(Word) /\ Len(mem') = Len(mem) + 1 /\ mem'[Len(mem) + 1] = q
        /\ \A i \in 1 .. Len(mem) : mem'[i] = mem[i]
    BY <1>1, <2>1, AppendProperties
  <2> QED BY <1>1, <1>2, <2>2
<1>3. CASE ~(Len(mem) < Words)
  <2>1. mem' = Append(Tail(mem), q) /\ Len(mem) = Words
    BY <1>1, <1>3 DEF ShiftIn
  <2>2. mem # << >>
    <3>1. Len(mem) # 0
      BY <2>1
    <3> QED BY <3>1, EmptySeq
  <2>3. /\ Tail(mem) \in Seq(Word) /\ Len(Tail(mem)) = Words - 1
        /\ \A i \in 1 .. Words - 1 : Tail(mem)[i] = mem[i + 1]
    BY <1>1, <2>1, <2>2, HeadTailProperties
  <2> DEFINE rest == Tail(mem)
  <2> HIDE DEF rest
  <2>4. /\ mem' \in Seq(Word) /\ Len(mem') = Len(rest) + 1 /\ mem'[Len(rest) + 1] = q
        /\ \A i \in 1 .. Len(rest) : mem'[i] = rest[i]
    BY <1>1, <2>1, <2>3, AppendProperties DEF rest
  <2>5. Len(rest) = Words - 1 /\ \A i \in 1 .. Words - 1 : rest[i] = mem[i + 1]
    BY <2>3 DEF rest
  <2>6. Len(mem') = Words /\ mem'[Words] = q /\ \A i \in 1 .. Words - 1 : mem'[i] = mem[i + 1]
    BY <2>4, <2>5
  <2>7. ASSUME NEW k \in 0 .. Len(mem) - 1, k + 1 < Len(mem')
        PROVE  mem'[Len(mem') - 1 - k] = mem[Len(mem) - k]
    <3>1. Words - 1 - k \in 1 .. Words - 1 /\ (Words - 1 - k) + 1 = Words - k
      BY <2>1, <2>6, <2>7
    <3>2. mem'[Words - 1 - k] = mem[Words - k]
      BY <2>6, <3>1
    <3> QED BY <2>1, <2>6, <3>2
  <2> QED BY <1>1, <1>3, <2>4, <2>6, <2>7
<1> QED BY <1>2, <1>3

\* The assembler sets its signals by parts.
LEMMA SignalsExcept ==
  ASSUME NEW r \in Signals, NEW s \in 0 .. 3, NEW c \in 0 .. Words - 1,
         NEW d \in BOOLEAN, NEW w \in BOOLEAN, NEW e \in BOOLEAN
  PROVE  /\ [r EXCEPT !.rd = d, !.state = s] \in Signals
         /\ [r EXCEPT !.count = c, !.state = s, !.write_done = w, !.enable = e] \in Signals
         /\ [r EXCEPT !.count = c, !.state = s] \in Signals
         /\ [r EXCEPT !.write_done = w, !.count = c, !.state = s] \in Signals
BY DEF Signals

LEMMA AssemblerStep ==
  ASSUME Typed, Assembler
  PROVE  /\ tm' \in Signals
         /\ tm'.rd <=> tm'.state = 1
         /\ tm'.write_done <=> tm'.state = 3
         /\ ~resetn => tm'.state = 0 /\ tm'.count = 0 /\ ~tm'.enable /\ mem' = mem
         /\ resetn =>
              \/ /\ tm.state = 0 /\ tm'.state \in {0, 1} /\ mem' = mem
                 /\ tm'.count = tm.count /\ (tm'.enable <=> tm.enable)
                 /\ tm'.state = 1 => fifo # << >>
              \/ /\ tm.state = 1 /\ tm'.state = 2 /\ mem' = mem
                 /\ tm'.count = tm.count /\ (tm'.enable <=> tm.enable)
              \/ /\ tm.state = 2 /\ ShiftIn(q) /\ tm.count < Words - 1
                 /\ tm'.state = 0 /\ tm'.count = tm.count + 1 /\ (tm'.enable <=> tm.enable)
              \/ /\ tm.state = 2 /\ ShiftIn(q) /\ tm.count = Words - 1
                 /\ tm'.state = 3 /\ tm'.count = 0 /\ tm'.enable
              \/ /\ tm.state = 3 /\ tm'.state = (IF core.pulse THEN 0 ELSE 3) /\ mem' = mem
                 /\ tm'.count = 0 /\ tm'.enable
<1> USE Sizes
<1>0. /\ 0 \in 0 .. 3 /\ 1 \in 0 .. 3 /\ 2 \in 0 .. 3 /\ 3 \in 0 .. 3
      /\ TRUE \in BOOLEAN /\ FALSE \in BOOLEAN /\ 0 \in 0 .. Words - 1
  OBVIOUS
<1>1. /\ tm \in Signals /\ tm.state \in 0 .. 3 /\ tm.count \in 0 .. Words - 1
      /\ tm.rd <=> tm.state = 1
      /\ tm.write_done <=> tm.state = 3
      /\ tm.state = 3 => tm.count = 0 /\ tm.enable
  BY DEF Typed, TypeOK, Registers, Assembling
<1>2. CASE ~resetn
  <2>1. tm' = [state |-> 0, count |-> 0, rd |-> FALSE, write_done |-> FALSE,
               enable |-> FALSE] /\ mem' = mem
    BY <1>2 DEF Assembler
  <2>2. tm' \in Signals
    BY <2>1 DEF Signals
  <2> QED BY <1>2, <2>1, <2>2
<1>3. CASE resetn /\ tm.state = 0
  <2>1. /\ tm' = IF fifo # << >> /\ ~tm.write_done
                 THEN [tm EXCEPT !.rd = TRUE, !.state = 1] ELSE tm
        /\ mem' = mem
    BY <1>3 DEF Assembler
  <2>2. CASE fifo # << >> /\ ~tm.write_done
    <3>1. tm' = [tm EXCEPT !.rd = TRUE, !.state = 1]
      BY <2>1, <2>2
    <3>2. tm' \in Signals /\ tm'.state = 1 /\ tm'.rd /\ tm'.count = tm.count
      <4>1. tm' \in Signals
        BY <1>0, <1>1, <3>1, SignalsExcept, Zenon
      <4>2. tm'.state = 1 /\ tm'.rd /\ tm'.count = tm.count
        BY <1>1, <3>1 DEF Signals
      <4> QED BY <4>1, <4>2
    <3>3. tm'.write_done = tm.write_done /\ tm'.enable = tm.enable
      BY <1>1, <3>1 DEF Signals
    <3> QED BY <1>1, <1>3, <2>1, <2>2, <3>2, <3>3
  <2>3. CASE ~(fifo # << >> /\ ~tm.write_done)
    BY <1>1, <1>3, <2>1, <2>3
  <2> QED BY <2>2, <2>3
<1>4. CASE resetn /\ tm.state = 1
  <2>1. tm' = [tm EXCEPT !.rd = FALSE, !.state = 2] /\ mem' = mem
    BY <1>4 DEF Assembler
  <2>2. tm' \in Signals /\ tm'.state = 2 /\ ~tm'.rd /\ tm'.count = tm.count
    <3>1. tm' \in Signals
      BY <1>0, <1>1, <2>1, SignalsExcept, Zenon
    <3>2. tm'.state = 2 /\ ~tm'.rd /\ tm'.count = tm.count
      BY <1>1, <2>1 DEF Signals
    <3> QED BY <3>1, <3>2
  <2>3. tm'.write_done = tm.write_done /\ tm'.enable = tm.enable
    BY <1>1, <2>1 DEF Signals
  <2> QED BY <1>1, <1>4, <2>1, <2>2, <2>3
<1>5. CASE resetn /\ tm.state = 2
  <2>1. /\ tm' = IF tm.count = Words - 1
                 THEN [tm EXCEPT !.count = 0, !.state = 3,
                                 !.write_done = TRUE, !.enable = TRUE]
                 ELSE [tm EXCEPT !.count = tm.count + 1, !.state = 0]
        /\ ShiftIn(q)
    BY <1>5 DEF Assembler
  <2>2. CASE tm.count = Words - 1
    <3>1. tm' = [tm EXCEPT !.count = 0, !.state = 3, !.write_done = TRUE, !.enable = TRUE]
      BY <2>1, <2>2
    <3>2. tm' \in Signals /\ tm'.state = 3 /\ tm'.write_done /\ tm'.enable /\ tm'.count = 0
      <4>1. tm' \in Signals
        BY <1>0, <1>1, <3>1, SignalsExcept, Zenon
      <4>2. tm'.state = 3 /\ tm'.write_done /\ tm'.enable /\ tm'.count = 0
        BY <1>1, <3>1 DEF Signals
      <4> QED BY <4>1, <4>2
    <3>3. tm'.rd = tm.rd
      BY <1>1, <3>1 DEF Signals
    <3> QED BY <1>1, <1>5, <2>1, <2>2, <3>2, <3>3
  <2>3. CASE tm.count # Words - 1
    <3>1. tm' = [tm EXCEPT !.count = tm.count + 1, !.state = 0]
      BY <2>1, <2>3
    <3>2. tm.count < Words - 1 /\ tm.count + 1 \in 0 .. Words - 1
      BY <1>1, <2>3
    <3>3. tm' \in Signals /\ tm'.state = 0 /\ tm'.count = tm.count + 1
      <4>1. tm' \in Signals
        BY <1>0, <1>1, <3>1, <3>2, SignalsExcept, Zenon
      <4>2. tm'.state = 0 /\ tm'.count = tm.count + 1
        BY <1>1, <3>1, <3>2 DEF Signals
      <4> QED BY <4>1, <4>2
    <3>4. tm'.rd = tm.rd /\ tm'.write_done = tm.write_done /\ tm'.enable = tm.enable
      BY <1>1, <3>1 DEF Signals
    <3> QED BY <1>1, <1>5, <2>1, <3>2, <3>3, <3>4
  <2> QED BY <2>2, <2>3
<1>6. CASE resetn /\ tm.state = 3
  <2>1. /\ tm' = IF core.pulse
                 THEN [tm EXCEPT !.write_done = FALSE, !.count = 0, !.state = 0]
                 ELSE tm
        /\ mem' = mem
    BY <1>6 DEF Assembler
  <2>2. CASE core.pulse
    <3>1. tm' = [tm EXCEPT !.write_done = FALSE, !.count = 0, !.state = 0]
      BY <2>1, <2>2
    <3>2. tm' \in Signals /\ tm'.state = 0 /\ ~tm'.write_done /\ tm'.count = 0
      <4>1. tm' \in Signals
        BY <1>0, <1>1, <3>1, SignalsExcept, Zenon
      <4>2. tm'.state = 0 /\ ~tm'.write_done /\ tm'.count = 0
        BY <1>1, <3>1 DEF Signals
      <4> QED BY <4>1, <4>2
    <3>3. tm'.rd = tm.rd /\ tm'.enable = tm.enable
      BY <1>1, <3>1 DEF Signals
    <3> QED BY <1>1, <1>6, <2>1, <2>2, <3>2, <3>3
  <2>3. CASE ~core.pulse
    BY <1>1, <1>6, <2>1, <2>3
  <2> QED BY <2>2, <2>3
<1> QED BY <1>1, <1>2, <1>3, <1>4, <1>5, <1>6

\* One clock of the controller of the core.
LEMMA ControllerStep ==
  ASSUME Typed, Controller(tm.write_done)
  PROVE  /\ core' \in [state : 0 .. 3, pulse : BOOLEAN]
         /\ \/ /\ core.state = 0 /\ core'.state = 1 /\ core'.pulse
               /\ tm.write_done /\ ~sch.ready
            \/ core.state = 0 /\ core'.state = 0 /\ (core'.pulse <=> core.pulse)
            \/ core.state = 1 /\ oDone /\ core'.state = 3 /\ ~core'.pulse
            \/ /\ core.state = 1 /\ ~oDone /\ core'.state = 2 /\ core'.pulse
               /\ tm.write_done /\ ~sch.ready
            \/ core.state = 1 /\ ~oDone /\ core'.state = 1 /\ ~core'.pulse
            \/ core.state = 2 /\ core'.state = 1 /\ ~core'.pulse
            \/ core.state = 3 /\ core'.state = 3 /\ (core'.pulse <=> core.pulse)
<1>1. core \in [state : 0 .. 3, pulse : BOOLEAN] /\ core.state \in 0 .. 3
  BY DEF Typed, Registers
<1>2. CASE core.state = 0
  <2>1. IF tm.write_done /\ ~sch.ready THEN core' = [state |-> 1, pulse |-> TRUE] ELSE core' = core
    BY <1>2 DEF Controller, TakeBlock, DataRequest
  <2>2. CASE tm.write_done /\ ~sch.ready
    <3>1. core' = [state |-> 1, pulse |-> TRUE]
      BY <2>1, <2>2
    <3> QED BY <1>2, <2>2, <3>1
  <2>3. CASE ~(tm.write_done /\ ~sch.ready)
    BY <1>1, <1>2, <2>1, <2>3
  <2> QED BY <2>2, <2>3
<1>3. CASE core.state = 1
  <2>1. CASE oDone
    <3>1. core' = [state |-> 3, pulse |-> FALSE]
      BY <1>3, <2>1 DEF Controller
    <3> QED BY <1>3, <2>1, <3>1
  <2>2. CASE ~oDone /\ tm.write_done /\ ~sch.ready
    <3>1. core' = [state |-> 2, pulse |-> TRUE]
      BY <1>3, <2>2 DEF Controller, TakeBlock, DataRequest
    <3> QED BY <1>3, <2>2, <3>1
  <2>3. CASE ~oDone /\ ~(tm.write_done /\ ~sch.ready)
    <3>1. core' = [core EXCEPT !.pulse = FALSE]
      BY <1>3, <2>3 DEF Controller, DataRequest
    <3>2. core'.state = 1 /\ ~core'.pulse
      BY <1>1, <1>3, <3>1
    <3>3. core' \in [state : 0 .. 3, pulse : BOOLEAN]
      <4>1. \A b \in BOOLEAN : [core EXCEPT !.pulse = b] \in [state : 0 .. 3, pulse : BOOLEAN]
        BY <1>1
      <4>2. FALSE \in BOOLEAN
        OBVIOUS
      <4> QED BY <3>1, <4>1, <4>2, Zenon
    <3> QED BY <1>3, <2>3, <3>2, <3>3
  <2> QED BY <2>1, <2>2, <2>3
<1>4. CASE core.state = 2
  <2>1. core' = [state |-> 1, pulse |-> FALSE]
    BY <1>4 DEF Controller
  <2> QED BY <1>4, <2>1
<1>5. CASE core.state = 3
  <2>1. core' = core
    BY <1>5 DEF Controller
  <2> QED BY <1>1, <1>5, <2>1
<1> QED BY <1>1, <1>2, <1>3, <1>4, <1>5

\* One clock of the Scheduler.
Taking == ~sch.busy /\ sch.ready

LEMMA SchedulerStep ==
  ASSUME Typed, Scheduler(mem)
  PROVE  /\ sch' \in [busy : BOOLEAN, iterations : 0 .. Rounds - 1, message : Seq(Word),
                      ready : BOOLEAN, W : Seq(Word)]
         /\ sch'.busy <=> Taking \/ (sch.busy /\ sch.iterations # Rounds - 1)
         /\ sch'.iterations = IF Taking \/ (sch.busy /\ sch.iterations = Rounds - 1) THEN 0
                              ELSE IF sch.busy THEN sch.iterations + 1
                              ELSE sch.iterations
         /\ sch'.message = IF core.pulse THEN mem ELSE sch.message
         /\ sch'.ready <=> ~Taking /\ (core.pulse \/ sch.ready)
         /\ sch'.W = IF Taking THEN sch.message ELSE sch.W
         /\ oW' = IF sch.busy THEN <<sch.W, sch.iterations>> ELSE oW
<1> USE Sizes
<1>1. /\ sch.busy \in BOOLEAN /\ sch.iterations \in 0 .. Rounds - 1
      /\ sch.message \in Seq(Word) /\ sch.ready \in BOOLEAN /\ sch.W \in Seq(Word)
      /\ mem \in Seq(Word) /\ core.pulse \in BOOLEAN
  BY DEF Typed, Registers
<1> DEFINE busy == Taking \/ (sch.busy /\ ~(sch.busy /\ sch.iterations = Rounds - 1))
           iterations == IF Taking THEN 0
                         ELSE IF sch.busy THEN (sch.iterations + 1) % Rounds
                         ELSE sch.iterations
           message == IF core.pulse THEN mem ELSE sch.message
           ready == ~Taking /\ (core.pulse \/ sch.ready)
           W == IF Taking THEN sch.message ELSE sch.W
<1>2. /\ sch' = [busy |-> busy, iterations |-> iterations, message |-> message,
                 ready |-> ready, W |-> W]
      /\ oW' = IF sch.busy THEN <<sch.W, sch.iterations>> ELSE oW
  BY Zenon DEF Scheduler, Taking
<1>3. busy \in BOOLEAN /\ ready \in BOOLEAN /\ message \in Seq(Word) /\ W \in Seq(Word)
  BY <1>1
<1>4. (sch.iterations + 1) % Rounds = IF sch.iterations = Rounds - 1 THEN 0
                                      ELSE sch.iterations + 1
  <2>1. CASE sch.iterations = Rounds - 1
    <3>1. Rounds % Rounds = 0
      OBVIOUS
    <3> QED BY <1>1, <2>1, <3>1
  <2>2. CASE sch.iterations # Rounds - 1
    <3>1. \A x \in 0 .. Rounds - 1 : x % Rounds = x
      OBVIOUS
    <3>2. sch.iterations + 1 \in 0 .. Rounds - 1
      BY <1>1, <2>2
    <3> QED BY <2>2, <3>1, <3>2
  <2> QED BY <2>1, <2>2
<1>5. /\ iterations \in 0 .. Rounds - 1
      /\ iterations = IF Taking \/ (sch.busy /\ sch.iterations = Rounds - 1) THEN 0
                      ELSE IF sch.busy THEN sch.iterations + 1
                      ELSE sch.iterations
  BY <1>1, <1>4 DEF Taking
<1> HIDE DEF busy, iterations, message, ready, W
<1>6. sch' \in [busy : BOOLEAN, iterations : 0 .. Rounds - 1, message : Seq(Word),
                ready : BOOLEAN, W : Seq(Word)]
  BY <1>2, <1>3, <1>5
<1>7. /\ sch'.busy = busy /\ sch'.iterations = iterations /\ sch'.message = message
      /\ sch'.ready = ready /\ sch'.W = W
  BY <1>2
<1>8. /\ sch'.busy <=> Taking \/ (sch.busy /\ sch.iterations # Rounds - 1)
      /\ sch'.ready <=> ~Taking /\ (core.pulse \/ sch.ready)
  BY <1>7 DEF busy, ready
<1> QED BY <1>2, <1>5, <1>6, <1>7, <1>8 DEF message, W

\* The Compressor sets its state by parts.
Stages == [state : 0 .. 4, iterations : 0 .. Rounds, block_i : 0 .. Blocks - 1]

LEMMA StagesExcept ==
  ASSUME NEW r \in Stages, NEW a \in 0 .. 4, NEW i \in 0 .. Rounds, NEW b \in 0 .. Blocks - 1
  PROVE  /\ [r EXCEPT !.state = a] \in Stages
         /\ [r EXCEPT !.iterations = i, !.state = a] \in Stages
         /\ [r EXCEPT !.iterations = i, !.state = a, !.block_i = b] \in Stages
BY DEF Stages

\* One clock of the Compressor.
LEMMA CompressorStep ==
  ASSUME Typed, Compressor([b \in 0 .. Blocks - 1 |-> Block(run, b)])
  PROVE  /\ cmp' \in Stages
         /\ cmp'.state # 3 => cmp'.iterations < Rounds
         /\ hashOK' \in BOOLEAN /\ late' \in BOOLEAN
         /\ \/ /\ cmp.state = 0 /\ cmp'.state = (IF sch.ready THEN 1 ELSE 0)
               /\ cmp'.iterations = cmp.iterations /\ cmp'.block_i = cmp.block_i
               /\ hashOK' = hashOK /\ late' = late
            \/ /\ cmp.state = 1 /\ cmp'.state = 2
               /\ cmp'.iterations = cmp.iterations /\ cmp'.block_i = cmp.block_i
               /\ hashOK' = hashOK /\ late' = late
            \/ /\ cmp.state = 2
               /\ cmp'.state = (IF cmp.iterations + 1 = Rounds THEN 3 ELSE 2)
               /\ cmp'.iterations = cmp.iterations + 1 /\ cmp'.block_i = cmp.block_i
               /\ hashOK' <=> hashOK /\ oW = <<Block(run, cmp.block_i), cmp.iterations>>
               /\ late' = late
            \/ /\ cmp.state = 3 /\ cmp.block_i = Blocks - 1 /\ cmp'.state = 4
               /\ cmp'.iterations = 0 /\ cmp'.block_i = cmp.block_i
               /\ hashOK' = hashOK /\ late' = late
            \/ /\ cmp.state = 3 /\ cmp.block_i # Blocks - 1 /\ cmp'.state = 2
               /\ cmp'.iterations = 0 /\ cmp'.block_i = cmp.block_i + 1
               /\ hashOK' = hashOK
               /\ late' <=> late \/ ~(sch.busy /\ sch.iterations = 0)
            \/ /\ cmp.state = 4 /\ cmp'.state = 4
               /\ cmp'.iterations = cmp.iterations /\ cmp'.block_i = cmp.block_i
               /\ hashOK' = hashOK /\ late' = late
<1> USE Sizes
<1> DEFINE wanted == [b \in 0 .. Blocks - 1 |-> Block(run, b)]
<1>1. /\ cmp \in Stages /\ cmp.state \in 0 .. 4 /\ cmp.iterations \in 0 .. Rounds
      /\ cmp.block_i \in 0 .. Blocks - 1
      /\ cmp.state # 3 => cmp.iterations < Rounds
      /\ hashOK \in BOOLEAN /\ late \in BOOLEAN
  BY DEF Typed, TypeOK, Registers, Stages
<1>2. CASE cmp.state = 0
  <2>1. cmp' = (IF sch.ready THEN [cmp EXCEPT !.state = 1] ELSE cmp) /\ hashOK' = hashOK /\ late' = late
    BY <1>2 DEF Compressor
  <2>2. CASE sch.ready
    <3>1. cmp' = [cmp EXCEPT !.state = 1]
      BY <2>1, <2>2
    <3>2. cmp'.iterations = cmp.iterations /\ cmp'.state = 1 /\ cmp'.block_i = cmp.block_i
      BY <1>1, <3>1 DEF Stages
    <3>3. 1 \in 0 .. 4 /\ cmp.iterations \in 0 .. Rounds /\ cmp.block_i \in 0 .. Blocks - 1
      BY <1>1
    <3>4. cmp' \in Stages
      BY <1>1, <3>1, <3>3, StagesExcept, Zenon
    <3> QED BY <1>1, <1>2, <2>1, <2>2, <3>2, <3>4
  <2>3. CASE ~sch.ready
    BY <1>1, <1>2, <2>1, <2>3
  <2> QED BY <2>2, <2>3
<1>3. CASE cmp.state = 1
  <2>1. cmp' = [cmp EXCEPT !.state = 2] /\ hashOK' = hashOK /\ late' = late
    BY <1>3 DEF Compressor
  <2>2. cmp'.iterations = cmp.iterations /\ cmp'.state = 2 /\ cmp'.block_i = cmp.block_i /\ cmp' \in Stages
    <3>1. 2 \in 0 .. 4
      OBVIOUS
    <3>2. cmp' \in Stages
      BY <1>1, <2>1, <3>1, StagesExcept, Zenon
    <3> QED BY <1>1, <2>1, <3>2 DEF Stages
  <2> QED BY <1>1, <1>3, <2>1, <2>2
<1>4. CASE cmp.state = 2
  <2>1. /\ cmp' = [cmp EXCEPT !.iterations = cmp.iterations + 1,
                              !.state = IF cmp.iterations + 1 = Rounds THEN 3 ELSE 2]
        /\ hashOK' = (hashOK /\ oW = <<wanted[cmp.block_i], cmp.iterations>>)
        /\ late' = late
    BY <1>4 DEF Compressor
  <2>2. wanted[cmp.block_i] = Block(run, cmp.block_i)
    BY <1>1
  <2>3. cmp.iterations + 1 \in 0 .. Rounds
    BY <1>1, <1>4
  <2>4. /\ cmp' \in Stages
        /\ cmp'.state = (IF cmp.iterations + 1 = Rounds THEN 3 ELSE 2)
        /\ cmp'.iterations = cmp.iterations + 1 /\ cmp'.block_i = cmp.block_i
    <3>1. 2 \in 0 .. 4 /\ 3 \in 0 .. 4
      OBVIOUS
    <3>2. cmp' \in Stages
      BY <1>1, <2>1, <2>3, <3>1, StagesExcept, Zenon
    <3> QED BY <1>1, <2>1, <3>2 DEF Stages
  <2>5. hashOK' \in BOOLEAN /\ (hashOK' <=> hashOK /\ oW = <<Block(run, cmp.block_i), cmp.iterations>>)
    BY <2>1, <2>2
  <2> QED BY <1>1, <1>4, <2>1, <2>3, <2>4, <2>5
<1>5. CASE cmp.state = 3 /\ cmp.block_i = Blocks - 1
  <2>1. cmp' = [cmp EXCEPT !.iterations = 0, !.state = 4] /\ hashOK' = hashOK /\ late' = late
    BY <1>5 DEF Compressor
  <2>2. /\ cmp' \in Stages /\ cmp'.state = 4 /\ cmp'.iterations = 0
        /\ cmp'.block_i = cmp.block_i
    <3>1. 4 \in 0 .. 4 /\ 0 \in 0 .. Rounds
      OBVIOUS
    <3>2. cmp' \in Stages
      BY <1>1, <2>1, <3>1, StagesExcept, Zenon
    <3> QED BY <1>1, <2>1, <3>2 DEF Stages
  <2> QED BY <1>1, <1>5, <2>1, <2>2
<1>6. CASE cmp.state = 3 /\ cmp.block_i # Blocks - 1
  <2>1. /\ cmp' = [cmp EXCEPT !.iterations = 0, !.state = 2, !.block_i = cmp.block_i + 1]
        /\ late' = (late \/ ~(sch.busy /\ sch.iterations = 0))
        /\ hashOK' = hashOK
    BY <1>6 DEF Compressor
  <2>2. cmp.block_i + 1 \in 0 .. Blocks - 1
    BY <1>1, <1>6
  <2>3. /\ cmp' \in Stages /\ cmp'.state = 2 /\ cmp'.iterations = 0
        /\ cmp'.block_i = cmp.block_i + 1
    <3>1. 2 \in 0 .. 4 /\ 0 \in 0 .. Rounds
      OBVIOUS
    <3>2. cmp' \in Stages
      BY <1>1, <2>1, <2>2, <3>1, StagesExcept, Zenon
    <3> QED BY <1>1, <2>1, <3>2 DEF Stages
  <2>4. late' \in BOOLEAN /\ (late' <=> late \/ ~(sch.busy /\ sch.iterations = 0))
    BY <2>1
  <2> QED BY <1>1, <1>6, <2>1, <2>3, <2>4
<1>7. CASE cmp.state = 4
  BY <1>1, <1>7 DEF Compressor
<1> QED BY <1>1, <1>2, <1>3, <1>4, <1>5, <1>6, <1>7

\* The core without iEnable.
LEMMA DisabledStep ==
  ASSUME Typed, Disabled
  PROVE  /\ Clean'
         /\ core' \in [state : 0 .. 3, pulse : BOOLEAN]
         /\ sch' \in [busy : BOOLEAN, iterations : 0 .. Rounds - 1, message : Seq(Word),
                      ready : BOOLEAN, W : Seq(Word)]
         /\ cmp' \in [state : 0 .. 4, iterations : 0 .. Rounds, block_i : 0 .. Blocks - 1]
         /\ hashOK' \in BOOLEAN /\ late' \in BOOLEAN
<1> USE Sizes
<1> DEFINE Regs(B) == [busy : B, iterations : 0 .. Rounds - 1, message : Seq(Word),
                       ready : B, W : Seq(Word)]
<1>1. sch \in Regs(BOOLEAN)
  BY DEF Typed, Registers
<1>2. /\ core' = [state |-> 0, pulse |-> FALSE]
      /\ sch' = [sch EXCEPT !.busy = FALSE, !.iterations = 0, !.message = << >>, !.ready = FALSE]
      /\ cmp' = [state |-> 0, iterations |-> 0, block_i |-> 0]
      /\ hashOK' = TRUE /\ late' = FALSE
  BY DEF Disabled, Nothing
<1>3. sch'.iterations = 0 /\ sch'.message = << >> /\ ~sch'.ready /\ ~sch'.busy
  BY <1>1, <1>2
<1>4. sch' \in Regs(BOOLEAN)
  <2>1. \A i \in 0 .. Rounds - 1, s \in Seq(Word) :
          [sch EXCEPT !.busy = FALSE, !.iterations = i, !.message = s, !.ready = FALSE]
             \in Regs(BOOLEAN)
    BY <1>1
  <2>2. 0 \in 0 .. Rounds - 1 /\ << >> \in Seq(Word)
    BY EmptySeq
  <2> HIDE DEF Regs
  <2> QED BY <1>2, <2>1, <2>2, ZenonT(30)
<1>5. Clean'
  BY <1>2, <1>3 DEF Clean, Nothing
<1>6. core' \in [state : 0 .. 3, pulse : BOOLEAN]
  BY <1>2
<1>7. cmp' \in [state : 0 .. 4, iterations : 0 .. Rounds, block_i : 0 .. Blocks - 1]
  BY <1>2
<1>8. hashOK' \in BOOLEAN /\ late' \in BOOLEAN
  BY <1>2, Zenon
<1> QED BY <1>4, <1>5, <1>6, <1>7, <1>8

LEMMA BusTyped ==
  ASSUME Typed, NEW waitR \in BOOLEAN, NEW valid \in BOOLEAN, NEW waitW \in BOOLEAN,
         Bus(waitR, valid, waitW)
  PROVE  Typed'
<1> USE Sizes
<1>1. /\ phase < MaxRatio /\ phase' = phase + 1
      /\ ReadMaster(waitR) /\ Interconnect(waitR, valid, run) /\ Fifo(valid) /\ Assembler
      /\ WriteMaster(waitW, run)
      /\ control' = control /\ core' = core /\ sch' = sch /\ cmp' = cmp
      /\ hashOK' = hashOK /\ late' = late
      /\ clocked' = TRUE /\ pc' = pc /\ run' = run /\ leftover' = leftover
  BY DEF Bus, BusEdge, coreVars
<1>2. /\ rm' \in [state : 0 .. 3, index : 0 .. Length]
      /\ rm'.state = 0 => rm'.index = 0
      /\ rm'.state \in {1, 2} => rm'.index < Length
  BY <1>1, ReadMasterStep
<1>3. /\ wm' \in [state : 0 .. 3, index : 0 .. DigestWords]
      /\ wm'.state = 0 => wm'.index = 0
      /\ wm'.state \in {1, 2} => wm'.index < DigestWords
      /\ digest' \in [1 .. DigestWords -> 0 .. Runs]
  BY <1>1, WriteMasterStep
<1>4. /\ pending' \in Seq(Word) /\ Len(pending') <= MaxPending
      /\ fifo' \in Seq(Word) /\ Len(fifo') <= FifoDepth
      /\ control # "clear" /\ tm.rd /\ fifo # << >> => q' = Head(fifo)
      /\ ~tm.rd => q' = q
      /\ control # "clear" /\ fifo # << >> /\ ~tm.rd => fifo' # << >>
  BY <1>1, PathStep
<1>5. /\ tm' \in Signals
      /\ tm'.rd <=> tm'.state = 1
      /\ tm'.write_done <=> tm'.state = 3
  BY <1>1, AssemblerStep
<1>6. /\ tm.rd <=> tm.state = 1
      /\ tm.state = 1 => fifo # << >>
      /\ fifo \in Seq(Word)
      /\ mem \in Seq(Word) /\ Len(mem) <= Words
  BY DEF Typed, TypeOK, Registers, Assembling
<1>7. Assembling'
  <2>1. CASE ~resetn
    BY <1>1, <1>5, <2>1, AssemblerStep DEF Assembling
  <2>2. CASE resetn
    <3>1. control # "clear"
      BY <2>2 DEF resetn
    <3>2. tm'.state = 1 => fifo' # << >>
      BY <1>1, <1>4, <1>6, <2>2, <3>1, AssemblerStep
    <3>3. tm'.state = 2 => q' \in Word
      <4>1. tm'.state = 2 => tm.state = 1
        BY <1>1, <2>2, AssemblerStep
      <4>2. tm.state = 1 => q' = Head(fifo) /\ Head(fifo) \in Word
        BY <1>4, <1>6, <3>1, HeadTailProperties
      <4> QED BY <4>1, <4>2
    <3>4. tm'.state = 3 => tm'.count = 0 /\ tm'.enable
      BY <1>1, <2>2, AssemblerStep
    <3> QED BY <1>5, <3>2, <3>3, <3>4 DEF Assembling
  <2> QED BY <2>1, <2>2
<1>8. mem' \in Seq(Word) /\ Len(mem') <= Words
  <2>1. CASE tm.state = 2 /\ ShiftIn(q)
    BY <2>1, ShiftStep
  <2>2. CASE ~(tm.state = 2 /\ ShiftIn(q))
    <3>1. mem' = mem
      BY <1>1, <2>2, AssemblerStep
    <3> QED BY <1>6, <3>1
  <2> QED BY <2>1, <2>2
<1>9. Masters'
  BY <1>2, <1>3 DEF Masters
<1>10. Registers'
  BY <1>1, <1>4, <1>5, <1>8 DEF Typed, Registers
<1>11. TypeOK'
  <2>1. tm'.state \in 0 .. 3 /\ tm'.count \in 0 .. Words - 1
    BY <1>5 DEF Signals
  <2>2. phase' \in 0 .. MaxRatio
    BY <1>1 DEF Typed, TypeOK
  <2> QED BY <1>1, <1>2, <1>3, <1>4, <1>8, <2>1, <2>2 DEF Typed, TypeOK
<1>12. cmp'.state # 3 => cmp'.iterations < Rounds
  BY <1>1 DEF Typed
<1> QED BY <1>7, <1>9, <1>10, <1>11, <1>12 DEF Typed

LEMMA CoreTyped == ASSUME Typed, ShaClock PROVE Typed'
<1> USE Sizes
<1>1. /\ phase' = 0
      /\ IF tm.enable
         THEN /\ Controller(tm.write_done) /\ Scheduler(mem)
              /\ Compressor([b \in 0 .. Blocks - 1 |-> Block(run, b)])
         ELSE Disabled
      /\ UNCHANGED <<busVars, pc, run, clocked, leftover>>
  BY DEF ShaClock, ShaEdge, CoreEdge
<1>2. /\ core' \in [state : 0 .. 3, pulse : BOOLEAN]
      /\ sch' \in [busy : BOOLEAN, iterations : 0 .. Rounds - 1, message : Seq(Word),
                   ready : BOOLEAN, W : Seq(Word)]
      /\ cmp' \in Stages
      /\ hashOK' \in BOOLEAN /\ late' \in BOOLEAN
      /\ cmp'.state # 3 => cmp'.iterations < Rounds
  <2>1. CASE tm.enable
    BY <1>1, <2>1, ControllerStep, SchedulerStep, CompressorStep
  <2>2. CASE ~tm.enable
    BY <1>1, <2>2, DisabledStep DEF Clean, Stages
  <2> QED BY <2>1, <2>2
<1>3. Registers'
  BY <1>1, <1>2 DEF Typed, Registers, busVars
<1>4. TypeOK'
  <2>1. TypeOK
    BY DEF Typed
  <2>2. UNCHANGED <<control, rm, pending, fifo, tm, mem, wm, digest, pc>>
    BY <1>1 DEF busVars
  <2>3. phase' \in 0 .. MaxRatio
    BY <1>1
  <2> QED BY <1>2, <2>1, <2>2, <2>3 DEF TypeOK, Stages
<1>5. Masters' /\ Assembling'
  BY <1>1 DEF Typed, Masters, Assembling, busVars
<1> QED BY <1>2, <1>3, <1>4, <1>5 DEF Typed

LEMMA ProgramTyped == ASSUME Typed, Program PROVE Typed'
<1>1. UNCHANGED <<rm, pending, fifo, q, tm, mem, wm, digest, coreVars, phase>>
  BY DEF Program, Message, SHA_256_Intit, Control, SHA_256_CheckDone, ReadDigest, shaVars, busVars
<1>2. /\ pc' \in {"message", "clear", "reset", "start", "poll", "done"}
      /\ control' \in {"clear", "reset", "run"}
      /\ run' \in 0 .. Runs /\ clocked' \in BOOLEAN /\ leftover' \in BOOLEAN
  <2>1. CASE Message
    BY <2>1, Sizes DEF Message, Typed, TypeOK, Registers, shaVars, busVars
  <2>2. CASE SHA_256_Intit
    BY <2>2 DEF SHA_256_Intit, Control, Typed, Registers
  <2>3. CASE SHA_256_CheckDone
    BY <2>3 DEF SHA_256_CheckDone, Typed, TypeOK, Registers, shaVars, busVars
  <2>4. CASE ReadDigest
    BY <2>4 DEF ReadDigest, Typed, TypeOK, Registers, shaVars, busVars
  <2> QED BY <2>1, <2>2, <2>3, <2>4 DEF Program
<1>3. TypeOK'
  BY <1>1, <1>2 DEF Typed, TypeOK, coreVars
<1>4. Registers' /\ Masters' /\ Assembling'
  BY <1>1, <1>2 DEF Typed, Registers, Masters, Assembling, coreVars
<1>5. cmp'.state # 3 => cmp'.iterations < Rounds
  BY <1>1 DEF Typed, coreVars
<1> QED BY <1>3, <1>4, <1>5 DEF Typed

LEMMA InitTyped == ASSUME Init PROVE Typed
<1> USE Sizes DEF Init, ControllerInit, CoreInit, Nothing
<1>1. << >> \in Seq(Word) /\ Len(<< >>) = 0
  BY EmptySeq
<1>2. TypeOK
  <2>1. rm \in [state : 0 .. 3, index : 0 .. Length] /\ wm \in [state : 0 .. 3, index : 0 .. DigestWords]
    OBVIOUS
  <2>2. cmp \in [state : 0 .. 4, iterations : 0 .. Rounds, block_i : 0 .. Blocks - 1]
    OBVIOUS
  <2>3. digest \in [1 .. DigestWords -> 0 .. Runs]
    OBVIOUS
  <2> QED BY <1>1, <2>1, <2>2, <2>3 DEF TypeOK
<1>3. Registers
  <2>1. tm \in Signals
    BY DEF Signals
  <2>2. core \in [state : 0 .. 3, pulse : BOOLEAN]
    OBVIOUS
  <2>3. sch \in [busy : BOOLEAN, iterations : 0 .. Rounds - 1, message : Seq(Word),
                 ready : BOOLEAN, W : Seq(Word)]
    BY <1>1
  <2>4. hashOK \in BOOLEAN /\ late \in BOOLEAN /\ clocked \in BOOLEAN /\ leftover \in BOOLEAN
    BY Zenon
  <2> QED BY <1>1, <2>1, <2>2, <2>3, <2>4 DEF Registers
<1>4. Masters /\ Assembling
  BY DEF Masters, Assembling
<1> QED BY <1>2, <1>3, <1>4 DEF Typed

LEMMA NextTyped == ASSUME Typed, [Next]_vars PROVE Typed'
<1>1. CASE UNCHANGED vars
  BY <1>1 DEF vars, shaVars, busVars, coreVars, Typed, TypeOK, Registers, Masters, Assembling
<1>2. CASE BusClock
  BY <1>2, BusTyped DEF BusClock
<1> QED BY <1>1, <1>2, CoreTyped, ProgramTyped DEF Next

(* Types: every register of SHA_256_Controller.v, Scheduler.v and          *)
(* Compressor.v holds a value of its width, also in runs that begin with   *)
(* the words of another message in the FIFO.                               *)
THEOREM TypeCorrect == Spec => []TypeOK
<1>1. Init => Typed
  BY InitTyped
<1>2. Typed /\ [Next]_vars => Typed'
  BY NextTyped
<1>3. Typed => TypeOK
  BY DEF Typed
<1> QED BY <1>1, <1>2, <1>3, PTL DEF Spec

-----------------------------------------------------------------------------
(* Reset and start.                                                        *)

\* What a clock of the bus leaves alone.
LEMMA BusFrame ==
  ASSUME Typed, NEW waitR \in BOOLEAN, NEW valid \in BOOLEAN, NEW waitW \in BOOLEAN,
         Bus(waitR, valid, waitW)
  PROVE  /\ phase \in {0, 1} /\ phase < MaxRatio /\ phase' = phase + 1
         /\ control' = control /\ core' = core /\ sch' = sch /\ cmp' = cmp /\ oW' = oW
         /\ hashOK' = hashOK /\ late' = late
         /\ clocked' = TRUE /\ pc' = pc /\ run' = run /\ leftover' = leftover
         /\ Clean' = Clean
<1>1. /\ phase < MaxRatio /\ phase' = phase + 1
      /\ control' = control /\ core' = core /\ sch' = sch /\ cmp' = cmp /\ oW' = oW
      /\ hashOK' = hashOK /\ late' = late
      /\ clocked' = TRUE /\ pc' = pc /\ run' = run /\ leftover' = leftover
  BY DEF Bus, BusEdge, coreVars
<1>2. phase \in {0, 1}
  BY <1>1, Sizes DEF Typed, TypeOK
<1>3. Clean' = Clean
  BY <1>1 DEF Clean
<1> QED BY <1>1, <1>2, <1>3

LEMMA BusResets ==
  ASSUME Typed, NEW waitR \in BOOLEAN, NEW valid \in BOOLEAN, NEW waitW \in BOOLEAN,
         Bus(waitR, valid, waitW), ~resetn
  PROVE  AtReset'
<1>1. ReadMaster(waitR) /\ Assembler /\ WriteMaster(waitW, run)
  BY DEF Bus, BusEdge
<1>2. rm'.state = 0 /\ rm'.index = 0
  BY <1>1, ReadMasterStep
<1>3. wm'.state = 0 /\ wm'.index = 0
  BY <1>1, WriteMasterStep
<1>4. tm'.state = 0 /\ tm'.count = 0 /\ ~tm'.enable
  BY <1>1, AssemblerStep
<1> QED BY <1>2, <1>3, <1>4 DEF AtReset

\* The write master starts on oDone, and needs a second clock of the core to
\* write a word.
LEMMA BusLive ==
  ASSUME Typed, Live, resetn,
         NEW waitR \in BOOLEAN, NEW valid \in BOOLEAN, NEW waitW \in BOOLEAN,
         Bus(waitR, valid, waitW)
  PROVE  /\ Live'
         /\ wm.index = DigestWords => wm' = wm
<1>1. Assembler /\ WriteMaster(waitW, run)
  BY DEF Bus, BusEdge
<1>2. /\ phase \in {0, 1} /\ phase' = phase + 1
      /\ core' = core /\ sch' = sch /\ cmp' = cmp /\ Clean' = Clean
  BY BusFrame
<1>3. tm.enable => tm'.enable
  BY <1>1, AssemblerStep
<1>4. /\ wm.state = 0 => wm.index = 0
      /\ wm.state \in 0 .. 3 /\ wm.index \in Nat
  BY DEF Typed, TypeOK, Masters
<1>5. /\ \/ wm'.state = 0 /\ wm.state = 0
         \/ wm'.state = 1 /\ wm.state = 0 /\ oDone
         \/ wm'.state = 1 /\ wm.state = 3
         \/ wm'.state = 2 /\ wm.state \in {1, 2}
         \/ wm'.state = 3 /\ wm.state \in {2, 3}
      /\ wm'.index = IF wm.state = 2 /\ ~waitW THEN wm.index + 1 ELSE wm.index
      /\ wm.index = DigestWords => wm' = wm
  BY <1>1, WriteMasterStep
<1>6. wm'.state # 0 => cmp'.state = 4
  BY <1>2, <1>5 DEF Live, oDone
<1>7. ASSUME cmp'.state = 4, core'.pulse PROVE wm'.index = 0 /\ wm'.state <= phase'
  <2>1. wm.index = 0 /\ wm.state <= phase
    BY <1>2, <1>7 DEF Live
  <2>2. wm.state \in {0, 1}
    BY <1>2, <1>4, <2>1
  <2> QED BY <1>2, <1>5, <2>1, <2>2
<1> QED BY <1>2, <1>3, <1>5, <1>6, <1>7 DEF Live

LEMMA CoreLive ==
  ASSUME Typed, Live, ShaClock
  PROVE  Live' /\ (cmp.state = 4 => tm.enable /\ cmp'.state = 4)
<1>1. /\ phase' = 0
      /\ IF tm.enable
         THEN /\ Controller(tm.write_done) /\ Scheduler(mem)
              /\ Compressor([b \in 0 .. Blocks - 1 |-> Block(run, b)])
         ELSE Disabled
      /\ tm' = tm /\ wm' = wm
  BY DEF ShaClock, ShaEdge, CoreEdge, busVars
<1>2. /\ wm.state = 0 => wm.index = 0
      /\ wm.state \in 0 .. 3 /\ wm.index \in Nat
  BY DEF Typed, TypeOK, Masters
<1>3. cmp.state = 4 => tm.enable
  BY DEF Live, Clean
<1>4. CASE ~tm.enable
  <2>1. Clean'
    BY <1>1, <1>4, DisabledStep
  <2>2. wm.state = 0
    BY <1>3, <1>4 DEF Live
  <2> QED BY <1>1, <1>2, <1>3, <1>4, <2>1, <2>2 DEF Live, Clean
<1>5. CASE tm.enable
  <2>1. /\ \/ /\ core.state = 0 /\ core'.state = 1 /\ core'.pulse
           \/ core.state = 0 /\ core'.state = 0 /\ (core'.pulse <=> core.pulse)
           \/ core.state = 1 /\ oDone /\ core'.state = 3 /\ ~core'.pulse
           \/ core.state = 1 /\ ~oDone /\ core'.state = 2 /\ core'.pulse
           \/ core.state = 1 /\ ~oDone /\ core'.state = 1 /\ ~core'.pulse
           \/ core.state = 2 /\ core'.state = 1 /\ ~core'.pulse
           \/ core.state = 3 /\ core'.state = 3 /\ (core'.pulse <=> core.pulse)
    BY <1>1, <1>5, ControllerStep
  <2>2. cmp.state = 4 => cmp'.state = 4
    BY <1>1, <1>5, CompressorStep
  <2>3. cmp.state = 0 /\ ~sch.ready => cmp'.state = 0
    BY <1>1, <1>5, CompressorStep
  <2>4. ~core.pulse /\ ~sch.ready => ~sch'.ready
    BY <1>1, <1>5, SchedulerStep
  <2>5. core'.state = 0 => ~core'.pulse /\ ~sch'.ready /\ cmp'.state = 0
    BY <2>1, <2>3, <2>4 DEF Live
  <2>6. (core'.state = 2 => core'.pulse) /\ (core'.state = 3 => ~core'.pulse)
    BY <2>1 DEF Live
  <2>7. wm'.state # 0 => cmp'.state = 4
    BY <1>1, <2>2 DEF Live
  <2>8. cmp'.state = 4 /\ core'.pulse => wm'.index = 0 /\ wm'.state <= phase'
    <3>1. CASE cmp.state = 4
      BY <2>1, <3>1 DEF Live, oDone
    <3>2. CASE cmp.state # 4
      <4>1. wm.state = 0
        BY <3>2 DEF Live
      <4> QED BY <1>1, <1>2, <4>1
    <3> QED BY <3>1, <3>2
  <2> QED BY <1>1, <1>5, <2>2, <2>5, <2>6, <2>7, <2>8 DEF Live
<1> QED BY <1>4, <1>5

\* When the digest is written the core is at rest.
LEMMA WrittenFacts ==
  ASSUME Typed, Written
  PROVE  tm.enable /\ cmp.state = 4 /\ ~core.pulse /\ core.state \in {1, 3} /\ wm.index # 0
<1>1. wm.index # 0 /\ wm.state # 0 /\ core.state \in 0 .. 3
  BY Sizes DEF Typed, Masters, Registers, Written
<1>2. cmp.state = 4 /\ ~core.pulse
  BY <1>1 DEF Written, Live
<1>3. tm.enable /\ core.state \in {1, 3}
  BY <1>1, <1>2 DEF Written, Live, Clean
<1> QED BY <1>1, <1>2, <1>3

LEMMA CleanIsLive ==
  ASSUME AtReset, Clean PROVE Live
BY DEF AtReset, Clean, Live

LEMMA BusPhases ==
  ASSUME Typed, Phases,
         NEW waitR \in BOOLEAN, NEW valid \in BOOLEAN, NEW waitW \in BOOLEAN,
         Bus(waitR, valid, waitW)
  PROVE  Phases'
<1>1. /\ phase \in {0, 1} /\ phase' = phase + 1 /\ control' = control /\ core' = core
      /\ clocked' = TRUE /\ pc' = pc /\ Clean' = Clean
  BY BusFrame
<1>2. pc \in {"message", "clear", "reset", "start", "poll", "done"}
  BY DEF Typed, TypeOK
<1>3. ~resetn => AtReset'
  BY BusResets
<1>4. resetn /\ Live => Live'
  BY BusLive
<1>5. resetn /\ Written => Written'
  BY BusLive DEF Written
<1>6. ~Dirty
  BY <1>1 DEF Dirty
<1>7. CASE pc \in {"message", "clear"}
  BY <1>1, <1>3, <1>5, <1>7 DEF Phases, resetn
<1>8. CASE pc = "reset"
  BY <1>1, <1>3, <1>8 DEF Phases, resetn
<1>9. CASE pc = "start"
  <2>1. Clean \/ phase >= 1
    BY <1>1, <1>9 DEF Phases
  <2> QED BY <1>1, <1>3, <1>9, <2>1 DEF Phases, resetn
<1>10. CASE pc = "poll"
  BY <1>1, <1>4, <1>6, <1>10 DEF Phases, resetn
<1>11. CASE pc = "done"
  BY <1>1, <1>5, <1>11 DEF Phases, resetn
<1> QED BY <1>2, <1>7, <1>8, <1>9, <1>10, <1>11

LEMMA CorePhases ==
  ASSUME Typed, Phases, ShaClock
  PROVE  Phases'
<1>1. /\ UNCHANGED <<control, rm, tm, wm, pc, clocked>>
      /\ IF tm.enable
         THEN /\ Controller(tm.write_done)
              /\ Compressor([b \in 0 .. Blocks - 1 |-> Block(run, b)])
         ELSE Disabled
  BY DEF ShaClock, ShaEdge, CoreEdge, busVars
<1>2. pc \in {"message", "clear", "reset", "start", "poll", "done"}
  BY DEF Typed, TypeOK
<1>3. AtReset' = AtReset /\ (AtReset => ~tm.enable)
  BY <1>1 DEF AtReset
<1>4. ~tm.enable => Clean'
  BY <1>1, DisabledStep
<1>5. Live => Live'
  BY CoreLive
<1>6. Written => Written'
  BY <1>1, <1>5 DEF Written
<1>7. Dirty => Live'
  <2>1. AtReset' /\ Clean' => Live'
    BY <1>1 DEF AtReset, Clean, Live
  <2> QED BY <1>3, <1>4, <2>1 DEF Dirty
<1>8. Clean' => ~core'.pulse
  BY DEF Clean
<1>9. CASE pc \in {"message", "clear"}
  BY <1>1, <1>3, <1>4, <1>6, <1>9 DEF Phases
<1>10. CASE pc = "reset"
  <2>1. CASE ~clocked /\ tm.enable
    <3>1. cmp.state = 4 /\ core.state \in {1, 3} /\ ~core.pulse /\ control = "clear"
      BY <1>10, <2>1 DEF Phases
    <3>2. core'.state = 3 /\ ~core'.pulse
      BY <1>1, <2>1, <3>1, ControllerStep DEF oDone
    <3>3. cmp'.state = 4
      BY <1>1, <2>1, <3>1, CompressorStep
    <3> QED BY <1>1, <1>10, <2>1, <3>1, <3>2, <3>3 DEF Phases
  <2>2. CASE clocked \/ ~tm.enable
    BY <1>1, <1>3, <1>4, <1>8, <1>10, <2>2 DEF Phases
  <2> QED BY <2>1, <2>2
<1>11. CASE pc = "start"
  BY <1>1, <1>3, <1>4, <1>8, <1>11 DEF Phases
<1>12. CASE pc = "poll"
  BY <1>1, <1>5, <1>7, <1>12 DEF Phases
<1>13. CASE pc = "done"
  BY <1>1, <1>6, <1>13 DEF Phases
<1> QED BY <1>2, <1>9, <1>10, <1>11, <1>12, <1>13

LEMMA ProgramPhases ==
  ASSUME Typed, Phases, Program
  PROVE  Phases'
<1>1. UNCHANGED <<rm, tm, wm, core, sch, cmp, hashOK, late, phase>>
  BY DEF Program, Message, SHA_256_Intit, Control, SHA_256_CheckDone, ReadDigest,
         shaVars, busVars, coreVars
<1>2. AtReset' = AtReset /\ Clean' = Clean /\ Live' = Live /\ Written' = Written /\ Dirty' = Dirty
  BY <1>1 DEF AtReset, Clean, Live, Written, Dirty
<1>3. CASE Message
  BY <1>2, <1>3 DEF Message, Phases, shaVars, busVars
<1>4. CASE Control("clear", "clear", "reset")
  <2>1. pc = "clear" /\ control' = "clear" /\ pc' = "reset" /\ clocked' = FALSE
    BY <1>4 DEF Control
  <2>2. CASE AtReset /\ Clean
    BY <1>1, <1>2, <2>1, <2>2 DEF Phases, AtReset, Clean
  <2>3. CASE Written
    BY <1>1, <2>1, <2>3, WrittenFacts DEF Phases
  <2> QED BY <2>1, <2>2, <2>3 DEF Phases
<1>5. CASE Control("reset", "reset", "start")
  BY <1>1, <1>2, <1>5 DEF Control, Phases
<1>6. CASE Control("start", "run", "poll")
  <2>1. /\ control' = "run" /\ pc' = "poll" /\ ~core.pulse /\ AtReset
        /\ Clean \/ phase >= 2
    BY <1>6 DEF Control, Phases
  <2>2. Live \/ Dirty
    BY <2>1, CleanIsLive DEF Dirty
  <2> QED BY <1>2, <2>1, <2>2 DEF Phases
<1>7. CASE SHA_256_CheckDone
  <2>1. pc = "poll" /\ pc' = "done" /\ control' = control /\ wm.index = DigestWords
    BY <1>7 DEF SHA_256_CheckDone, master_write_done, shaVars, busVars
  <2>2. control = "run" /\ Written
    BY <2>1, Sizes DEF Phases, Dirty, AtReset, Written
  <2> QED BY <1>2, <2>1, <2>2 DEF Phases
<1>8. CASE ReadDigest
  BY <1>2, <1>8 DEF ReadDigest, Phases, shaVars, busVars
<1> QED BY <1>3, <1>4, <1>5, <1>6, <1>7, <1>8 DEF Program, SHA_256_Intit

LEMMA InitPhases == ASSUME Init PROVE Phases
BY DEF Init, ControllerInit, CoreInit, Phases, AtReset, Clean

LEMMA NextPhases == ASSUME Typed, Phases, [Next]_vars PROVE Phases'
<1>1. CASE UNCHANGED vars
  BY <1>1 DEF vars, shaVars, busVars, coreVars, Phases, AtReset, Clean, Live, Written, Dirty
<1>2. CASE BusClock
  BY <1>2, BusPhases DEF BusClock
<1> QED BY <1>1, <1>2, CorePhases, ProgramPhases DEF Next

-----------------------------------------------------------------------------
(* The words on their way.                                                 *)

LEMMA Multiples ==
  ASSUME NEW a \in Nat, NEW b \in Nat
  PROVE  /\ Words * a \in Nat
         /\ Words * (a + 1) = Words * a + Words
         /\ Words * a <= Words * b => a <= b
         /\ a <= b => Words * a <= Words * b
<1>1. Words \in Nat /\ Words >= 2
  BY Sizes
<1>2. Words * a \in Nat /\ Words * (a + 1) = Words * a + Words
  BY <1>1
<1>3. ASSUME NEW c \in Nat, NEW d \in Nat, c <= d PROVE Words * c <= Words * d
  <2>1. d - c \in Nat /\ d = c + (d - c)
    BY <1>3
  <2>2. Words * (d - c) \in Nat
    BY <1>1, <2>1
  <2>3. Words * (c + (d - c)) = Words * c + Words * (d - c)
    BY <1>1, <2>1
  <2> QED BY <1>1, <2>1, <2>2, <2>3
<1>4. ASSUME Words * a <= Words * b, ~(a <= b) PROVE FALSE
  <2>1. b + 1 \in Nat /\ b + 1 <= a
    BY <1>4
  <2>2. Words * (b + 1) <= Words * a
    BY <1>3, <2>1
  <2>3. Words * (b + 1) = Words * b + Words /\ Words * b \in Nat
    BY <1>1
  <2> QED BY <1>1, <1>2, <1>4, <2>2, <2>3
<1> QED BY <1>2, <1>3, <1>4

\* The counts of words and blocks.
LEMMA StreamCounts ==
  ASSUME Typed, NEW m \in 0 .. Blocks, Stream(m)
  PROVE  /\ Len(pending) \in Nat /\ Len(fifo) \in Nat /\ rm.index \in 0 .. Length
         /\ tm.state \in 0 .. 3 /\ tm.count \in 0 .. Words - 1
         /\ Assembled(m) \in Nat /\ Words * Assembled(m) \in Nat
         /\ Assembled(m) <= Blocks
         /\ Popped \in Int /\ Shifted \in Int
         /\ Shifted >= Words * Assembled(m) /\ Popped >= Shifted
         /\ Popped + Len(fifo) + Len(pending) = rm.index
         /\ ~fifo_full
<1>1. /\ Len(pending) \in Nat /\ Len(fifo) \in Nat /\ rm.index \in 0 .. Length
      /\ tm.state \in 0 .. 3 /\ tm.count \in 0 .. Words - 1
  BY LenProperties DEF Typed, TypeOK, Registers
<1>2. Assembled(m) \in Nat /\ Words * Assembled(m) \in Nat
  BY Sizes DEF Assembled
<1>3. /\ Popped \in Int /\ Shifted \in Int /\ Popped >= Shifted
      /\ Popped + Len(fifo) + Len(pending) = rm.index
  <2>1. Popped \in Int
    BY <1>1, Sizes DEF Popped
  <2>2. Shifted = (IF tm.state = 2 THEN Popped - 1 ELSE Popped)
    BY DEF Shifted
  <2>3. Popped + Len(fifo) + Len(pending) = rm.index
    BY <1>1, Sizes DEF Popped
  <2> QED BY <2>1, <2>2, <2>3
<1>4. Shifted = Words * Assembled(m) + tm.count
  BY DEF Stream
<1>5. Shifted >= Words * Assembled(m)
  <2>1. tm.count \in Nat
    BY <1>1, Sizes
  <2>2. PICK x \in Nat : x = Words * Assembled(m)
    BY <1>2
  <2> QED BY <1>4, <2>1, <2>2
<1>6. Words * Assembled(m) <= Length
  BY <1>1, <1>2, <1>3, <1>5, Sizes
<1>7. Assembled(m) <= Blocks
  BY <1>2, <1>6, Multiples, Sizes DEF Length
<1>8. ~fifo_full
  BY <1>1, <1>2, <1>3, <1>5, Sizes DEF fifo_full
<1> QED BY <1>1, <1>2, <1>3, <1>5, <1>7, <1>8

LEMMA BlockIsSomething == ASSUME NEW b PROVE Block(run, b) # Nothing
<1>1. 1 \in DOMAIN Block(run, b)
  BY Sizes DEF Block
<1>2. 1 \notin DOMAIN << >>
  OBVIOUS
<1> QED BY <1>1, <1>2 DEF Nothing

\* An engine that has just been started.
LEMMA FreshStream ==
  ASSUME Typed', AtReset', Clean', pending' = << >>, fifo' = << >>
  PROVE  Live' /\ Stored' /\ \E m \in 0 .. Blocks : Stream(m)' /\ Expanding(m)'
<1>1. Live'
  BY DEF AtReset, Clean, Live
<1>2. Stored'
  BY DEF AtReset, Stored
<1>3. Len(pending') = 0 /\ Len(fifo') = 0 /\ Len(mem') \in Nat
  BY LenProperties DEF Typed, Registers
<1>4. Popped' = 0 /\ Shifted' = 0 /\ Assembled(0)' = 0
  <2>1. Popped' = 0
    <3>1. rm'.index = 0
      BY DEF AtReset
    <3>2. Popped' = 0 - 0 - 0
      BY <1>3, <3>1, Zenon DEF Popped
    <3> QED BY <3>2
  <2>2. Shifted' = Popped'
    BY DEF Shifted, AtReset
  <2>3. Assembled(0)' = 0
    BY DEF Assembled, AtReset, Clean
  <2> QED BY <2>1, <2>2, <2>3
<1>5. Stream(0)'
  BY <1>3, <1>4, Sizes DEF Stream, InOrder, AtReset, Clean
<1>6. Expanding(0)'
  BY DEF Expanding, InTime, Begun, Clean
<1>7. 0 \in 0 .. Blocks
  BY Sizes
<1> QED BY <1>1, <1>2, <1>5, <1>6, <1>7

\* What the interconnect and the FIFO do to the order of the words.
LEMMA PathInOrder ==
  ASSUME Typed, InOrder, resetn, ~fifo_full, Popped \in Int,
         NEW waitR \in BOOLEAN, NEW valid \in BOOLEAN, NEW waitW \in BOOLEAN,
         Bus(waitR, valid, waitW)
  PROVE  InOrder' /\ Popped' = IF tm.state = 1 THEN Popped + 1 ELSE Popped
<1> DEFINE accept == oRead /\ ~waitR
           left == IF valid THEN Tail(pending) ELSE pending
           sent == IF accept THEN <<<<run, rm.index>>>> ELSE << >>
           pop == tm.state = 1
           kept == IF pop THEN Tail(fifo) ELSE fifo
           came == IF valid THEN <<Head(pending)>> ELSE << >>
           v == IF valid THEN 1 ELSE 0
           a == IF accept THEN 1 ELSE 0
           p == IF pop THEN 1 ELSE 0
<1>1. /\ pending \in Seq(Word) /\ Len(pending) \in Nat
      /\ fifo \in Seq(Word) /\ Len(fifo) \in Nat /\ rm.index \in Nat /\ run \in Nat
  BY LenProperties, Sizes DEF Typed, TypeOK, Registers
<1>2. /\ tm.rd <=> pop
      /\ pop => fifo # << >>
  BY DEF Typed, Assembling
<1>3. ReadMaster(waitR) /\ Interconnect(waitR, valid, run) /\ Fifo(valid) /\ Assembler /\ run' = run
  BY DEF Bus, BusEdge
<1>4. /\ pending' = left \o sent
      /\ valid => pending # << >>
  BY <1>3 DEF Interconnect
<1>5. fifo' = kept \o came /\ (pop => q' = Head(fifo))
  <2>1. control # "clear"
    BY DEF resetn
  <2>2. (tm.rd /\ fifo # << >>) = pop
    BY <1>2
  <2> QED BY <1>3, <2>1, <2>2 DEF Fifo
<1>6. rm'.index = rm.index + a
  BY <1>1, <1>3, ReadMasterStep
<1>7. /\ left \in Seq(Word) /\ Len(left) = Len(pending) - v
      /\ \A k \in 1 .. Len(left) : left[k] = pending[k + v]
  <2>1. CASE valid
    BY <1>1, <1>4, <2>1, HeadTailProperties
  <2>2. CASE ~valid
    BY <1>1, <2>2
  <2> QED BY <2>1, <2>2
<1>8. sent \in Seq(Word) /\ Len(sent) = a /\ (accept => sent[1] = <<run, rm.index>>)
  <2>1. <<run, rm.index>> \in Word
    BY <1>1 DEF Word
  <2>2. <<<<run, rm.index>>>> \in Seq(Word) /\ Len(<<<<run, rm.index>>>>) = 1
    BY <2>1
  <2> QED BY <2>2, EmptySeq
<1>9. /\ kept \in Seq(Word) /\ Len(kept) = Len(fifo) - p
      /\ \A k \in 1 .. Len(kept) : kept[k] = fifo[k + p]
  <2>1. CASE pop
    BY <1>1, <1>2, <2>1, HeadTailProperties
  <2>2. CASE ~pop
    BY <1>1, <2>2
  <2> QED BY <2>1, <2>2
<1>10. /\ came \in Seq(Word) /\ Len(came) = v
       /\ valid => came[1] = pending[1] /\ Len(pending) > 0
  <2>1. CASE valid
    <3>1. Head(pending) \in Word /\ Len(pending) > 0 /\ Head(pending) = pending[1]
      BY <1>1, <1>4, <2>1, HeadTailProperties, EmptySeq
    <3>2. <<Head(pending)>> \in Seq(Word) /\ Len(<<Head(pending)>>) = 1
      BY <3>1
    <3> QED BY <2>1, <3>1, <3>2
  <2>2. CASE ~valid
    BY <2>2, EmptySeq
  <2> QED BY <2>1, <2>2
<1>11. v \in 0 .. 1 /\ a \in 0 .. 1 /\ p \in 0 .. 1
  OBVIOUS
<1>12. (valid <=> v = 1) /\ (accept <=> a = 1) /\ (pop <=> p = 1)
  OBVIOUS
<1> HIDE DEF left, sent, kept, came, v, a, p
<1>13. /\ Len(pending') = Len(pending) - v + a
       /\ \A k \in 1 .. Len(pending') :
            pending'[k] = IF k <= Len(left) THEN left[k] ELSE sent[k - Len(left)]
  BY <1>1, <1>4, <1>7, <1>8, <1>11, ConcatProperties
<1>14. /\ Len(fifo') = Len(fifo) - p + v
       /\ \A k \in 1 .. Len(fifo') :
            fifo'[k] = IF k <= Len(kept) THEN kept[k] ELSE came[k - Len(kept)]
  BY <1>1, <1>5, <1>9, <1>10, <1>11, ConcatProperties
<1>15. Popped' = Popped + p
  <2>1. Popped = rm.index - Len(pending) - Len(fifo)
    BY Zenon DEF Popped
  <2>2. Popped' = (rm.index + a) - (Len(pending) - v + a) - (Len(fifo) - p + v)
    BY <1>6, <1>13, <1>14, Zenon DEF Popped
  <2>3. ASSUME NEW i \in Nat, NEW n \in Nat, NEW f \in Nat
        PROVE  (i + a) - (n - v + a) - (f - p + v) = (i - n - f) + p
    BY <1>11
  <2> QED BY <1>1, <2>1, <2>2, <2>3
<1>16. /\ \A k \in 1 .. Len(fifo) : fifo[k] = <<run, Popped + k - 1>>
       /\ \A k \in 1 .. Len(pending) : pending[k] = <<run, Popped + Len(fifo) + k - 1>>
       /\ Popped + Len(fifo) + Len(pending) = rm.index
  <2>1. Popped + Len(fifo) + Len(pending) = rm.index
    BY <1>1 DEF Popped
  <2> QED BY <2>1, Zenon DEF InOrder
<1>17. ASSUME NEW k \in 1 .. Len(fifo') PROVE fifo'[k] = <<run, Popped' + k - 1>>
  <2>1. CASE k <= Len(kept)
    <3>1. k \in 1 .. Len(kept) /\ k + p \in 1 .. Len(fifo)
      BY <1>1, <1>9, <1>11, <2>1
    <3>2. fifo'[k] = fifo[k + p]
      BY <1>9, <1>14, <2>1, <3>1
    <3>3. fifo[k + p] = <<run, Popped + (k + p) - 1>>
      BY <1>16, <3>1
    <3> QED BY <1>11, <1>15, <3>2, <3>3
  <2>2. CASE ~(k <= Len(kept))
    <3>1. k = Len(kept) + 1 /\ v = 1
      BY <1>1, <1>9, <1>11, <1>14, <2>2
    <3>2. fifo'[k] = came[1]
      BY <1>1, <1>9, <1>11, <1>14, <2>2, <3>1
    <3>3. came[1] = pending[1] /\ 1 \in 1 .. Len(pending)
      BY <1>1, <1>10, <1>12, <3>1
    <3>4. pending[1] = <<run, Popped + Len(fifo) + 1 - 1>>
      BY <1>16, <3>3
    <3>5. Popped + Len(fifo) + 1 - 1 = Popped' + k - 1
      BY <1>1, <1>9, <1>11, <1>15, <3>1
    <3> QED BY <3>2, <3>3, <3>4, <3>5
  <2> QED BY <2>1, <2>2
<1>18. ASSUME NEW k \in 1 .. Len(pending')
       PROVE  pending'[k] = <<run, Popped' + Len(fifo') + k - 1>>
  <2>1. CASE k <= Len(left)
    <3>1. k \in 1 .. Len(left) /\ k + v \in 1 .. Len(pending)
      BY <1>1, <1>7, <1>11, <2>1
    <3>2. pending'[k] = pending[k + v]
      BY <1>7, <1>13, <2>1, <3>1
    <3>3. pending[k + v] = <<run, Popped + Len(fifo) + (k + v) - 1>>
      BY <1>16, <3>1
    <3>4. Popped + Len(fifo) + (k + v) - 1 = Popped' + Len(fifo') + k - 1
      BY <1>1, <1>11, <1>14, <1>15
    <3> QED BY <3>2, <3>3, <3>4
  <2>2. CASE ~(k <= Len(left))
    <3>1. k = Len(left) + 1 /\ a = 1
      BY <1>1, <1>7, <1>11, <1>13, <2>2
    <3>2. pending'[k] = sent[1]
      BY <1>1, <1>7, <1>11, <1>13, <2>2, <3>1
    <3>3. sent[1] = <<run, rm.index>>
      BY <1>8, <1>12, <3>1
    <3>4. rm.index = Popped' + Len(fifo') + k - 1
      BY <1>1, <1>7, <1>11, <1>14, <1>15, <1>16, <3>1
    <3> QED BY <3>2, <3>3, <3>4
  <2> QED BY <2>1, <2>2
<1>19. tm'.state = 2 => q' = <<run, Popped' - 1>>
  <2>1. SUFFICES ASSUME tm'.state = 2 PROVE q' = <<run, Popped' - 1>>
    OBVIOUS
  <2>2. tm.state = 1
    BY <1>3, <2>1, AssemblerStep
  <2>3. Len(fifo) > 0 /\ q' = fifo[1]
    BY <1>1, <1>2, <1>5, <2>2, EmptySeq
  <2>4. fifo[1] = <<run, Popped + 1 - 1>>
    BY <1>1, <1>16, <2>3
  <2>5. Popped' = Popped + 1
    BY <1>12, <1>15, <2>2
  <2> QED BY <2>3, <2>4, <2>5
<1>20. InOrder'
  BY <1>3, <1>17, <1>18, <1>19 DEF InOrder
<1>21. Popped' = IF tm.state = 1 THEN Popped + 1 ELSE Popped
  BY <1>11, <1>12, <1>15
<1> QED BY <1>20, <1>21

\* Shifting the next word in.
LEMMA ShiftInOrder ==
  ASSUME Typed, NEW m \in 0 .. Blocks, Stream(m), tm.state = 2, ~core.pulse, ShiftIn(q)
  PROVE  /\ mem' \in Seq(Word) /\ Len(mem') \in Nat /\ Len(mem') <= Words
         /\ Len(mem') >= tm.count + 1
         /\ \A k \in 1 .. tm.count + 1 :
              mem'[Len(mem') - (tm.count + 1) + k] = <<run, Words * m + k - 1>>
         /\ Popped = Words * m + tm.count + 1
<1>1. /\ mem' \in Seq(Word) /\ Len(mem') <= Words
      /\ Len(mem') = IF Len(mem) < Words THEN Len(mem) + 1 ELSE Words
      /\ mem'[Len(mem')] = q
      /\ \A k \in 0 .. Len(mem) - 1 :
           k + 1 < Len(mem') => mem'[Len(mem') - 1 - k] = mem[Len(mem) - k]
  BY ShiftStep
<1>2. /\ Len(mem) \in Nat /\ Len(mem) <= Words /\ Words \in Nat
      /\ tm.count \in 0 .. Words - 1 /\ Words * m \in Nat
  BY LenProperties, Sizes DEF Typed, TypeOK, Registers
<1>3. Popped \in Int
  BY StreamCounts
<1>4. Assembled(m) = m
  BY DEF Assembled
<1>5. /\ Popped - 1 = Words * m + tm.count
      /\ Len(mem) >= tm.count
      /\ \A k \in 1 .. tm.count :
           mem[Len(mem) - tm.count + k] = <<run, Words * m + k - 1>>
      /\ q = <<run, Popped - 1>>
  BY <1>4 DEF Stream, InOrder, Shifted
<1>6. Popped = Words * m + tm.count + 1
  BY <1>2, <1>3, <1>5
<1>7. Len(mem') \in Nat /\ Len(mem') >= tm.count + 1
  BY <1>1, <1>2, <1>5
<1>8. ASSUME NEW k \in 1 .. tm.count + 1
      PROVE  mem'[Len(mem') - (tm.count + 1) + k] = <<run, Words * m + k - 1>>
  <2>1. CASE k = tm.count + 1
    <3>1. Len(mem') - (tm.count + 1) + k = Len(mem')
      BY <1>2, <1>7, <2>1
    <3>2. Popped - 1 = Words * m + k - 1
      <4>1. tm.count \in Nat
        BY <1>2
      <4>2. PICK x \in Int : x = Words * m
        BY <1>2
      <4> QED BY <1>6, <2>1, <4>1, <4>2
    <3>3. mem'[Len(mem')] = q /\ q = <<run, Popped - 1>>
      BY <1>1, <1>5, Zenon
    <3> QED BY <3>1, <3>2, <3>3, Zenon
  <2>2. CASE k # tm.count + 1
    <3> DEFINE c == tm.count
               l == Len(mem)
               n == Len(mem')
    <3>0. c \in Nat /\ l \in Nat /\ n \in Nat /\ l >= c /\ n >= c + 1
          /\ k \in 1 .. c + 1 /\ k # c + 1
      BY <1>2, <1>5, <1>7, <2>2
    <3> HIDE DEF c, l, n
    <3>5. /\ k \in 1 .. c /\ c - k \in 0 .. l - 1 /\ (c - k) + 1 < n
          /\ n - 1 - (c - k) = n - (c + 1) + k
          /\ l - (c - k) = l - c + k
      BY <3>0
    <3>1. /\ k \in 1 .. tm.count
          /\ tm.count - k \in 0 .. Len(mem) - 1
          /\ (tm.count - k) + 1 < Len(mem')
      BY <3>5 DEF c, l, n
    <3>2. mem'[Len(mem') - 1 - (tm.count - k)] = mem[Len(mem) - (tm.count - k)]
      BY <1>1, <3>1
    <3>3. /\ Len(mem') - 1 - (tm.count - k) = Len(mem') - (tm.count + 1) + k
          /\ Len(mem) - (tm.count - k) = Len(mem) - tm.count + k
      BY <3>5 DEF c, l, n
    <3>4. mem[Len(mem) - tm.count + k] = <<run, Words * m + k - 1>>
      BY <1>5, <3>1
    <3> QED BY <3>2, <3>3, <3>4
  <2> QED BY <2>1, <2>2
<1> QED BY <1>1, <1>6, <1>7, <1>8

\* A clock of the bus moves the words on, and hands no block over.
LEMMA BusStream ==
  ASSUME Typed, NEW m \in 0 .. Blocks, Stream(m), resetn,
         NEW waitR \in BOOLEAN, NEW valid \in BOOLEAN, NEW waitW \in BOOLEAN,
         Bus(waitR, valid, waitW)
  PROVE  Stream(m)'
<1>1. /\ phase \in {0, 1} /\ phase' = phase + 1
      /\ core' = core /\ sch' = sch /\ run' = run
  BY BusFrame
<1>2. /\ Words * m \in Nat /\ Words * (m + 1) = Words * m + Words /\ Words \in Nat
      /\ tm.count \in 0 .. Words - 1 /\ Popped \in Int /\ Shifted \in Int /\ m \in Nat
      /\ Len(mem) \in Nat
  BY StreamCounts, Multiples, Sizes, LenProperties DEF Typed, Registers
<1>3. InOrder' /\ Popped' = IF tm.state = 1 THEN Popped + 1 ELSE Popped
  <2>1. InOrder /\ ~fifo_full
    BY StreamCounts DEF Stream
  <2> QED BY <1>2, <2>1, PathInOrder
<1>4. Assembler
  BY DEF Bus, BusEdge
<1>5. /\ Shifted = Words * Assembled(m) + tm.count
      /\ Len(mem) >= tm.count
      /\ \A k \in 1 .. tm.count :
           mem[Len(mem) - tm.count + k] = <<run, Words * Assembled(m) + k - 1>>
      /\ tm.state = 3 \/ core.pulse => mem = Block(run, m)
      /\ core.pulse => /\ ~sch.ready /\ tm.count = 0
                       /\ IF tm.state = 3 THEN phase = 0 ELSE tm.state < phase
      /\ sch.message = IF m = 0 THEN Nothing ELSE Block(run, m - 1)
  BY DEF Stream
<1>6. ASSUME mem' = mem, tm'.count = tm.count, Assembled(m)' = Assembled(m),
             Shifted' = Shifted,
             tm'.state = 3 => tm.state = 3,
             core.pulse => tm'.state < phase'
      PROVE  Stream(m)'
  <2>1. Shifted' = Words * Assembled(m)' + tm'.count
    BY <1>5, <1>6
  <2>2. \A k \in 1 .. tm'.count :
           mem'[Len(mem') - tm'.count + k] = <<run', Words * Assembled(m)' + k - 1>>
    BY <1>1, <1>5, <1>6
  <2>3. tm'.state = 3 \/ core'.pulse => mem' = Block(run', m)
    BY <1>1, <1>5, <1>6
  <2>4. core'.pulse => /\ ~sch'.ready /\ tm'.count = 0 /\ tm'.state # 3 /\ tm'.state < phase'
    BY <1>1, <1>5, <1>6
  <2>5. sch'.message = IF m = 0 THEN Nothing ELSE Block(run', m - 1)
    BY <1>1, <1>5
  <2>6. Len(mem') >= tm'.count
    BY <1>5, <1>6
  <2> QED BY <1>3, <2>1, <2>2, <2>3, <2>4, <2>5, <2>6 DEF Stream
<1>7. CASE tm.state = 0
  <2>1. tm'.state \in {0, 1} /\ mem' = mem /\ tm'.count = tm.count
    BY <1>4, <1>7, AssemblerStep
  <2>2. Assembled(m)' = Assembled(m)
    BY <1>1, <1>7, <2>1 DEF Assembled
  <2>3. Shifted' = Shifted
    BY <1>3, <1>7, <2>1 DEF Shifted
  <2>4. core.pulse => tm'.state < phase'
    BY <1>1, <1>5, <1>7, <2>1
  <2> QED BY <1>6, <2>1, <2>2, <2>3, <2>4
<1>8. CASE tm.state = 1
  <2>1. tm'.state = 2 /\ mem' = mem /\ tm'.count = tm.count
    BY <1>4, <1>8, AssemblerStep
  <2>2. ~core.pulse
    BY <1>1, <1>5, <1>8
  <2>3. Assembled(m)' = Assembled(m)
    BY <1>1, <1>8, <2>1 DEF Assembled
  <2>4. Shifted' = Shifted
    BY <1>2, <1>3, <1>8, <2>1 DEF Shifted
  <2> QED BY <1>6, <2>1, <2>2, <2>3, <2>4
<1>9. CASE tm.state = 2
  <2>1. ~core.pulse
    BY <1>1, <1>5, <1>9
  <2>2. \/ tm.count < Words - 1 /\ tm'.state = 0 /\ tm'.count = tm.count + 1
        \/ tm.count = Words - 1 /\ tm'.state = 3 /\ tm'.count = 0
    BY <1>4, <1>9, AssemblerStep
  <2>3. ShiftIn(q)
    BY <1>4, <1>9, AssemblerStep
  <2>4. /\ mem' \in Seq(Word) /\ Len(mem') \in Nat /\ Len(mem') <= Words
        /\ Len(mem') >= tm.count + 1
        /\ \A k \in 1 .. tm.count + 1 :
             mem'[Len(mem') - (tm.count + 1) + k] = <<run, Words * m + k - 1>>
        /\ Popped = Words * m + tm.count + 1
    BY <1>9, <2>1, <2>3, ShiftInOrder
  <2>5. Shifted' = Popped
    BY <1>3, <1>9, <2>2 DEF Shifted
  <2>6. sch'.message = IF m = 0 THEN Nothing ELSE Block(run', m - 1)
    BY <1>1, <1>5
  <2>7. ~core'.pulse
    BY <1>1, <2>1
  <2>8. CASE tm'.state = 0 /\ tm'.count = tm.count + 1
    <3>1. Assembled(m)' = m
      BY <2>7, <2>8 DEF Assembled
    <3>2. Shifted' = Words * Assembled(m)' + tm'.count
      BY <1>2, <2>4, <2>5, <2>8, <3>1
    <3>3. \A k \in 1 .. tm'.count :
             mem'[Len(mem') - tm'.count + k] = <<run', Words * Assembled(m)' + k - 1>>
      BY <1>1, <2>4, <2>8, <3>1
    <3> QED BY <1>3, <2>4, <2>6, <2>7, <2>8, <3>2, <3>3 DEF Stream
  <2>9. CASE tm.count = Words - 1 /\ tm'.state = 3 /\ tm'.count = 0
    <3>1. Assembled(m)' = m + 1
      BY <2>9 DEF Assembled
    <3>2. Shifted' = Words * Assembled(m)' + tm'.count
      BY <1>2, <2>4, <2>5, <2>9, <3>1
    <3>3. Len(mem') = Words /\ tm.count + 1 = Words
      BY <1>2, <2>4, <2>9
    <3>4. \A k \in 1 .. Words : mem'[k] = <<run, Words * m + k - 1>>
      <4>1. \A k \in 1 .. Words : Words - Words + k = k
        BY <1>2
      <4> QED BY <2>4, <3>3, <4>1
    <3>5. mem' = Block(run', m)
      <4>1. mem' = [k \in 1 .. Words |-> mem'[k]]
        BY <2>4, <3>3
      <4>2. Words * m = m * Words
        BY <1>2
      <4>3. [k \in 1 .. Words |-> mem'[k]] = [k \in 1 .. Words |-> <<run, m * Words + k - 1>>]
        BY <3>4, <4>2
      <4> QED BY <1>1, <4>1, <4>3, Zenon DEF Block
    <3>6. Len(mem') >= tm'.count /\ \A k \in 1 .. tm'.count : FALSE
      BY <2>4, <2>9
    <3> QED BY <1>3, <2>6, <2>7, <3>2, <3>5, <3>6 DEF Stream
  <2> QED BY <2>2, <2>8, <2>9
<1>10. CASE tm.state = 3
  <2>1. tm'.state = (IF core.pulse THEN 0 ELSE 3) /\ mem' = mem /\ tm'.count = 0
    BY <1>4, <1>10, AssemblerStep
  <2>2. tm'.count = tm.count
    BY <1>10, <2>1 DEF Typed, Assembling
  <2>3. Assembled(m)' = Assembled(m)
    BY <1>1, <1>10, <2>1 DEF Assembled
  <2>4. Shifted' = Shifted
    BY <1>3, <1>10, <2>1 DEF Shifted
  <2>5. core.pulse => tm'.state < phase'
    BY <1>1, <1>5, <1>10, <2>1
  <2> QED BY <1>6, <1>10, <2>1, <2>2, <2>3, <2>4, <2>5
<1>11. tm.state \in 0 .. 3
  BY DEF Typed, TypeOK
<1> QED BY <1>7, <1>8, <1>9, <1>10, <1>11

-----------------------------------------------------------------------------
(* The blocks and the digest.                                              *)

LEMMA BusHashed ==
  ASSUME Typed, Typed', Phases, Hashed,
         NEW waitR \in BOOLEAN, NEW valid \in BOOLEAN, NEW waitW \in BOOLEAN,
         Bus(waitR, valid, waitW)
  PROVE  Hashed'
<1> SUFFICES ASSUME Hashing' PROVE Hashed'
  BY DEF Hashed
<1>1. /\ phase \in {0, 1} /\ run' = run /\ pc' = pc /\ leftover' = leftover
      /\ core' = core /\ sch' = sch /\ cmp' = cmp /\ oW' = oW
      /\ hashOK' = hashOK /\ late' = late
  BY BusFrame
<1>2. Hashing /\ ~Dirty
  BY <1>1 DEF Hashing, Dirty
<1>3. resetn
  BY <1>2 DEF Hashing, Phases, resetn
<1>4. Live /\ Stored
  BY <1>2 DEF Hashed
<1>5. PICK m \in 0 .. Blocks : Stream(m) /\ Expanding(m)
  BY <1>2 DEF Hashed
<1>6. Live'
  BY <1>3, <1>4, BusLive
<1>7. Stream(m)'
  BY <1>3, <1>5, BusStream
<1>8. Expanding(m)'
  BY <1>1, <1>5 DEF Expanding, Begun, InTime, Spoilt
<1>9. Stored'
  <2>1. /\ wm'.index = IF wm.state = 2 /\ ~waitW THEN wm.index + 1 ELSE wm.index
        /\ \A w \in 1 .. DigestWords :
             digest'[w] = IF wm.state = 2 /\ ~waitW /\ w = wm.index + 1
                          THEN IF hashOK THEN run ELSE 0
                          ELSE digest[w]
    BY <1>3, WriteMasterStep DEF Bus, BusEdge
  <2>2. wm.index \in Nat /\ wm'.index \in 0 .. DigestWords /\ DigestWords \in Nat
    BY Sizes DEF Typed, TypeOK
  <2>3. ASSUME NEW w \in 1 .. wm'.index PROVE digest'[w] = IF late' THEN 0 ELSE run'
    <3>1. w \in 1 .. DigestWords
      BY <2>2
    <3>2. CASE w = wm.index + 1
      <4>1. wm.state = 2 /\ ~waitW
        BY <2>1, <2>2, <3>2
      <4>2. digest'[w] = IF hashOK THEN run ELSE 0
        BY <2>1, <3>1, <3>2, <4>1
      <4>3. cmp.state = 4
        BY <1>4, <4>1 DEF Live
      <4>4. late <=> ~hashOK
        BY <1>5, <4>3 DEF Expanding, Spoilt, InTime
      <4> QED BY <1>1, <4>2, <4>4
    <3>3. CASE w # wm.index + 1
      <4>1. w \in 1 .. wm.index
        BY <2>1, <2>2, <3>3
      <4>2. digest[w] = IF late THEN 0 ELSE run
        BY <1>4, <4>1 DEF Stored
      <4> QED BY <1>1, <2>1, <3>1, <3>3, <4>2
    <3> QED BY <3>2, <3>3
  <2> QED BY <2>3 DEF Stored
<1> QED BY <1>6, <1>7, <1>8, <1>9 DEF Hashed

\* A clock of the core takes the block that is offered.
LEMMA CoreStream ==
  ASSUME Typed, Live, NEW m \in 0 .. Blocks, Stream(m), tm.enable, ShaClock
  PROVE  \E n \in 0 .. Blocks :
            n = (IF core.pulse THEN m + 1 ELSE m) /\ Stream(n)'
<1>0. PICK n \in Nat : n = IF core.pulse THEN m + 1 ELSE m
  OBVIOUS
<1>1. /\ rm' = rm /\ pending' = pending /\ fifo' = fifo /\ q' = q /\ tm' = tm /\ mem' = mem
      /\ run' = run /\ phase > 0 /\ phase' = 0
      /\ Controller(tm.write_done) /\ Scheduler(mem)
  BY DEF ShaClock, ShaEdge, CoreEdge, busVars
<1>2. /\ Popped' = Popped /\ Shifted' = Shifted /\ (InOrder <=> InOrder')
  BY <1>1 DEF Popped, Shifted, InOrder
<1>3. /\ InOrder
      /\ Shifted = Words * Assembled(m) + tm.count
      /\ Len(mem) >= tm.count
      /\ \A k \in 1 .. tm.count :
           mem[Len(mem) - tm.count + k] = <<run, Words * Assembled(m) + k - 1>>
      /\ tm.state = 3 \/ core.pulse => mem = Block(run, m)
      /\ core.pulse => /\ ~sch.ready /\ tm.count = 0
                       /\ IF tm.state = 3 THEN phase = 0 ELSE tm.state < phase
      /\ sch.message = IF m = 0 THEN Nothing ELSE Block(run, m - 1)
  BY DEF Stream
<1>4. (tm.write_done <=> tm.state = 3) /\ (tm.state = 3 => tm.count = 0)
  BY DEF Typed, Assembling
<1>5. core'.pulse => core.pulse \/ (tm.write_done /\ ~sch.ready)
  BY <1>1, ControllerStep
<1>6. core.pulse => core.state \notin {0, 3}
  BY DEF Live
<1>7. core'.pulse => tm.state = 3 /\ ~sch.ready /\ ~core.pulse
  <2>1. core.pulse => ~tm.write_done
    BY <1>1, <1>3, <1>4
  <2>2. core'.pulse => ~core.pulse
    BY <1>1, <1>6, <2>1, ControllerStep
  <2> QED BY <1>4, <1>5, <2>2
<1>8. /\ sch'.message = IF core.pulse THEN mem ELSE sch.message
      /\ sch'.ready => core.pulse \/ sch.ready
  BY <1>1, SchedulerStep
<1>9. /\ m \in Nat /\ Blocks \in Nat /\ Assembled(m) <= Blocks
  BY Sizes, StreamCounts
<1>10. n \in 0 .. Blocks
  BY <1>0, <1>9 DEF Assembled
<1>11. tm.state = 3 => ~core.pulse
  BY <1>1, <1>3
<1>12. Assembled(n)' = Assembled(m)
  BY <1>0, <1>1, <1>7, <1>11 DEF Assembled
<1>13. sch'.message = IF n = 0 THEN Nothing ELSE Block(run', n - 1)
  <2>1. CASE core.pulse
    <3>1. n # 0 /\ n - 1 = m /\ sch'.message = Block(run, m)
      BY <1>0, <1>3, <1>8, <1>9, <2>1
    <3> QED BY <1>1, <3>1
  <2>2. CASE ~core.pulse
    BY <1>0, <1>1, <1>3, <1>8, <2>2
  <2> QED BY <2>1, <2>2
<1>14. core'.pulse => ~sch'.ready /\ tm'.count = 0 /\ tm'.state = 3 /\ phase' = 0
  BY <1>1, <1>4, <1>7, <1>8
<1>15. tm'.state = 3 \/ core'.pulse => mem' = Block(run', n)
  BY <1>0, <1>1, <1>3, <1>7, <1>11
<1>16. /\ Shifted' = Words * Assembled(n)' + tm'.count
       /\ Len(mem') >= tm'.count
       /\ \A k \in 1 .. tm'.count :
            mem'[Len(mem') - tm'.count + k] = <<run', Words * Assembled(n)' + k - 1>>
  BY <1>1, <1>2, <1>3, <1>12
<1>17. Stream(n)'
  BY <1>2, <1>3, <1>13, <1>14, <1>15, <1>16 DEF Stream
<1> QED BY <1>0, <1>10, <1>17

\* The Scheduler and the Compressor, one clock apart.
LEMMA CoreExpanding ==
  ASSUME Typed, NEW m \in 0 .. Blocks, Stream(m), Expanding(m), tm.enable, ShaClock,
         NEW n \in 0 .. Blocks, n = IF core.pulse THEN m + 1 ELSE m
  PROVE  Expanding(n)'
<1> USE Sizes
<1>1. /\ Scheduler(mem) /\ Compressor([b \in 0 .. Blocks - 1 |-> Block(run, b)])
      /\ run' = run
  BY DEF ShaClock, ShaEdge, CoreEdge
<1>2. /\ sch'.busy <=> Taking \/ (sch.busy /\ sch.iterations # Rounds - 1)
      /\ sch'.iterations = IF Taking \/ (sch.busy /\ sch.iterations = Rounds - 1) THEN 0
                           ELSE IF sch.busy THEN sch.iterations + 1
                           ELSE sch.iterations
      /\ sch'.ready <=> ~Taking /\ (core.pulse \/ sch.ready)
      /\ sch'.W = IF Taking THEN sch.message ELSE sch.W
      /\ oW' = IF sch.busy THEN <<sch.W, sch.iterations>> ELSE oW
  BY <1>1, SchedulerStep
<1>3. /\ core.pulse => ~sch.ready
      /\ sch.message = IF m = 0 THEN Nothing ELSE Block(run, m - 1)
      /\ m \in Nat /\ n \in Nat
  BY DEF Stream
<1>4. PICK w \in Int : w = Begun(m)
  BY <1>3 DEF Begun
<1>5. PICK v \in Int : v = Begun(n)'
  <2>1. Begun(n)' \in Int
    BY <1>3 DEF Begun
  <2> QED BY <2>1
<1>6. /\ sch.ready => m > 0
      /\ w > 0 => sch.W = Block(run, w - 1)
      /\ sch.busy => w > 0
      /\ IF late THEN cmp.state >= 2 /\ Spoilt ELSE InTime(w)
  BY <1>4 DEF Expanding
<1>7. sch'.ready => n > 0
  BY <1>2, <1>3, <1>6
<1>8. v = IF Taking THEN w + 1 ELSE w
  BY <1>2, <1>3, <1>4, <1>5 DEF Begun, Taking
<1>9. v > 0 => sch'.W = Block(run, v - 1)
  <2>1. CASE Taking
    <3>1. w = m - 1 /\ v - 1 = m - 1 /\ m # 0
      BY <1>3, <1>4, <1>6, <1>8, <2>1 DEF Begun, Taking
    <3> QED BY <1>2, <1>3, <2>1, <3>1
  <2>2. CASE ~Taking
    BY <1>2, <1>6, <1>8, <2>2
  <2> QED BY <2>1, <2>2
<1>10. sch'.busy => v > 0
  <2>1. Taking => w >= 0
    BY <1>3, <1>4, <1>6 DEF Begun, Taking
  <2> QED BY <1>2, <1>6, <1>8, <2>1
<1>11. ASSUME late PROVE late' /\ cmp'.state >= 2 /\ Spoilt'
  <2>1. Spoilt /\ cmp.state \in {2, 3, 4}
    <3>1. Spoilt /\ cmp.state >= 2
      BY <1>6, <1>11
    <3>2. cmp.state \in 0 .. 4
      BY DEF Typed, TypeOK
    <3> QED BY <3>1, <3>2
  <2>2. late' /\ cmp'.state >= 2
    <3>1. cmp.state \in {2, 3, 4} => cmp'.state \in {2, 3, 4}
      BY <1>1, CompressorStep
    <3>2. cmp'.state >= 2
      BY <2>1, <3>1
    <3>3. \/ late' = late
          \/ late' <=> (late \/ ~(sch.busy /\ sch.iterations = 0))
      BY <1>1, CompressorStep
    <3>4. late'
      BY <1>11, <3>3, Zenon
    <3> QED BY <3>2, <3>4
  <2>3. ~hashOK'
    BY <1>1, <2>1, CompressorStep DEF Spoilt
  <2> QED BY <2>2, <2>3 DEF Spoilt
<1>12. ASSUME ~late PROVE IF late' THEN cmp'.state >= 2 /\ Spoilt' ELSE InTime(v)'
  <2>1. /\ InTime(w) /\ hashOK
        /\ cmp.iterations \in 0 .. Rounds /\ cmp.block_i \in 0 .. Blocks - 1
        /\ sch.iterations \in 0 .. Rounds - 1 /\ cmp.state \in 0 .. 4
        /\ cmp.state # 3 => cmp.iterations < Rounds
    BY <1>6, <1>12 DEF InTime, Typed, TypeOK, Registers
  <2>2. CASE cmp.state = 0
    <3>1. w = 0 /\ cmp.block_i = 0 /\ cmp.iterations = 0 /\ ~sch.busy
      BY <1>6, <2>1, <2>2 DEF InTime
    <3>2. /\ cmp'.state = (IF sch.ready THEN 1 ELSE 0)
          /\ cmp'.iterations = 0 /\ cmp'.block_i = 0 /\ hashOK' /\ ~late'
      BY <1>1, <1>12, <2>1, <2>2, <3>1, CompressorStep
    <3>3. CASE sch.ready
      BY <1>2, <1>8, <3>1, <3>2, <3>3 DEF InTime, Taking
    <3>4. CASE ~sch.ready
      BY <1>2, <1>8, <3>1, <3>2, <3>4 DEF InTime, Taking
    <3> QED BY <3>3, <3>4
  <2>3. CASE cmp.state = 1
    <3>1. w = 1 /\ cmp.block_i = 0 /\ cmp.iterations = 0 /\ sch.busy /\ sch.iterations = 0
      BY <2>1, <2>3 DEF InTime
    <3>2. cmp'.state = 2 /\ cmp'.iterations = 0 /\ cmp'.block_i = 0 /\ hashOK' /\ ~late'
      BY <1>1, <1>12, <2>1, <2>3, <3>1, CompressorStep
    <3>3. v = 1 /\ sch'.busy /\ sch'.iterations = 1
      BY <1>2, <1>8, <3>1 DEF Taking
    <3>4. oW' = <<Block(run', 0), 0>>
      <4>1. sch.W = Block(run, 0)
        BY <1>6, <3>1
      <4> QED BY <1>1, <1>2, <3>1, <4>1
    <3> QED BY <3>2, <3>3, <3>4 DEF InTime
  <2>4. CASE cmp.state = 2
    <3> DEFINE i == cmp.iterations
               b == cmp.block_i
    <3>1. /\ w = b + 1
          /\ oW = <<Block(run, b), i>>
          /\ IF i + 1 < Rounds THEN sch.busy /\ sch.iterations = i + 1 ELSE ~sch.busy
      BY <2>1, <2>4 DEF InTime
    <3>2. /\ cmp'.state = (IF i + 1 = Rounds THEN 3 ELSE 2)
          /\ cmp'.iterations = i + 1 /\ cmp'.block_i = b
          /\ hashOK' /\ ~late'
      BY <1>1, <1>12, <2>1, <2>4, <3>1, CompressorStep
    <3>3. CASE i + 1 = Rounds
      <4>1. ~sch.busy /\ i = Rounds - 1 /\ oW' = oW
        BY <1>2, <2>1, <3>1, <3>3
      <4>2. oW' = <<Block(run', b), Rounds - 1>>
        BY <1>1, <3>1, <4>1
      <4>3. IF sch'.busy THEN v = b + 2 /\ sch'.iterations = 0 ELSE v = b + 1
        <5>1. CASE Taking
          <6>1. sch'.busy /\ sch'.iterations = 0 /\ v = w + 1
            BY <1>2, <1>8, <5>1
          <6> QED BY <2>1, <3>1, <6>1
        <5>2. CASE ~Taking
          BY <1>2, <1>8, <3>1, <4>1, <5>2
        <5> QED BY <5>1, <5>2
      <4>4. cmp'.state = 3
        BY <3>2, <3>3
      <4> QED BY <3>2, <4>2, <4>3, <4>4 DEF InTime
    <3>4. CASE i + 1 # Rounds
      <4>1. sch.busy /\ sch.iterations = i + 1 /\ cmp'.state = 2 /\ i + 1 <= Rounds - 1
        BY <2>1, <2>4, <3>1, <3>2, <3>4
      <4>2. v = b + 1
        BY <1>8, <3>1, <4>1 DEF Taking
      <4>3. oW' = <<Block(run', b), i + 1>>
        <5>1. w > 0 /\ w - 1 = b
          BY <2>1, <3>1
        <5>2. sch.W = Block(run, b)
          BY <1>6, <5>1
        <5> QED BY <1>1, <1>2, <4>1, <5>2
      <4>4. IF (i + 1) + 1 < Rounds THEN sch'.busy /\ sch'.iterations = (i + 1) + 1
            ELSE ~sch'.busy
        BY <1>2, <2>1, <4>1 DEF Taking
      <4> QED BY <3>2, <4>1, <4>2, <4>3, <4>4 DEF InTime
    <3> QED BY <3>3, <3>4
  <2>5. CASE cmp.state = 3
    <3> DEFINE b == cmp.block_i
    <3>1. /\ oW = <<Block(run, b), Rounds - 1>>
          /\ IF sch.busy THEN w = b + 2 /\ sch.iterations = 0 ELSE w = b + 1
      BY <2>1, <2>5 DEF InTime
    <3>2. CASE b = Blocks - 1
      <4>1. cmp'.state = 4 /\ hashOK' /\ ~late'
        BY <1>1, <1>12, <2>1, <2>5, <3>2, CompressorStep
      <4>2. v >= Blocks
        BY <1>8, <2>1, <3>1, <3>2
      <4> QED BY <4>1, <4>2 DEF InTime
    <3>3. CASE b # Blocks - 1 /\ sch.busy
      <4>1. /\ cmp'.state = 2 /\ cmp'.iterations = 0 /\ cmp'.block_i = b + 1
            /\ hashOK' /\ ~late'
        <5>1. /\ cmp'.state = 2 /\ cmp'.iterations = 0 /\ cmp'.block_i = b + 1
              /\ hashOK' = hashOK
              /\ late' <=> late \/ ~(sch.busy /\ sch.iterations = 0)
          BY <1>1, <2>5, <3>3, CompressorStep
        <5> QED BY <1>12, <2>1, <3>1, <3>3, <5>1
      <4>2. v = (b + 1) + 1 /\ sch'.busy /\ sch'.iterations = 1
        BY <1>2, <1>8, <2>1, <3>1, <3>3 DEF Taking
      <4>3. oW' = <<Block(run', b + 1), 0>>
        <5>1. w > 0 /\ w - 1 = b + 1
          BY <2>1, <3>1, <3>3
        <5>2. sch.W = Block(run, b + 1)
          BY <1>6, <5>1
        <5> QED BY <1>1, <1>2, <3>1, <3>3, <5>2
      <4> QED BY <4>1, <4>2, <4>3 DEF InTime
    <3>4. CASE b # Blocks - 1 /\ ~sch.busy
      <4>1. /\ cmp'.state = 2 /\ cmp'.iterations = 0 /\ late'
        <5>1. /\ cmp'.state = 2 /\ cmp'.iterations = 0
              /\ late' <=> late \/ ~(sch.busy /\ sch.iterations = 0)
          BY <1>1, <2>5, <3>4, CompressorStep
        <5> QED BY <3>4, <5>1
      <4>2. oW' = <<Block(run, b), Rounds - 1>> /\ Rounds - 1 # 0
        BY <1>2, <3>1, <3>4
      <4>3. \A x : oW' # <<x, 0>>
        BY <4>2
      <4> QED BY <4>1, <4>3 DEF Spoilt
    <3> QED BY <3>2, <3>3, <3>4
  <2>6. CASE cmp.state = 4
    <3>1. w >= Blocks
      BY <2>1, <2>6 DEF InTime
    <3>2. cmp'.state = 4 /\ hashOK' /\ ~late'
      BY <1>1, <1>12, <2>1, <2>6, CompressorStep
    <3> QED BY <1>8, <3>1, <3>2 DEF InTime
  <2> QED BY <2>1, <2>2, <2>3, <2>4, <2>5, <2>6
<1> QED BY <1>1, <1>5, <1>7, <1>9, <1>10, <1>11, <1>12 DEF Expanding

LEMMA CoreHashed ==
  ASSUME Typed, Typed', Phases, Hashed, ShaClock
  PROVE  Hashed'
<1> SUFFICES ASSUME Hashing' PROVE Hashed'
  BY DEF Hashed
<1>1. /\ rm' = rm /\ pending' = pending /\ fifo' = fifo /\ q' = q /\ tm' = tm /\ mem' = mem
      /\ wm' = wm /\ digest' = digest
      /\ run' = run /\ pc' = pc /\ leftover' = leftover /\ phase > 0 /\ phase' = 0
      /\ IF tm.enable
         THEN /\ Controller(tm.write_done) /\ Scheduler(mem)
              /\ Compressor([b \in 0 .. Blocks - 1 |-> Block(run, b)])
         ELSE Disabled
  BY DEF ShaClock, ShaEdge, CoreEdge, busVars
<1>2. Hashing
  BY <1>1 DEF Hashing
<1>3. CASE Dirty /\ pending = << >> /\ fifo = << >>
  <2>1. AtReset /\ ~tm.enable
    BY <1>3 DEF Dirty, AtReset
  <2>2. AtReset'
    BY <1>1, <2>1 DEF AtReset
  <2>3. Clean'
    BY <1>1, <2>1, DisabledStep
  <2> QED BY <1>1, <1>3, <2>2, <2>3, FreshStream DEF Hashed
<1>4. ASSUME Live, Stored, NEW m \in 0 .. Blocks, Stream(m), Expanding(m)
      PROVE  Hashed'
  <2>1. Live'
    BY <1>4, CoreLive
  <2>2. Stored'
    <3>1. wm.index # 0 => cmp.state = 4
      BY <1>4 DEF Live, Typed, Masters, TypeOK
    <3>2. wm.index # 0 => tm.enable
      BY <1>4, <3>1, CoreLive
    <3>3. wm.index # 0 => late' = late
      BY <1>1, <3>1, <3>2, CompressorStep
    <3>4. wm.index = 0 => 1 .. wm.index = {}
      OBVIOUS
    <3> QED BY <1>1, <1>4, <3>3, <3>4 DEF Stored
  <2>3. CASE tm.enable
    <3>1. PICK n \in 0 .. Blocks : n = (IF core.pulse THEN m + 1 ELSE m) /\ Stream(n)'
      BY <1>4, <2>3, CoreStream
    <3>2. Expanding(n)'
      BY <1>4, <2>3, <3>1, CoreExpanding
    <3> QED BY <2>1, <2>2, <3>1, <3>2 DEF Hashed
  <2>4. CASE ~tm.enable
    <3>1. Clean /\ Clean'
      BY <1>1, <1>4, <2>4, DisabledStep DEF Live
    <3>2. sch.message = Nothing /\ ~core.pulse /\ ~core'.pulse /\ sch'.message = Nothing
      BY <3>1 DEF Clean
    <3>3. m = 0
      BY <1>4, <3>2, BlockIsSomething DEF Stream
    <3>4. /\ Assembled(0)' = Assembled(0) /\ Shifted' = Shifted /\ (InOrder => InOrder')
      BY <1>1, <3>2 DEF Assembled, Shifted, Popped, InOrder
    <3>5. Stream(0)'
      BY <1>1, <1>4, <3>2, <3>3, <3>4 DEF Stream
    <3>6. Expanding(0)'
      BY <3>1 DEF Expanding, InTime, Begun, Clean
    <3> QED BY <2>1, <2>2, <3>3, <3>5, <3>6 DEF Hashed
  <2> QED BY <2>3, <2>4
<1> QED BY <1>2, <1>3, <1>4 DEF Hashed

\* The program's steps between starting the engine and reading the digest
\* touch nothing of it.
LEMMA SameHashed ==
  ASSUME UNCHANGED <<shaVars, run, leftover>>, Hashing, Hashed
  PROVE  Hashed'
<1>1. /\ Dirty' = Dirty /\ Live' = Live /\ Stored' = Stored
      /\ pending' = pending /\ fifo' = fifo
  BY DEF shaVars, busVars, coreVars, Dirty, AtReset, Live, Clean, Stored
<1>2. ASSUME NEW m \in 0 .. Blocks, Stream(m), Expanding(m)
      PROVE  Stream(m)' /\ Expanding(m)'
  <2>1. Stream(m)'
    BY <1>2 DEF shaVars, busVars, coreVars, Stream, InOrder, Shifted, Popped, Assembled
  <2>2. Expanding(m)'
    BY <1>2 DEF shaVars, coreVars, Expanding, Begun, InTime, Spoilt
  <2> QED BY <2>1, <2>2
<1> QED BY <1>1, <1>2 DEF Hashed

LEMMA ProgramHashed ==
  ASSUME Typed, Typed', Phases, Hashed, Program
  PROVE  Hashed'
<1> SUFFICES ASSUME Hashing' PROVE Hashed'
  BY DEF Hashed
<1>1. CASE Message
  BY <1>1 DEF Message, Hashing
<1>2. CASE Control("clear", "clear", "reset") \/ Control("reset", "reset", "start")
  BY <1>2 DEF Control, Hashing
<1>3. CASE Control("start", "run", "poll") /\ leftover' = (pending # << >> \/ fifo # << >>)
  <2>1. pending = << >> /\ fifo = << >>
    BY <1>3 DEF Hashing
  <2>2. /\ pc = "start" /\ clocked
        /\ UNCHANGED <<rm, pending, fifo, q, tm, mem, wm, digest, coreVars, phase, run>>
    BY <1>3 DEF Control
  <2>3. AtReset /\ ~core.pulse /\ (Clean \/ phase >= 2)
    BY <2>2 DEF Phases
  <2>4. AtReset' /\ Clean' = Clean /\ pending' = << >> /\ fifo' = << >>
    BY <2>1, <2>2, <2>3 DEF AtReset, Clean, coreVars
  <2>5. CASE Clean
    BY <2>4, <2>5, FreshStream DEF Hashed
  <2>6. CASE phase >= 2
    <3>1. Dirty'
      BY <2>2, <2>3, <2>4, <2>6 DEF Dirty, coreVars
    <3> QED BY <2>4, <3>1 DEF Hashed
  <2> QED BY <2>3, <2>5, <2>6
<1>4. CASE SHA_256_CheckDone
  BY <1>4, SameHashed DEF SHA_256_CheckDone, Hashing
<1>5. CASE ReadDigest
  BY <1>5 DEF ReadDigest, Hashing
<1> QED BY <1>1, <1>2, <1>3, <1>4, <1>5 DEF Program, SHA_256_Intit

LEMMA InitIInv == ASSUME Init PROVE IInv
<1>1. Hashed
  BY DEF Init, Hashed, Hashing
<1> QED BY <1>1, InitTyped, InitPhases DEF IInv

LEMMA NextIInv == ASSUME IInv, [Next]_vars PROVE IInv'
<1>1. Typed /\ Phases /\ Hashed
  BY DEF IInv
<1>2. Typed' /\ Phases'
  BY <1>1, NextTyped, NextPhases
<1>3. Hashed'
  <2>1. CASE UNCHANGED vars
    <3>1. UNCHANGED <<shaVars, run, leftover>> /\ (Hashing' => Hashing)
      BY <2>1 DEF vars, Hashing
    <3> QED BY <1>1, <3>1, SameHashed DEF Hashed
  <2>2. CASE Program
    BY <1>1, <1>2, <2>2, ProgramHashed
  <2>3. CASE BusClock
    BY <1>1, <1>2, <2>3, BusHashed DEF BusClock
  <2>4. CASE ShaClock
    BY <1>1, <1>2, <2>4, CoreHashed
  <2> QED BY <2>1, <2>2, <2>3, <2>4 DEF Next
<1> QED BY <1>2, <1>3 DEF IInv

(* SHA_256_Controller and SHA_256: the words are popped from the FIFO in   *)
(* the order of the message, mem holds the words shifted since the last    *)
(* block, the Scheduler is one clock ahead of the Compressor, and the late *)
(* flag is up exactly when a block has been started without its words.     *)
THEOREM InvariantHolds == Spec => []IInv
<1>1. Init => IInv
  BY InitIInv
<1>2. IInv /\ [Next]_vars => IInv'
  BY NextIInv
<1> QED BY <1>1, <1>2, PTL DEF Spec

-----------------------------------------------------------------------------
(* What the engine promises.                                               *)

LEMMA HandOver ==
  ASSUME IInv, [Next]_vars, core.pulse, ~leftover, sch'.message # sch.message
  PROVE  /\ ~sch.ready
         /\ \E b \in 0 .. Blocks - 1 :
              /\ sch'.message = Block(run, b)
              /\ sch.message = IF b = 0 THEN Nothing ELSE Block(run, b - 1)
<1>1. Typed /\ Phases /\ Hashed
  BY DEF IInv
<1>2. ShaClock
  <2>1. CASE UNCHANGED vars
    BY <2>1 DEF vars, shaVars, coreVars
  <2>2. CASE Program
    BY <2>2 DEF Program, Message, SHA_256_Intit, Control, SHA_256_CheckDone, ReadDigest,
                shaVars, coreVars
  <2>3. CASE BusClock
    BY <2>3 DEF BusClock, Bus, BusEdge, coreVars
  <2> QED BY <2>1, <2>2, <2>3 DEF Next
<1>3. pc = "poll" /\ Live
  <2>1. ~Clean /\ ~Dirty
    BY DEF Clean, Dirty
  <2>2. ~Written
    BY <1>1, WrittenFacts
  <2>3. pc \notin {"message", "clear", "done"}
    BY <1>1, <2>1, <2>2 DEF Phases
  <2>4. pc \notin {"reset", "start"}
    BY <1>1 DEF Phases
  <2> QED BY <1>1, <2>1, <2>3, <2>4 DEF Phases, Typed, TypeOK
<1>4. PICK m \in 0 .. Blocks : Stream(m)
  BY <1>1, <1>3 DEF Hashed, Hashing, Dirty
<1>5. /\ ~sch.ready /\ mem = Block(run, m)
      /\ sch.message = IF m = 0 THEN Nothing ELSE Block(run, m - 1)
  BY <1>4 DEF Stream
<1>6. tm.enable
  BY <1>3 DEF Live, Clean
<1>7. sch'.message = mem
  <2>1. Scheduler(mem)
    BY <1>2, <1>6 DEF ShaClock, ShaEdge, CoreEdge
  <2> QED BY <1>1, <2>1, SchedulerStep
<1>8. m \in 0 .. Blocks - 1
  <2>1. Assembled(m) <= Blocks /\ Assembled(m) = m + 1
    BY <1>1, <1>4, StreamCounts DEF Assembled
  <2> QED BY <2>1, Sizes
<1> QED BY <1>5, <1>7, <1>8

(* data_request and oReadBlock: mem crosses the clock boundary only as one *)
(* whole block of the message, each block once and in order, and never     *)
(* over a block the Scheduler has not begun - whatever the memory does, as *)
(* long as at most two bus edges fall between two edges of the core clock. *)
THEOREM BlocksAreHandedOver == Spec => BlocksHandedOver
<1>1. Init => IInv
  BY InitIInv
<1>2. IInv /\ [Next]_vars => IInv'
  BY NextIInv
<1>3. ASSUME IInv, [Next]_vars
      PROVE  [core.pulse /\ ~leftover /\ sch'.message # sch.message =>
                /\ ~sch.ready
                /\ \E b \in 0 .. Blocks - 1 :
                     /\ sch'.message = Block(run, b)
                     /\ sch.message = IF b = 0 THEN Nothing ELSE Block(run, b - 1)]_vars
  BY <1>3, HandOver
<1> QED BY <1>1, <1>2, <1>3, PTL DEF Spec, BlocksHandedOver

LEMMA DigestFollows == ASSUME IInv PROVE DigestRightUnlessLate
<1> SUFFICES ASSUME pc = "done", ~leftover
             PROVE  /\ digest = [w \in 1 .. DigestWords |-> IF late THEN 0 ELSE run]
                    /\ ~late => pending = << >> /\ fifo = << >>
  BY DEF DigestRightUnlessLate
<1>1. Typed /\ Phases /\ Hashed
  BY DEF IInv
<1>2. Written
  BY <1>1 DEF Phases
<1>3. wm.index = DigestWords /\ wm.index # 0 /\ cmp.state = 4
  BY <1>1, <1>2, WrittenFacts DEF Written
<1>4. ~Dirty
  BY <1>3 DEF Dirty, AtReset
<1>5. Stored
  BY <1>1, <1>4 DEF Hashed, Hashing
<1>6. PICK m \in 0 .. Blocks : Stream(m) /\ Expanding(m)
  BY <1>1, <1>4 DEF Hashed, Hashing
<1>7. digest = [w \in 1 .. DigestWords |-> IF late THEN 0 ELSE run]
  <2>1. digest = [w \in 1 .. DigestWords |-> digest[w]]
    BY <1>1 DEF Typed, TypeOK
  <2>2. \A w \in 1 .. DigestWords : digest[w] = IF late THEN 0 ELSE run
    BY <1>3, <1>5 DEF Stored
  <2> QED BY <2>1, <2>2
<1>8. ASSUME ~late PROVE pending = << >> /\ fifo = << >>
  <2>1. Begun(m) >= Blocks
    BY <1>3, <1>6, <1>8 DEF Expanding, InTime
  <2>2. /\ Len(pending) \in Nat /\ Len(fifo) \in Nat /\ rm.index \in 0 .. Length
        /\ Assembled(m) \in Nat /\ Words * Assembled(m) \in Nat
        /\ Assembled(m) <= Blocks
        /\ Popped \in Int /\ Shifted \in Int
        /\ Shifted >= Words * Assembled(m) /\ Popped >= Shifted
        /\ Popped + Len(fifo) + Len(pending) = rm.index
    BY <1>1, <1>6, StreamCounts
  <2>3. Assembled(m) = Blocks
    BY <2>1, <2>2, Sizes DEF Assembled, Begun
  <2>4. Shifted >= Length /\ Length \in Nat
    BY <2>2, <2>3, Sizes DEF Length
  <2>5. Len(pending) = 0 /\ Len(fifo) = 0
    BY <2>2, <2>4
  <2>6. pending \in Seq(Word) /\ fifo \in Seq(Word)
    BY <1>1 DEF Typed, Registers
  <2> QED BY <2>5, <2>6, EmptySeq
<1> QED BY <1>7, <1>8

(* SHA_256_CheckDone: the digest it reports is that of the message in the  *)
(* buffer in every word, unless a block came late, and then in none; and   *)
(* only a late run leaves words in the FIFO that a reset does not remove.  *)
THEOREM DigestIsRight == Spec => []DigestRightUnlessLate
<1>1. IInv => DigestRightUnlessLate
  BY DigestFollows
<1> QED BY <1>1, InvariantHolds, PTL
=============================================================================
