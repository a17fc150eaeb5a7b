-------------------------- MODULE SspUartTx_proofs ---------------------------
(***************************************************************************)
(* For every depth of the FIFO and every set of modes and formats: the     *)
(* transmitter loses and reorders no word, and a frame during which the    *)
(* format is left alone is the frame of that format, bit for bit, although *)
(* the state machine reads the format anew in every state.                 *)
(***************************************************************************)
EXTENDS SspUartTx, SequenceTheorems, TLAPS

-----------------------------------------------------------------------------
(* The inductive invariant.                                                *)

InFrame == TxSM \in {"StartBit", "Shift", "ParityBit", "StopBit2", "StopBit1"}

DataBits(f) == IF Len7(f) THEN 7 ELSE 8

Next1(n) == (n + 1) % Ids

\* A frame on the line is the one of the word before the one that is due.
FramedIsDone == InFrame => TSR.word \in Word /\ due = Next1(TSR.word)

\* The length of what the line has carried, whatever the format has been.
Lengths ==
    /\ TxSM = "StartBit" => Len(frame) = 1
    /\ TxSM = "Shift" => Len(frame) = bit + 2
    /\ TxSM = "ParityBit" => Len(frame) <= 10
    /\ TxSM = "StopBit2" => Len(frame) <= 11

\* The start bit and the first n data bits.
Carried(n) ==
    /\ frame[1] = Start
    /\ \A i \in 1 .. n : frame[i + 1] = DataBit(TSR.word, i - 1)

\* All data bits, and the parity bit if the format has one.
BeforeStop(n) ==
    /\ Carried(DataBits(FMT))
    /\ n = 1 + DataBits(FMT) + (IF ParEn(FMT) THEN 1 ELSE 0)
    /\ ParEn(FMT) => frame[n] = ParBit(FMT)

\* What the line has carried if the format has been left alone.
SteadyFrame ==
    /\ TSR.par = ParBit(FMT)
    /\ TxSM = "StartBit" => Carried(0)
    /\ TxSM = "Shift" => bit < DataBits(FMT) /\ Carried(bit + 1)
    /\ TxSM = "ParityBit" => ParEn(FMT) /\ BeforeStop(Len(frame))
    /\ TxSM = "StopBit2" => /\ NumStop(FMT)
                            /\ BeforeStop(Len(frame) - 1)
                            /\ frame[Len(frame)] = Mark
    /\ TxSM = "StopBit1" => /\ BeforeStop(Len(frame) - (IF NumStop(FMT) THEN 2 ELSE 1))
                            /\ frame[Len(frame)] = Mark
                            /\ NumStop(FMT) => frame[Len(frame) - 1] = Mark

IInv ==
    /\ TypeOK
    /\ NothingLost
    /\ FramedIsDone
    /\ Lengths
    /\ InFrame /\ steady => SteadyFrame

-----------------------------------------------------------------------------
(* The numbers of the words are counted modulo Ids.                        *)
LEMMA Sizes == Ids \in Nat /\ Depth \in Nat /\ Depth >= 2 /\ Ids > Depth + 2
BY SspTxAssumption DEF Depth

LEMMA Modulo ==
  ASSUME NEW n \in Nat, n < 2 * Ids
  PROVE  /\ n % Ids \in Word
         /\ n < Ids => n % Ids = n
         /\ n >= Ids => n % Ids = n - Ids
<1> USE Sizes
<1>1. CASE n < Ids
  BY <1>1 DEF Word
<1>2. CASE n >= Ids
  BY <1>2 DEF Word
<1> QED BY <1>1, <1>2

LEMMA NextOf ==
  ASSUME NEW n \in Word
  PROVE  /\ n \in Nat /\ n < Ids
         /\ Next1(n) \in Word
         /\ Next1(n) = IF n = Ids - 1 THEN 0 ELSE n + 1
         /\ Next1(n) # n
<1>1. n \in Nat /\ n < Ids /\ n + 1 \in Nat /\ n + 1 < 2 * Ids
  BY Sizes DEF Word
<1> QED BY <1>1, Modulo, Sizes DEF Next1

LEMMA NextOfModulo ==
  ASSUME NEW n \in Nat, n + 1 < 2 * Ids
  PROVE  (n + 1) % Ids = Next1(n % Ids)
<1>1. CASE n < Ids
  BY <1>1, Modulo, Sizes DEF Next1
<1>2. CASE n >= Ids
  <2>1. n % Ids = n - Ids /\ (n + 1) % Ids = n + 1 - Ids
    BY <1>2, Modulo, Sizes
  <2>2. n - Ids + 1 \in Nat /\ n - Ids + 1 < Ids
    BY <1>2, Sizes
  <2>3. (n - Ids + 1) % Ids = n - Ids + 1
    BY <2>2, Modulo, Sizes
  <2> QED BY <2>1, <2>3, <1>2, Sizes DEF Next1
<1> QED BY <1>1, <1>2, Sizes

(* Formats that decode to the same thing are the same in all that counts.  *)
LEMMA SameFormat ==
  ASSUME NEW f, NEW g, Decoded(f) = Decoded(g)
  PROVE  /\ Len7(f) <=> Len7(g)
         /\ NumStop(f) <=> NumStop(g)
         /\ ParEn(f) <=> ParEn(g)
         /\ ParBit(f) = ParBit(g)
BY DEF Decoded, ParBit, Len7, NumStop, ParEn

\* All formats with seven data bits have a parity bit.
LEMMA SevenHasParity == ASSUME NEW f \in 0 .. 15, Len7(f) PROVE ParEn(f)
BY DEF Len7, ParEn

LEMMA Symbols ==
  /\ Start \in Symbol /\ Mark \in Symbol
  /\ \A w \in Word, i \in 0 .. 7 : DataBit(w, i) \in Symbol
  /\ \A f \in 0 .. 15 : ParBit(f) \in Symbol
BY DEF Symbol

LEMMA InitIInv == ASSUME Init PROVE IInv
<1> USE Sizes DEF Init
<1>1. TypeOK
  <2>1. THR \in Seq(Word) /\ Len(THR) <= Depth /\ frame \in Seq(Symbol) /\ Len(frame) <= 12
    OBVIOUS
  <2>2. TSR \in [word : 0 .. Ids, par : Symbol]
    BY Symbols DEF Ones
  <2>3. written \in Word /\ due \in Word
    BY DEF Word
  <2>4. MD \in 0 .. 3 /\ FMT \in 0 .. 15 /\ bit \in 0 .. 7 /\ TxSM \in States
    BY DEF States
  <2>5. TxHold \in BOOLEAN /\ xCTS \in BOOLEAN /\ steady \in BOOLEAN
    OBVIOUS
  <2> HIDE DEF Init
  <2> QED BY <2>1, <2>2, <2>3, <2>4, <2>5 DEF TypeOK
<1>2. NothingLost
  BY Modulo DEF NothingLost
<1>3. FramedIsDone /\ Lengths /\ ~InFrame
  BY DEF FramedIsDone, Lengths, InFrame
<1> QED BY <1>1, <1>2, <1>3 DEF IInv

-----------------------------------------------------------------------------
(* Accesses by the processor.                                              *)

\* A change of the format that changes no decoding does not touch a frame.
LEMMA SetFormatIInv ==
  ASSUME IInv, NEW f \in 0 .. 15, SetFormat(f), MD' \in 0 .. 3,
         UNCHANGED <<xCTS, THR, TxHold, txsm, frame, numbers>>
  PROVE  IInv'
<1> USE DEF SetFormat, txsm, numbers
<1>1. TypeOK'
  BY DEF IInv, TypeOK
<1>2. NothingLost' /\ FramedIsDone' /\ Lengths' /\ (InFrame' <=> InFrame)
  BY DEF IInv, NothingLost, FramedIsDone, Lengths, InFrame
<1>3. ASSUME InFrame, steady' PROVE SteadyFrame'
  <2>1. SteadyFrame /\ Decoded(f) = Decoded(FMT)
    BY <1>3 DEF IInv
  <2>2. /\ Len7(f) <=> Len7(FMT)
        /\ NumStop(f) <=> NumStop(FMT)
        /\ ParEn(f) <=> ParEn(FMT)
        /\ ParBit(f) = ParBit(FMT)
    BY <2>1, SameFormat
  <2> QED BY <2>1, <2>2 DEF SteadyFrame, Carried, BeforeStop, DataBits
<1> QED BY <1>1, <1>2, <1>3 DEF IInv

\* What a step that leaves the transmitter and the format alone leaves true.
LEMMA FrameStays ==
  ASSUME IInv, UNCHANGED <<FMT, txsm, frame, steady, due>>
  PROVE  FramedIsDone' /\ Lengths' /\ (InFrame' /\ steady' => SteadyFrame')
BY DEF IInv, FramedIsDone, Lengths, InFrame, SteadyFrame, Carried, BeforeStop, txsm

LEMMA WriteTDRIInv == ASSUME IInv, NEW hld \in BOOLEAN, WriteTDR(hld) PROVE IInv'
<1> USE DEF WriteTDR, TF1!Put, ucr
<1>1. THR \in Seq(Word) /\ Len(THR) < Depth /\ written \in Word /\ due \in Word
  BY DEF IInv, TypeOK
<1>2. /\ THR' = Append(THR, written) /\ THR' \in Seq(Word) /\ Len(THR') = Len(THR) + 1
      /\ \A i \in 1 .. Len(THR) : THR'[i] = THR[i]
      /\ THR'[Len(THR) + 1] = written
  BY <1>1, AppendProperties
<1>3. written' = Next1(written) /\ written' \in Word
  BY <1>1, NextOf DEF Next1
<1>4. TypeOK'
  BY <1>1, <1>2, <1>3, Sizes DEF IInv, TypeOK, txsm
<1>5. NothingLost'
  <2>1. (due + Len(THR)) % Ids = written
    BY DEF IInv, NothingLost
  <2>2. (due + (Len(THR) + 1)) % Ids = Next1(written)
    <3>1. due \in Nat /\ due < Ids /\ Len(THR) \in Nat
      BY <1>1, NextOf, LenProperties
    <3>2. due + Len(THR) \in Nat /\ due + Len(THR) + 1 < 2 * Ids
      BY <1>1, <3>1, Sizes
    <3>3. due + (Len(THR) + 1) = (due + Len(THR)) + 1
      BY <3>1
    <3> QED BY <2>1, <3>2, <3>3, NextOfModulo
  <2>3. \A i \in 1 .. Len(THR) : THR'[i] = (due + i - 1) % Ids
    BY <1>2 DEF IInv, NothingLost
  <2>4. THR'[Len(THR) + 1] = (due + (Len(THR) + 1) - 1) % Ids
    <3>1. due + (Len(THR) + 1) - 1 = due + Len(THR)
      BY <1>1, NextOf, LenProperties
    <3> QED BY <1>2, <2>1, <3>1
  <2>5. due' = due /\ Len(THR') = Len(THR) + 1 /\ Len(THR) \in Nat
    BY <1>1, <1>2, LenProperties
  <2>6. \A i \in 1 .. Len(THR') : i \in 1 .. Len(THR) \/ i = Len(THR) + 1
    BY <2>5
  <2>7. \A i \in 1 .. Len(THR') : THR'[i] = (due + i - 1) % Ids
    BY <2>3, <2>4, <2>6
  <2> QED BY <1>3, <2>2, <2>5, <2>7 DEF NothingLost
<1> QED BY <1>4, <1>5, FrameStays DEF IInv

LEMMA ClearIInv == ASSUME IInv, NEW hld \in BOOLEAN, ClearTHR(hld) PROVE IInv'
<1> USE DEF ClearTHR, TF1!Clear, ucr
<1>1. THR' = << >> /\ written' = due /\ due' = due /\ due \in Word
  BY DEF IInv, TypeOK
<1>2. TypeOK'
  BY <1>1, Sizes DEF IInv, TypeOK, txsm
<1>3. NothingLost'
  <2>1. due \in Nat /\ due < Ids /\ due + Len(THR') = due
    BY <1>1, NextOf
  <2>2. (due' + Len(THR')) % Ids = written'
    BY <1>1, <2>1, Modulo, Sizes
  <2> QED BY <1>1, <2>2 DEF NothingLost
<1> QED BY <1>2, <1>3, FrameStays DEF IInv

-----------------------------------------------------------------------------
(* The end of a frame, or of a delay.                                      *)
LEMMA ShiftModulo ==
  ASSUME NEW n \in Word, NEW m \in Nat, m <= Depth
  PROVE  (Next1(n) + m) % Ids = (n + m + 1) % Ids
<1>1. CASE n = Ids - 1
  <2>1. Next1(n) = 0 /\ n \in Nat
    BY <1>1, NextOf
  <2>2. m % Ids = m /\ (m + Ids) % Ids = m
    BY Sizes, Modulo
  <2>3. n + m + 1 = m + Ids /\ Next1(n) + m = m
    BY <1>1, <2>1, Sizes
  <2> QED BY <2>2, <2>3
<1>2. CASE n # Ids - 1
  <2>1. Next1(n) = n + 1 /\ n \in Nat
    BY <1>2, NextOf
  <2>2. Next1(n) + m = n + m + 1
    BY <2>1
  <2> QED BY <2>2
<1> QED BY <1>1, <1>2

\* A load takes the word that is due, and a frame with it begins.
LEMMA Loaded ==
  ASSUME IInv, BetweenFrames, Ld_TSR
  PROVE  /\ TxSM' = "StartBit" /\ steady' = TRUE
         /\ TSR' = [word |-> due, par |-> ParBit(FMT)]
         /\ THR # << >> /\ THR' = Tail(THR)
<1>1. THR # << >> /\ THR \in Seq(Word) /\ due \in Word
  BY DEF Ld_TSR, TF_EF, IInv, TypeOK
<1>2. Head(THR) = due
  <2>1. Head(THR) = THR[1] /\ 1 \in 1 .. Len(THR)
    BY <1>1, HeadTailProperties, LenProperties, EmptySeq
  <2>2. THR[1] = (due + 1 - 1) % Ids
    BY <2>1 DEF IInv, NothingLost
  <2>3. due \in Nat /\ due < Ids /\ due + 1 - 1 = due
    BY <1>1, NextOf
  <2>4. due % Ids = due
    BY <2>3, Modulo, Sizes
  <2> QED BY <2>1, <2>2, <2>3, <2>4
<1>3. TxSM' = "StartBit"
  BY DEF BetweenFrames, Ld_TSR, AfterDelay, AfterStop
<1> QED BY <1>1, <1>2, <1>3 DEF BetweenFrames, LoadTSR, TF1!Get

LEMMA LoadIInv == ASSUME IInv, BetweenFrames, Ld_TSR PROVE IInv'
<1> USE DEF BetweenFrames, ucr
<1>1. /\ TxSM' = "StartBit" /\ steady' = TRUE
      /\ TSR' = [word |-> due, par |-> ParBit(FMT)]
      /\ THR # << >> /\ THR' = Tail(THR)
  BY Loaded
<1>2. due \in Word /\ THR \in Seq(Word) /\ FMT \in 0 .. 15
  BY DEF IInv, TypeOK
<1>3. due' = Next1(due) /\ due' \in Word /\ frame' = <<Start>> /\ bit' = 0
  BY <1>1, <1>2, NextOf DEF Next1
<1>4. /\ THR' \in Seq(Word) /\ Len(THR') = Len(THR) - 1 /\ Len(THR) \in Nat /\ Len(THR) >= 1
      /\ \A i \in 1 .. Len(THR') : THR'[i] = THR[i + 1]
  BY <1>1, <1>2, HeadTailProperties, LenProperties, EmptySeq
<1>5. TypeOK'
  <2>1. frame' \in Seq(Symbol) /\ Len(frame') <= 12
    BY <1>3, Symbols
  <2>2. TSR' \in [word : 0 .. Ids, par : Symbol]
    <3> HIDE DEF BetweenFrames, ucr
    <3>1. due \in 0 .. Ids
      BY <1>2, Sizes DEF Word
    <3>2. ParBit(FMT) \in Symbol
      BY <1>2, Symbols, Zenon
    <3> QED BY <1>1, <3>1, <3>2
  <2>3. TxSM' \in States
    BY <1>1 DEF States
  <2>4. Len(THR') <= Depth
    BY <1>4, Sizes DEF IInv, TypeOK
  <2>5. UNCHANGED <<MD, FMT, xCTS, TxHold, written>>
    BY DEF BetweenFrames
  <2> HIDE DEF BetweenFrames, ucr
  <2>6. steady' \in BOOLEAN /\ bit' \in 0 .. 7
    BY <1>1, <1>3
  <2>7. TypeOK
    BY DEF IInv
  <2> QED BY <1>3, <1>4, <2>1, <2>2, <2>3, <2>4, <2>5, <2>6, <2>7 DEF TypeOK
<1>6. NothingLost'
  <2>1. Len(THR) <= Depth /\ (due + Len(THR)) % Ids = written
    BY DEF IInv, TypeOK, NothingLost
  <2>2. (due' + Len(THR')) % Ids = written'
    <3>1. Len(THR') \in Nat /\ Len(THR') <= Depth
      BY <1>4, <2>1, Sizes
    <3>2. (Next1(due) + Len(THR')) % Ids = (due + Len(THR') + 1) % Ids
      BY <1>2, <3>1, ShiftModulo
    <3>3. due + Len(THR') + 1 = due + Len(THR)
      BY <1>2, <1>4, NextOf
    <3> QED BY <1>3, <2>1, <3>2, <3>3
  <2>3. ASSUME NEW i \in 1 .. Len(THR') PROVE THR'[i] = (due' + i - 1) % Ids
    <3>1. i + 1 \in 1 .. Len(THR) /\ i - 1 \in Nat /\ i - 1 <= Depth
      BY <1>4, <2>1, <2>3, Sizes
    <3>2. THR'[i] = (due + (i + 1) - 1) % Ids
      BY <1>4, <3>1 DEF IInv, NothingLost
    <3>3. (Next1(due) + (i - 1)) % Ids = (due + (i - 1) + 1) % Ids
      BY <1>2, <3>1, ShiftModulo
    <3>4. due + (i + 1) - 1 = due + (i - 1) + 1 /\ due' + i - 1 = Next1(due) + (i - 1)
      BY <1>2, <1>3, NextOf
    <3> QED BY <3>2, <3>3, <3>4
  <2> QED BY <2>2, <2>3 DEF NothingLost
<1>7. FramedIsDone'
  BY <1>1, <1>2, <1>3 DEF FramedIsDone
<1>8. Lengths'
  BY <1>1, <1>3 DEF Lengths
<1>9. SteadyFrame'
  BY <1>1, <1>3 DEF SteadyFrame, Carried, ParBit
<1> QED BY <1>5, <1>6, <1>7, <1>8, <1>9 DEF IInv

(* Without a load a frame can only begin after the last stop bit of one    *)
(* whose handshake was withdrawn: the word in TSR is sent again.           *)
LEMMA NotLoaded ==
  ASSUME IInv, BetweenFrames, ~Ld_TSR
  PROVE  /\ UNCHANGED <<THR, steady, due>>
         /\ TxSM' = "StartBit" => TxSM = "StopBit1" /\ TSR' = TSR /\ MD = 1 /\ ~xCTS
         /\ TxSM' \in {"Idle", "StartDelay", "StopDelay", "StartBit"}
         /\ TSR' \in {TSR, Ones}
<1>1. /\ UNCHANGED <<THR, steady>> /\ TSR' = IF TxSM' = "Idle" THEN Ones ELSE TSR
      /\ TxSM' \in {"Idle", "StartDelay", "StopDelay", "StartBit"}
  BY DEF BetweenFrames, LoadTSR, AfterDelay, AfterStop
<1>2. TxSM' = "StartBit" => TxSM = "StopBit1" /\ TSR' = TSR /\ MD = 1 /\ ~xCTS
  BY <1>1 DEF BetweenFrames, AfterDelay, AfterStop, Ld_TSR, CTSi
<1>3. due' = due
  <2>1. TxSM = "StopBit1" => TSR.word # due
    BY NextOf DEF IInv, FramedIsDone, InFrame
  <2> QED BY <1>2, <2>1 DEF BetweenFrames
<1> QED BY <1>1, <1>2, <1>3

LEMMA NoLoadIInv == ASSUME IInv, BetweenFrames, ~Ld_TSR PROVE IInv'
<1>1. /\ UNCHANGED <<THR, steady, due>>
      /\ TxSM' = "StartBit" => TxSM = "StopBit1" /\ TSR' = TSR /\ MD = 1 /\ ~xCTS
      /\ TxSM' \in {"Idle", "StartDelay", "StopDelay", "StartBit"}
      /\ TSR' \in {TSR, Ones}
  BY NotLoaded
<1>2. /\ bit' = 0 /\ UNCHANGED <<MD, FMT, xCTS, TxHold, written>>
      /\ frame' = IF TxSM' = "StartBit" THEN <<Start>> ELSE << >>
  BY DEF BetweenFrames, ucr
<1>3. TypeOK'
  <2>1. frame' \in Seq(Symbol) /\ Len(frame') <= 12
    BY <1>2, Symbols
  <2>2. TSR' \in [word : 0 .. Ids, par : Symbol]
    <3>1. Ones \in [word : 0 .. Ids, par : Symbol]
      BY Symbols, Sizes DEF Ones
    <3> QED BY <1>1, <3>1 DEF IInv, TypeOK
  <2>3. TxSM' \in States
    BY <1>1 DEF States
  <2> QED BY <1>1, <1>2, <2>1, <2>2, <2>3 DEF IInv, TypeOK
<1>4. NothingLost'
  BY <1>1, <1>2 DEF IInv, NothingLost
<1>5. FramedIsDone'
  BY <1>1, <1>2 DEF IInv, FramedIsDone, InFrame
<1>6. Lengths'
  BY <1>1, <1>2 DEF Lengths
<1>7. ASSUME InFrame', steady' PROVE SteadyFrame'
  <2>1. TxSM' = "StartBit" /\ TxSM = "StopBit1" /\ TSR' = TSR /\ steady
    BY <1>1, <1>7 DEF InFrame
  <2>2. TSR.par = ParBit(FMT)
    BY <2>1 DEF IInv, InFrame, SteadyFrame
  <2> QED BY <1>2, <2>1, <2>2 DEF SteadyFrame, Carried, ParBit
<1> QED BY <1>3, <1>4, <1>5, <1>6, <1>7 DEF IInv

-----------------------------------------------------------------------------
(* The bits of a frame.                                                    *)
LEMMA ShiftIInv == ASSUME IInv, ShiftBit PROVE IInv'
<1>1. /\ TxSM \in {"StartBit", "Shift", "ParityBit", "StopBit2"}
      /\ UNCHANGED <<MD, FMT, xCTS, THR, TxHold, TSR, steady, written, due>>
  BY DEF ShiftBit, ucr, numbers
<1>2. /\ TxSM = "StartBit" => TxSM' = "Shift" /\ bit' = 0
      /\ TxSM = "Shift" => TxSM' = AfterData(bit)
      /\ TxSM = "Shift" /\ AfterData(bit) = "Shift" => bit' = bit + 1
      /\ TxSM = "ParityBit" => TxSM' = StopFirst
      /\ TxSM = "StopBit2" => TxSM' = "StopBit1"
      /\ TxSM' # "Shift" => bit' = 0
  <2>1. AfterData(bit) \in {"Shift", "ParityBit", "StopBit2", "StopBit1"}
        /\ StopFirst \in {"StopBit2", "StopBit1"}
    BY DEF AfterData, StopFirst
  <2> QED BY <2>1 DEF ShiftBit
<1>3. /\ bit \in 0 .. 7 /\ FMT \in 0 .. 15 /\ TSR.word \in Word /\ TSR.par \in Symbol
      /\ frame \in Seq(Symbol)
  BY <1>1 DEF IInv, TypeOK, FramedIsDone, InFrame
<1>4. /\ TxSM' \in {"Shift", "ParityBit", "StopBit2", "StopBit1"}
      /\ bit' \in 0 .. 7
  BY <1>1, <1>2, <1>3 DEF AfterData, StopFirst
<1>5. PICK x \in Symbol :
        /\ frame' = Append(frame, x)
        /\ TxSM' = "Shift" => x = DataBit(TSR.word, bit')
        /\ TxSM' = "ParityBit" => x = TSR.par
        /\ TxSM' \in {"StopBit2", "StopBit1"} => x = Mark
  <2>1. Line(TxSM', bit') \in Symbol
    BY <1>1, <1>3, <1>4, Symbols DEF Line
  <2>2. frame' = Append(frame, Line(TxSM', bit'))
    BY <1>1 DEF ShiftBit, Line
  <2> QED BY <1>4, <2>1, <2>2 DEF Line
<1>6. /\ frame' \in Seq(Symbol) /\ Len(frame) \in Nat /\ Len(frame') = Len(frame) + 1
      /\ \A i \in 1 .. Len(frame) : frame'[i] = frame[i]
      /\ frame'[Len(frame) + 1] = x
  BY <1>3, <1>5, AppendProperties, LenProperties
<1>7. Lengths' /\ Len(frame') <= 12
  BY <1>1, <1>2, <1>3, <1>4, <1>6 DEF IInv, Lengths, AfterData, StopFirst
<1>8. TypeOK'
  <2>1. TxSM' \in States
    BY <1>4 DEF States
  <2> QED BY <1>1, <1>4, <1>6, <1>7, <2>1 DEF IInv, TypeOK
<1>9. NothingLost'
  BY <1>1 DEF IInv, NothingLost
<1>10. FramedIsDone'
  BY <1>1 DEF IInv, FramedIsDone, InFrame
<1>11. ASSUME steady' PROVE SteadyFrame'
  <2>1. SteadyFrame /\ Lengths
    BY <1>1, <1>11 DEF IInv, InFrame
  <2>2. TSR'.par = ParBit(FMT') /\ UNCHANGED DataBits(FMT)
    BY <1>1, <2>1 DEF SteadyFrame
  <2>3. DataBits(FMT) = (IF Len7(FMT) THEN 7 ELSE 8) /\ DataBits(FMT) \in {7, 8}
    BY DEF DataBits
  <2>4. CASE TxSM = "StartBit"
    <3>1. TxSM' = "Shift" /\ bit' = 0 /\ Len(frame) = 1 /\ frame[1] = Start
      BY <1>2, <2>1, <2>4 DEF Lengths, SteadyFrame, Carried
    <3>2. Carried(1)'
      BY <1>1, <1>5, <1>6, <3>1 DEF Carried
    <3> QED BY <2>2, <2>3, <3>1, <3>2 DEF SteadyFrame, Carried
  <2>5. CASE TxSM = "Shift"
    <3>1. bit < DataBits(FMT) /\ Carried(bit + 1) /\ Len(frame) = bit + 2
      BY <2>1, <2>5 DEF SteadyFrame, Lengths
    <3>2. CASE TxSM' = "Shift"
      <4>1. bit' = bit + 1 /\ bit' < DataBits(FMT)
        BY <1>2, <1>3, <2>3, <2>5, <3>2 DEF AfterData, StopFirst
      <4>2. ASSUME NEW i \in 1 .. bit' + 1 PROVE frame'[i + 1] = DataBit(TSR.word, i - 1)
        <5>1. CASE i \in 1 .. bit + 1
          BY <1>3, <1>6, <3>1, <5>1 DEF Carried
        <5>2. CASE i = bit + 2
          BY <1>3, <1>5, <1>6, <3>1, <3>2, <4>1, <5>2
        <5> QED BY <1>3, <4>1, <5>1, <5>2
      <4>3. frame'[1] = Start
        BY <1>3, <1>6, <3>1 DEF Carried
      <4> QED BY <1>1, <2>2, <3>2, <4>1, <4>2, <4>3 DEF SteadyFrame, Carried
    <3>3. CASE TxSM' # "Shift"
      <4>1. /\ bit + 1 = DataBits(FMT)
            /\ TxSM' = IF ParEn(FMT) THEN "ParityBit" ELSE StopFirst
        <5>1. TxSM' = AfterData(bit) /\ bit \in 0 .. 7 /\ FMT \in 0 .. 15
          BY <1>2, <1>3, <2>5
        <5>2. bit >= 6 /\ (bit = 6 => Len7(FMT))
          BY <3>3, <5>1 DEF AfterData
        <5>3. bit + 1 = DataBits(FMT)
          BY <2>3, <3>1, <5>1, <5>2
        <5>4. AfterData(bit) = IF bit = 6 \/ ParEn(FMT) THEN "ParityBit" ELSE StopFirst
          BY <3>3, <5>1 DEF AfterData
        <5>5. bit = 6 => ParEn(FMT)
          BY <5>1, <5>2, SevenHasParity
        <5>6. TxSM' = IF ParEn(FMT) THEN "ParityBit" ELSE StopFirst
          BY <5>1, <5>4, <5>5, Zenon
        <5> QED BY <5>3, <5>6, Zenon
      <4>2. Carried(DataBits(FMT))'
        <5>1. ASSUME NEW i \in 1 .. bit + 1 PROVE frame'[i + 1] = DataBit(TSR.word, i - 1)
          <6>1. i + 1 \in 1 .. Len(frame)
            BY <1>3, <3>1
          <6>2. frame'[i + 1] = frame[i + 1]
            BY <1>6, <6>1
          <6>3. frame[i + 1] = DataBit(TSR.word, i - 1)
            BY <3>1 DEF Carried
          <6> QED BY <6>2, <6>3
        <5>2. frame'[1] = Start
          BY <1>3, <1>6, <3>1 DEF Carried
        <5> QED BY <1>1, <2>2, <4>1, <5>1, <5>2 DEF Carried
      <4>3. Len(frame') = DataBits(FMT) + 2
        BY <1>3, <1>6, <3>1, <4>1
      <4>4. CASE ParEn(FMT)
        <5>1. TxSM' = "ParityBit" /\ frame'[Len(frame')] = ParBit(FMT)
          BY <1>5, <1>6, <2>1, <4>1, <4>4 DEF SteadyFrame
        <5>2. BeforeStop(Len(frame))'
          BY <1>1, <2>3, <4>2, <4>3, <4>4, <5>1 DEF BeforeStop
        <5> QED BY <1>1, <2>2, <4>4, <5>1, <5>2 DEF SteadyFrame
      <4>5. CASE ~ParEn(FMT)
        <5>1. TxSM' = StopFirst /\ frame'[Len(frame')] = Mark
          BY <1>4, <1>5, <1>6, <4>1, <4>5 DEF StopFirst
        <5>2. BeforeStop(Len(frame) - 1)'
          BY <1>1, <2>3, <4>2, <4>3, <4>5 DEF BeforeStop
        <5> QED BY <1>1, <2>2, <5>1, <5>2 DEF SteadyFrame, StopFirst
      <4> QED BY <4>4, <4>5
    <3> QED BY <3>2, <3>3
  <2>6. ASSUME NEW n \in 1 .. Len(frame), BeforeStop(n)
        PROVE  BeforeStop(n)'
    <3>1. n >= 1 + DataBits(FMT)
      BY <2>3, <2>6 DEF BeforeStop
    <3>2. Carried(DataBits(FMT))'
      BY <1>1, <1>6, <2>2, <2>3, <2>6, <3>1 DEF BeforeStop, Carried
    <3> QED BY <1>1, <1>6, <2>6, <3>2 DEF BeforeStop
  <2>7. CASE TxSM = "ParityBit"
    <3>1. TxSM' = StopFirst /\ frame'[Len(frame')] = Mark
      BY <1>2, <1>4, <1>5, <1>6, <2>7 DEF StopFirst
    <3>2. PICK n : n = Len(frame) /\ BeforeStop(n)
      BY <2>1, <2>7 DEF SteadyFrame
    <3>3. n \in 1 .. Len(frame)
      BY <1>6, <2>3, <3>2 DEF BeforeStop
    <3>4. BeforeStop(Len(frame) - 1)'
      <4>1. Len(frame') - 1 = n
        BY <1>6, <3>2
      <4> QED BY <2>6, <3>2, <3>3, <4>1
    <3> QED BY <1>1, <2>2, <3>1, <3>4 DEF SteadyFrame, StopFirst
  <2>8. CASE TxSM = "StopBit2"
    <3>1. TxSM' = "StopBit1" /\ frame'[Len(frame')] = Mark
      BY <1>2, <1>5, <1>6, <2>8
    <3>2. PICK n : n = Len(frame) - 1 /\ BeforeStop(n) /\ frame[n + 1] = Mark /\ NumStop(FMT)
      BY <1>6, <2>1, <2>8 DEF SteadyFrame
    <3>3. n \in 1 .. Len(frame)
      BY <1>6, <2>3, <3>2 DEF BeforeStop
    <3>4. BeforeStop(Len(frame) - 2)'
      <4>1. Len(frame') - 2 = n
        BY <1>6, <3>2
      <4> QED BY <2>6, <3>2, <3>3, <4>1
    <3>5. frame'[Len(frame') - 1] = Mark
      BY <1>6, <3>2, <3>3
    <3> QED BY <1>1, <2>2, <3>1, <3>2, <3>4, <3>5 DEF SteadyFrame
  <2> QED BY <1>1, <2>4, <2>5, <2>7, <2>8
<1> QED BY <1>7, <1>8, <1>9, <1>10, <1>11 DEF IInv

-----------------------------------------------------------------------------
LEMMA NextIInv == ASSUME IInv, [Next]_vars PROVE IInv'
<1>1. ASSUME NEW md \in Mode, NEW f \in Format, WriteUCR(md, f) PROVE IInv'
  <2>1. md \in 0 .. 3 /\ f \in 0 .. 15
    BY SspTxAssumption
  <2> QED BY <1>1, <2>1, SetFormatIInv DEF WriteUCR
<1>2. ASSUME NEW rs \in 0 .. 3, IdleBus(rs) PROVE IInv'
  <2>1. TS \in 0 .. 3 /\ 4 * rs + TS \in 0 .. 15
    BY DEF TS
  <2>2. MD' \in 0 .. 3
    BY <1>2 DEF IdleBus, IInv, TypeOK
  <2> QED BY <1>2, <2>1, <2>2, SetFormatIInv DEF IdleBus
<1>3. CASE ChangeCTS
  <2>1. TypeOK' /\ NothingLost'
    BY <1>3 DEF ChangeCTS, IInv, TypeOK, NothingLost, ucr, txsm, numbers
  <2> QED BY <1>3, <2>1, FrameStays DEF ChangeCTS, IInv, ucr, numbers
<1>4. CASE Wake
  <2>1. TypeOK'
    BY <1>4 DEF Wake, IInv, TypeOK, States, ucr, numbers
  <2>2. NothingLost' /\ ~InFrame'
    BY <1>4 DEF Wake, IInv, NothingLost, InFrame, numbers
  <2>3. FramedIsDone' /\ Lengths'
    BY <1>4, <2>2 DEF Wake, FramedIsDone, Lengths
  <2> QED BY <2>1, <2>2, <2>3 DEF IInv
<1>5. CASE UNCHANGED vars
  <2>1. TypeOK' /\ NothingLost'
    BY <1>5 DEF vars, IInv, TypeOK, NothingLost, ucr, txsm, numbers
  <2> QED BY <1>5, <2>1, FrameStays DEF vars, IInv, ucr, numbers
<1> QED BY <1>1, <1>2, <1>3, <1>4, <1>5, WriteTDRIInv, ClearIInv, LoadIInv, NoLoadIInv, ShiftIInv
        DEF Next, Bit

(* The invariant holds of every behaviour.                                 *)
THEOREM InvariantHolds == Spec => []IInv
BY InitIInv, NextIInv, PTL DEF Spec

(* Every variable keeps its type; a frame is never longer than 12 symbols. *)
THEOREM TypeCorrect == Spec => []TypeOK
<1>1. IInv => TypeOK
  BY DEF IInv
<1> QED BY <1>1, InvariantHolds, PTL

(* The FIFO and the shift register hold the words accepted and not yet     *)
(* framed, in order, whatever is written, held, cleared or sent again.     *)
THEOREM NothingIsLost == Spec => []NothingLost
<1>1. IInv => NothingLost
  BY DEF IInv
<1> QED BY <1>1, InvariantHolds, PTL

(* The reference frame, element by element.                                *)
LEMMA FrameElements ==
  ASSUME NEW f \in 0 .. 15, NEW t, t.word \in Word
  PROVE  /\ Frame(f, t) \in Seq(Symbol)
         /\ LET n == 1 + DataBits(f) + (IF ParEn(f) THEN 1 ELSE 0) IN
              /\ Len(Frame(f, t)) = n + (IF NumStop(f) THEN 2 ELSE 1)
              /\ Frame(f, t)[1] = Start
              /\ \A i \in 1 .. DataBits(f) : Frame(f, t)[i + 1] = DataBit(t.word, i - 1)
              /\ ParEn(f) => Frame(f, t)[n] = ParBit(f)
              /\ \A i \in n + 1 .. Len(Frame(f, t)) : Frame(f, t)[i] = Mark
<1> DEFINE d == DataBits(f)
           data == [i \in 1 .. d |-> DataBit(t.word, i - 1)]
           par == IF ParEn(f) THEN << ParBit(f) >> ELSE << >>
           p == IF ParEn(f) THEN 1 ELSE 0
           stop == IF NumStop(f) THEN <<Mark, Mark>> ELSE <<Mark>>
           s == IF NumStop(f) THEN 2 ELSE 1
           A == <<Start>> \o data
           B == A \o par
<1>1. d \in {7, 8} /\ p \in {0, 1} /\ s \in {1, 2}
  BY DEF DataBits
<1>2. Frame(f, t) = B \o stop
  BY DEF Frame, DataBits
<1>3. data \in Seq(Symbol) /\ Len(data) = d
  <2>1. \A i \in 1 .. d : DataBit(t.word, i - 1) \in Symbol
    BY <1>1, Symbols
  <2> QED BY <1>1, <2>1, IsASeq
<1>4. par \in Seq(Symbol) /\ Len(par) = p /\ (ParEn(f) => par[1] = ParBit(f))
  BY Symbols
<1>5. stop \in Seq(Symbol) /\ Len(stop) = s /\ \A i \in 1 .. s : stop[i] = Mark
  BY Symbols
<1>6. <<Start>> \in Seq(Symbol) /\ Len(<<Start>>) = 1 /\ <<Start>>[1] = Start
  BY Symbols
<1> HIDE DEF d, par, p, stop, s
<1>7. /\ A \in Seq(Symbol) /\ Len(A) = d + 1 /\ A[1] = Start
      /\ \A i \in 1 .. d : A[i + 1] = DataBit(t.word, i - 1)
  <2>1. /\ A \in Seq(Symbol) /\ Len(A) = 1 + d
        /\ \A i \in 1 .. 1 + d : A[i] = IF i <= 1 THEN <<Start>>[i] ELSE data[i - 1]
    BY <1>1, <1>3, <1>6, ConcatProperties
  <2> QED BY <1>1, <1>6, <2>1
<1> HIDE DEF A
<1>8. /\ B \in Seq(Symbol) /\ Len(B) = d + 1 + p
      /\ \A i \in 1 .. d + 1 : B[i] = A[i]
      /\ p = 1 => B[d + 2] = par[1]
  <2>1. /\ B \in Seq(Symbol) /\ Len(B) = Len(A) + Len(par)
        /\ \A i \in 1 .. Len(A) + Len(par) : B[i] = IF i <= Len(A) THEN A[i] ELSE par[i - Len(A)]
    BY <1>4, <1>7, ConcatProperties
  <2> QED BY <1>1, <1>4, <1>7, <2>1
<1> HIDE DEF B
<1>9. /\ B \o stop \in Seq(Symbol) /\ Len(B \o stop) = d + 1 + p + s
      /\ \A i \in 1 .. d + 1 + p : (B \o stop)[i] = B[i]
      /\ \A i \in d + 1 + p + 1 .. d + 1 + p + s : (B \o stop)[i] = Mark
  <2>1. /\ B \o stop \in Seq(Symbol) /\ Len(B \o stop) = Len(B) + Len(stop)
        /\ \A i \in 1 .. Len(B) + Len(stop) :
             (B \o stop)[i] = IF i <= Len(B) THEN B[i] ELSE stop[i - Len(B)]
    BY <1>5, <1>8, ConcatProperties
  <2>2. Len(B) = d + 1 + p /\ Len(stop) = s /\ d + 1 + p \in Nat /\ s \in Nat
    BY <1>1, <1>5, <1>8
  <2>3. ASSUME NEW i \in 1 .. d + 1 + p PROVE (B \o stop)[i] = B[i]
    <3>1. i \in 1 .. Len(B) + Len(stop) /\ i <= Len(B)
      BY <2>2
    <3> QED BY <2>1, <3>1
  <2>4. ASSUME NEW i \in d + 1 + p + 1 .. d + 1 + p + s PROVE (B \o stop)[i] = Mark
    <3>1. i \in 1 .. Len(B) + Len(stop) /\ ~(i <= Len(B)) /\ i - Len(B) \in 1 .. s
      BY <2>2
    <3> QED BY <1>5, <2>1, <3>1
  <2> QED BY <2>1, <2>2, <2>3, <2>4
<1>10. /\ d = DataBits(f)
       /\ p = (IF ParEn(f) THEN 1 ELSE 0)
       /\ s = (IF NumStop(f) THEN 2 ELSE 1)
  BY DEF d, p, s
<1>11. Frame(f, t)[1] = Start
  BY <1>1, <1>2, <1>7, <1>8, <1>9
<1>12. ASSUME NEW i \in 1 .. d PROVE Frame(f, t)[i + 1] = DataBit(t.word, i - 1)
  <2>1. i + 1 \in 1 .. d + 1 /\ i + 1 \in 1 .. d + 1 + p
    BY <1>1
  <2> QED BY <1>2, <1>7, <1>8, <1>9, <2>1
<1>13. ParEn(f) => Frame(f, t)[1 + d + p] = ParBit(f)
  <2>1. ParEn(f) => p = 1 /\ 1 + d + p = d + 2 /\ d + 2 \in 1 .. d + 1 + p
    BY <1>1, <1>10
  <2> QED BY <1>2, <1>4, <1>8, <1>9, <2>1
<1>14. 1 + d + p = d + 1 + p
  BY <1>1
<1> QED BY <1>2, <1>9, <1>10, <1>11, <1>12, <1>13, <1>14

(* A frame during which the decoding of the format stays the same is the   *)
(* frame of that format, with the word that was loaded.                    *)
THEOREM FramesAreAsConfigured == Spec => []FrameAsConfigured
<1>1. ASSUME IInv, TxSM = "StopBit1", steady PROVE frame = Frame(FMT, TSR)
  <2> DEFINE F == Frame(FMT, TSR)
  <2>1. PICK n : /\ n = Len(frame) - (IF NumStop(FMT) THEN 2 ELSE 1) /\ BeforeStop(n)
                 /\ frame[Len(frame)] = Mark
                 /\ NumStop(FMT) => frame[Len(frame) - 1] = Mark
    BY <1>1 DEF IInv, InFrame, SteadyFrame
  <2>2. FMT \in 0 .. 15 /\ TSR.word \in Word /\ frame \in Seq(Symbol) /\ Len(frame) \in Nat
    BY <1>1, LenProperties DEF IInv, TypeOK, FramedIsDone, InFrame
  <2>3. n = 1 + DataBits(FMT) + (IF ParEn(FMT) THEN 1 ELSE 0) /\ n \in Nat /\ DataBits(FMT) \in Nat
    BY <2>1 DEF BeforeStop, DataBits
  <2>4. /\ F \in Seq(Symbol) /\ Len(F) = n + (IF NumStop(FMT) THEN 2 ELSE 1)
        /\ F[1] = Start
        /\ \A i \in 1 .. DataBits(FMT) : F[i + 1] = DataBit(TSR.word, i - 1)
        /\ ParEn(FMT) => F[n] = ParBit(FMT)
        /\ \A i \in n + 1 .. Len(F) : F[i] = Mark
    BY <2>2, <2>3, FrameElements
  <2> HIDE DEF F
  <2>5. Len(F) = Len(frame)
    BY <2>1, <2>2, <2>3, <2>4
  <2>6. ASSUME NEW i \in 1 .. Len(frame) PROVE frame[i] = F[i]
    <3>1. CASE i = 1
      BY <2>1, <2>4, <3>1 DEF BeforeStop, Carried
    <3>2. CASE i \in 2 .. 1 + DataBits(FMT)
      <4>1. PICK j \in 1 .. DataBits(FMT) : i = j + 1
        BY <2>3, <3>2
      <4> QED BY <2>1, <2>4, <4>1 DEF BeforeStop, Carried
    <3>3. CASE i = n /\ ParEn(FMT)
      BY <2>1, <2>4, <3>3 DEF BeforeStop
    <3>4. CASE i > n
      <4>1. F[i] = Mark
        BY <2>3, <2>4, <2>5, <3>4
      <4>2. frame[i] = Mark
        BY <2>1, <2>2, <2>3, <3>4
      <4> QED BY <4>1, <4>2
    <3>5. i = 1 \/ i \in 2 .. 1 + DataBits(FMT) \/ (i = n /\ ParEn(FMT)) \/ i > n
      BY <2>2, <2>3
    <3> QED BY <3>1, <3>2, <3>3, <3>4, <3>5
  <2> QED BY <2>2, <2>4, <2>5, <2>6, SeqEqual DEF F
<1>2. IInv => FrameAsConfigured
  BY <1>1 DEF FrameAsConfigured
<1> QED BY <1>2, InvariantHolds, PTL

(* Every start bit is followed by the word that is due, or, after CTS was  *)
(* withdrawn during the last stop bit, by the one just framed.             *)
THEOREM FramesAreInOrder == Spec => FramesInOrder
<1>1. ASSUME IInv, [Next]_vars, Starts
      PROVE  TSR'.word = due \/ (MD = 1 /\ ~xCTS /\ TxSM = "StopBit1" /\ TSR' = TSR)
  <2>1. BetweenFrames
    BY <1>1 DEF Starts, Next, vars, txsm, Bit, WriteUCR, IdleBus, WriteTDR, ClearTHR,
                ChangeCTS, Wake, ShiftBit, AfterData, StopFirst
  <2>2. CASE Ld_TSR
    BY <1>1, <2>1, <2>2, Loaded
  <2>3. CASE ~Ld_TSR
    BY <1>1, <2>1, <2>3, NotLoaded DEF Starts
  <2> QED BY <2>2, <2>3
<1> QED BY <1>1, InvariantHolds, PTL DEF Spec, FramesInOrder
=============================================================================
