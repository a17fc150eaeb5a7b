-------------------------- MODULE SspUartRx_proofs ---------------------------
(***************************************************************************)
(* For every depth of the receive FIFO and every number of characters the  *)
(* program reads: a frame whose start bit was met leaves its word, a break *)
(* leaves one, a read takes the word it returned, and the timeout flag is  *)
(* never cleared.                                                          *)
(***************************************************************************)
EXTENDS SspUartRx, SequenceTheorems, TLAPS

-----------------------------------------------------------------------------
(* The inductive invariant.                                                *)

\* What the line carries is seen from its level, but for the data bits.
LineLevel ==
    /\ pos \in {Start, Break} => ~RxD
    /\ pos \in {Stop, Rest} => RxD

\* After a word the line is waited for, so a break leaves one.
BreakWaits ==
    /\ inBreak \in {0, 1}
    /\ inBreak = 1 => pos = Break /\ RxSM = "WaitMark"

\* The receiver becomes idle on a mark; a level it has not looked at since is new.
IdleIsFresh == RxSM = "Idle" /\ sampled => RxD

\* The receiver is in a frame it has met until it hands over a word.
InFrame ==
    met => /\ RxSM \in Sampling \cup {"RcvError"}
           /\ RxSM = "ChkStart" => pos = Start /\ ~sampled

\* How many bits of the frame are over when the receiver waits for one.
Place(n) == pos = IF sampled THEN n ELSE n + 1

\* With an empty FIFO the format is 8N1, and the receiver keeps step.
InStep ==
    met /\ clean =>
        /\ RHR = << >>
        /\ RxSM \in {"ChkStart", "Shift", "ChkStop1"}
        /\ RxSM = "Shift" => whole /\ Place(bit)
        /\ RxSM = "ChkStop1" => whole /\ Place(8)

\* The program reads a word that is there, and waits until it is gone.
ProgramWaits ==
    /\ popping => pc = "sleep"
    /\ pc = "read" => RHR # << >>
    /\ pc \in {"off", "poll", "read"} => count < Target

IInv ==
    /\ TypeOK
    /\ LineLevel
    /\ BreakWaits
    /\ IdleIsFresh
    /\ InFrame
    /\ InStep
    /\ ProgramWaits

LEMMA Sizes == Depth \in Nat /\ Half \in Nat /\ Half >= 2 /\ Half <= Depth - 1
               /\ Target \in Nat /\ Target >= 1
BY SspRxAssumption

LEMMA InitIInv == ASSUME Init PROVE IInv
<1> USE Sizes DEF Init
<1>1. TypeOK
  <2>1. << >> \in Seq(Item) /\ Len(<< >>) = 0
    BY EmptySeq
  <2>2. RHR \in Seq(Item) /\ Len(RHR) <= Depth
    BY <2>1
  <2>3. pos \in 0 .. Break /\ count \in 0 .. Target /\ bit \in 0 .. 7 /\ inBreak \in 0 .. 2
    BY DEF Rest, Break
  <2> QED BY <2>2, <2>3 DEF TypeOK, Waiting
<1>2. LineLevel /\ BreakWaits /\ IdleIsFresh
  BY DEF LineLevel, BreakWaits, IdleIsFresh, Start, Stop, Rest, Break
<1>3. InFrame /\ InStep /\ ProgramWaits
  BY DEF InFrame, InStep, ProgramWaits
<1> QED BY <1>1, <1>2, <1>3 DEF IInv

(* The idle bus leaves 8N1 in UCR when the FIFO is empty.                  *)
LEMMA EmptyIs8N1 ==
  ASSUME RHR = << >>, NEW f \in FMT
  PROVE  /\ \A i \in 0 .. 6 : AfterData(i, f) = "Shift"
         /\ AfterData(7, f) = "ChkStop1"
<1>1. f \in {0, 1}
  BY DEF FMT, RS
<1>2. ~Len7(f) /\ ~NumStop(f) /\ ~ParEn(f)
  BY <1>1 DEF Len7, NumStop, ParEn
<1> QED BY <1>2 DEF AfterData, StopFirst

LEMMA AfterDataType ==
  ASSUME NEW i, NEW f
  PROVE  AfterData(i, f) \in {"Shift", "ChkParity", "ChkStop2", "ChkStop1"}
BY DEF AfterData, StopFirst

-----------------------------------------------------------------------------
(* The line.                                                               *)

LEMMA NextBitIInv == ASSUME IInv, NextBit PROVE IInv'
<1> USE DEF Start, Stop, Rest, Break
<1>1. /\ UNCHANGED <<RxSM, bit, whole, RHR, popping, armed, RcvTimeout, iRTO, pc, count, met, clean>>
      /\ sampled' = FALSE
      /\ RxD' \in IF pos' \in {Start, Break} THEN {FALSE}
                  ELSE IF pos' \in {Stop, Rest} THEN {TRUE} ELSE BOOLEAN
      /\ inBreak' = IF pos' = Break THEN inBreak ELSE 0
  BY DEF NextBit, rxsm, timeout, program
<1>2. /\ Settled
      /\ \/ pos < Stop /\ pos' = pos + 1
         \/ pos \in {Stop, Rest} /\ pos' \in {Start, Rest, Break}
         \/ pos = Break /\ pos' \in {Rest, Break}
  BY DEF NextBit
<1>3. TypeOK /\ pos \in 0 .. Break
  BY DEF IInv, TypeOK
<1>4. pos' \in 0 .. Break /\ RxD' \in BOOLEAN
  <2>1. pos' \in 0 .. Break
    <3>1. CASE pos < Stop /\ pos' = pos + 1
      BY <1>3, <3>1
    <3>2. CASE pos' \in {Start, Rest, Break}
      BY <3>2
    <3> QED BY <1>2, <3>1, <3>2
  <2>2. RxD' \in BOOLEAN
    BY <1>1, Zenon
  <2> QED BY <2>1, <2>2
<1>5. inBreak' \in {0, 1} /\ (inBreak' = 1 => pos' = Break /\ RxSM = "WaitMark")
  BY <1>1 DEF IInv, BreakWaits
<1>6. TypeOK'
  <2>1. inBreak' \in 0 .. 2
    BY <1>5
  <2>2. sampled' \in BOOLEAN
    BY <1>1, Zenon
  <2> QED BY <1>1, <1>3, <1>4, <2>1, <2>2 DEF TypeOK
<1>7. LineLevel' /\ BreakWaits' /\ IdleIsFresh'
  <2>1. LineLevel'
    <3>1. ~(pos' \in {Start, Break} /\ pos' \in {Stop, Rest})
      OBVIOUS
    <3>2. /\ pos' \in {Start, Break} => RxD' \in {FALSE}
          /\ pos' \in {Stop, Rest} => RxD' \in {TRUE}
      BY <1>1, <3>1, Zenon
    <3> QED BY <3>2 DEF LineLevel
  <2>2. BreakWaits'
    BY <1>1, <1>5 DEF BreakWaits
  <2>3. IdleIsFresh'
    BY <1>1 DEF IdleIsFresh
  <2> QED BY <2>1, <2>2, <2>3
<1>8. met => RxSM \in Sampling /\ sampled
  BY <1>2 DEF IInv, InFrame, Settled, Sampling
<1>9. InFrame'
  BY <1>1, <1>8 DEF IInv, InFrame
<1>10. InStep'
  <2>1. CASE met /\ clean
    <3>1. /\ RHR = << >> /\ RxSM \in {"Shift", "ChkStop1"} /\ whole
          /\ RxSM = "Shift" => pos = bit
          /\ RxSM = "ChkStop1" => pos = 8
      BY <1>8, <2>1 DEF IInv, InFrame, InStep, Place
    <3>2. pos' = pos + 1
      <4>1. pos \in 0 .. 8
        BY <1>3, <3>1 DEF TypeOK
      <4> QED BY <1>2, <4>1
    <3> QED BY <1>1, <3>1, <3>2 DEF InStep, Place
  <2>2. CASE ~(met /\ clean)
    BY <1>1, <2>2 DEF InStep
  <2> QED BY <2>1, <2>2
<1>11. ProgramWaits'
  BY <1>1 DEF IInv, ProgramWaits
<1> QED BY <1>6, <1>7, <1>9, <1>10, <1>11 DEF IInv

LEMMA GlitchIInv == ASSUME IInv, Glitch PROVE IInv'
<1> USE DEF line, timeout, program, history
<1>1. /\ RxSM = "Idle" /\ pos = Rest /\ RxSM' = "ChkStart" /\ sampled' = FALSE
      /\ UNCHANGED <<line, bit, whole, RHR, popping, timeout, program, history>>
  BY DEF Glitch
<1>2. ~met /\ inBreak = 0
  BY <1>1 DEF IInv, InFrame, BreakWaits, Sampling
<1>3. TypeOK'
  BY <1>1 DEF IInv, TypeOK, Sampling
<1> QED BY <1>1, <1>2, <1>3 DEF IInv, LineLevel, BreakWaits, IdleIsFresh, InFrame, InStep, ProgramWaits

-----------------------------------------------------------------------------
(* The receive state machine.                                              *)

\* What a word does to the FIFO.
LEMMA WordToFIFO ==
  ASSUME IInv, NEW err \in BOOLEAN, WE_RHR(err)
  PROVE  /\ RHR' \in Seq(Item) /\ Len(RHR') <= Depth
         /\ RHR' = RHR => Len(RHR) = Depth
         /\ RHR = << >> => RHR' = << [whole |-> whole, err |-> err] >>
         /\ RHR # << >> => RHR' # << >>
<1> DEFINE item == [whole |-> whole, err |-> err]
<1>1. RHR \in Seq(Item) /\ Len(RHR) <= Depth /\ whole \in BOOLEAN /\ Len(RHR) \in Nat
  BY LenProperties DEF IInv, TypeOK
<1>2. item \in Item
  BY <1>1 DEF Item
<1> HIDE DEF item
<1>3. IF Len(RHR) < Depth THEN RHR' = Append(RHR, item) ELSE RHR' = RHR
  BY DEF WE_RHR, RF1!Put, item
<1>4. CASE Len(RHR) < Depth
  <2>1. RHR' = Append(RHR, item) /\ RHR' \in Seq(Item) /\ Len(RHR') = Len(RHR) + 1
    BY <1>1, <1>2, <1>3, <1>4, AppendProperties
  <2>2. RHR' # RHR
    BY <1>1, <2>1
  <2>3. Len(RHR') <= Depth
    BY <1>1, <1>4, <2>1, Sizes
  <2>4. RHR' # << >>
    <3>1. Len(RHR') # 0
      BY <1>1, <2>1
    <3> QED BY <3>1
  <2>5. RHR = << >> => RHR' = << item >>
    BY <2>1
  <2> QED BY <2>1, <2>2, <2>3, <2>4, <2>5 DEF item
<1>5. CASE ~(Len(RHR) < Depth)
  <2>1. RHR' = RHR /\ Len(RHR) = Depth
    BY <1>1, <1>3, <1>5, Sizes
  <2>2. RHR # << >>
    <3>1. Len(RHR) # 0
      BY <2>1, Sizes
    <3> QED BY <3>1
  <2> QED BY <1>1, <2>1, <2>2
<1> QED BY <1>4, <1>5

\* A word ends the frame; at the end of a break the line is waited for.
LEMMA WordIInv ==
  ASSUME IInv, NEW err \in BOOLEAN, WE_RHR(err),
         UNCHANGED <<line, bit, whole, popping, program>>,
         \/ RxSM' = "WaitMark" /\ RxSM = "RcvError" /\ sampled' = sampled
         \/ RxSM' = "Idle" /\ RxD /\ sampled' \in BOOLEAN
  PROVE  IInv'
<1> USE DEF line, program
<1>1. /\ RHR' \in Seq(Item) /\ Len(RHR') <= Depth /\ (RHR # << >> => RHR' # << >>)
  BY WordToFIFO
<1>2. /\ armed' = TRUE /\ met' = FALSE
      /\ inBreak' = IF pos = Break THEN inBreak + 1 ELSE inBreak
      /\ UNCHANGED <<RcvTimeout, iRTO, clean>>
  BY DEF WE_RHR
<1>3. BreakWaits'
  BY <1>2 DEF IInv, BreakWaits, LineLevel
<1>4. TypeOK'
  <2>1. inBreak' \in 0 .. 2
    BY <1>3 DEF BreakWaits
  <2>2. RxSM' \in Waiting \cup Sampling /\ sampled' \in BOOLEAN
    BY DEF IInv, TypeOK, Waiting
  <2> QED BY <1>1, <1>2, <2>1, <2>2 DEF IInv, TypeOK
<1>5. LineLevel' /\ IdleIsFresh'
  BY DEF IInv, LineLevel, IdleIsFresh
<1>6. InFrame' /\ InStep'
  BY <1>2 DEF InFrame, InStep
<1>7. ProgramWaits'
  BY <1>1 DEF IInv, ProgramWaits
<1> QED BY <1>3, <1>4, <1>5, <1>6, <1>7 DEF IInv

\* The other steps of the state machine leave FIFO and program alone.
LEMMA MachineIInv ==
  ASSUME IInv, UNCHANGED <<line, RHR, popping, timeout, program, inBreak>>,
         RxSM' \in Waiting \cup Sampling, bit' \in 0 .. 7, whole' \in BOOLEAN,
         sampled' \in BOOLEAN, met' \in BOOLEAN, clean' \in BOOLEAN,
         inBreak = 1 => RxSM' = "WaitMark",
         IdleIsFresh', InFrame', InStep'
  PROVE  IInv'
<1> USE DEF line, timeout, program
<1>1. TypeOK'
  BY DEF IInv, TypeOK
<1>2. LineLevel' /\ BreakWaits' /\ ProgramWaits'
  BY DEF IInv, LineLevel, BreakWaits, ProgramWaits
<1> QED BY <1>1, <1>2 DEF IInv

LEMMA TickIInv == ASSUME IInv, Tick PROVE IInv'
<1>1. UNCHANGED <<line, bit, whole, sampled, popping, program>>
  BY DEF Tick
<1>2. TypeOK /\ InFrame /\ BreakWaits /\ LineLevel /\ IdleIsFresh
  BY DEF IInv
<1>3. CASE RxSM = "RcvError"
  <2>1. RxSM' = "WaitMark" /\ WE_RHR(TRUE)
    BY <1>3 DEF Tick, AfterError
  <2> QED BY <1>1, <1>3, <2>1, WordIInv
<1>4. CASE RxSM \in {"WaitMark", "ChkMark"}
  <2>1. /\ RxSM' \in {"ChkMark", "Idle", "WaitMark"} /\ NoWord
        /\ RxSM = "WaitMark" => RxD
        /\ RxSM' = "Idle" => RxD
    BY <1>4 DEF Tick
  <2>2. ~met /\ ~met'
    BY <1>2, <1>4, <2>1 DEF InFrame, Sampling, NoWord, history
  <2>3. inBreak # 1
    BY <1>2, <1>4, <2>1 DEF BreakWaits, LineLevel
  <2>4. IdleIsFresh' /\ InFrame' /\ InStep'
    BY <1>1, <2>1, <2>2 DEF IdleIsFresh, InFrame, InStep, line
  <2>5. RxSM' \in Waiting \cup Sampling
    BY <2>1 DEF Waiting
  <2> QED BY <1>1, <1>2, <2>1, <2>3, <2>4, <2>5, MachineIInv DEF TypeOK, NoWord, history
<1>5. CASE RxSM = "Idle"
  <2>1. /\ ~RxD /\ RxSM' = "ChkStart" /\ met' = (pos = Start) /\ clean' = (RHR = << >>)
        /\ UNCHANGED <<RHR, timeout, inBreak>>
    BY <1>5 DEF Tick
  <2>2. ~sampled
    BY <1>2, <1>5, <2>1 DEF IdleIsFresh
  <2>3. inBreak # 1
    BY <1>2, <1>5 DEF BreakWaits
  <2>4. IdleIsFresh' /\ InFrame'
    BY <1>1, <2>1, <2>2 DEF IdleIsFresh, InFrame, Sampling, line
  <2>5. InStep'
    BY <2>1 DEF InStep
  <2>6. RxSM' \in Waiting \cup Sampling /\ met' \in BOOLEAN /\ clean' \in BOOLEAN
    BY <2>1 DEF Sampling
  <2> QED BY <1>1, <1>2, <2>1, <2>3, <2>4, <2>5, <2>6, MachineIInv DEF TypeOK
<1> QED BY <1>3, <1>4, <1>5 DEF Tick

LEMMA SampleIInv == ASSUME IInv, Sample PROVE IInv'
<1>1. /\ ~sampled /\ sampled' = TRUE
      /\ UNCHANGED <<line, popping, program>>
      /\ ChkStart \/ ChkStop \/ \E f \in FMT : Shift(f) \/ ChkParity(f)
  BY DEF Sample
<1>2. TypeOK /\ InFrame /\ InStep /\ BreakWaits /\ LineLevel
  BY DEF IInv
<1>3. CASE ChkStart
  <2>1. /\ RxSM = "ChkStart" /\ RxSM' = (IF RxD THEN "Idle" ELSE "Shift")
        /\ bit' = 0 /\ whole' = TRUE
        /\ UNCHANGED <<RHR, timeout, met, clean, inBreak>>
    BY <1>3 DEF ChkStart, NoWord, history
  <2>2. met => pos = 0 /\ ~RxD
    BY <1>2, <2>1 DEF InFrame, LineLevel, Start
  <2>3. IdleIsFresh'
    BY <1>1, <2>1 DEF IdleIsFresh, line
  <2>4. InFrame'
    BY <2>1, <2>2 DEF InFrame, Sampling
  <2>5. InStep'
    BY <1>1, <1>2, <2>1, <2>2 DEF InStep, Place, line
  <2>6. inBreak # 1
    BY <1>2, <2>1 DEF BreakWaits
  <2>7. RxSM' \in Waiting \cup Sampling
    BY <2>1 DEF Waiting, Sampling
  <2> QED BY <1>1, <1>2, <2>1, <2>3, <2>4, <2>5, <2>6, <2>7, MachineIInv DEF TypeOK
<1>4. CASE ChkStop
  <2>1. UNCHANGED <<bit, whole>>
    BY <1>4 DEF ChkStop
  <2>2. CASE RxSM = "ChkStop1" /\ RxD
    <3>1. RxSM' = "Idle" /\ WE_RHR(FALSE)
      BY <1>4, <2>2 DEF ChkStop
    <3> QED BY <1>1, <2>1, <2>2, <3>1, WordIInv
  <2>3. CASE ~(RxSM = "ChkStop1" /\ RxD)
    <3>1. /\ RxSM \in {"ChkStop1", "ChkStop2"} /\ RxSM' \in {"ChkStop1", "RcvError"}
          /\ UNCHANGED <<RHR, timeout, met, clean, inBreak>>
          /\ RxSM = "ChkStop1" => ~RxD
      BY <1>4, <2>3 DEF ChkStop, NoWord, history
    <3>2. ~(met /\ clean)
      <4>1. SUFFICES ASSUME met, clean PROVE FALSE
        OBVIOUS
      <4>2. RxSM = "ChkStop1" /\ Place(8)
        BY <1>2, <3>1, <4>1 DEF InStep
      <4>3. pos = Stop
        BY <1>1, <4>2 DEF Place, Stop
      <4> QED BY <1>2, <3>1, <4>2, <4>3 DEF LineLevel
    <3>3. IdleIsFresh' /\ InFrame'
      BY <3>1 DEF IdleIsFresh, InFrame, Sampling
    <3>4. InStep'
      BY <3>1, <3>2 DEF InStep
    <3>5. inBreak # 1
      BY <1>2, <3>1 DEF BreakWaits
    <3>6. RxSM' \in Waiting \cup Sampling
      BY <3>1 DEF Waiting, Sampling
    <3> QED BY <1>1, <1>2, <2>1, <3>1, <3>3, <3>4, <3>5, <3>6, MachineIInv DEF TypeOK
  <2> QED BY <2>2, <2>3
<1>5. ASSUME NEW f \in FMT, Shift(f) PROVE IInv'
  <2>1. /\ RxSM = "Shift" /\ RxSM' = AfterData(bit, f)
        /\ bit' = IF RxSM' = "Shift" THEN bit + 1 ELSE 0
        /\ whole' = (whole /\ pos = bit + 1 /\ (bit = 6 => RxSM' = "Shift"))
        /\ UNCHANGED <<RHR, timeout, met, clean, inBreak>>
    BY <1>5 DEF Shift, NoWord, history
  <2>2. RxSM' \in {"Shift", "ChkParity", "ChkStop2", "ChkStop1"}
    BY <2>1, AfterDataType
  <2>3. bit \in 0 .. 7 /\ whole \in BOOLEAN
    BY <1>2 DEF TypeOK
  <2>4. bit' \in 0 .. 7
    <3>1. bit = 7 => RxSM' # "Shift"
      BY <2>1 DEF AfterData, StopFirst
    <3> QED BY <2>1, <2>3, <3>1
  <2>5. whole' \in BOOLEAN
    BY <2>1
  <2>6. IdleIsFresh' /\ InFrame'
    BY <2>1, <2>2 DEF IdleIsFresh, InFrame, Sampling
  <2>7. InStep'
    <3>1. CASE met /\ clean
      <4>1. RHR = << >> /\ whole /\ pos = bit + 1
        BY <1>1, <1>2, <2>1, <3>1 DEF InStep, Place
      <4>2. /\ bit \in 0 .. 6 => RxSM' = "Shift"
            /\ bit = 7 => RxSM' = "ChkStop1"
        BY <2>1, <4>1, EmptyIs8N1
      <4>3. CASE bit \in 0 .. 6
        <5>1. RxSM' = "Shift" /\ bit' = bit + 1 /\ whole'
          BY <2>1, <4>1, <4>2, <4>3
        <5>2. pos' = bit' /\ sampled' /\ RHR' = << >>
          BY <1>1, <2>1, <4>1, <5>1 DEF line
        <5>3. Place(bit)'
          BY <5>2, Zenon DEF Place
        <5> QED BY <5>1, <5>2, <5>3 DEF InStep
      <4>4. CASE bit = 7
        <5>1. RxSM' = "ChkStop1"
          BY <4>2, <4>4
        <5>2. bit # 6
          BY <4>4
        <5>3. whole'
          BY <2>1, <4>1, <5>2, Zenon
        <5>4. pos' = 8 /\ sampled' /\ RHR' = << >>
          BY <1>1, <2>1, <4>1, <4>4 DEF line
        <5> QED BY <5>1, <5>3, <5>4 DEF InStep, Place
      <4> QED BY <2>3, <4>3, <4>4
    <3>2. CASE ~(met /\ clean)
      BY <2>1, <3>2 DEF InStep
    <3> QED BY <3>1, <3>2
  <2>8. inBreak # 1
    BY <1>2, <2>1 DEF BreakWaits
  <2>9. RxSM' \in Waiting \cup Sampling
    BY <2>2 DEF Sampling
  <2> QED BY <1>1, <1>2, <2>1, <2>4, <2>5, <2>6, <2>7, <2>8, <2>9, MachineIInv DEF TypeOK
<1>6. ASSUME NEW f \in FMT, ChkParity(f) PROVE IInv'
  <2>1. /\ RxSM = "ChkParity" /\ RxSM' \in {"RcvError", "ChkStop1", "ChkStop2"}
        /\ UNCHANGED <<bit, whole, RHR, timeout, met, clean, inBreak>>
    BY <1>6 DEF ChkParity, StopFirst, NoWord, history
  <2>2. ~(met /\ clean)
    BY <1>2, <2>1 DEF InStep
  <2>3. IdleIsFresh' /\ InFrame'
    BY <2>1 DEF IdleIsFresh, InFrame, Sampling
  <2>4. InStep'
    BY <2>1, <2>2 DEF InStep
  <2>5. inBreak # 1
    BY <1>2, <2>1 DEF BreakWaits
  <2>6. RxSM' \in Waiting \cup Sampling
    BY <2>1 DEF Waiting, Sampling
  <2> QED BY <1>1, <1>2, <2>1, <2>3, <2>4, <2>5, <2>6, MachineIInv DEF TypeOK
<1> QED BY <1>1, <1>3, <1>4, <1>5, <1>6

-----------------------------------------------------------------------------
(* The bus interface and the program.                                      *)

\* The pulse of a read takes a word, or finds none.
LEMMA PopFIFO ==
  ASSUME TypeOK, RE_RHR
  PROVE  /\ RHR' \in Seq(Item) /\ Len(RHR') <= Depth
         /\ RHR = << >> => RHR' = << >>
<1>1. RHR \in Seq(Item) /\ Len(RHR) <= Depth /\ Len(RHR) \in Nat
  BY LenProperties DEF TypeOK
<1>2. CASE RHR = << >>
  BY <1>1, <1>2 DEF RE_RHR, RRDY
<1>3. CASE RHR # << >>
  <2>1. RHR' = Tail(RHR)
    BY <1>3 DEF RE_RHR, RRDY, RF1!Get
  <2>2. RHR' \in Seq(Item) /\ Len(RHR') = Len(RHR) - 1
    BY <1>1, <1>3, <2>1, HeadTailProperties
  <2> QED BY <1>1, <1>3, <2>2, Sizes
<1> QED BY <1>2, <1>3

\* The steps that leave the receiver alone.
LEMMA BusIInv ==
  ASSUME IInv, UNCHANGED <<line, rxsm, sampled, history>>,
         RHR' \in Seq(Item), Len(RHR') <= Depth, RHR = << >> => RHR' = << >>,
         popping' \in BOOLEAN, armed' \in BOOLEAN, RcvTimeout' \in BOOLEAN, iRTO' \in BOOLEAN,
         pc' \in {"off", "poll", "read", "sleep", "last", "done"}, count' \in 0 .. Target,
         ProgramWaits'
  PROVE  IInv'
<1> USE DEF line, rxsm, history
<1>1. TypeOK'
  BY DEF IInv, TypeOK
<1>2. LineLevel' /\ BreakWaits' /\ IdleIsFresh'
  BY DEF IInv, LineLevel, BreakWaits, IdleIsFresh
<1>3. InFrame' /\ InStep'
  BY DEF IInv, InFrame, InStep, Place
<1> QED BY <1>1, <1>2, <1>3 DEF IInv

LEMMA RE_RHRIInv == ASSUME IInv, RE_RHR PROVE IInv'
<1>1. /\ popping /\ popping' = FALSE /\ armed' = FALSE /\ RcvTimeout' = FALSE
      /\ UNCHANGED <<line, rxsm, sampled, iRTO, pc, count, history>>
  BY DEF RE_RHR, program
<1>2. TypeOK /\ pc = "sleep"
  BY <1>1 DEF IInv, ProgramWaits
<1>3. ProgramWaits'
  BY <1>1, <1>2 DEF ProgramWaits
<1> QED BY <1>1, <1>2, <1>3, PopFIFO, BusIInv DEF TypeOK

LEMMA TimeoutIInv == ASSUME IInv, Timeout PROVE IInv'
<1>1. /\ armed' = FALSE /\ RcvTimeout' = TRUE /\ iRTO' = (iRTO \/ ~RcvTimeout)
      /\ UNCHANGED <<line, rxsm, sampled, RHR, popping, pc, count, history>>
  BY DEF Timeout, program
<1>2. TypeOK /\ iRTO' \in BOOLEAN
  BY <1>1 DEF IInv
<1>3. ProgramWaits'
  BY <1>1 DEF IInv, ProgramWaits
<1> QED BY <1>1, <1>2, <1>3, BusIInv DEF TypeOK

LEMMA ProgramIInv == ASSUME IInv, Begin \/ Program PROVE IInv'
<1>1. TypeOK /\ ProgramWaits
  BY DEF IInv
<1>2. CASE Begin
  <2>1. /\ pc = "off" /\ pc' = "poll"
        /\ UNCHANGED <<line, rxsm, sampled, RHR, popping, armed, RcvTimeout, history, count, iRTO>>
    BY <1>2 DEF Begin, Unread
  <2>2. ProgramWaits'
    BY <1>1, <2>1 DEF ProgramWaits
  <2> QED BY <1>1, <2>1, <2>2, BusIInv DEF TypeOK
<1>3. CASE Poll
  <2>1. /\ pc = "poll" /\ pc' = (IF Bit6 THEN "read" ELSE "sleep")
        /\ iRTO' = (iRTO /\ ~Clr_Int(pUSR))
        /\ UNCHANGED <<line, rxsm, sampled, RHR, popping, armed, RcvTimeout, history, count>>
    BY <1>3 DEF Poll, Unread
  <2>2. Bit6 => RHR # << >>
    BY DEF Bit6, RS
  <2>3. ProgramWaits'
    BY <1>1, <2>1, <2>2 DEF ProgramWaits
  <2> QED BY <1>1, <2>1, <2>3, BusIInv DEF TypeOK
<1>4. CASE ReadRDR
  <2>1. /\ pc = "read" /\ pc' = "sleep" /\ count' = count + 1 /\ popping' = RRDY
        /\ UNCHANGED <<line, rxsm, sampled, RHR, armed, RcvTimeout, iRTO, history>>
    BY <1>4 DEF ReadRDR, timeout
  <2>2. count' \in 0 .. Target
    BY <1>1, <2>1, Sizes DEF TypeOK, ProgramWaits
  <2>3. popping' \in BOOLEAN
    BY <2>1 DEF RRDY
  <2>4. ProgramWaits'
    BY <2>1 DEF ProgramWaits
  <2> QED BY <1>1, <2>1, <2>2, <2>3, <2>4, BusIInv DEF TypeOK
<1>5. CASE Sleep
  <2>1. /\ pc = "sleep" /\ ~popping /\ pc' = (IF count = Target THEN "last" ELSE "poll")
        /\ UNCHANGED <<line, rxsm, sampled, RHR, popping, armed, RcvTimeout, history, count, iRTO>>
    BY <1>5 DEF Sleep, Slept, Unread
  <2>2. ProgramWaits'
    <3>1. count # Target => count < Target
      BY <1>1, Sizes DEF TypeOK
    <3> QED BY <2>1, <3>1 DEF ProgramWaits
  <2> QED BY <1>1, <2>1, <2>2, BusIInv DEF TypeOK
<1>6. CASE ClearRHR
  <2>1. /\ pc = "last" /\ pc' = "done" /\ RHR' = << >>
        /\ UNCHANGED <<line, rxsm, sampled, popping, armed, RcvTimeout, iRTO, count, history>>
    BY <1>6 DEF ClearRHR, RF1!Clear, timeout
  <2>2. RHR' \in Seq(Item) /\ Len(RHR') <= Depth
    BY <2>1, EmptySeq, Sizes
  <2>3. ProgramWaits'
    BY <1>1, <2>1 DEF ProgramWaits
  <2> QED BY <1>1, <2>1, <2>2, <2>3, BusIInv DEF TypeOK
<1> QED BY <1>2, <1>3, <1>4, <1>5, <1>6 DEF Program

LEMMA NextIInv == ASSUME IInv, [Next]_vars PROVE IInv'
<1>1. CASE UNCHANGED vars
  BY <1>1 DEF vars, line, rxsm, timeout, program, history, IInv, TypeOK, LineLevel, BreakWaits,
              IdleIsFresh, InFrame, InStep, Place, ProgramWaits
<1> QED BY <1>1, NextBitIInv, GlitchIInv, TickIInv, SampleIInv, RE_RHRIInv, TimeoutIInv,
           ProgramIInv DEF Next, Device

(* The inductive invariant: the receiver is in step with a frame that it   *)
(* met with an empty FIFO (UART_RXSM.v), waits for the line after an       *)
(* error, and the program waits for the pulse of each read (Soft/main.c).  *)
THEOREM InvariantHolds == Spec => []IInv
<1>1. Init => IInv
  BY InitIInv
<1>2. IInv /\ [Next]_vars => IInv'
  BY NextIInv
<1> QED BY <1>1, <1>2, PTL DEF Spec

(* Types: the receive FIFO never holds more words than it has (WE_RHR of a *)
(* full FIFO is ignored), and the program stops after Target characters.   *)
THEOREM TypeCorrect == Spec => []TypeOK
<1>1. IInv => TypeOK
  BY DEF IInv
<1> QED BY <1>1, InvariantHolds, PTL

(* UART_RXSM.v:278, "line break conditions are not expected to cause the   *)
(* RxSM to receive more than one character": one word per break, for every *)
(* depth of the FIFO and every length of the break.                        *)
THEOREM BreakLeavesOneWord == Spec => []BreakGivesOneWord
<1>1. IInv => BreakGivesOneWord
  BY DEF IInv, BreakWaits, BreakGivesOneWord
<1> QED BY <1>1, InvariantHolds, PTL

-----------------------------------------------------------------------------
(* The action properties.                                                  *)

\* A frame that was met ends with a word for the FIFO.
LEMMA EndsWithWord ==
  ASSUME IInv, Next, met, EndsFrame
  PROVE  /\ \E err \in BOOLEAN : WE_RHR(err)
         /\ clean => RHR = << >> /\ whole /\ WE_RHR(FALSE)
<1>1. RxSM \in Sampling \cup {"RcvError"} /\ RxSM' # RxSM
  BY DEF IInv, InFrame, EndsFrame
<1>2. RxSM # "Idle"
  BY <1>1 DEF Sampling
<1>3. CASE Tick
  <2>1. RxSM = "RcvError"
    BY <1>1, <1>3 DEF Tick, Sampling
  <2>2. WE_RHR(TRUE) /\ ~clean
    BY <1>3, <2>1 DEF Tick, IInv, InStep
  <2> QED BY <2>2
<1>4. CASE Sample
  <2>1. RxSM' = "Idle"
    BY <1>4 DEF EndsFrame, Sample, ChkStart, ChkStop, Shift, ChkParity
  <2>2. ~ChkStart
    BY <2>1 DEF ChkStart, IInv, InFrame, LineLevel
  <2>3. \A f \in FMT : ~Shift(f) /\ ~ChkParity(f)
    BY <2>1, AfterDataType DEF Shift, ChkParity, StopFirst
  <2>4. RxSM = "ChkStop1" /\ WE_RHR(FALSE)
    BY <1>4, <2>1, <2>2, <2>3 DEF Sample, ChkStop
  <2>5. clean => RHR = << >> /\ whole
    BY <2>4 DEF IInv, InStep
  <2> QED BY <2>4, <2>5
<1>5. CASE Glitch
  BY <1>2, <1>5 DEF Glitch
<1>6. CASE NextBit \/ RE_RHR \/ Timeout \/ Begin \/ Program
  <2>1. UNCHANGED rxsm
    BY <1>6 DEF NextBit, RE_RHR, Timeout, Begin, Program, Poll, ReadRDR, Sleep, ClearRHR, Unread
  <2> QED BY <1>1, <2>1 DEF rxsm
<1> QED BY <1>3, <1>4, <1>5, <1>6 DEF Next, Device

(* UART_RXSM.v: whatever format an idle bus leaves in UCR, a frame whose   *)
(* start bit was met leaves a word if there is room for one, and its eight *)
(* bits without an error if the FIFO was empty when it began.              *)
THEOREM FramesAreDelivered == Spec => FramesDelivered
<1>1. IInv /\ [Next]_vars =>
        [met /\ EndsFrame =>
           /\ RHR' = RHR => Len(RHR) = Depth
           /\ clean => RHR' = << [whole |-> TRUE, err |-> FALSE] >>]_vars
  <2> SUFFICES ASSUME IInv, Next, met, EndsFrame
               PROVE  /\ RHR' = RHR => Len(RHR) = Depth
                      /\ clean => RHR' = << [whole |-> TRUE, err |-> FALSE] >>
    OBVIOUS
  <2>1. RHR' = RHR => Len(RHR) = Depth
    BY EndsWithWord, WordToFIFO
  <2>2. ASSUME clean PROVE RHR' = << [whole |-> TRUE, err |-> FALSE] >>
    <3>1. RHR = << >> /\ whole /\ WE_RHR(FALSE)
      BY <2>2, EndsWithWord
    <3>2. RHR' = << [whole |-> whole, err |-> FALSE] >>
      BY <3>1, WordToFIFO
    <3>3. whole = TRUE
      BY <3>1 DEF IInv, TypeOK
    <3> QED BY <3>2, <3>3
  <2> QED BY <2>1, <2>2
<1> QED BY <1>1, InvariantHolds, PTL DEF Spec, FramesDelivered

(* Soft/main.c reads RDR after it has seen bit 6 of USR: there is a word   *)
(* in RDR then, and the pulse of the read before has taken its word.       *)
THEOREM ReadsTakeTheHead == Spec => ReadTakesHead
<1>1. IInv /\ [Next]_vars => [pc = "read" /\ pc' = "sleep" => RRDY /\ ~popping]_vars
  BY DEF IInv, ProgramWaits, RRDY
<1> QED BY <1>1, InvariantHolds, PTL DEF Spec, ReadTakesHead

(* UART_INT.v:120 clears the timeout flag on Clr_Int, which no read of USR *)
(* raises since SSP_En is for reads of RDR: the flag stays until reset.    *)
THEOREM TimeoutFlagHolds == Spec => TimeoutFlagStays
<1>1. [Next]_vars => [iRTO => iRTO']_vars
  <2> SUFFICES ASSUME Next, iRTO PROVE iRTO'
    OBVIOUS
  <2>1. ~Clr_Int(pUSR)
    BY DEF Clr_Int, SSP_En, pUSR, pRDR
  <2>2. CASE Poll
    BY <2>1, <2>2 DEF Poll
  <2>3. CASE Timeout
    BY <2>3 DEF Timeout
  <2>4. CASE NextBit \/ Glitch \/ RE_RHR \/ Begin \/ ReadRDR \/ Sleep \/ ClearRHR
    BY <2>4 DEF NextBit, Glitch, RE_RHR, Begin, ReadRDR, Sleep, ClearRHR, timeout
  <2>5. CASE Tick \/ Sample
    BY <2>5 DEF Tick, Sample, ChkStart, ChkStop, Shift, ChkParity, WE_RHR, NoWord, timeout
  <2> QED BY <2>2, <2>3, <2>4, <2>5 DEF Next, Device, Program
<1> QED BY <1>1, PTL DEF Spec, TimeoutFlagStays
=============================================================================
