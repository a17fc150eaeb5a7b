--------------------------- MODULE DPSFnmCE_proofs ---------------------------
(***************************************************************************)
(* For every depth and every word set: the flags of the FIFO are exact,    *)
(* its addresses agree with its count, and it implements BoundedQueue.     *)
(***************************************************************************)
EXTENDS DPSFnmCE, SequenceTheorems, TLAPS

LEMMA DepthFacts == Depth \in Nat /\ Depth >= 2 /\ Depth = 2 * Half /\ Half \in Nat /\ Half >= 1
  BY HalfAssumption DEF Depth

LEMMA InitIInv == Init => IInv
  BY DepthFacts DEF Init, IInv, TypeOK, FlagsExact, PointersAgree, Addr, Bit, EF, FF,
     HF, Cnt, Count, Slot

(* What one clock does to the count, by which of the two accesses are      *)
(* accepted.                                                               *)
LEMMA ClockEffect ==
  ASSUME IInv, NEW we \in BOOLEAN, NEW re \in BOOLEAN, NEW di \in Word,
         Clock(we, re, di)
  PROVE  /\ (Wr(we) <=> Rd(re)) => WCnt' = WCnt /\ nEF' = nEF /\ rFF' = rFF
         /\ Wr(we) /\ ~Rd(re) => /\ Count < Depth
                                 /\ WCnt' = Inc(WCnt)
                                 /\ nEF' = 1
                                 /\ rFF' = IF WCnt = Depth - 1 THEN 1 ELSE 0
         /\ ~Wr(we) /\ Rd(re) => /\ Count > 0
                                 /\ WCnt' = Dec(WCnt)
                                 /\ nEF' = IF Count = 1 THEN 0 ELSE 1
                                 /\ rFF' = 0
<1> USE DepthFacts
<1>1. CASE Wr(we) <=> Rd(re)
  BY <1>1 DEF Clock, NextWCnt, NextnEF, NextrFF, CE
<1>3. CASE Wr(we) /\ ~Rd(re)
  BY <1>3 DEF IInv, TypeOK, FlagsExact, Addr, Bit, Clock, NextWCnt, NextnEF, NextrFF, CE,
     Wr, Rd, EF, FF, HF, Cnt, Count
<1>4. CASE ~Wr(we) /\ Rd(re)
  BY <1>4 DEF IInv, TypeOK, FlagsExact, Addr, Bit, Clock, NextWCnt, NextnEF, NextrFF, CE,
     Wr, Rd, EF, FF, HF, Cnt, Count
<1> QED BY <1>1, <1>3, <1>4

(* One clock preserves the invariant.                                      *)
LEMMA ClockIInv ==
  ASSUME IInv, NEW we \in BOOLEAN, NEW re \in BOOLEAN, NEW di \in Word,
         Clock(we, re, di)
  PROVE  IInv'
<1> USE DepthFacts
<1>1. TypeOK'
  BY DEF IInv, TypeOK, Addr, Bit, Clock, NextRAM, NextA, NextDPRA, NextWCnt, NextnEF,
     NextrFF, Inc, Dec, Wr, Rd, CE, EF, FF, Cnt
<1>0. /\ (Wr(we) <=> Rd(re)) => WCnt' = WCnt /\ nEF' = nEF /\ rFF' = rFF
      /\ Wr(we) /\ ~Rd(re) => /\ Count < Depth
                              /\ WCnt' = Inc(WCnt)
                              /\ nEF' = 1
                              /\ rFF' = IF WCnt = Depth - 1 THEN 1 ELSE 0
      /\ ~Wr(we) /\ Rd(re) => /\ Count > 0
                              /\ WCnt' = Dec(WCnt)
                              /\ nEF' = IF Count = 1 THEN 0 ELSE 1
                              /\ rFF' = 0
  BY ClockEffect
<1>2. FlagsExact'
  <2>1. CASE Wr(we) <=> Rd(re)
    <3>1. WCnt' = WCnt /\ nEF' = nEF /\ rFF' = rFF
      BY <2>1, <1>0
    <3>2. UNCHANGED <<EF, FF, HF, Cnt, Count>>
      BY <3>1 DEF EF, FF, HF, Cnt, Count
    <3> QED BY <3>2 DEF IInv, FlagsExact
  <2>2. CASE Wr(we) /\ ~Rd(re)
    <3>1. /\ rFF = 0 /\ WCnt' = Inc(WCnt) /\ nEF' = 1
          /\ rFF' = IF WCnt = Depth - 1 THEN 1 ELSE 0
      <4>1. Count < Depth
        BY <2>2, <1>0
      <4>2. rFF = 0
        <5>1. rFF = 1 => Count = Depth
          BY DEF FF, Count
        <5> QED BY <4>1, <5>1 DEF IInv, TypeOK, Bit
      <4> QED BY <2>2, <4>2, <1>0
    <3>2. CASE WCnt = Depth - 1
      BY <3>1, <3>2 DEF Inc, EF, FF, HF, Cnt, Count, FlagsExact
    <3>3. CASE WCnt # Depth - 1
      <4>1. WCnt' \in Nat /\ WCnt' > 0 /\ WCnt' < Depth /\ rFF' = 0
        BY <3>1, <3>3 DEF IInv, TypeOK, Addr, Inc
      <4> QED BY <4>1, <3>1 DEF EF, FF, HF, Cnt, Count, FlagsExact
    <3> QED BY <3>2, <3>3
  <2>3. CASE ~Wr(we) /\ Rd(re)
    BY <2>3, <1>0 DEF IInv, TypeOK, FlagsExact, Addr, Bit, Dec, EF, FF, HF, Cnt, Count
  <2> QED BY <2>1, <2>2, <2>3
<1>3. PointersAgree'
  <2>0. A' = NextA(we) /\ DPRA' = NextDPRA(re)
    BY DEF Clock
  <2>1. CASE Wr(we) /\ Rd(re)
    BY <2>0, <2>1, <1>0 DEF IInv, TypeOK, FlagsExact, PointersAgree, Addr, Bit,
       NextA, NextDPRA, Inc, FF, Slot
  <2>2. CASE ~Wr(we) /\ ~Rd(re)
    BY <2>0, <2>2, <1>0 DEF IInv, PointersAgree, NextA, NextDPRA, FF, Slot
  <2>3. CASE Wr(we) /\ ~Rd(re)
    BY <2>0, <2>3, <1>0 DEF IInv, TypeOK, FlagsExact, PointersAgree, Addr, Bit,
       NextA, NextDPRA, Inc, FF, Count, Slot
  <2>4. CASE ~Wr(we) /\ Rd(re)
    <3>1. A' = A /\ DPRA' = Inc(DPRA) /\ WCnt' = Dec(WCnt) /\ rFF' = 0
      BY <2>0, <2>4, <1>0 DEF NextA, NextDPRA
    <3>2. CASE FF
      BY <3>1, <3>2 DEF IInv, TypeOK, FlagsExact, PointersAgree, Addr, Bit, Inc, Dec, FF,
         Cnt, Count, Slot
    <3>3. CASE ~FF
      <4>1. WCnt > 0
        BY <3>3, <2>4, <1>0 DEF Count, FF
      <4> QED BY <3>1, <3>3, <4>1 DEF IInv, TypeOK, PointersAgree, Addr, Bit, Inc, Dec, FF, Slot
    <3> QED BY <3>2, <3>3
  <2> QED BY <2>1, <2>2, <2>3, <2>4
<1> QED BY <1>1, <1>2, <1>3 DEF IInv

LEMMA ResetIInv ==
  ASSUME IInv, NEW we \in BOOLEAN, NEW di \in Word, Reset(we, di)
  PROVE  IInv'
BY DepthFacts DEF IInv, TypeOK, FlagsExact, PointersAgree, Addr, Bit, Reset, NextRAM, Wr,
   EF, FF, HF, Cnt, Count, Slot

(* The flags, the count and the two addresses agree, at every depth.       *)
THEOREM InvariantHolds == Spec => []IInv
<1>1. IInv /\ [Next]_vars => IInv'
  <2> SUFFICES ASSUME IInv, [Next]_vars PROVE IInv'
    OBVIOUS
  <2>1. CASE Next
    BY <2>1, ClockIInv, ResetIInv DEF Next
  <2>2. CASE UNCHANGED vars
    BY <2>2 DEF vars, IInv, TypeOK, FlagsExact, PointersAgree, EF, FF, HF, Cnt, Count, Slot
  <2> QED BY <2>1, <2>2
<1> QED BY InitIInv, <1>1, PTL DEF Spec

(* TypeOK of the run: no address or count ever leaves its addr bits.       *)
THEOREM TypeCorrect == Spec => []TypeOK
BY InvariantHolds, PTL DEF IInv

(* FlagsExact of the run: empty, full, half full and Cnt report the number *)
(* of stored words exactly.                                                *)
THEOREM FlagsAreExact == Spec => []FlagsExact
BY InvariantHolds, PTL DEF IInv

(* PointersAgree of the run.                                               *)
THEOREM PointersAlwaysAgree == Spec => []PointersAgree
BY InvariantHolds, PTL DEF IInv

-----------------------------------------------------------------------------
(* The refinement.  First, Content is a sequence of Count words, and Slot  *)
(* numbers the addresses of the memory one to one.                         *)
LEMMA FunctionIsSequence ==
  ASSUME NEW S, NEW n \in Nat, NEW f \in [1 .. n -> S]
  PROVE  f \in Seq(S) /\ Len(f) = n
OBVIOUS

LEMMA SlotFacts ==
  ASSUME IInv
  PROVE  /\ \A i \in Addr : Slot(i) \in Addr
         /\ \A i, j \in Addr : Slot(i) = Slot(j) => i = j
         /\ \A i \in Addr : i # 0 => (IF Inc(DPRA) + (i - 1) < Depth THEN Inc(DPRA) + (i - 1)
                                      ELSE Inc(DPRA) + (i - 1) - Depth) = Slot(i)
BY DepthFacts DEF IInv, TypeOK, Addr, Slot, Inc

ContentShape ==
  /\ Count \in 0 .. Depth
  /\ Content \in Seq(Word)
  /\ Len(Content) = Count
  /\ \A i \in 1 .. Count : Content[i] = RAM[Slot(i - 1)]

LEMMA ContentFacts == IInv => ContentShape
<1> SUFFICES ASSUME IInv PROVE ContentShape
  OBVIOUS
<1>1. Count \in 0 .. Depth
  BY DepthFacts DEF IInv, TypeOK, Addr, Count
<1>2. \A i \in 1 .. Count : Slot(i - 1) \in Addr
  BY <1>1, SlotFacts, DepthFacts DEF Addr
<1>3. Content \in [1 .. Count -> Word]
  BY <1>2 DEF Content, IInv, TypeOK
<1>4. Content \in Seq(Word) /\ Len(Content) = Count
  BY <1>1, <1>3, FunctionIsSequence
<1> QED BY <1>1, <1>4 DEF Content, ContentShape

(* Where the words of the next Content lie in the memory.                  *)
LEMMA NextContentFacts ==
  ASSUME IInv'
  PROVE  /\ Content' \in Seq(Word)
         /\ Len(Content') = Count'
         /\ \A i \in 1 .. Count' : Content'[i] = RAM'[Slot(i - 1)']
<1>1. ContentShape'
  BY ContentFacts, PTL
<1> QED BY <1>1 DEF ContentShape

(* Only a write: the word goes behind the last one.                        *)
LEMMA PutStep ==
  ASSUME IInv, NEW we \in BOOLEAN, NEW re \in BOOLEAN, NEW di \in Word,
         Clock(we, re, di), Wr(we), ~Rd(re)
  PROVE  Len(Content) < Depth /\ Content' = Append(Content, di)
<1> USE DepthFacts
<1>1. Count < Depth /\ rFF = 0 /\ Count = WCnt
  <2>1. Count < Depth
    BY ClockEffect
  <2>2. ~FF
    BY DEF Wr
  <2> QED BY <2>1, <2>2 DEF IInv, TypeOK, Bit, Count, FF
<1>2. Count' = Count + 1
  <2>1. WCnt' = Inc(WCnt) /\ rFF' = IF WCnt = Depth - 1 THEN 1 ELSE 0
    BY ClockEffect
  <2>2. CASE WCnt = Depth - 1
    BY <1>1, <2>1, <2>2 DEF Count, FF
  <2>3. CASE WCnt # Depth - 1
    BY <1>1, <2>1, <2>3 DEF Count, FF, Inc
  <2> QED BY <2>2, <2>3
<1>3. A = Slot(Count) /\ Count \in Addr
  BY <1>1 DEF IInv, TypeOK, PointersAgree, FF, Addr
<1>4. RAM' = [RAM EXCEPT ![A] = di] /\ DPRA' = DPRA
  BY DEF Clock, NextRAM, NextDPRA
<1>5. \A i \in Nat : Slot(i)' = Slot(i)
  BY <1>4 DEF Slot
<1>6. \A i \in 1 .. Count : RAM'[Slot(i - 1)] = RAM[Slot(i - 1)]
  <2> SUFFICES ASSUME NEW i \in 1 .. Count PROVE RAM'[Slot(i - 1)] = RAM[Slot(i - 1)]
    OBVIOUS
  <2>1. i - 1 \in Addr /\ i - 1 # Count
    BY <1>1, <1>3 DEF Addr
  <2>2. Slot(i - 1) \in Addr /\ Slot(i - 1) # A
    BY <1>3, <2>1, SlotFacts
  <2> QED BY <1>4, <2>2 DEF IInv, TypeOK
<1>7. RAM'[Slot(Count)] = di
  BY <1>3, <1>4 DEF IInv, TypeOK
<1>8. /\ Content \in Seq(Word)
      /\ Len(Content) = Count
      /\ \A i \in 1 .. Count : Content[i] = RAM[Slot(i - 1)]
      /\ Count \in Nat
  BY ContentFacts DEF ContentShape
<1>9. /\ Content' \in Seq(Word)
      /\ Len(Content') = Count'
      /\ \A i \in 1 .. Count' : Content'[i] = RAM'[Slot(i - 1)']
  BY ClockIInv, NextContentFacts
<1>10. Append(Content, di) \in Seq(Word) /\ Len(Append(Content, di)) = Count + 1
  BY <1>8, AppendProperties
<1>11. \A i \in 1 .. Count + 1 : Content'[i] = Append(Content, di)[i]
  <2> SUFFICES ASSUME NEW i \in 1 .. Count + 1 PROVE Content'[i] = Append(Content, di)[i]
    OBVIOUS
  <2>0. i - 1 \in Nat /\ Content'[i] = RAM'[Slot(i - 1)]
    BY <1>2, <1>5, <1>8, <1>9
  <2>1. CASE i = Count + 1
    <3>1. Append(Content, di)[i] = di
      BY <1>8, <2>1, AppendProperties
    <3>2. i - 1 = Count
      BY <1>8, <2>1
    <3> QED BY <1>7, <2>0, <3>1, <3>2
  <2>2. CASE i # Count + 1
    <3>1. i \in 1 .. Count
      BY <1>8, <2>2
    <3>2. Append(Content, di)[i] = Content[i]
      BY <1>8, <3>1, AppendProperties
    <3> QED BY <1>6, <1>8, <2>0, <3>1, <3>2
  <2> QED BY <2>1, <2>2
<1>12. Content' = Append(Content, di)
  BY <1>2, <1>9, <1>10, <1>11, SeqEqual
<1> QED BY <1>1, <1>8, <1>12

(* Only a read: the oldest word leaves.                                    *)
LEMMA GetStep ==
  ASSUME IInv, NEW we \in BOOLEAN, NEW re \in BOOLEAN, NEW di \in Word,
         Clock(we, re, di), ~Wr(we), Rd(re)
  PROVE  Content # << >> /\ Content' = Tail(Content)
<1> USE DepthFacts
<1>1. Count > 0 /\ WCnt' = Dec(WCnt) /\ rFF' = 0
  BY ClockEffect
<1>2. Count' = Count - 1
  <2>1. CASE FF
    BY <1>1, <2>1 DEF IInv, FlagsExact, Cnt, Count, FF, TypeOK, Addr, Dec
  <2>2. CASE ~FF
    BY <1>1, <2>2 DEF IInv, TypeOK, Addr, Count, FF, Dec
  <2> QED BY <2>1, <2>2
<1>3. RAM' = RAM /\ DPRA' = Inc(DPRA)
  BY DEF Clock, NextRAM, NextDPRA
<1>4. \A i \in Addr : i # 0 => Slot(i - 1)' = Slot(i)
  <2>1. \A i \in Addr : Slot(i - 1)' = IF Inc(DPRA) + (i - 1) < Depth THEN Inc(DPRA) + (i - 1)
                                       ELSE Inc(DPRA) + (i - 1) - Depth
    BY <1>3 DEF Slot, Depth
  <2> QED BY <2>1, SlotFacts
<1>5. /\ Content \in Seq(Word)
      /\ Len(Content) = Count
      /\ \A i \in 1 .. Count : Content[i] = RAM[Slot(i - 1)]
      /\ Count \in 0 .. Depth
  BY ContentFacts DEF ContentShape
<1>6. /\ Content' \in Seq(Word)
      /\ Len(Content') = Count'
      /\ \A i \in 1 .. Count' : Content'[i] = RAM'[Slot(i - 1)']
  BY ClockIInv, NextContentFacts
<1>7. Content # << >>
  BY <1>1, <1>5
<1>8. /\ Tail(Content) \in Seq(Word)
      /\ Len(Tail(Content)) = Count - 1
      /\ \A i \in 1 .. Count - 1 : Tail(Content)[i] = Content[i + 1]
  BY <1>5, <1>7, HeadTailProperties
<1>9. \A i \in 1 .. Count - 1 : Content'[i] = Tail(Content)[i]
  <2> SUFFICES ASSUME NEW i \in 1 .. Count - 1 PROVE Content'[i] = Tail(Content)[i]
    OBVIOUS
  <2>1. i \in Addr /\ i # 0 /\ i + 1 \in 1 .. Count /\ (i + 1) - 1 = i
    BY <1>5 DEF Addr
  <2>2. Content'[i] = RAM'[Slot(i - 1)']
    BY <1>2, <1>6
  <2>3. Content[i + 1] = RAM[Slot(i)]
    BY <1>5, <2>1
  <2> QED BY <1>3, <1>4, <1>8, <2>1, <2>2, <2>3
<1>10. Content' = Tail(Content)
  BY <1>2, <1>6, <1>8, <1>9, SeqEqual
<1> QED BY <1>7, <1>10

(* A write and a read in one clock: the length stays, every word moves up. *)
LEMMA PutGetStep ==
  ASSUME IInv, NEW we \in BOOLEAN, NEW re \in BOOLEAN, NEW di \in Word,
         Clock(we, re, di), Wr(we), Rd(re)
  PROVE  /\ Content # << >>
         /\ Len(Content) < Depth
         /\ Content' = Append(Tail(Content), di)
<1> USE DepthFacts
<1>1. ~FF /\ ~EF /\ Count = WCnt /\ Count \in Addr /\ Count # 0
  BY DEF Wr, Rd, IInv, TypeOK, FlagsExact, Count
<1>2. Count' = Count
  BY ClockEffect DEF Count, FF
<1>3. RAM' = [RAM EXCEPT ![A] = di] /\ DPRA' = Inc(DPRA) /\ A = Slot(Count)
  BY <1>1 DEF Clock, NextRAM, NextDPRA, IInv, PointersAgree
<1>4. \A i \in Addr : i # 0 => Slot(i - 1)' = Slot(i)
  <2>1. \A i \in Addr : Slot(i - 1)' = IF Inc(DPRA) + (i - 1) < Depth THEN Inc(DPRA) + (i - 1)
                                       ELSE Inc(DPRA) + (i - 1) - Depth
    BY <1>3 DEF Slot, Depth
  <2> QED BY <2>1, SlotFacts
<1>5. /\ Content \in Seq(Word)
      /\ Len(Content) = Count
      /\ \A i \in 1 .. Count : Content[i] = RAM[Slot(i - 1)]
      /\ Count \in 0 .. Depth
  BY ContentFacts DEF ContentShape
<1>6. /\ Content' \in Seq(Word)
      /\ Len(Content') = Count'
      /\ \A i \in 1 .. Count' : Content'[i] = RAM'[Slot(i - 1)']
  BY ClockIInv, NextContentFacts
<1>7. Content # << >>
  BY <1>1, <1>5
<1>8. /\ Tail(Content) \in Seq(Word)
      /\ Len(Tail(Content)) = Count - 1
      /\ \A i \in 1 .. Count - 1 : Tail(Content)[i] = Content[i + 1]
  BY <1>5, <1>7, HeadTailProperties
<1>9. /\ Append(Tail(Content), di) \in Seq(Word)
      /\ Len(Append(Tail(Content), di)) = Count
      /\ \A i \in 1 .. Count - 1 : Append(Tail(Content), di)[i] = Tail(Content)[i]
      /\ Append(Tail(Content), di)[Count] = di
  BY <1>1, <1>5, <1>8, AppendProperties
<1>10. \A i \in 1 .. Count : Content'[i] = Append(Tail(Content), di)[i]
  <2> SUFFICES ASSUME NEW i \in 1 .. Count
               PROVE  Content'[i] = Append(Tail(Content), di)[i]
    OBVIOUS
  <2>1. i \in Addr /\ i # 0 /\ Slot(i) \in Addr
    BY <1>1, SlotFacts DEF Addr
  <2>2. Content'[i] = RAM'[Slot(i)]
    BY <1>2, <1>4, <1>6, <2>1
  <2>3. CASE i = Count
    BY <1>3, <1>9, <2>1, <2>2, <2>3 DEF IInv, TypeOK
  <2>4. CASE i # Count
    <3>1. Slot(i) # A
      BY <1>1, <1>3, <2>1, <2>4, SlotFacts
    <3>2. RAM'[Slot(i)] = RAM[Slot(i)]
      BY <1>3, <2>1, <3>1 DEF IInv, TypeOK
    <3>3. i \in 1 .. Count - 1 /\ i + 1 \in 1 .. Count /\ (i + 1) - 1 = i
      BY <1>5, <2>4
    <3>4. Content[i + 1] = RAM[Slot(i)]
      BY <1>5, <3>3
    <3> QED BY <1>8, <1>9, <2>2, <3>2, <3>3, <3>4
  <2> QED BY <2>3, <2>4
<1>11. Content' = Append(Tail(Content), di)
  BY <1>2, <1>6, <1>9, <1>10, SeqEqual
<1> QED BY <1>1, <1>5, <1>7, <1>11 DEF Addr

(* Neither access accepted: the words stay.                                *)
LEMMA IdleStep ==
  ASSUME IInv, NEW we \in BOOLEAN, NEW re \in BOOLEAN, NEW di \in Word,
         Clock(we, re, di), ~Wr(we), ~Rd(re)
  PROVE  Content' = Content
<1>1. RAM' = RAM /\ DPRA' = DPRA /\ WCnt' = WCnt /\ rFF' = rFF
  BY ClockEffect DEF Clock, NextRAM, NextDPRA
<1> QED BY <1>1 DEF Content, Count, Slot, FF

(* A reset empties it, whatever the memory holds.                          *)
LEMMA ResetStep ==
  ASSUME NEW we \in BOOLEAN, NEW di \in Word, Reset(we, di)
  PROVE  Content' = << >>
<1>1. Count' = 0
  BY DEF Reset, Count, FF
<1> QED BY <1>1 DEF Content

(* ImplementsQueue of the run: the FIFO of DPSFnmCE.v, at every depth and  *)
(* whatever is asserted on WE, RE and Rst in whatever clock, neither       *)
(* loses, duplicates, reorders nor invents a word.                         *)
THEOREM FifoImplementsQueue == Spec => ImplementsQueue
<1>1. Init => Abs!Init
  BY DEF Init, Abs!Init, Content, Count, FF
<1>2. IInv /\ [Next]_vars => [Abs!Next]_Content
  <2> SUFFICES ASSUME IInv, [Next]_vars PROVE [Abs!Next]_Content
    OBVIOUS
  <2>1. ASSUME NEW we \in BOOLEAN, NEW re \in BOOLEAN, NEW di \in Word, Clock(we, re, di)
        PROVE  [Abs!Next]_Content
    <3>1. CASE Wr(we) /\ ~Rd(re)
      <4>1. Len(Content) < Depth /\ Content' = Append(Content, di)
        BY <2>1, <3>1, PutStep
      <4> QED BY <4>1 DEF Abs!Next, Abs!Put
    <3>2. CASE ~Wr(we) /\ Rd(re)
      <4>1. Content # << >> /\ Content' = Tail(Content)
        BY <2>1, <3>2, GetStep
      <4> QED BY <4>1 DEF Abs!Next, Abs!Get
    <3>3. CASE Wr(we) /\ Rd(re)
      <4>1. Content # << >> /\ Len(Content) < Depth /\ Content' = Append(Tail(Content), di)
        BY <2>1, <3>3, PutGetStep
      <4> QED BY <4>1 DEF Abs!Next, Abs!PutGet
    <3>4. CASE ~Wr(we) /\ ~Rd(re)
      BY <2>1, <3>4, IdleStep
    <3> QED BY <3>1, <3>2, <3>3, <3>4
  <2>2. ASSUME NEW we \in BOOLEAN, NEW di \in Word, Reset(we, di)
        PROVE  [Abs!Next]_Content
    <3>1. Content' = << >>
      BY <2>2, ResetStep
    <3> QED BY <3>1 DEF Abs!Next, Abs!Clear
  <2>3. CASE UNCHANGED vars
    BY <2>3 DEF vars, Content, Count, Slot, FF
  <2> QED BY <2>1, <2>2, <2>3 DEF Next
<1> QED BY InvariantHolds, <1>1, <1>2, PTL DEF Spec, ImplementsQueue, Abs!Spec
=============================================================================
