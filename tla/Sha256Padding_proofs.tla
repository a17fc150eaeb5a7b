------------------------ MODULE Sha256Padding_proofs ------------------------
(***************************************************************************)
(* Padding (SHA_256.h) for every length of a text, also of texts longer    *)
(* than the callers' buffer: which lengths it lays out as SHA-256 asks.    *)
(***************************************************************************)
EXTENDS Sha256Padding, TLAPS

-----------------------------------------------------------------------------
(* What the memory holds after each part.                                  *)
Copied == [w \in MemoryWords |-> IF w <= l \div 4 THEN Bytes(BytesIn(w), FALSE) ELSE Before]

Marked == [w \in MemoryWords |-> IF w <= l \div 4 THEN Bytes(BytesIn(w), w = l \div 4)
                                 ELSE Before]

\* What branch n leaves behind.
Filled(n) ==
  /\ memory = [w \in MemoryWords |->
                 IF w \in l \div 4 + 1 .. BlockWords * n - 2 THEN Zero ELSE Marked[w]]
  /\ i = IF l \div 4 + 1 < BlockWords * n - 1 THEN BlockWords * n - 1 ELSE l \div 4 + 1
  /\ NumberBlock = IF l \div 4 + 1 < BlockWords * n - 1 THEN n ELSE Unset

\* The two sides of PaddingRight.
LaidOut == /\ NumberBlock = Blocks
           /\ \A w \in 0 .. BlockWords * Blocks - 1 : memory[w] = Padded(w)

GoodLength == l \in (0 .. 887) \cup (898 .. 951)

\* Where each part leaves its counters and the memory for the next one.
PartsInOrder ==
  /\ l \in 0 .. MaxLength
  /\ pc = "copy" => memory = [w \in MemoryWords |-> Before] /\ i = 0 /\ j = 0
  /\ pc = "one" => memory = Copied /\ i = l
  /\ pc = "zeros" => memory = Marked /\ i \in {l, l % 4}
  /\ pc = "length" =>
       \/ \E n \in 1 .. 15 : InBranch(n) /\ Filled(n)
       \/ /\ \A n \in 1 .. 15 : ~InBranch(n)
          /\ memory = Marked /\ i \in {l, l % 4} /\ NumberBlock = Unset
  /\ pc \in {"copy", "one", "zeros"} => NumberBlock = Unset
  /\ pc # "copy" => j = l \div 4

IInv ==
  /\ TypeOK
  /\ PartsInOrder
  /\ PaddingRight

-----------------------------------------------------------------------------
(* Lengths and words.                                                      *)

LEMMA Quarter ==
  ASSUME l \in 0 .. MaxLength
  PROVE  /\ l \in Nat
         /\ l \div 4 \in 0 .. MaxLength \div 4 /\ l \div 4 \in Nat /\ l % 4 \in 0 .. 3
         /\ l % 4 <= l
         /\ 4 * (l \div 4) <= l /\ l < 4 * (l \div 4) + 4
BY PaddingAssumption

\* The last word of the text has room for the one bit.
LEMMA LastWordHasRoom ==
  ASSUME l \in 0 .. MaxLength
  PROVE  /\ BytesIn(l \div 4) < 4
         /\ \A w \in Nat : w > l \div 4 => BytesIn(w) = 0
<1>1. l \in Nat /\ l \div 4 \in Nat /\ 4 * (l \div 4) <= l /\ l < 4 * (l \div 4) + 4
  BY Quarter
<1>2. BytesIn(l \div 4) < 4
  BY <1>1 DEF BytesIn
<1>3. ASSUME NEW w \in Nat, w > l \div 4 PROVE BytesIn(w) = 0
  BY <1>1, <1>3 DEF BytesIn
<1> QED BY <1>2, <1>3

\* The branches cover the texts of at most 951 bytes.
LEMMA SomeBranch ==
  ASSUME l \in Nat, l <= 951
  PROVE  \E n \in 1 .. 15 : InBranch(n)
<1>1. CASE l \in 888 .. 897
  <2>1. InBranch(14)
    BY <1>1 DEF InBranch, LastInBranch
  <2> QED BY <2>1
<1>2. CASE l \notin 888 .. 897
  <2> DEFINE n == (l + 8) \div 64 + 1
  <2>1. n \in 1 .. 15 /\ l <= 64 * n - 9 /\ l > 64 * (n - 1) - 9
    OBVIOUS
  <2>2. n = 14 => l <= 887
    BY <1>2, <2>1
  <2>3. n = 15 => l > 897
    BY <1>2, <2>1
  <2> HIDE DEF n
  <2>4. InBranch(n)
    BY <2>1, <2>2, <2>3 DEF InBranch, LastInBranch
  <2> QED BY <2>1, <2>4
<1> QED BY <1>1, <1>2

\* A branch is for texts of its number of blocks, but for ten lengths.
LEMMA BranchBlocks ==
  ASSUME l \in Nat, NEW n \in 1 .. 15, InBranch(n)
  PROVE  IF l \in 888 .. 897 THEN n = 14 /\ Blocks = 15
         ELSE /\ Blocks = n /\ l <= 64 * n - 9
              /\ l \in (0 .. 887) \cup (898 .. 951)
<1>1. CASE n = 14
  BY <1>1 DEF InBranch, LastInBranch, Blocks
<1>2. CASE n = 15
  BY <1>2 DEF InBranch, LastInBranch, Blocks
<1>3. CASE n \in 1 .. 13
  <2>1. l <= 64 * n - 9 /\ l >= 64 * n - 72
    BY <1>3 DEF InBranch, LastInBranch
  <2>2. (l + 8) \div 64 = n - 1
    BY <1>3, <2>1
  <2> QED BY <1>3, <2>1, <2>2 DEF Blocks
<1> QED BY <1>1, <1>2, <1>3

\* A word whose next byte is the 0x80 has room for it.
LEMMA MarkedHasRoom ==
  ASSUME l \in 0 .. MaxLength, NEW w \in MemoryWords, Marked[w].one
  PROVE  Marked[w].bytes < 4
<1>1. w = l \div 4 /\ Marked[w].bytes = BytesIn(w)
  BY Quarter DEF Marked, Bytes, Before, MemoryWords
<1> QED BY <1>1, LastWordHasRoom

\* The 0x80 leaves the bytes of its word alone.
LEMMA MarkBytes ==
  ASSUME NEW n, NEW one, NEW mark
  PROVE  [Bytes(n, one) EXCEPT !.one = mark] = Bytes(n, mark)
BY DEF Bytes

-----------------------------------------------------------------------------
(* The parts.                                                              *)

LEMMA InitIInv == ASSUME Init PROVE IInv
<1>1. TypeOK
  BY PaddingAssumption DEF Init, TypeOK, Before, Bytes, BlockWords
<1> QED BY <1>1 DEF Init, IInv, PartsInOrder, PaddingRight

LEMMA CopyTextIInv == ASSUME IInv, CopyText PROVE IInv'
<1>1. /\ pc = "copy" /\ pc' = "one" /\ l' = l /\ NumberBlock' = NumberBlock
      /\ i' = l /\ j' = l \div 4
      /\ memory' = [w \in MemoryWords |->
                      IF w <= l \div 4 THEN Bytes(BytesIn(w), FALSE) ELSE memory[w]]
  BY DEF CopyText
<1>2. l \in 0 .. MaxLength /\ memory = [w \in MemoryWords |-> Before] /\ NumberBlock = Unset
  BY <1>1 DEF IInv, PartsInOrder
<1>3. memory' = Copied
  BY <1>1, <1>2 DEF Copied
<1>4. Copied' = Copied
  BY <1>1 DEF Copied, BytesIn
<1>5. TypeOK'
  <2>1. \A w \in MemoryWords : memory'[w].one => memory'[w].bytes < 4
    BY <1>3 DEF Copied, Bytes, Before
  <2>2. i' \in 0 .. MaxLength + 1 /\ j' \in 0 .. MaxLength \div 4
    BY <1>1, <1>2, Quarter, PaddingAssumption
  <2> QED BY <1>1, <1>2, <2>1, <2>2 DEF TypeOK
<1>6. PartsInOrder'
  BY <1>1, <1>2, <1>3, <1>4 DEF PartsInOrder
<1> QED BY <1>1, <1>5, <1>6 DEF IInv, PaddingRight

LEMMA AppendOneIInv == ASSUME IInv, AppendOne PROVE IInv'
<1>1. /\ pc = "one" /\ pc' = "zeros" /\ l' = l /\ j' = j /\ NumberBlock' = NumberBlock
      /\ memory' = [memory EXCEPT ![OneWord].one = TRUE]
      /\ i' = IF l % 4 = 0 THEN i ELSE l % 4
  BY DEF AppendOne
<1>2. /\ l \in 0 .. MaxLength /\ memory = Copied /\ i = l /\ j = l \div 4
      /\ NumberBlock = Unset
  BY <1>1 DEF IInv, PartsInOrder
<1>3. memory' = Marked
  <2>1. ASSUME NEW w \in MemoryWords PROVE memory'[w] = Marked[w]
    <3>1. CASE w = l \div 4
      <4>1. memory[w] = Bytes(BytesIn(w), FALSE)
        BY <1>2, <3>1, Quarter DEF Copied
      <4>2. memory'[w] = [memory[w] EXCEPT !.one = TRUE]
        <5>1. w \in DOMAIN memory
          BY <1>2 DEF Copied
        <5> QED BY <1>1, <3>1, <5>1, Zenon DEF OneWord
      <4>3. memory'[w] = Bytes(BytesIn(w), TRUE)
        <5>1. [Bytes(BytesIn(w), FALSE) EXCEPT !.one = TRUE] = Bytes(BytesIn(w), TRUE)
          BY MarkBytes, Zenon
        <5> QED BY <4>1, <4>2, <5>1, Zenon
      <4>4. Marked[w] = Bytes(BytesIn(w), w = l \div 4) /\ (w = l \div 4) = TRUE
        BY <1>2, <3>1, Quarter DEF Marked
      <4> QED BY <4>3, <4>4, Zenon
    <3>2. CASE w # l \div 4
      BY <1>1, <1>2, <3>2 DEF Copied, Marked, OneWord, Bytes
    <3> QED BY <3>1, <3>2
  <2>2. memory' = [w \in MemoryWords |-> memory'[w]]
    BY <1>1, <1>2 DEF Copied
  <2> QED BY <2>1, <2>2 DEF Marked
<1>4. Marked' = Marked
  BY <1>1 DEF Marked, BytesIn
<1>5. i' \in {l, l % 4}
  BY <1>1, <1>2
<1>6. TypeOK'
  <2>1. \A w \in MemoryWords : memory'[w].one => memory'[w].bytes < 4
    BY <1>2, <1>3, MarkedHasRoom
  <2>2. i' \in 0 .. MaxLength + 1 /\ j' \in 0 .. MaxLength \div 4
    BY <1>1, <1>2, <1>5, Quarter, PaddingAssumption
  <2> QED BY <1>1, <1>2, <2>1, <2>2 DEF TypeOK
<1>7. PartsInOrder'
  BY <1>1, <1>2, <1>3, <1>4, <1>5 DEF PartsInOrder
<1> QED BY <1>1, <1>6, <1>7 DEF IInv, PaddingRight

LEMMA ZeroFillIInv == ASSUME IInv, ZeroFill PROVE IInv'
<1>1. /\ pc = "zeros" /\ pc' = "length" /\ l' = l /\ j' = j
  BY DEF ZeroFill
<1>2. /\ l \in 0 .. MaxLength /\ memory = Marked /\ i \in {l, l % 4} /\ j = l \div 4
      /\ NumberBlock = Unset
  BY <1>1 DEF IInv, PartsInOrder
<1>3. Marked' = Marked /\ \A n : InBranch(n)' <=> InBranch(n)
  BY <1>1 DEF Marked, BytesIn, InBranch
<1>4. l \in Nat /\ l \div 4 \in Nat /\ l % 4 \in 0 .. 3
  BY <1>2, Quarter
<1>5. \/ \E n \in 1 .. 15 : InBranch(n) /\ Filled(n)'
      \/ /\ \A n \in 1 .. 15 : ~InBranch(n)
         /\ UNCHANGED <<memory, i, NumberBlock>>
  <2>1. ASSUME NEW n \in 1 .. 15, InBranch(n),
               memory' = [w \in MemoryWords |->
                            IF w \in j + 1 .. BlockWords * n - 1 - 1 THEN Zero ELSE memory[w]],
               i' = IF j + 1 < BlockWords * n - 1 THEN BlockWords * n - 1 ELSE j + 1,
               NumberBlock' = IF j + 1 < BlockWords * n - 1 THEN n ELSE NumberBlock
        PROVE  Filled(n)'
    <3>1. BlockWords * n - 1 - 1 = BlockWords * n - 2
      BY DEF BlockWords
    <3> QED BY <1>1, <1>2, <1>3, <2>1, <3>1 DEF Filled
  <2> QED BY <2>1 DEF ZeroFill
<1>6. PartsInOrder'
  BY <1>1, <1>2, <1>3, <1>5 DEF PartsInOrder
<1>7. TypeOK'
  <2>1. \A w \in MemoryWords : memory'[w].one => memory'[w].bytes < 4
    <3> SUFFICES ASSUME NEW w \in MemoryWords, memory'[w].one PROVE memory'[w].bytes < 4
      OBVIOUS
    <3>1. memory'[w] = Marked[w] \/ memory'[w] = Zero
      BY <1>2, <1>3, <1>5, Zenon DEF Filled
    <3>2. ~Zero.one
      BY DEF Zero, Bytes
    <3> QED BY <1>2, <3>1, <3>2, MarkedHasRoom
  <2>2. /\ i' \in (0 .. MaxLength + 1) \cup (0 .. BlockWords * 15)
        /\ NumberBlock' \in 1 .. 15 \cup {Unset}
    <3>1. ASSUME NEW n \in 1 .. 15, InBranch(n), Filled(n)'
          PROVE  i' \in 0 .. 240 /\ NumberBlock' \in 1 .. 15 \cup {Unset}
      <4>1. l <= 951
        BY <1>4, <3>1 DEF InBranch, LastInBranch
      <4>2. l \div 4 + 1 <= 240
        BY <1>4, <4>1
      <4> QED BY <1>1, <1>4, <3>1, <4>2 DEF Filled, BlockWords
    <3>2. CASE UNCHANGED <<i, NumberBlock>>
      BY <1>2, <3>2, Quarter, PaddingAssumption
    <3> QED BY <1>5, <3>1, <3>2 DEF BlockWords
  <2> QED BY <1>1, <2>1, <2>2 DEF IInv, TypeOK
<1> QED BY <1>1, <1>6, <1>7 DEF IInv, PaddingRight

\* The lengths at which a block of the message has no room for the count.
LEMMA BadLength == l \in 888 .. 897 => ~GoodLength
<1> SUFFICES ASSUME l \in 888 .. 897 PROVE ~GoodLength
  OBVIOUS
<1>1. l \in Int /\ 888 <= l /\ l <= 897
  OBVIOUS
<1>2. l \notin 0 .. 887
  BY <1>1
<1>3. l \notin 898 .. 951
  BY <1>1
<1> QED BY <1>2, <1>3 DEF GoodLength

LEMMA AppendLengthIInv == ASSUME IInv, AppendLength PROVE IInv'
<1>1. /\ pc = "length" /\ pc' = "return" /\ l' = l /\ j' = j /\ NumberBlock' = NumberBlock
      /\ memory' = [w \in MemoryWords |-> IF w = i THEN BitLength
                                          ELSE IF w \in i + 1 .. 63 THEN Zero
                                          ELSE memory[w]]
      /\ i' = IF i < 63 THEN 64 ELSE i + 1
  BY DEF AppendLength
<1>2. /\ l \in 0 .. MaxLength /\ j = l \div 4
      /\ \/ \E n \in 1 .. 15 : InBranch(n) /\ Filled(n)
         \/ /\ \A n \in 1 .. 15 : ~InBranch(n)
            /\ memory = Marked /\ i \in {l, l % 4} /\ NumberBlock = Unset
  BY <1>1 DEF IInv, PartsInOrder
<1>3. l \in Nat /\ l \div 4 \in Nat /\ 4 * (l \div 4) <= l /\ l < 4 * (l \div 4) + 4
      /\ l % 4 \in 0 .. 3
  BY <1>2, Quarter
<1>4. TypeOK'
  <2>1. \A w \in MemoryWords : memory'[w].one => memory'[w].bytes < 4
    BY <1>1 DEF IInv, TypeOK, BitLength, Zero, Bytes
  <2>2. i' \in (0 .. MaxLength + 1) \cup (0 .. BlockWords * 15)
    <3>1. ASSUME NEW n \in 1 .. 15, InBranch(n), Filled(n)
          PROVE  i' \in 0 .. 240
      <4>1. l <= 951
        BY <1>3, <3>1 DEF InBranch, LastInBranch
      <4>2. l \div 4 + 1 <= 239
        BY <1>3, <4>1
      <4>3. i \in 0 .. 239
        BY <1>3, <3>1, <4>2 DEF Filled, BlockWords
      <4> QED BY <1>1, <4>3
    <3>2. CASE i \in {l, l % 4}
      BY <1>1, <1>2, <1>3, <3>2, PaddingAssumption DEF BlockWords
    <3> QED BY <1>2, <3>1, <3>2 DEF BlockWords
  <2> QED BY <1>1, <2>1, <2>2 DEF IInv, TypeOK
<1>5. PartsInOrder'
  BY <1>1, <1>2 DEF PartsInOrder
<1>6. PaddingRight'
  <2>1. Blocks' = Blocks /\ \A w : Padded(w)' = Padded(w)
    BY <1>1 DEF Blocks, Padded, BytesIn
  <2>2. ASSUME \A n \in 1 .. 15 : ~InBranch(n), NumberBlock = Unset
        PROVE  ~LaidOut' /\ ~GoodLength'
    <3>1. l > 951
      BY <1>3, <2>2, SomeBranch
    <3>2. Blocks > 0
      BY <1>3 DEF Blocks
    <3> QED BY <1>1, <2>1, <2>2, <3>1, <3>2 DEF Unset, LaidOut, GoodLength
  <2>3. ASSUME NEW n \in 1 .. 15, InBranch(n), Filled(n), l \in 888 .. 897
        PROVE  ~LaidOut' /\ ~GoodLength'
    <3>1. n = 14 /\ Blocks = 15
      BY <1>3, <2>3, BranchBlocks
    <3>2. NumberBlock' \in {14, Unset}
      BY <1>1, <2>3, <3>1 DEF Filled
    <3>3. NumberBlock' # Blocks'
      BY <2>1, <3>1, <3>2 DEF Unset
    <3>4. l' = l
      BY <1>1, Zenon
    <3>5. ~GoodLength
      BY <2>3, BadLength
    <3>6. ~GoodLength'
      BY <3>4, <3>5 DEF GoodLength
    <3> QED BY <3>3, <3>6, Zenon DEF LaidOut
  <2>4. ASSUME NEW n \in 1 .. 15, InBranch(n), Filled(n), l \notin 888 .. 897
        PROVE  LaidOut' /\ GoodLength'
    <3>1. Blocks = n /\ l <= 64 * n - 9 /\ l \in (0 .. 887) \cup (898 .. 951)
      BY <1>3, <2>4, BranchBlocks
    <3>2. l \div 4 + 1 < 16 * n - 1
      BY <1>3, <3>1
    <3>3. NumberBlock' = Blocks /\ i = 16 * n - 1
      BY <1>1, <2>4, <3>1, <3>2 DEF Filled, BlockWords
    <3>4. ASSUME NEW w \in 0 .. 16 * n - 1 PROVE memory'[w] = Padded(w)
      <4>1. w \in MemoryWords /\ w \in Nat
        BY <3>4 DEF MemoryWords
      <4>2. CASE w = 16 * n - 1
        BY <1>1, <3>1, <3>3, <4>1, <4>2 DEF Padded, BlockWords
      <4>3. CASE w # 16 * n - 1
        <5>1. memory'[w] = memory[w] /\ w <= 16 * n - 2
          BY <1>1, <3>3, <4>1, <4>3
        <5>2. Padded(w) = Bytes(BytesIn(w), w = l \div 4)
          BY <3>1, <4>3 DEF Padded, BlockWords
        <5>3. memory[w] = IF w \in l \div 4 + 1 .. 16 * n - 2 THEN Zero ELSE Marked[w]
          BY <2>4, <4>1 DEF Filled, BlockWords
        <5>4. CASE w <= l \div 4
          <6>1. memory[w] = Marked[w]
            BY <1>3, <4>1, <5>3, <5>4
          <6> QED BY <4>1, <5>1, <5>2, <5>4, <6>1 DEF Marked
        <5>5. CASE w > l \div 4
          <6>1. memory[w] = Zero
            BY <1>3, <4>1, <5>1, <5>3, <5>5
          <6>2. BytesIn(w) = 0 /\ ~(w = l \div 4)
            BY <1>2, <1>3, <4>1, <5>5, LastWordHasRoom
          <6> QED BY <5>1, <5>2, <6>1, <6>2 DEF Zero
        <5> QED BY <1>3, <4>1, <5>4, <5>5
      <4> QED BY <4>2, <4>3
    <3>5. \A w \in 0 .. BlockWords * Blocks - 1 : memory'[w] = Padded(w)
      BY <3>1, <3>4 DEF BlockWords
    <3>6. LaidOut'
      <4>1. LaidOut' = (/\ NumberBlock' = Blocks'
                        /\ \A w \in 0 .. BlockWords * Blocks' - 1 : memory'[w] = Padded(w)')
        BY Zenon DEF LaidOut
      <4> QED BY <2>1, <3>3, <3>5, <4>1, Zenon
    <3>7. GoodLength'
      BY <1>1, <3>1 DEF GoodLength
    <3> QED BY <3>6, <3>7
  <2>5. LaidOut' <=> GoodLength'
    <3>1. CASE \A n \in 1 .. 15 : ~InBranch(n)
      <4>1. NumberBlock = Unset
        BY <1>2, <3>1, Zenon
      <4> QED BY <2>2, <3>1, <4>1, Zenon
    <3>2. CASE \E n \in 1 .. 15 : InBranch(n) /\ Filled(n)
      <4>1. PICK n \in 1 .. 15 : InBranch(n) /\ Filled(n)
        BY <3>2, Zenon
      <4>2. CASE l \in 888 .. 897
        BY <2>3, <4>1, <4>2
      <4>3. CASE l \notin 888 .. 897
        BY <2>4, <4>1, <4>3
      <4> QED BY <4>2, <4>3
    <3> QED BY <1>2, <3>1, <3>2, Zenon
  <2> QED BY <2>5, Zenon DEF PaddingRight, LaidOut, GoodLength
<1> QED BY <1>4, <1>5, <1>6 DEF IInv

LEMMA NextIInv == ASSUME IInv, [Next]_vars PROVE IInv'
<1>1. CASE UNCHANGED vars
  <2>1. UNCHANGED <<pc, l, i, j, memory, NumberBlock>>
    BY <1>1 DEF vars
  <2>2. TypeOK'
    BY <2>1 DEF IInv, TypeOK
  <2>3. Copied' = Copied /\ Marked' = Marked
    BY <2>1 DEF Copied, Marked, BytesIn
  <2>4. \A n : (InBranch(n)' <=> InBranch(n)) /\ (Filled(n)' <=> Filled(n))
    BY <2>1, <2>3 DEF InBranch, Filled
  <2>5. PartsInOrder'
    BY <2>1, <2>3, <2>4 DEF IInv, PartsInOrder
  <2>6. PaddingRight'
    <3>1. /\ Blocks' = Blocks /\ BytesIn(0)' = BytesIn(0)
          /\ \A w \in Int : Padded(w)' = Padded(w)
      BY <2>1 DEF Blocks, Padded, BytesIn
    <3>2. LaidOut' = LaidOut /\ GoodLength' = GoodLength
      BY <2>1, <3>1 DEF LaidOut, GoodLength
    <3>3. PaddingRight <=> (pc = "return" => (LaidOut <=> GoodLength))
      BY Zenon DEF PaddingRight, LaidOut, GoodLength
    <3>4. PaddingRight' <=> (pc' = "return" => (LaidOut' <=> GoodLength'))
      BY Zenon DEF PaddingRight, LaidOut, GoodLength
    <3> QED BY <2>1, <3>2, <3>3, <3>4, Zenon DEF IInv
  <2> QED BY <2>2, <2>5, <2>6 DEF IInv
<1> QED BY <1>1, CopyTextIInv, AppendOneIInv, ZeroFillIInv, AppendLengthIInv DEF Next

(* The inductive invariant: what each part of Padding finds in memory and  *)
(* in its counters is what the part before has left there.                 *)
THEOREM InvariantHolds == Spec => []IInv
<1>1. Init => IInv
  BY InitIInv
<1>2. IInv /\ [Next]_vars => IInv'
  BY NextIInv
<1> QED BY <1>1, <1>2, PTL DEF Spec

(* Types: the counters of Padding stay in range for every text, the number *)
(* of blocks is one of its fifteen or unset, and the 0x80 has room.        *)
THEOREM TypeCorrect == Spec => []TypeOK
<1>1. IInv => TypeOK
  BY DEF IInv
<1> QED BY <1>1, InvariantHolds, PTL

(* Padding is right for exactly the lengths 0 to 887 and 898 to 951: the   *)
(* bound 897 in its chain of ranges stands where 887 should, and above 951 *)
(* no range is left.  This holds however long a text is.                   *)
THEOREM PaddingIsRight == Spec => []PaddingRight
<1>1. IInv => PaddingRight
  BY DEF IInv
<1> QED BY <1>1, InvariantHolds, PTL
=============================================================================
