--------------------------- MODULE Sha256Padding ---------------------------
(***************************************************************************)
(* Padding (SHA_256.h): the program lays a text of l bytes out in memory,  *)
(* 32 bits at a time, as SHA-256 wants it - the bytes, a one bit, zeros,   *)
(* and the length in bits at the end of the last block of 16 words - and   *)
(* returns the number of blocks, which SHA_256_Intit gives to the engine.  *)
(*                                                                         *)
(* A word is the text bytes it holds, at most four, and whether the byte   *)
(* after them is the 0x80; or the length; or whatever was there before.    *)
(***************************************************************************)
EXTENDS Integers

CONSTANT MaxLength     \* of the texts the callers' char[1024] can hold

ASSUME PaddingAssumption == MaxLength \in Nat

BlockWords == 16
MemoryWords == 0 .. 255           \* the words looked at: 15 blocks and more
Unset == -1                       \* NumberBlock has not been assigned

Bytes(n, one) == [bytes |-> n, one |-> one]
Zero == Bytes(0, FALSE)
BitLength == Bytes(5, FALSE)
Before == Bytes(6, FALSE)

VARIABLES
  pc, l,           \* the next part of Padding; its argument length
  i, j,            \* its counters
  memory,          \* the words of the buffer
  NumberBlock      \* what it returns

vars == <<pc, l, i, j, memory, NumberBlock>>

Init ==
  /\ pc = "copy" /\ l \in 0 .. MaxLength
  /\ i = 0 /\ j = 0 /\ NumberBlock = Unset
  /\ memory = [w \in MemoryWords |-> Before]

-----------------------------------------------------------------------------
BytesIn(w) == IF 4 * w + 4 <= l THEN 4 ELSE IF 4 * w < l THEN l - 4 * w ELSE 0

(* Four bytes to a word; a word is cleared before its first byte. *)
CopyText ==
  /\ pc = "copy" /\ pc' = "one"
  /\ memory' = [w \in MemoryWords |->
                  IF w <= l \div 4 THEN Bytes(BytesIn(w), FALSE) ELSE memory[w]]
  /\ i' = l /\ j' = l \div 4
  /\ UNCHANGED <<l, NumberBlock>>

(* Slip: the word of the last byte instead of the byte after it. *)
OneWordOfLast == IF l = 0 THEN 0 ELSE (l - 1) \div 4

OneWord == l \div 4

(* The 0x80 after the last byte; i is used for its place in the word.      *)
AppendOne ==
  /\ pc = "one" /\ pc' = "zeros"
  /\ memory' = [memory EXCEPT ![OneWord].one = TRUE]
  /\ i' = IF l % 4 = 0 THEN i ELSE l % 4
  /\ UNCHANGED <<l, j, NumberBlock>>

(* Slip: the second word of the length is forgotten. *)
LastInBranchLonger(n) == 64 * n - 5

(* The chain of ranges: branch n is for texts of n blocks.  With 14 blocks *)
(* 897 stands where the others have 64n - 9.                               *)
LastInBranch(n) == IF n = 14 THEN 897 ELSE 64 * n - 9

InBranch(n) == l <= LastInBranch(n) /\ (n > 1 => l > LastInBranch(n - 1))

(* A branch clears the words up to the one of the length; the number of    *)
(* blocks is only assigned inside that loop.                               *)
ZeroFill ==
  /\ pc = "zeros" /\ pc' = "length"
  /\ \/ \E n \in 1 .. 15 :
          LET end == BlockWords * n - 1
          IN  /\ InBranch(n)
              /\ memory' = [w \in MemoryWords |->
                              IF w \in j + 1 .. end - 1 THEN Zero ELSE memory[w]]
              /\ i' = IF j + 1 < end THEN end ELSE j + 1
              /\ NumberBlock' = IF j + 1 < end THEN n ELSE NumberBlock
     \/ /\ \A n \in 1 .. 15 : ~InBranch(n)
        /\ UNCHANGED <<memory, i, NumberBlock>>
  /\ UNCHANGED <<l, j>>

(* The length, and zeros after it up to word 63 only. *)
AppendLength ==
  /\ pc = "length" /\ pc' = "return"
  /\ memory' = [w \in MemoryWords |-> IF w = i THEN BitLength
                                      ELSE IF w \in i + 1 .. 63 THEN Zero
                                      ELSE memory[w]]
  /\ i' = IF i < 63 THEN 64 ELSE i + 1
  /\ UNCHANGED <<l, j, NumberBlock>>

Next == CopyText \/ AppendOne \/ ZeroFill \/ AppendLength

Spec == Init /\ [][Next]_vars

-----------------------------------------------------------------------------
(* The counters are in range and every word is one the code can make.      *)
TypeOK ==
  /\ pc \in {"copy", "one", "zeros", "length", "return"}
  /\ i \in (0 .. MaxLength + 1) \cup (0 .. BlockWords * 15) /\ j \in 0 .. MaxLength \div 4
  /\ NumberBlock \in 1 .. 15 \cup {Unset}
  /\ \A w \in MemoryWords : memory[w].one => memory[w].bytes < 4

(* What SHA-256 asks for: at least nine bytes after the text.              *)
Blocks == (l + 8) \div 64 + 1

Padded(w) == IF w = BlockWords * Blocks - 1 THEN BitLength
             ELSE Bytes(BytesIn(w), w = l \div 4)

(* The program hashes what SHA-256 asks for when the text has at most 887  *)
(* bytes or between 898 and 951, and for no other length: the range that   *)
(* ends at 897 instead of 887, and the texts no range is for, leave the    *)
(* blocks wrong, and the number of blocks unset or wrong too.              *)
PaddingRight ==
  pc = "return" =>
    (/\ NumberBlock = Blocks
     /\ \A w \in 0 .. BlockWords * Blocks - 1 : memory[w] = Padded(w))
    <=> l \in (0 .. 887) \cup (898 .. 951)
=============================================================================
