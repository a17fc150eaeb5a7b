-------------------------- MODULE SensorI2c_proofs ---------------------------
(***************************************************************************)
(* For every length of a reading and every depth of the FIFOs: the program *)
(* and the core never disagree on what a command is, no command and no     *)
(* byte is dropped, and a reading is off by exactly the number of reads    *)
(* that came too early.                                                    *)
(***************************************************************************)
EXTENDS SensorI2c, SequenceTheorems, FiniteSetTheorems, FunctionTheorems, TLAPS

-----------------------------------------------------------------------------
(* The program and the core agree on the commands.                         *)

Index == 1 .. Commands
Succ(j) == IF j = Commands THEN 1 ELSE j + 1

\* The command that is pushed next.
NextIndex == IF pc = "read" THEN Succ(k) ELSE k

Follows(c, d) == \E j \in Index : c = Command(j) /\ d = Command(Succ(j))

\* The command the core executes next.
First == IF txfifo = << >> THEN Command(NextIndex) ELSE txfifo[1]

Types ==
    /\ ctrl_en \in BOOLEAN /\ nack_det \in BOOLEAN /\ rw_cmd \in BOOLEAN
    /\ txfifo \in Seq(CommandSet)
    /\ rxfifo \in Seq(CommandSet) /\ Len(rxfifo) <= FIFO_DEPTH
    /\ fsm \in State
    /\ cmd \in CommandSet
    /\ pc \in PC
    /\ k \in Index
    /\ owed \in Nat

\* Before every push the program has seen the command FIFO half empty.
Waits ==
    /\ Len(txfifo) <= Half + 1
    /\ pc = "push" => Len(txfifo) <= Half
    /\ pc \in {"disable", "enable", "report"} => k = 1
    /\ pc = "read" => k > 4

Refused ==
    /\ txfifo = << >> /\ rxfifo = << >> /\ owed = 0
    /\ fsm \in {"GEN_STOP", "PRE_START", "PRE_IDLE", "IDLE"}

\* The command FIFO holds consecutive commands, up to the next one.
InOrder ==
    /\ \A i \in 1 .. Len(txfifo) - 1 : Follows(txfifo[i], txfifo[i + 1])
    /\ txfifo # << >> => Follows(txfifo[Len(txfifo)], Command(NextIndex))

\* Between two transfers the next command begins one.
Place ==
    /\ fsm \in {"IDLE", "PRE_START", "POP_TX_FIFO", "GEN_STOP", "PRE_IDLE"} => First.restart
    /\ fsm = "POP_TX_FIFO" => txfifo # << >>
    /\ fsm \in {"GEN_7BIT_ADDR", "TX_BYTE", "RX_BYTE", "BUS_HOLD"} => Follows(cmd, First)
    /\ fsm = "GEN_7BIT_ADDR" => cmd.restart
    /\ fsm = "TX_BYTE" => ~cmd.restart /\ ~IsRead(cmd) /\ ~rw_cmd
    /\ fsm = "RX_BYTE" => IsRead(cmd) /\ rw_cmd
    /\ fsm = "BUS_HOLD" => ~cmd.stop /\ (rw_cmd <=> cmd = Command(4) \/ IsRead(cmd))

Control ==
    /\ Types
    /\ Waits
    /\ nack_det => Refused
    /\ ~nack_det => InOrder /\ Place

-----------------------------------------------------------------------------
LEMMA Sizes == Half \in Nat /\ Half >= 1 /\ Bytes \in Nat /\ Bytes >= 1
               /\ Commands = 4 + Bytes /\ FIFO_DEPTH = 2 * Half
BY HalfFifoAssumption, BytesAssumption DEF Commands, FIFO_DEPTH

(* What tells the commands of a round apart.                               *)
LEMMA CommandFacts ==
  ASSUME NEW j \in Index
  PROVE  /\ Command(j) \in CommandSet
         /\ Command(j).restart \in BOOLEAN /\ Command(j).stop \in BOOLEAN
         /\ Command(j).restart <=> j = 1 \/ j = 4
         /\ Command(j).stop <=> j = 3 \/ j = Commands
         /\ j = 1 => Command(j).arg = 0
         /\ j = 4 => Command(j).arg = 1
         /\ j = 2 \/ j = 3 => Command(j).arg = Bytes
         /\ j > 4 => Command(j).arg = j - 5
         /\ IsRead(Command(j)) <=> j > 4
<1> USE Sizes
<1>1. j \in Nat /\ j >= 1 /\ j <= 4 + Bytes
  BY DEF Index
<1>2. Command(j) \in CommandSet
  BY DEF CommandSet, Index
<1>3. CASE j = 1
  BY <1>1, <1>2, <1>3 DEF Command, Address, IsRead
<1>4. CASE j = 2
  BY <1>1, <1>2, <1>4 DEF Command, Data, IsRead
<1>5. CASE j = 3
  BY <1>1, <1>2, <1>5 DEF Command, Data, IsRead
<1>6. CASE j = 4
  BY <1>1, <1>2, <1>6 DEF Command, Address, IsRead
<1>7. CASE j > 4
  <2>1. j # 1 /\ j # 2 /\ j # 3 /\ j # 4
    BY <1>1, <1>7
  <2>2. Command(j) = Data(j = Commands, j - 5)
    BY <2>1, Zenon DEF Command
  <2>3. Command(j).restart = FALSE /\ Command(j).arg = j - 5
    BY <2>2 DEF Data
  <2>4. Command(j).stop \in BOOLEAN /\ (Command(j).stop <=> j = Commands)
    <3> DEFINE last == j = Commands
    <3>1. last \in BOOLEAN
      OBVIOUS
    <3> HIDE DEF last
    <3>2. Data(last, j - 5).stop = last
      BY DEF Data
    <3>3. Command(j).stop = last
      BY <2>2, <3>2 DEF last
    <3> QED BY <3>1, <3>3, Zenon DEF last
  <2>5. IsRead(Command(j))
    BY <1>1, <1>7, <2>3 DEF IsRead
  <2> QED BY <1>2, <1>7, <2>1, <2>3, <2>4, <2>5
<1>8. j = 1 \/ j = 2 \/ j = 3 \/ j = 4 \/ j > 4
  BY <1>1
<1> QED BY <1>3, <1>4, <1>5, <1>6, <1>7, <1>8

LEMMA SuccIndex == ASSUME NEW j \in Index PROVE Succ(j) \in Index
BY Sizes DEF Succ, Index

(* What follows a command, told from its bits.                             *)
LEMMA AfterCommand ==
  ASSUME NEW c, NEW d, Follows(c, d)
  PROVE  /\ c \in CommandSet /\ d \in CommandSet
         /\ c.restart \in BOOLEAN /\ c.stop \in BOOLEAN
         /\ c.stop => d.restart
         /\ c.restart => ~IsRead(c) /\ ~c.stop
         /\ ~c.stop => ~d.restart
         /\ c = Command(4) \/ (IsRead(c) /\ ~c.stop) => IsRead(d)
         /\ ~c.stop /\ c # Command(4) /\ ~IsRead(c) => ~IsRead(d)
         /\ c.restart => (c.arg % 2 = 1 <=> c = Command(4))
<1>1. PICK j \in Index : c = Command(j) /\ d = Command(Succ(j))
  BY DEF Follows
<1>2. Succ(j) \in Index /\ 4 \in Index
  BY SuccIndex, Sizes DEF Index
<1>3. j \in Nat /\ j >= 1 /\ j <= Commands /\ Succ(j) = IF j = Commands THEN 1 ELSE j + 1
  BY Sizes DEF Index, Succ
<1>4. c = Command(4) <=> j = 4
  BY <1>1, <1>2, <1>3, CommandFacts, Sizes
<1>5. c.stop => d.restart
  BY <1>1, <1>2, <1>3, CommandFacts, Sizes
<1>6. c.restart => ~IsRead(c) /\ ~c.stop
  BY <1>1, <1>3, CommandFacts, Sizes
<1>7. ~c.stop => ~d.restart
  BY <1>1, <1>2, <1>3, CommandFacts, Sizes
<1>8. /\ c = Command(4) \/ (IsRead(c) /\ ~c.stop) => IsRead(d)
      /\ ~c.stop /\ c # Command(4) /\ ~IsRead(c) => ~IsRead(d)
  BY <1>1, <1>2, <1>3, <1>4, CommandFacts, Sizes
<1>9. c.restart => (c.arg % 2 = 1 <=> c = Command(4))
  BY <1>1, <1>3, <1>4, CommandFacts
<1> QED BY <1>1, <1>2, <1>5, <1>6, <1>7, <1>8, <1>9, CommandFacts

LEMMA InitControl == ASSUME Init PROVE Control
<1> USE Sizes DEF Init, CoreInit
<1>1. Types
  <2>1. cmd \in CommandSet /\ k \in Index
    BY DEF CommandSet, Index
  <2>2. << >> \in Seq(CommandSet) /\ Len(<< >>) = 0 /\ 0 <= FIFO_DEPTH
    OBVIOUS
  <2>3. fsm \in State /\ pc \in PC
    BY DEF State, PC
  <2> QED BY <2>1, <2>2, <2>3 DEF Types
<1>2. Waits
  BY DEF Waits
<1>3. First = Command(1) /\ 1 \in Index
  BY DEF First, NextIndex, Index
<1>4. InOrder /\ Place
  BY <1>3, CommandFacts DEF InOrder, Place
<1> QED BY <1>1, <1>2, <1>4 DEF Control

-----------------------------------------------------------------------------
(* Steps of the program.                                                   *)

\* Those that queue nothing leave the order of the commands alone.
LEMMA QueueStays ==
  ASSUME Control, UNCHANGED <<txfifo, cmd, rw_cmd, nack_det>>, NextIndex' = NextIndex,
         fsm' = fsm \/ (fsm = "IDLE" /\ fsm' = "PRE_START")
  PROVE  ~nack_det' => InOrder' /\ Place'
<1>1. First' = First
  BY DEF First
<1> QED BY <1>1 DEF Control, InOrder, Place

LEMMA AccessControl ==
  ASSUME Control, Disable \/ Enable \/ Poll \/ Read \/ Report
  PROVE  Control'
<1>1. /\ UNCHANGED <<txfifo, cmd, rw_cmd, nack_det>>
      /\ fsm' = fsm \/ (fsm = "IDLE" /\ fsm' = "PRE_START")
      /\ ctrl_en' \in BOOLEAN
  BY DEF Control, Types, Disable, Enable, Poll, Read, Report, WriteCtrl, ReadRxData, core
<1>2. NextIndex' = NextIndex /\ k' \in Index
  <2>1. CASE Read
    BY <2>1, SuccIndex, Sizes DEF Read, LastRead, NextIndex, Succ, Control, Types, Waits, Index
  <2>2. CASE Disable \/ Enable \/ Poll \/ Report
    BY <2>2, Sizes DEF Disable, Enable, Poll, Report, NextIndex, Control, Types, Waits, Index
  <2> QED BY <2>1, <2>2
<1>3. /\ rxfifo' \in Seq(CommandSet) /\ Len(rxfifo') <= FIFO_DEPTH
      /\ rxfifo = << >> => rxfifo' = << >>
  <2>1. CASE Read
    <3>1. rxfifo' = Taken /\ rxfifo \in Seq(CommandSet) /\ Len(rxfifo) <= FIFO_DEPTH
      BY <2>1 DEF Read, ReadRxData, Control, Types
    <3>2. CASE rxfifo = << >>
      BY <3>1, <3>2 DEF Taken
    <3>3. CASE rxfifo # << >>
      <4>1. Tail(rxfifo) \in Seq(CommandSet) /\ Len(Tail(rxfifo)) = Len(rxfifo) - 1 /\ Len(rxfifo) \in Nat
        BY <3>1, <3>3, HeadTailProperties, LenProperties
      <4> QED BY <3>1, <3>3, <4>1, Sizes DEF Taken
    <3> QED BY <3>2, <3>3
  <2>2. CASE Disable \/ Enable \/ Poll \/ Report
    BY <2>2 DEF Disable, Enable, Poll, Report, WriteCtrl, core, Control, Types
  <2> QED BY <2>1, <2>2
<1>4. owed' \in Nat /\ (nack_det => owed' = owed) /\ pc' \in PC
  <2>1. owed' = owed \/ (~nack_det /\ owed' = owed + 1)
    BY DEF Disable, Enable, Poll, Read, Report
  <2>2. pc' \in PC
    BY DEF Disable, Enable, Poll, Read, Report, PC
  <2> QED BY <2>1, <2>2 DEF Control, Types
<1>5. Types'
  <2>1. fsm' \in State
    BY <1>1 DEF Control, Types, State
  <2> QED BY <1>1, <1>2, <1>3, <1>4, <2>1 DEF Control, Types
<1>6. Waits'
  <2>1. CASE Disable \/ Enable \/ Read \/ Report
    BY <1>1, <2>1 DEF Disable, Enable, Read, Report, Control, Waits
  <2>2. CASE Poll
    BY <1>1, <2>2 DEF Poll, MayPush, TX_READY, Control, Waits
  <2> QED BY <2>1, <2>2
<1>7. nack_det' => Refused'
  BY <1>1, <1>3, <1>4 DEF Control, Refused
<1>8. ~nack_det' => InOrder' /\ Place'
  BY <1>1, <1>2, QueueStays
<1> QED BY <1>5, <1>6, <1>7, <1>8 DEF Control

(* A push: the FIFO is not full, so the command goes to its end.           *)
LEMMA Pushes ==
  ASSUME Control, Push
  PROVE  /\ UNCHANGED <<ctrl_en, nack_det, rxfifo, fsm, cmd, rw_cmd, owed>>
         /\ nack_det => txfifo' = txfifo
         /\ ~nack_det => txfifo' = Append(txfifo, Command(k))
         /\ NextIndex = k /\ NextIndex' = Succ(k)
         /\ IF k > 4 THEN pc' = "read" /\ k' = k ELSE pc' = "poll" /\ k' = k + 1
<1>1. pc = "push" /\ Len(txfifo) # FIFO_DEPTH
  <2>1. Len(txfifo) <= Half /\ Len(txfifo) \in Nat
    BY LenProperties DEF Push, Control, Types, Waits
  <2> QED BY <2>1, Sizes DEF Push
<1>2. NextIndex = k /\ NextIndex' = Succ(k)
  BY <1>1, Sizes DEF Push, NextIndex, Succ, Control, Types, Index
<1> QED BY <1>1, <1>2 DEF Push, WriteTfrCmd, Pushed, flush_txfifo

LEMMA PushControl == ASSUME Control, Push PROVE Control'
<1>1. /\ UNCHANGED <<ctrl_en, nack_det, rxfifo, fsm, cmd, rw_cmd, owed>>
      /\ nack_det => txfifo' = txfifo
      /\ ~nack_det => txfifo' = Append(txfifo, Command(k))
      /\ NextIndex = k /\ NextIndex' = Succ(k)
      /\ IF k > 4 THEN pc' = "read" /\ k' = k ELSE pc' = "poll" /\ k' = k + 1
  BY Pushes
<1>2. /\ k \in Index /\ k \in Nat /\ txfifo \in Seq(CommandSet) /\ Len(txfifo) \in Nat
      /\ Len(txfifo) <= Half /\ Command(k) \in CommandSet
  BY LenProperties, CommandFacts, Sizes DEF Push, Control, Types, Waits, Index
<1>3. k' \in Index /\ pc' \in PC
  BY <1>1, <1>2, Sizes DEF Index, PC
<1>4. ~nack_det => /\ txfifo' \in Seq(CommandSet) /\ Len(txfifo') = Len(txfifo) + 1
                   /\ \A i \in 1 .. Len(txfifo) : txfifo'[i] = txfifo[i]
                   /\ txfifo'[Len(txfifo) + 1] = Command(k)
  BY <1>1, <1>2, AppendProperties
<1>5. Types'
  BY <1>1, <1>2, <1>3, <1>4 DEF Control, Types
<1>6. Waits'
  <2>1. Len(txfifo') <= Half + 1
    BY <1>1, <1>2, <1>4, Sizes
  <2> QED BY <1>1, <2>1 DEF Waits
<1>7. nack_det' => Refused'
  BY <1>1 DEF Control, Refused
<1>8. ASSUME ~nack_det PROVE InOrder' /\ Place'
  <2>1. txfifo' # << >> /\ InOrder /\ Place
    BY <1>2, <1>4, <1>8 DEF Control
  <2>2. First' = First
    <3>1. CASE txfifo = << >>
      BY <1>1, <1>4, <1>8, <2>1, <3>1 DEF First
    <3>2. CASE txfifo # << >>
      <4>1. 1 \in 1 .. Len(txfifo)
        BY <1>2, <3>2, EmptySeq
      <4> QED BY <1>4, <1>8, <2>1, <3>2, <4>1 DEF First
    <3> QED BY <3>1, <3>2
  <2>3. Place'
    BY <1>1, <2>1, <2>2 DEF Place
  <2>4. Follows(txfifo'[Len(txfifo')], Command(NextIndex'))
    <3>1. txfifo'[Len(txfifo')] = Command(k)
      BY <1>4, <1>8
    <3> QED BY <1>1, <1>2, <3>1 DEF Follows
  <2>5. ASSUME NEW i \in 1 .. Len(txfifo') - 1 PROVE Follows(txfifo'[i], txfifo'[i + 1])
    <3>1. i \in 1 .. Len(txfifo) /\ txfifo'[i] = txfifo[i]
      BY <1>2, <1>4, <1>8
    <3>2. CASE i = Len(txfifo)
      <4>1. txfifo # << >> /\ txfifo'[i + 1] = Command(NextIndex)
        BY <1>1, <1>2, <1>4, <1>8, <3>1, <3>2
      <4> QED BY <2>1, <3>1, <3>2, <4>1 DEF InOrder
    <3>3. CASE i # Len(txfifo)
      <4>1. i \in 1 .. Len(txfifo) - 1 /\ i + 1 \in 1 .. Len(txfifo)
        BY <1>2, <3>1, <3>3
      <4> QED BY <1>4, <1>8, <2>1, <3>1, <4>1 DEF InOrder
    <3> QED BY <3>2, <3>3
  <2> QED BY <2>1, <2>3, <2>4, <2>5 DEF InOrder
<1> QED BY <1>1, <1>5, <1>6, <1>7, <1>8 DEF Control

-----------------------------------------------------------------------------
(* Steps of the core.                                                      *)
LEMMA FirstFacts ==
  ASSUME Control
  PROVE  /\ First \in CommandSet
         /\ txfifo # << >> => /\ First = Head(txfifo) /\ Len(txfifo) \in Nat /\ Len(txfifo) >= 1
                              /\ Tail(txfifo) \in Seq(CommandSet)
                              /\ Len(Tail(txfifo)) = Len(txfifo) - 1
                              /\ \A i \in 1 .. Len(txfifo) - 1 : Tail(txfifo)[i] = txfifo[i + 1]
<1>1. txfifo \in Seq(CommandSet) /\ NextIndex \in Index
  BY SuccIndex DEF Control, Types, NextIndex
<1>2. CASE txfifo = << >>
  BY <1>1, <1>2, CommandFacts DEF First
<1>3. CASE txfifo # << >>
  <2>1. /\ Head(txfifo) = txfifo[1] /\ Len(txfifo) \in Nat /\ Len(txfifo) >= 1
        /\ Head(txfifo) \in CommandSet
        /\ Tail(txfifo) \in Seq(CommandSet) /\ Len(Tail(txfifo)) = Len(txfifo) - 1
    BY <1>1, <1>3, HeadTailProperties, LenProperties, EmptySeq
  <2>2. \A i \in 1 .. Len(txfifo) - 1 : Tail(txfifo)[i] = txfifo[i + 1]
    BY <1>1, <1>3, <2>1, HeadTailProperties
  <2> QED BY <1>3, <2>1, <2>2 DEF First
<1> QED BY <1>2, <1>3

\* The command popped is the first one, and the one behind it follows it.
LEMMA Popped ==
  ASSUME Control, ~nack_det, txfifo # << >>, NEW sent, Pop(sent), UNCHANGED prog
  PROVE  /\ cmd' = First
         /\ Follows(cmd', First')
         /\ InOrder'
         /\ txfifo' \in Seq(CommandSet) /\ Len(txfifo') = Len(txfifo) - 1
<1>1. /\ First = Head(txfifo) /\ Len(txfifo) \in Nat /\ Len(txfifo) >= 1
      /\ txfifo' = Tail(txfifo) /\ txfifo' \in Seq(CommandSet) /\ Len(txfifo') = Len(txfifo) - 1
      /\ \A i \in 1 .. Len(txfifo) - 1 : txfifo'[i] = txfifo[i + 1]
      /\ cmd' = First /\ First = txfifo[1]
      /\ NextIndex' = NextIndex
  BY FirstFacts DEF Pop, NextIndex, prog, First
<1>2. InOrder
  BY DEF Control
<1>3. CASE Len(txfifo) = 1
  <2>1. txfifo' = << >>
    BY <1>1, <1>3, EmptySeq
  <2>2. First' = Command(NextIndex)
    BY <1>1, <2>1 DEF First
  <2>3. Follows(txfifo[1], Command(NextIndex))
    BY <1>2, <1>3 DEF InOrder
  <2>4. InOrder'
    BY <2>1 DEF InOrder
  <2> QED BY <1>1, <2>2, <2>3, <2>4
<1>4. CASE Len(txfifo) # 1
  <2>1. txfifo' # << >> /\ First' = txfifo'[1] /\ 1 \in 1 .. Len(txfifo) - 1
    <3>1. Len(txfifo) >= 2
      BY <1>1, <1>4
    <3>2. Len(txfifo') # 0 /\ 1 \in 1 .. Len(txfifo) - 1
      BY <1>1, <3>1
    <3>3. txfifo' # << >>
      BY <3>2
    <3> QED BY <3>2, <3>3 DEF First
  <2>2. First' = txfifo[1 + 1] /\ Follows(txfifo[1], txfifo[1 + 1])
    BY <1>1, <1>2, <2>1 DEF InOrder
  <2>3. Follows(cmd', First')
    BY <1>1, <2>2
  <2>4. Follows(txfifo'[Len(txfifo')], Command(NextIndex'))
    <3>1. Len(txfifo') \in 1 .. Len(txfifo) - 1 /\ Len(txfifo') + 1 = Len(txfifo)
      BY <1>1, <1>4
    <3>2. txfifo'[Len(txfifo')] = txfifo[Len(txfifo)]
      BY <1>1, <3>1
    <3> QED BY <1>1, <1>2, <3>2 DEF InOrder
  <2>5. ASSUME NEW i \in 1 .. Len(txfifo') - 1 PROVE Follows(txfifo'[i], txfifo'[i + 1])
    <3>1. i \in 1 .. Len(txfifo) - 1 /\ i + 1 \in 1 .. Len(txfifo) - 1
      BY <1>1, <2>5
    <3> QED BY <1>1, <1>2, <3>1 DEF InOrder
  <2> QED BY <1>1, <2>3, <2>4, <2>5 DEF InOrder
<1> QED BY <1>3, <1>4

LEMMA PopControl ==
  ASSUME Control, PopFirst \/ PopNext, HardwareStep
  PROVE  Control'
<1>1. ~nack_det /\ txfifo # << >> /\ UNCHANGED <<ctrl_en, nack_det, rxfifo, rw_cmd, prog, owed>>
  <2>1. fsm \in {"POP_TX_FIFO", "BUS_HOLD"} /\ UNCHANGED <<ctrl_en, nack_det, rxfifo, rw_cmd, prog>>
    BY DEF PopFirst, PopNext, Pop, HardwareStep
  <2>2. ~nack_det
    BY <2>1 DEF Control, Refused
  <2>3. txfifo # << >>
    BY <2>1, <2>2 DEF PopFirst, PopNext, Control, Place
  <2> QED BY <2>1, <2>2, <2>3 DEF HardwareStep
<1>2. PICK sent \in BOOLEAN : Pop(sent) /\ (fsm = "POP_TX_FIFO" <=> ~sent) /\ (fsm = "BUS_HOLD" <=> sent)
  BY DEF PopFirst, PopNext
<1>3. /\ cmd' = First /\ Follows(cmd', First') /\ InOrder'
      /\ txfifo' \in Seq(CommandSet) /\ Len(txfifo') = Len(txfifo) - 1 /\ Len(txfifo) \in Nat
      /\ First = Head(txfifo) /\ First \in CommandSet
  BY <1>1, <1>2, Popped, FirstFacts
<1>4. fsm' = AfterPop(sent, First)
  BY <1>2, <1>3 DEF Pop
<1>5. Types'
  <2>1. fsm' \in State
    BY <1>4 DEF AfterPop, State
  <2> QED BY <1>1, <1>3, <2>1 DEF Control, Types, prog
<1>6. Waits'
  BY <1>1, <1>3, Sizes DEF Control, Waits, prog
<1>7. Place'
  <2>1. Place
    BY <1>1 DEF Control
  <2>2. CASE ~sent
    <3>1. First.restart /\ fsm' = "GEN_7BIT_ADDR"
      BY <1>2, <1>4, <2>1, <2>2 DEF AfterPop, Place
    <3> QED BY <1>3, <3>1 DEF Place
  <2>3. CASE sent
    <3>1. /\ Follows(cmd, First) /\ ~cmd.stop /\ (rw_cmd <=> cmd = Command(4) \/ IsRead(cmd))
      BY <1>2, <2>1, <2>3 DEF Place
    <3>2. ~First.restart /\ (rw_cmd <=> IsRead(First))
      BY <3>1, AfterCommand
    <3>3. fsm' = IF rw_cmd THEN "RX_BYTE" ELSE "TX_BYTE"
      BY <1>4, <2>3, <3>2 DEF AfterPop
    <3> QED BY <1>1, <1>3, <3>2, <3>3 DEF Place
  <2> QED BY <2>2, <2>3
<1> QED BY <1>1, <1>3, <1>5, <1>6, <1>7 DEF Control

LEMMA AbortControl ==
  ASSUME Control, Abort, owed' = 0, UNCHANGED <<ctrl_en, cmd, prog>>, rw_cmd' \in BOOLEAN
  PROVE  Control'
<1>1. txfifo' = << >> /\ rxfifo' = << >> /\ nack_det' = TRUE /\ fsm' = "GEN_STOP"
  BY DEF Abort
<1>2. << >> \in Seq(CommandSet) /\ Len(<< >>) = 0
  OBVIOUS
<1>3. Types'
  BY <1>1, <1>2, Sizes DEF Control, Types, State, prog
<1>4. Waits' /\ Refused'
  BY <1>1, <1>2, Sizes DEF Control, Waits, Refused, prog
<1> QED BY <1>1, <1>3, <1>4 DEF Control

\* Steps that move neither the commands nor, but for a byte received, the data.
LEMMA MoveControl ==
  ASSUME Control, UNCHANGED <<ctrl_en, nack_det, txfifo, cmd, prog>>,
         owed' = IF nack_det' THEN 0 ELSE owed,
         rw_cmd' \in BOOLEAN, fsm' \in State,
         rxfifo' \in Seq(CommandSet), Len(rxfifo') <= FIFO_DEPTH,
         nack_det => fsm' \in {"GEN_STOP", "PRE_START", "PRE_IDLE", "IDLE"} /\ rxfifo' = << >>,
         ~nack_det => Place'
  PROVE  Control'
<1>1. Types'
  BY DEF Control, Types, prog
<1>2. Waits' /\ (nack_det' => Refused')
  BY DEF Control, Waits, Refused, prog
<1>3. ~nack_det' => InOrder'
  BY DEF Control, InOrder, NextIndex, prog
<1> QED BY <1>1, <1>2, <1>3 DEF Control

LEMMA HardwareControl == ASSUME Control, HardwareStep PROVE Control'
<1>1. owed' = (IF nack_det' THEN 0 ELSE owed) /\ UNCHANGED prog
  BY DEF HardwareStep
<1>2. UNCHANGED txfifo => First' = First
  BY <1>1 DEF First, NextIndex, prog
<1>3. /\ rxfifo \in Seq(CommandSet) /\ Len(rxfifo) <= FIFO_DEPTH /\ rw_cmd \in BOOLEAN
      /\ nack_det \in BOOLEAN
      /\ nack_det => Refused
      /\ ~nack_det => Place
  BY DEF Control, Types
<1>4. CASE PopFirst \/ PopNext
  BY <1>4, PopControl
<1>5. CASE GenStart
  <2>1. ~nack_det => Place'
    BY <1>2, <1>3, <1>5 DEF GenStart, Place
  <2> QED BY <1>1, <1>3, <1>5, <2>1, MoveControl DEF GenStart, flush_txfifo, State
<1>6. ASSUME NEW ack \in BOOLEAN, SendAddress(ack) PROVE Control'
  <2>1. ~nack_det /\ fsm = "GEN_7BIT_ADDR" /\ rw_cmd' \in BOOLEAN
    BY <1>3, <1>6 DEF SendAddress, Refused
  <2>2. CASE ack
    <3>1. /\ UNCHANGED <<ctrl_en, nack_det, txfifo, rxfifo, cmd>> /\ fsm' = "BUS_HOLD"
          /\ rw_cmd' = (cmd.arg % 2 = 1)
      BY <1>6, <2>2 DEF SendAddress
    <3>2. Follows(cmd, First) /\ cmd.restart
      BY <1>3, <2>1 DEF Place
    <3>3. ~cmd.stop /\ ~IsRead(cmd) /\ (rw_cmd' <=> cmd = Command(4))
      BY <3>1, <3>2, AfterCommand
    <3>4. Place'
      BY <1>2, <3>1, <3>2, <3>3 DEF Place
    <3> QED BY <1>1, <1>3, <2>1, <3>1, <3>4, MoveControl DEF State
  <2>3. CASE ~ack
    BY <1>1, <1>6, <2>1, <2>3, AbortControl DEF SendAddress, Abort
  <2> QED BY <2>2, <2>3
<1>7. ASSUME NEW ack \in BOOLEAN, SendByte(ack) PROVE Control'
  <2>1. ~nack_det /\ fsm = "TX_BYTE" /\ UNCHANGED <<ctrl_en, cmd, rw_cmd>>
    BY <1>3, <1>7 DEF SendByte, Refused
  <2>2. CASE ack
    <3>1. /\ UNCHANGED <<ctrl_en, nack_det, txfifo, rxfifo, cmd, rw_cmd>>
          /\ fsm' = IF cmd.stop THEN "GEN_STOP" ELSE "BUS_HOLD"
      BY <1>7, <2>2 DEF SendByte
    <3>2. Follows(cmd, First) /\ ~cmd.restart /\ ~IsRead(cmd) /\ ~rw_cmd
      BY <1>3, <2>1 DEF Place
    <3>3. cmd.stop \in BOOLEAN /\ (cmd.stop => First.restart)
      BY <3>2, AfterCommand
    <3>4. cmd # Command(4)
      <4>1. 4 \in Index
        BY Sizes DEF Index
      <4> QED BY <3>2, <4>1, CommandFacts
    <3>5. Place'
      BY <1>2, <3>1, <3>2, <3>3, <3>4 DEF Place
    <3> QED BY <1>1, <1>3, <2>1, <3>1, <3>5, MoveControl DEF State
  <2>3. CASE ~ack
    BY <1>1, <1>3, <1>7, <2>1, <2>3, AbortControl DEF SendByte, Abort
  <2> QED BY <2>2, <2>3
<1>8. CASE ReceiveByte
  <2>1. ~nack_det /\ fsm = "RX_BYTE" /\ UNCHANGED <<ctrl_en, nack_det, txfifo, cmd, rw_cmd>>
    BY <1>3, <1>8 DEF ReceiveByte, Refused
  <2>2. Follows(cmd, First) /\ IsRead(cmd) /\ rw_cmd
    BY <1>3, <2>1 DEF Place
  <2>3. cmd.stop \in BOOLEAN /\ (cmd.stop => First.restart) /\ cmd \in CommandSet
    BY <2>2, AfterCommand
  <2>4. fsm' = IF cmd.stop THEN "GEN_STOP" ELSE "BUS_HOLD"
    BY <1>8 DEF ReceiveByte
  <2>5. Place'
    BY <1>2, <2>1, <2>2, <2>3, <2>4 DEF Place
  <2>6. rxfifo' \in Seq(CommandSet) /\ Len(rxfifo') <= FIFO_DEPTH
    <3>1. CASE Len(rxfifo) = FIFO_DEPTH
      BY <1>3, <1>8, <3>1 DEF ReceiveByte
    <3>2. CASE Len(rxfifo) # FIFO_DEPTH
      <4>1. rxfifo' = Append(rxfifo, cmd)
        BY <1>8, <3>2 DEF ReceiveByte
      <4>2. rxfifo' \in Seq(CommandSet) /\ Len(rxfifo') = Len(rxfifo) + 1 /\ Len(rxfifo) \in Nat
        BY <1>3, <2>3, <4>1, AppendProperties, LenProperties
      <4> QED BY <1>3, <3>2, <4>2, Sizes
    <3> QED BY <3>1, <3>2
  <2> QED BY <1>1, <1>3, <2>1, <2>4, <2>5, <2>6, MoveControl DEF State
<1>9. CASE GenStop
  <2>1. ~nack_det => Place'
    BY <1>2, <1>3, <1>9 DEF GenStop, Place
  <2> QED BY <1>1, <1>3, <1>9, <2>1, MoveControl DEF GenStop, State, Refused
<1>10. CASE LeavePreIdle
  <2>1. ~nack_det => Place'
    BY <1>2, <1>3, <1>10 DEF LeavePreIdle, Place
  <2> QED BY <1>1, <1>3, <1>10, <2>1, MoveControl DEF LeavePreIdle, State, Refused
<1> QED BY <1>4, <1>5, <1>6, <1>7, <1>8, <1>9, <1>10 DEF HardwareStep, CoreStep

LEMMA NextControl == ASSUME Control, [Next]_vars PROVE Control'
<1>1. CASE ProgramStep
  BY <1>1, AccessControl, PushControl DEF ProgramStep
<1>2. CASE HardwareStep
  BY <1>2, HardwareControl
<1>3. CASE UNCHANGED vars
  <2> USE <1>3 DEF vars, core, prog
  <2>1. First' = First /\ NextIndex' = NextIndex
    BY DEF First, NextIndex
  <2>2. Types' /\ Waits' /\ (nack_det' => Refused')
    BY DEF Control, Types, Waits, Refused
  <2>3. ~nack_det' => InOrder' /\ Place'
    BY <2>1, QueueStays
  <2> QED BY <2>2, <2>3 DEF Control
<1> QED BY <1>1, <1>2, <1>3 DEF Next

(* The inductive invariant about the commands holds of every behaviour.    *)
THEOREM ControlHolds == Spec => []Control
BY InitControl, NextControl, PTL DEF Spec

(* The program waits before every command it queues, so none is dropped,   *)
(* whatever the length of a reading and the depth of the FIFO.             *)
THEOREM CommandsAreQueued == Spec => []NoCommandDropped
<1>1. ASSUME Control PROVE NoCommandDropped
  <2>1. Len(txfifo) \in Nat
    BY <1>1, LenProperties DEF Control, Types
  <2> QED BY <1>1, <2>1, Sizes DEF Control, Waits, NoCommandDropped
<1> QED BY <1>1, ControlHolds, PTL

(* The core takes every command for what the program meant by it.          *)
THEOREM CommandsAreInPlace == Spec => []CommandsInPlace
<1>1. Control => CommandsInPlace
  BY DEF Control, Refused, Place, CommandsInPlace
<1> QED BY <1>1, ControlHolds, PTL

(* After a refusal the core never leaves the states around IDLE again.     *)
THEOREM RefusalEndsAll == Spec => RefusalIsForever
<1>1. ASSUME Control, [Next]_vars, nack_det
      PROVE  nack_det' /\ (fsm' = fsm \/ fsm' \in {"PRE_START", "PRE_IDLE", "IDLE"})
  <2>1. Refused
    BY <1>1 DEF Control
  <2> QED BY <1>1, <2>1 DEF Refused, Next, vars, core, ProgramStep, Disable, Enable, Poll, Push,
             Read, Report, WriteCtrl, WriteTfrCmd, ReadRxData, HardwareStep, CoreStep, GenStart,
             PopFirst, PopNext, Pop, SendAddress, SendByte, ReceiveByte, GenStop, LeavePreIdle
<1> QED BY <1>1, ControlHolds, PTL DEF Spec, RefusalIsForever

-----------------------------------------------------------------------------
(* Counting the reads in a command FIFO.                                   *)

\* Where the reads are, from place i on, and how many.
ReadsAt(s, i) == {m \in 1 .. Len(s) : m >= i /\ IsRead(s[m])}
ReadsFrom(s, i) == Cardinality(ReadsAt(s, i))

LEMMA ReadsAtFinite ==
  ASSUME NEW s \in Seq(CommandSet), NEW i
  PROVE  /\ IsFiniteSet(ReadsAt(s, i))
         /\ ReadsFrom(s, i) \in Nat
         /\ ReadsFrom(s, i) <= Len(s)
<1>1. Len(s) \in Nat
  BY LenProperties, Zenon
<1>2. IsFiniteSet(1 .. Len(s)) /\ Cardinality(1 .. Len(s)) = Len(s)
  <2>1. ASSUME NEW n \in Nat PROVE IsFiniteSet(1 .. n) /\ Cardinality(1 .. n) = n
    <3>1. 1 \in Int /\ n \in Int /\ (IF 1 > n THEN 0 ELSE n - 1 + 1) = n
      OBVIOUS
    <3> QED BY <3>1, FS_Interval, Zenon
  <2> QED BY <1>1, <2>1, Zenon
<1>3. ReadsAt(s, i) \in SUBSET (1 .. Len(s))
  BY DEF ReadsAt
<1> QED BY <1>2, <1>3, FS_Subset, FS_CardinalityType DEF ReadsFrom

LEMMA ReadsIsReadsFrom == ASSUME NEW s \in Seq(CommandSet) PROVE Reads(s) = ReadsFrom(s, 1)
<1>1. {i \in DOMAIN s : IsRead(s[i])} = ReadsAt(s, 1)
  BY LenProperties DEF ReadsAt
<1> QED BY <1>1 DEF Reads, ReadsFrom

LEMMA ReadsOfNone == ASSUME NEW i PROVE ReadsFrom(<< >>, i) = 0
<1>1. ReadsAt(<< >>, i) = {}
  BY DEF ReadsAt
<1> QED BY <1>1, FS_EmptySet DEF ReadsFrom

LEMMA ReadsOfAppend ==
  ASSUME NEW s \in Seq(CommandSet), NEW c \in CommandSet, NEW i \in 1 .. Len(s) + 1
  PROVE  ReadsFrom(Append(s, c), i) = ReadsFrom(s, i) + (IF IsRead(c) THEN 1 ELSE 0)
<1> DEFINE t == Append(s, c)
<1>1. /\ Len(s) \in Nat /\ Len(t) = Len(s) + 1
      /\ \A m \in 1 .. Len(s) : t[m] = s[m]
      /\ t[Len(s) + 1] = c
  BY AppendProperties, LenProperties
<1> HIDE DEF t
<1>2. CASE IsRead(c)
  <2>1. ReadsAt(t, i) = ReadsAt(s, i) \cup {Len(s) + 1}
    BY <1>1, <1>2 DEF ReadsAt
  <2>2. Len(s) + 1 \notin ReadsAt(s, i)
    BY <1>1 DEF ReadsAt
  <2>3. Cardinality(ReadsAt(s, i) \cup {Len(s) + 1}) = Cardinality(ReadsAt(s, i)) + 1
    BY <2>2, ReadsAtFinite, FS_AddElement
  <2> QED BY <1>2, <2>1, <2>3 DEF ReadsFrom, t
<1>3. CASE ~IsRead(c)
  <2>1. ReadsAt(t, i) = ReadsAt(s, i)
    BY <1>1, <1>3 DEF ReadsAt
  <2>2. ReadsFrom(s, i) \in Nat
    BY ReadsAtFinite
  <2> QED BY <1>3, <2>1, <2>2 DEF ReadsFrom, t
<1> QED BY <1>2, <1>3

LEMMA ReadsOfHead ==
  ASSUME NEW s \in Seq(CommandSet), NEW i \in 1 .. Len(s)
  PROVE  ReadsFrom(s, i) = ReadsFrom(s, i + 1) + (IF IsRead(s[i]) THEN 1 ELSE 0)
<1>1. Len(s) \in Nat /\ i \in Nat /\ i \notin ReadsAt(s, i + 1) /\ ReadsFrom(s, i + 1) \in Nat
  <2>1. Len(s) \in Nat /\ ReadsFrom(s, i + 1) \in Nat
    BY LenProperties, ReadsAtFinite
  <2>2. i \in Nat /\ ~(i >= i + 1)
    BY <2>1
  <2> QED BY <2>1, <2>2 DEF ReadsAt
<1>2. CASE IsRead(s[i])
  <2>1. ReadsAt(s, i) = ReadsAt(s, i + 1) \cup {i}
    BY <1>1, <1>2 DEF ReadsAt
  <2>2. Cardinality(ReadsAt(s, i + 1) \cup {i}) = Cardinality(ReadsAt(s, i + 1)) + 1
    BY <1>1, ReadsAtFinite, FS_AddElement
  <2> QED BY <1>2, <2>1, <2>2 DEF ReadsFrom
<1>3. CASE ~IsRead(s[i])
  <2>1. ReadsAt(s, i) = ReadsAt(s, i + 1)
    <3>1. ASSUME NEW m \in 1 .. Len(s), IsRead(s[m]), m >= i PROVE m >= i + 1
      BY <1>1, <1>3, <3>1
    <3> QED BY <1>1, <3>1 DEF ReadsAt
  <2> QED BY <1>1, <1>3, <2>1 DEF ReadsFrom
<1> QED BY <1>2, <1>3

LEMMA ReadsOfTail ==
  ASSUME NEW s \in Seq(CommandSet), s # << >>, NEW i \in Nat, i >= 1
  PROVE  ReadsFrom(Tail(s), i) = ReadsFrom(s, i + 1)
<1>1. /\ Len(s) \in Nat /\ Len(s) >= 1 /\ Len(Tail(s)) = Len(s) - 1
      /\ Tail(s) \in Seq(CommandSet)
      /\ \A m \in 1 .. Len(s) - 1 : Tail(s)[m] = s[m + 1]
  BY HeadTailProperties, LenProperties, EmptySeq
<1> DEFINE S == ReadsAt(Tail(s), i)
           T == ReadsAt(s, i + 1)
           shift == [m \in S |-> m + 1]
<1>2. ASSUME NEW m \in S PROVE m \in Nat /\ m + 1 \in T
  <2>1. m \in 1 .. Len(s) - 1 /\ m >= i /\ IsRead(s[m + 1])
    BY <1>1 DEF ReadsAt
  <2> QED BY <1>1, <2>1 DEF ReadsAt
<1>3. ASSUME NEW n \in T PROVE \E m \in S : m + 1 = n
  <2>1. n \in 1 .. Len(s) /\ n >= i + 1 /\ IsRead(s[n])
    BY DEF ReadsAt
  <2>2. n - 1 \in 1 .. Len(s) - 1 /\ n - 1 >= i /\ (n - 1) + 1 = n
    BY <1>1, <2>1
  <2>3. IsRead(Tail(s)[n - 1])
    <3>1. Tail(s)[n - 1] = s[(n - 1) + 1]
      BY <1>1, <2>2
    <3> QED BY <2>1, <2>2, <3>1
  <2>4. n - 1 \in S
    BY <1>1, <2>2, <2>3 DEF ReadsAt
  <2> QED BY <2>2, <2>4
<1>4. IsFiniteSet(S)
  BY <1>1, ReadsAtFinite
<1> HIDE DEF S, T
<1>5. shift \in Bijection(S, T)
  <2>1. shift \in [S -> T]
    BY <1>2
  <2>2. \A m, n \in S : shift[m] = shift[n] => m = n
    BY <1>2
  <2>3. \A n \in T : \E m \in S : shift[m] = n
    BY <1>3
  <2> HIDE DEF shift
  <2> QED BY <2>1, <2>2, <2>3, Fun_IsBij
<1>6. ExistsBijection(S, T)
  BY <1>5, Fun_ExistsBij
<1>7. Cardinality(T) = Cardinality(S)
  BY <1>4, <1>6, FS_Bijection
<1> QED BY <1>7 DEF S, T, ReadsFrom

-----------------------------------------------------------------------------
(* Counting bytes modulo the length of a reading.                          *)

\* The byte asked for n reads before the one that asks for byte b.
Before(b, n) == (b - n) % Bytes

Following(b) == IF b = Bytes - 1 THEN 0 ELSE b + 1

LEMMA DividesOnce ==
  ASSUME NEW x \in Int, NEW q \in Int, NEW r \in 0 .. Bytes - 1, x = Bytes * q + r
  PROVE  x % Bytes = r
BY Sizes

LEMMA OneRoundOn == ASSUME NEW x \in Int PROVE (x + Bytes) % Bytes = x % Bytes
<1> DEFINE q == x \div Bytes
           r == x % Bytes
<1>1. x = Bytes * q + r /\ r \in 0 .. Bytes - 1 /\ q \in Int
  BY Sizes
<1> HIDE DEF q, r
<1>2. x + Bytes = Bytes * (q + 1) + r
  BY <1>1, Sizes
<1>3. (x + Bytes) % Bytes = r
  BY <1>1, <1>2, DividesOnce, Sizes
<1> QED BY <1>3 DEF r

LEMMA FollowingByte ==
  ASSUME NEW b \in 0 .. Bytes - 1, NEW n \in Int
  PROVE  Before(Following(b), n + 1) = Before(b, n)
<1>1. CASE b = Bytes - 1
  <2>1. b - n = (0 - (n + 1)) + Bytes /\ 0 - (n + 1) \in Int
    BY <1>1, Sizes
  <2>2. (b - n) % Bytes = (0 - (n + 1)) % Bytes
    BY <2>1, OneRoundOn
  <2> QED BY <1>1, <2>2 DEF Before, Following
<1>2. CASE b # Bytes - 1
  <2>1. (b + 1) - (n + 1) = b - n
    BY Sizes
  <2> QED BY <1>2, <2>1 DEF Before, Following
<1> QED BY <1>1, <1>2

LEMMA ThisByte == ASSUME NEW b \in 0 .. Bytes - 1 PROVE Before(b, 0) = b
<1>1. b - 0 = Bytes * 0 + b /\ b \in Int
  BY Sizes
<1> QED BY <1>1, DividesOnce DEF Before

-----------------------------------------------------------------------------
(* How many bytes are on their way, and which.                             *)

\* The byte the next read command asks for.
NextByte == IF NextIndex > 4 THEN NextIndex - 5 ELSE 0

\* A read that finds nothing has one byte more to come than were owed, and no
\* more can be on their way than are queued or being received.
Balanced ==
    /\ Len(rxfifo) + Pending = owed + (IF pc = "read" THEN 1 ELSE 0)
    /\ owed <= Half + 2

\* Every byte, asked for or received, is as far before the next one as there are
\* bytes behind it.
InTurn ==
    /\ \A i \in 1 .. Len(txfifo) :
          IsRead(txfifo[i]) => txfifo[i].arg = Before(NextByte, ReadsFrom(txfifo, i))
    /\ fsm = "RX_BYTE" => cmd.arg = Before(NextByte, Reads(txfifo) + 1)
    /\ \A i \in 1 .. Len(rxfifo) :
          rxfifo[i].arg = Before(NextByte, Len(rxfifo) + Pending + 1 - i)

Counted == ~nack_det => Balanced /\ InTurn

LEMMA Numbers ==
  ASSUME Control
  PROVE  /\ Len(txfifo) \in Nat /\ Len(rxfifo) \in Nat
         /\ Reads(txfifo) \in Nat /\ Reads(txfifo) <= Half + 1
         /\ Reads(txfifo) = ReadsFrom(txfifo, 1)
         /\ Pending \in Nat /\ Pending <= Half + 2
         /\ NextByte \in 0 .. Bytes - 1
<1>1. txfifo \in Seq(CommandSet) /\ rxfifo \in Seq(CommandSet) /\ Len(txfifo) <= Half + 1
  BY DEF Control, Types, Waits
<1>2. Len(txfifo) \in Nat /\ Len(rxfifo) \in Nat
  BY <1>1, LenProperties
<1>3. Reads(txfifo) = ReadsFrom(txfifo, 1) /\ Reads(txfifo) \in Nat /\ Reads(txfifo) <= Len(txfifo)
  BY <1>1, ReadsAtFinite, ReadsIsReadsFrom
<1>4. Reads(txfifo) <= Half + 1
  BY <1>1, <1>2, <1>3, Sizes
<1>5. Pending \in Nat /\ Pending <= Half + 2
  BY <1>3, <1>4, Sizes DEF Pending
<1>6. NextByte \in 0 .. Bytes - 1
  <2>1. NextIndex \in Index
    BY SuccIndex DEF Control, Types, NextIndex
  <2> QED BY <2>1, Sizes DEF NextByte, Index
<1> QED BY <1>2, <1>3, <1>4, <1>5, <1>6

LEMMA InitCounted == ASSUME Init PROVE Counted
<1>1. Reads(<< >>) = 0
  <2>1. << >> \in Seq(CommandSet)
    OBVIOUS
  <2> QED BY <2>1, ReadsIsReadsFrom, ReadsOfNone
<1>2. txfifo = << >> /\ rxfifo = << >> /\ fsm = "IDLE" /\ pc = "disable" /\ owed = 0 /\ Len(<< >>) = 0
  BY DEF Init, CoreInit
<1>3. Balanced
  BY <1>1, <1>2, Sizes DEF Balanced, Pending
<1>4. InTurn
  BY <1>2 DEF InTurn
<1> QED BY <1>3, <1>4 DEF Counted

\* Steps that neither queue, fetch nor receive anything.
LEMMA NothingMoves ==
  ASSUME Control, Counted, UNCHANGED <<txfifo, rxfifo, cmd, nack_det, owed>>, NextIndex' = NextIndex,
         pc = "read" <=> pc' = "read", fsm = "RX_BYTE" <=> fsm' = "RX_BYTE"
  PROVE  Counted'
<1>1. NextByte' = NextByte /\ Pending' = Pending
  BY DEF NextByte, Pending
<1>2. Balanced => Balanced'
  BY <1>1 DEF Balanced
<1>3. InTurn => InTurn'
  BY <1>1 DEF InTurn
<1> QED BY <1>2, <1>3 DEF Counted

LEMMA ReadCounted == ASSUME Control, Counted, Read PROVE Counted'
<1>1. /\ pc = "read" /\ pc' # "read" /\ rxfifo' = Taken
      /\ UNCHANGED <<txfifo, nack_det, fsm, cmd>>
      /\ owed' = IF rxfifo = << >> /\ ~nack_det THEN owed + 1 ELSE owed
  BY DEF Read, ReadRxData
<1>2. NextIndex' = NextIndex
  BY SuccIndex, Sizes DEF Read, LastRead, NextIndex, Succ, Control, Types, Waits, Index
<1>3. NextByte' = NextByte /\ Pending' = Pending
  BY <1>1, <1>2 DEF NextByte, Pending
<1>4. /\ Len(rxfifo) \in Nat /\ Pending \in Nat /\ Pending <= Half + 2 /\ owed \in Nat
      /\ rxfifo \in Seq(CommandSet)
  BY Numbers DEF Control, Types
<1>5. ASSUME ~nack_det PROVE Balanced' /\ InTurn'
  <2>1. Balanced /\ InTurn
    BY <1>5 DEF Counted
  <2>2. Len(rxfifo) + Pending = owed + 1 /\ owed <= Half + 2
    BY <1>1, <2>1 DEF Balanced
  <2>3. CASE rxfifo = << >>
    <3>1. Len(rxfifo) = 0 /\ rxfifo' = << >> /\ Len(rxfifo') = 0 /\ owed' = owed + 1
      BY <1>1, <1>5, <2>3 DEF Taken
    <3>2. Len(rxfifo') + Pending' = owed' /\ owed' <= Half + 2
      BY <1>3, <1>4, <2>2, <3>1, Sizes
    <3>3. Balanced'
      BY <1>1, <3>2 DEF Balanced
    <3>4. InTurn'
      BY <1>1, <1>3, <2>1, <3>1 DEF InTurn
    <3> QED BY <3>3, <3>4
  <2>4. CASE rxfifo # << >>
    <3>1. /\ rxfifo' = Tail(rxfifo) /\ owed' = owed /\ Len(rxfifo') = Len(rxfifo) - 1
          /\ Len(rxfifo) >= 1
          /\ \A i \in 1 .. Len(rxfifo) - 1 : rxfifo'[i] = rxfifo[i + 1]
      BY <1>1, <1>4, <2>4, HeadTailProperties, LenProperties, EmptySeq DEF Taken
    <3>2. Len(rxfifo') + Pending' = owed'
      BY <1>3, <1>4, <2>2, <3>1
    <3>3. Balanced'
      BY <1>1, <2>2, <3>1, <3>2 DEF Balanced
    <3>4. ASSUME NEW i \in 1 .. Len(rxfifo')
          PROVE  rxfifo'[i].arg = Before(NextByte', Len(rxfifo') + Pending' + 1 - i)
      <4>1. i \in 1 .. Len(rxfifo) - 1 /\ i + 1 \in 1 .. Len(rxfifo)
        BY <1>4, <3>1
      <4>2. rxfifo'[i].arg = Before(NextByte, Len(rxfifo) + Pending + 1 - (i + 1))
        BY <2>1, <3>1, <4>1 DEF InTurn
      <4>3. Len(rxfifo) + Pending + 1 - (i + 1) = Len(rxfifo') + Pending' + 1 - i
        BY <1>3, <1>4, <3>1, <4>1
      <4> QED BY <1>3, <4>2, <4>3
    <3>5. InTurn'
      BY <1>1, <1>3, <2>1, <3>4 DEF InTurn
    <3> QED BY <3>3, <3>5
  <2> QED BY <2>3, <2>4
<1> QED BY <1>1, <1>5 DEF Counted

LEMMA PushCounted == ASSUME Control, Counted, Push PROVE Counted'
<1>1. /\ UNCHANGED <<nack_det, rxfifo, fsm, cmd, owed>> /\ pc = "push"
      /\ ~nack_det => txfifo' = Append(txfifo, Command(k))
      /\ NextIndex = k /\ NextIndex' = Succ(k)
      /\ IF k > 4 THEN pc' = "read" /\ k' = k ELSE pc' = "poll" /\ k' = k + 1
  BY Pushes DEF Push
<1>2. /\ k \in Index /\ Command(k) \in CommandSet /\ (IsRead(Command(k)) <=> k > 4)
      /\ k > 4 => Command(k).arg = k - 5
      /\ k \in Nat /\ k <= Commands
  BY CommandFacts, Sizes DEF Control, Types, Index
<1>3. /\ Len(txfifo) \in Nat /\ Len(rxfifo) \in Nat /\ Reads(txfifo) \in Nat
      /\ Reads(txfifo) = ReadsFrom(txfifo, 1) /\ Pending \in Nat
      /\ NextByte \in 0 .. Bytes - 1 /\ txfifo \in Seq(CommandSet) /\ owed \in Nat
  BY Numbers DEF Control, Types
<1>4. ASSUME ~nack_det PROVE Balanced' /\ InTurn'
  <2>1. Balanced /\ InTurn
    BY <1>4 DEF Counted
  <2>2. /\ txfifo' = Append(txfifo, Command(k)) /\ txfifo' \in Seq(CommandSet)
        /\ Len(txfifo') = Len(txfifo) + 1
        /\ \A i \in 1 .. Len(txfifo) : txfifo'[i] = txfifo[i]
        /\ txfifo'[Len(txfifo) + 1] = Command(k)
    <3>1. txfifo' = Append(txfifo, Command(k)) /\ Command(k) \in CommandSet
      BY <1>1, <1>2, <1>4
    <3>2. txfifo \in Seq(CommandSet)
      BY <1>3
    <3> QED BY <3>1, <3>2, AppendProperties
  <2>3. \A i \in 1 .. Len(txfifo) + 1 :
          ReadsFrom(txfifo', i) = ReadsFrom(txfifo, i) + (IF k > 4 THEN 1 ELSE 0)
    BY <1>2, <1>3, <2>2, ReadsOfAppend
  <2>4. Reads(txfifo') = Reads(txfifo) + (IF k > 4 THEN 1 ELSE 0)
    <3>1. 1 \in 1 .. Len(txfifo) + 1
      BY <1>3
    <3> QED BY <1>3, <2>2, <2>3, <3>1, ReadsIsReadsFrom
  <2>5. Pending' = Pending + (IF k > 4 THEN 1 ELSE 0)
    BY <1>1, <1>3, <2>4 DEF Pending
  <2>6. Balanced'
    BY <1>1, <1>2, <1>3, <2>1, <2>5 DEF Balanced
  <2>7. NextByte' = IF k > 4 THEN Following(NextByte) ELSE NextByte
    BY <1>1, <1>2, Sizes DEF NextByte, Succ, Following
  <2>8. ASSUME NEW n \in Nat
        PROVE  Before(NextByte', n + (IF k > 4 THEN 1 ELSE 0)) = Before(NextByte, n)
    <3>1. CASE k > 4
      <4>1. NextByte' = Following(NextByte) /\ n + (IF k > 4 THEN 1 ELSE 0) = n + 1
        BY <2>7, <3>1
      <4>2. Before(Following(NextByte), n + 1) = Before(NextByte, n)
        BY <1>3, FollowingByte
      <4> QED BY <4>1, <4>2
    <3>2. CASE ~(k > 4)
      BY <2>7, <3>2
    <3> QED BY <3>1, <3>2
  <2>9. ASSUME NEW i \in 1 .. Len(txfifo'), IsRead(txfifo'[i])
        PROVE  txfifo'[i].arg = Before(NextByte', ReadsFrom(txfifo', i))
    <3>1. ReadsFrom(txfifo', i) = ReadsFrom(txfifo, i) + (IF k > 4 THEN 1 ELSE 0)
          /\ ReadsFrom(txfifo, i) \in Nat
      BY <1>3, <2>2, <2>3, ReadsAtFinite
    <3>2. Before(NextByte', ReadsFrom(txfifo', i)) = Before(NextByte, ReadsFrom(txfifo, i))
      BY <2>8, <3>1
    <3>3. CASE i \in 1 .. Len(txfifo)
      <4>1. txfifo'[i] = txfifo[i]
        BY <2>2, <3>3
      <4> QED BY <2>1, <2>9, <3>2, <3>3, <4>1 DEF InTurn
    <3>4. CASE i = Len(txfifo) + 1
      <4>1. txfifo'[i] = Command(k) /\ k > 4
        BY <1>2, <2>2, <2>9, <3>4
      <4>2. ReadsFrom(txfifo, i) = 0
        <5>1. ReadsAt(txfifo, i) = {}
          BY <1>3, <3>4 DEF ReadsAt
        <5> QED BY <5>1, FS_EmptySet DEF ReadsFrom
      <4>3. NextByte = k - 5
        BY <1>1, <4>1 DEF NextByte
      <4> QED BY <1>2, <1>3, <3>2, <4>1, <4>2, <4>3, ThisByte
    <3> QED BY <1>3, <2>2, <3>3, <3>4
  <2>10. ASSUME fsm' = "RX_BYTE" PROVE cmd'.arg = Before(NextByte', Reads(txfifo') + 1)
    <3>1. cmd.arg = Before(NextByte, Reads(txfifo) + 1)
      BY <1>1, <2>1, <2>10 DEF InTurn
    <3>2. Reads(txfifo') + 1 = (Reads(txfifo) + 1) + (IF k > 4 THEN 1 ELSE 0)
      BY <1>3, <2>4
    <3> QED BY <1>1, <1>3, <2>8, <3>1, <3>2
  <2>11. ASSUME NEW i \in 1 .. Len(rxfifo')
         PROVE  rxfifo'[i].arg = Before(NextByte', Len(rxfifo') + Pending' + 1 - i)
    <3>1. rxfifo' = rxfifo /\ rxfifo[i].arg = Before(NextByte, Len(rxfifo) + Pending + 1 - i)
      BY <1>1, <2>1, <2>11 DEF InTurn
    <3>2. Len(rxfifo') + Pending' + 1 - i = (Len(rxfifo) + Pending + 1 - i) + (IF k > 4 THEN 1 ELSE 0)
          /\ Len(rxfifo) + Pending + 1 - i \in Nat
      BY <1>3, <2>5, <2>11, <3>1
    <3> QED BY <2>8, <3>1, <3>2
  <2> QED BY <2>6, <2>9, <2>10, <2>11 DEF InTurn
<1> QED BY <1>1, <1>4 DEF Counted

LEMMA PopCounted ==
  ASSUME Control, Counted, PopFirst \/ PopNext, HardwareStep
  PROVE  Counted'
<1>1. /\ Control' /\ ~nack_det /\ txfifo # << >>
      /\ UNCHANGED <<nack_det, rxfifo, prog, owed>>
      /\ cmd' = Head(txfifo) /\ txfifo' = Tail(txfifo)
      /\ fsm # "RX_BYTE" /\ fsm' \in {"GEN_7BIT_ADDR", "RX_BYTE", "TX_BYTE"}
  <2>1. Control'
    BY PopControl
  <2>2. /\ UNCHANGED <<nack_det, rxfifo, prog>> /\ cmd' = Head(txfifo) /\ txfifo' = Tail(txfifo)
        /\ fsm \in {"POP_TX_FIFO", "BUS_HOLD"}
        /\ fsm' \in {"GEN_7BIT_ADDR", "RX_BYTE", "TX_BYTE"}
    BY DEF PopFirst, PopNext, Pop, AfterPop, HardwareStep
  <2>3. ~nack_det
    BY <2>2 DEF Control, Refused
  <2>4. txfifo # << >>
    BY <2>2, <2>3 DEF PopFirst, PopNext, Control, Place
  <2> QED BY <2>1, <2>2, <2>3, <2>4 DEF HardwareStep
<1>2. fsm' = "RX_BYTE" <=> IsRead(cmd')
  <2>1. Place' /\ cmd' \in CommandSet
    BY <1>1 DEF Control, Types
  <2>2. cmd'.restart => ~IsRead(cmd')
    BY DEF IsRead
  <2> QED BY <1>1, <2>1, <2>2 DEF Place
<1>3. /\ Len(txfifo) \in Nat /\ Len(txfifo) >= 1 /\ Len(rxfifo) \in Nat
      /\ Reads(txfifo) \in Nat /\ Reads(txfifo) = ReadsFrom(txfifo, 1)
      /\ txfifo \in Seq(CommandSet) /\ Head(txfifo) = txfifo[1]
      /\ txfifo' \in Seq(CommandSet) /\ Len(txfifo') = Len(txfifo) - 1
      /\ \A i \in 1 .. Len(txfifo) - 1 : txfifo'[i] = txfifo[i + 1]
  <2>1. txfifo \in Seq(CommandSet)
    BY DEF Control, Types
  <2>2. Head(txfifo) = txfifo[1]
    BY <1>1, <2>1, HeadTailProperties
  <2> QED BY <1>1, <2>1, <2>2, Numbers, FirstFacts
<1>4. /\ Reads(txfifo') \in Nat /\ Reads(txfifo') = ReadsFrom(txfifo', 1)
      /\ Reads(txfifo) = Reads(txfifo') + (IF IsRead(cmd') THEN 1 ELSE 0)
      /\ \A i \in 1 .. Len(txfifo') : ReadsFrom(txfifo', i) = ReadsFrom(txfifo, i + 1)
  <2>1. Reads(txfifo') = ReadsFrom(txfifo', 1) /\ Reads(txfifo') \in Nat
    BY <1>3, ReadsIsReadsFrom, ReadsAtFinite
  <2>2. \A i \in Nat : i >= 1 => ReadsFrom(txfifo', i) = ReadsFrom(txfifo, i + 1)
    BY <1>1, <1>3, ReadsOfTail
  <2>3. ReadsFrom(txfifo, 1) = ReadsFrom(txfifo, 1 + 1) + (IF IsRead(txfifo[1]) THEN 1 ELSE 0)
    <3>1. 1 \in 1 .. Len(txfifo)
      BY <1>3
    <3> QED BY <1>3, <3>1, ReadsOfHead
  <2>4. Reads(txfifo) = Reads(txfifo') + (IF IsRead(cmd') THEN 1 ELSE 0)
    <3>1. ReadsFrom(txfifo', 1) = ReadsFrom(txfifo, 1 + 1) /\ cmd' = txfifo[1]
      BY <1>1, <1>3, <2>2
    <3>2. Reads(txfifo) = ReadsFrom(txfifo', 1) + (IF IsRead(cmd') THEN 1 ELSE 0)
      BY <1>3, <2>3, <3>1, Zenon
    <3> QED BY <2>1, <3>2, Zenon
  <2> QED BY <2>1, <2>2, <2>4
<1>5. NextByte' = NextByte /\ Pending' = Pending
  <2>1. NextByte' = NextByte
    BY <1>1 DEF NextByte, NextIndex, prog
  <2> QED BY <1>1, <1>2, <1>3, <1>4, <2>1 DEF Pending
<1>6. Balanced /\ InTurn
  BY <1>1 DEF Counted
<1>7. Balanced'
  BY <1>1, <1>5, <1>6 DEF Balanced, prog
<1>8. ASSUME NEW i \in 1 .. Len(txfifo'), IsRead(txfifo'[i])
      PROVE  txfifo'[i].arg = Before(NextByte', ReadsFrom(txfifo', i))
  <2>1. i \in 1 .. Len(txfifo) - 1 /\ i + 1 \in 1 .. Len(txfifo)
    BY <1>3
  <2> QED BY <1>3, <1>4, <1>5, <1>6, <1>8, <2>1 DEF InTurn
<1>9. ASSUME fsm' = "RX_BYTE" PROVE cmd'.arg = Before(NextByte', Reads(txfifo') + 1)
  <2>1. IsRead(txfifo[1]) /\ 1 \in 1 .. Len(txfifo) /\ cmd' = txfifo[1]
    BY <1>1, <1>2, <1>3, <1>9
  <2>2. txfifo[1].arg = Before(NextByte, ReadsFrom(txfifo, 1))
    BY <1>6, <2>1 DEF InTurn
  <2>3. ReadsFrom(txfifo, 1) = Reads(txfifo') + 1
    BY <1>3, <1>4, <2>1
  <2> QED BY <1>5, <2>1, <2>2, <2>3
<1>10. \A i \in 1 .. Len(rxfifo') :
         rxfifo'[i].arg = Before(NextByte', Len(rxfifo') + Pending' + 1 - i)
  BY <1>1, <1>5, <1>6 DEF InTurn
<1>11. InTurn'
  BY <1>8, <1>9, <1>10 DEF InTurn
<1> QED BY <1>7, <1>11 DEF Counted

\* With room for the bytes that can be owed, a byte received always fits.
LEMMA RoomForByte ==
  ASSUME Half >= 3, Control, Counted, fsm = "RX_BYTE"
  PROVE  Len(rxfifo) < FIFO_DEPTH
<1>1. ~nack_det
  BY DEF Control, Refused
<1>2. Len(rxfifo) + Pending = owed + (IF pc = "read" THEN 1 ELSE 0) /\ owed <= Half + 2
  BY <1>1 DEF Counted, Balanced
<1>3. Pending >= 1 /\ Pending \in Nat /\ Len(rxfifo) \in Nat /\ owed \in Nat
  BY Numbers DEF Pending, Control, Types
<1> QED BY <1>2, <1>3, Sizes

LEMMA ReceiveCounted ==
  ASSUME Half >= 3, Control, Counted, ReceiveByte, HardwareStep
  PROVE  Counted'
<1>1. /\ ~nack_det /\ fsm = "RX_BYTE" /\ fsm' # "RX_BYTE"
      /\ UNCHANGED <<nack_det, txfifo, cmd, prog, owed>>
      /\ rxfifo' = Append(rxfifo, cmd)
  <2>1. fsm = "RX_BYTE" /\ Len(rxfifo) # FIFO_DEPTH
    <3>1. fsm = "RX_BYTE" /\ Len(rxfifo) \in Nat
      BY Numbers DEF ReceiveByte
    <3> QED BY <3>1, RoomForByte, Sizes
  <2>2. ~nack_det
    BY <2>1 DEF Control, Refused
  <2> QED BY <2>1, <2>2 DEF ReceiveByte, HardwareStep
<1>2. /\ rxfifo \in Seq(CommandSet) /\ cmd \in CommandSet /\ Len(rxfifo) \in Nat
      /\ Reads(txfifo) \in Nat /\ owed \in Nat
  BY Numbers DEF Control, Types
<1>3. /\ Len(rxfifo') = Len(rxfifo) + 1
      /\ \A i \in 1 .. Len(rxfifo) : rxfifo'[i] = rxfifo[i]
      /\ rxfifo'[Len(rxfifo) + 1] = cmd
  BY <1>1, <1>2, AppendProperties
<1>4. NextByte' = NextByte /\ Reads(txfifo') = Reads(txfifo)
  BY <1>1 DEF NextByte, NextIndex, prog
<1>5. Pending = Reads(txfifo) + 1 /\ Pending' = Reads(txfifo)
  BY <1>1, <1>2, <1>4 DEF Pending
<1>6. Len(rxfifo') + Pending' = Len(rxfifo) + Pending
  BY <1>2, <1>3, <1>5
<1>7. Balanced /\ InTurn
  BY <1>1 DEF Counted
<1>8. Balanced'
  BY <1>1, <1>6, <1>7 DEF Balanced, prog
<1>9. ASSUME NEW i \in 1 .. Len(rxfifo')
      PROVE  rxfifo'[i].arg = Before(NextByte', Len(rxfifo') + Pending' + 1 - i)
  <2>1. CASE i \in 1 .. Len(rxfifo)
    BY <1>3, <1>4, <1>6, <1>7, <2>1 DEF InTurn
  <2>2. CASE i = Len(rxfifo) + 1
    <3>1. Len(rxfifo') + Pending' + 1 - i = Reads(txfifo) + 1
      BY <1>2, <1>3, <1>5, <2>2
    <3>2. cmd.arg = Before(NextByte, Reads(txfifo) + 1)
      BY <1>1, <1>7 DEF InTurn
    <3> QED BY <1>3, <1>4, <2>2, <3>1, <3>2
  <2> QED BY <1>2, <1>3, <2>1, <2>2
<1>10. \A i \in 1 .. Len(txfifo') :
         IsRead(txfifo'[i]) => txfifo'[i].arg = Before(NextByte', ReadsFrom(txfifo', i))
  BY <1>1, <1>4, <1>7 DEF InTurn
<1>11. InTurn'
  BY <1>1, <1>9, <1>10 DEF InTurn
<1> QED BY <1>8, <1>11 DEF Counted

LEMMA NextCounted ==
  ASSUME Half >= 3, Control, Counted, [Next]_vars
  PROVE  Counted'
<1>1. CASE Disable \/ Enable \/ Poll \/ Report
  <2>1. UNCHANGED <<txfifo, rxfifo, cmd, nack_det, owed>> /\ pc # "read" /\ pc' # "read"
    BY <1>1 DEF Disable, Enable, Poll, Report, WriteCtrl, core
  <2>2. NextIndex' = NextIndex
    BY <1>1, Sizes DEF Disable, Enable, Poll, Report, NextIndex, Control, Types, Waits, Index
  <2>3. fsm = "RX_BYTE" <=> fsm' = "RX_BYTE"
    BY <1>1 DEF Disable, Enable, Poll, Report, WriteCtrl, core
  <2> QED BY <2>1, <2>2, <2>3, NothingMoves
<1>2. CASE Push \/ Read
  BY <1>2, PushCounted, ReadCounted
<1>3. CASE HardwareStep
  <2>1. CASE PopFirst \/ PopNext
    BY <1>3, <2>1, PopCounted
  <2>2. CASE ReceiveByte
    BY <1>3, <2>2, ReceiveCounted
  <2>3. CASE GenStart \/ GenStop \/ LeavePreIdle \/ \E ack \in BOOLEAN : SendAddress(ack) \/ SendByte(ack)
    <3>1. CASE nack_det'
      BY <3>1 DEF Counted
    <3>2. CASE ~nack_det'
      <4>1. /\ UNCHANGED <<txfifo, rxfifo, cmd, nack_det>>
            /\ fsm # "RX_BYTE" /\ fsm' # "RX_BYTE"
        BY <2>3, <3>2 DEF GenStart, GenStop, LeavePreIdle, SendAddress, SendByte, Abort
      <4>2. UNCHANGED <<owed, pc, k>>
        BY <1>3, <3>2 DEF HardwareStep, prog
      <4>3. NextIndex' = NextIndex
        BY <4>2 DEF NextIndex
      <4> QED BY <4>1, <4>2, <4>3, NothingMoves
    <3> QED BY <3>1, <3>2
  <2> QED BY <1>3, <2>1, <2>2, <2>3 DEF HardwareStep, CoreStep
<1>4. CASE UNCHANGED vars
  <2>1. NextIndex' = NextIndex /\ UNCHANGED <<txfifo, rxfifo, cmd, nack_det, owed, pc, fsm>>
    BY <1>4 DEF vars, core, prog, NextIndex
  <2> QED BY <2>1, NothingMoves
<1> QED BY <1>1, <1>2, <1>3, <1>4 DEF Next, ProgramStep

(* With FIFOs of at least six places the inductive invariant about the     *)
(* bytes holds of every behaviour, whatever the length of a reading.       *)
THEOREM CountedHolds == ASSUME Half >= 3 PROVE Spec => []Counted
<1>1. Init => Control /\ Counted
  BY InitControl, InitCounted
<1>2. Control /\ Counted /\ [Next]_vars => (Control /\ Counted)'
  BY NextControl, NextCounted
<1>3. Spec => [](Control /\ Counted)
  BY <1>1, <1>2, PTL DEF Spec
<1> QED BY <1>3, PTL

(* Every register of the core and the program keeps its type; the number   *)
(* of bytes owed stays below the length of a FIFO and a reading.           *)
THEOREM TypeCorrect == ASSUME Half >= 3 PROVE Spec => []TypeOK
<1>1. ASSUME Control, Counted PROVE TypeOK
  <2>1. Types /\ Waits /\ Len(txfifo) \in Nat
    BY <1>1, Numbers DEF Control
  <2>2. Len(txfifo) <= FIFO_DEPTH
    BY <2>1, Sizes DEF Waits
  <2>3. owed \in 0 .. FIFO_DEPTH + Bytes
    <3>1. owed <= Half + 2
      <4>1. CASE nack_det
        BY <1>1, <4>1, Sizes DEF Control, Refused
      <4>2. CASE ~nack_det
        BY <1>1, <4>2 DEF Counted, Balanced
      <4> QED BY <4>1, <4>2
    <3> QED BY <2>1, <3>1, Sizes DEF Types
  <2> QED BY <2>1, <2>2, <2>3 DEF Types, TypeOK, Index
<1> QED BY <1>1, ControlHolds, CountedHolds, PTL

(* The bytes received and on their way are those of the reads that came    *)
(* too early: a read that misses leaves its byte, and nothing else does.   *)
THEOREM MissesAreBytes == ASSUME Half >= 3 PROVE Spec => []EveryMissLeavesAByte
<1>1. Counted => EveryMissLeavesAByte
  BY DEF Counted, Balanced, EveryMissLeavesAByte
<1> QED BY <1>1, CountedHolds, PTL

(* However many rounds leave bytes behind, the receive FIFO has room for   *)
(* the next one.                                                           *)
THEOREM NoByteIsDropped == ASSUME Half >= 3 PROVE Spec => []NoByteDropped
<1>1. Control /\ Counted => NoByteDropped
  BY RoomForByte DEF NoByteDropped
<1> QED BY <1>1, ControlHolds, CountedHolds, PTL

(* Every byte read is as many places before the one asked for as there     *)
(* have been reads that came too early.                                    *)
THEOREM ReadingsAreShifted == ASSUME Half >= 3 PROVE Spec => ReadingShifted
<1>1. ASSUME Control, Counted, pc = "read", rxfifo # << >>
      PROVE  Head(rxfifo).arg = (k - 5 - owed) % Bytes
  <2>1. ~nack_det
    BY <1>1 DEF Control, Refused
  <2>2. /\ Len(rxfifo) + Pending = owed + 1 /\ InTurn
        /\ Len(rxfifo) \in Nat /\ Pending \in Nat /\ owed \in Nat /\ rxfifo \in Seq(CommandSet)
        /\ k \in 5 .. Commands
    BY <1>1, <2>1, Numbers, Sizes DEF Counted, Balanced, Control, Types, Waits, Index
  <2>3. 1 \in 1 .. Len(rxfifo) /\ Head(rxfifo) = rxfifo[1]
    BY <1>1, <2>2, HeadTailProperties, EmptySeq
  <2>4. Head(rxfifo).arg = Before(NextByte, Len(rxfifo) + Pending + 1 - 1)
    BY <2>2, <2>3 DEF InTurn
  <2>5. Len(rxfifo) + Pending + 1 - 1 = owed + 1
    BY <2>2
  <2>6. NextByte = Following(k - 5) /\ k - 5 \in 0 .. Bytes - 1
    BY <1>1, <2>2, Sizes DEF NextByte, NextIndex, Succ, Following
  <2>7. Before(NextByte, owed + 1) = Before(k - 5, owed)
    BY <2>2, <2>6, FollowingByte
  <2> QED BY <2>4, <2>5, <2>7 DEF Before
<1>2. ASSUME Control, Counted, [Next]_vars
      PROVE  [pc = "read" /\ rxfifo # << >> => Head(rxfifo).arg = (k - 5 - owed) % Bytes]_vars
  BY <1>1, <1>2
<1> QED BY <1>2, ControlHolds, CountedHolds, PTL DEF Spec, ReadingShifted
=============================================================================
