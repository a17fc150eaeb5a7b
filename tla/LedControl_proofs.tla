-------------------------- MODULE LedControl_proofs --------------------------
(***************************************************************************)
(* For every set of threads and every character set: what a thread of      *)
(* main.c does to the lamps, whatever the other threads and the serial     *)
(* line do between its bus accesses.                                       *)
(***************************************************************************)
EXTENDS LedControl, TLAPS

(* What a thread knows between its accesses.  The value it is about to     *)
(* write switches its own lamp; and as long as no one else has changed the *)
(* lamps (calm), its tests still hold of them.                             *)
OutObeys(w) ==
    pc[w] = "write" =>
      /\ rx[w] = 0 => ~Lamp1(out[w])
      /\ rx[w] = 1 => Lamp1(out[w])
      /\ rx[w] = 2 => ~Lamp2(out[w])
      /\ rx[w] = 3 => Lamp2(out[w])
      /\ rx[w] \notin Command => out[w] = Off

TestsHold(w) ==
    /\ pc[w] \in {"first", "second"} => rx[w] \in Command
    /\ pc[w] = "second" /\ calm[w] => LED # Table[rx[w]][1]
    /\ pc[w] = "write" /\ calm[w] => out[w] = Apply(rx[w], LED)

IInv ==
    /\ TypeOK
    /\ NoCommandBeforeChar
    /\ ReadyIsUntaken
    /\ rx_char_ready => received
    /\ \A w \in Workers : OutObeys(w) /\ TestsHold(w)

(* The rows of the switch.                                                 *)
LEMMA TableFacts ==
  /\ Table[0] = <<255, 240, 240, 240, 0>>
  /\ Table[1] = <<240, 255, 255, 255, 15>>
  /\ Table[2] = <<255, 15, 15, 15, 0>>
  /\ Table[3] = <<15, 255, 255, 255, 240>>
BY DEF Table, Command, Row, Off, One, Two, Both

(* The switch meets the meaning of its commands: on a match of the first   *)
(* test, and in both outcomes of the second when the first did not match.  *)
LEMMA SwitchIsApply ==
  ASSUME NEW c \in Command, NEW v \in LedValue
  PROVE  /\ Table[c][2] \in LedValue /\ Table[c][4] \in LedValue /\ Table[c][5] \in LedValue
         /\ v = Table[c][1] => Table[c][2] = Apply(c, v)
         /\ v # Table[c][1] /\ v = Table[c][3] => Table[c][4] = Apply(c, v)
         /\ v # Table[c][1] /\ v # Table[c][3] => Table[c][5] = Apply(c, v)
<1> USE TableFacts DEF LedValue, Off, One, Two, Both, Apply, Lamps, Lamp1, Lamp2
<1>0. CASE c = 0
  BY <1>0
<1>1. CASE c = 1
  BY <1>1
<1>2. CASE c = 2
  BY <1>2
<1>3. CASE c = 3
  BY <1>3
<1> QED BY <1>0, <1>1, <1>2, <1>3 DEF Command

(* Every value a row writes has the lamp of its command switched.          *)
LEMMA SwitchObeys ==
  ASSUME NEW c \in Command, NEW i \in {2, 4, 5}
  PROVE  /\ c = 0 => ~Lamp1(Table[c][i])
         /\ c = 1 => Lamp1(Table[c][i])
         /\ c = 2 => ~Lamp2(Table[c][i])
         /\ c = 3 => Lamp2(Table[c][i])
<1> USE TableFacts DEF Off, One, Two, Both, Lamp1, Lamp2
<1>2. CASE i = 2
  BY <1>2
<1>4. CASE i = 4
  BY <1>4
<1>5. CASE i = 5
  BY <1>5
<1> QED BY <1>2, <1>4, <1>5

LEMMA LowBitsRange == ASSUME NEW c \in Char \cup {0} PROVE LowBits(c) \in 0 .. 15
<1>1. c \in Nat
  BY CharAssumption
<1> QED BY <1>1 DEF LowBits

LEMMA InitIInv == Init => IInv
BY DEF Init, UartInit, UartTypeOK, IInv, TypeOK, PC, LedValue, NoCommandBeforeChar,
   ReadyIsUntaken, OutObeys, TestsHold, Off

(* A clock of the UART keeps its registers typed.                          *)
LEMMA UartTyped ==
  ASSUME UartTypeOK, NEW rd \in BOOLEAN, NEW sw \in BOOLEAN, NEW new \in Arrival,
         UartClock(rd, sw, new)
  PROVE  UartTypeOK'
BY DEF UartTypeOK, UartClock, NextReady, NextOverrun, Arrival

(* What an arrival does to the histories and to RRDY.                      *)
LEMMA HearFacts ==
  ASSUME IInv, NEW rd \in BOOLEAN, NEW sw \in BOOLEAN, NEW new \in Arrival,
         NEW givenTo \in SUBSET Workers, givenTo = {} \/ rd,
         UartClock(rd, sw, new), Hear(new, givenTo)
  PROVE  /\ UartTypeOK' /\ taken' \subseteq Workers /\ received' \in BOOLEAN
         /\ ReadyIsUntaken'
         /\ received => received'
         /\ rx_char_ready' => received'
<1>1. UartTypeOK' /\ taken' \subseteq Workers /\ received' \in BOOLEAN /\ (received => received')
  BY UartTyped DEF IInv, TypeOK, Hear
<1>2. CASE new = NoChar
  BY <1>1, <1>2 DEF IInv, ReadyIsUntaken, UartClock, NextReady, Hear, Arrival
<1>3. CASE new # NoChar
  BY <1>1, <1>3 DEF IInv, ReadyIsUntaken, UartClock, NextReady, Hear, Arrival
<1> QED BY <1>1, <1>2, <1>3

(* Steps that touch no thread and not the lamps.                           *)
LEMMA QuietIInv ==
  ASSUME IInv, UNCHANGED <<LED, threads, calm>>,
         /\ UartTypeOK' /\ taken' \subseteq Workers /\ received' \in BOOLEAN
         /\ ReadyIsUntaken'
         /\ received => received'
         /\ rx_char_ready' => received',
         main' \in {"reset", "create"}
  PROVE  IInv'
BY DEF IInv, threads, TypeOK, NoCommandBeforeChar, OutObeys, TestsHold

LEMMA ReceiveIInv == ASSUME IInv, NEW c \in Char, Receive(c) PROVE IInv'
<1>1. c \in Arrival
  BY DEF Arrival
<1>2. /\ UartTypeOK' /\ taken' \subseteq Workers /\ received' \in BOOLEAN
      /\ ReadyIsUntaken' /\ (received => received') /\ (rx_char_ready' => received')
  BY <1>1, HearFacts DEF Receive
<1> QED BY <1>2, QuietIInv DEF Receive, IInv, TypeOK

LEMMA ResetStatusIInv == ASSUME IInv, NEW new \in Arrival, ResetStatus(new) PROVE IInv'
<1>1. /\ UartTypeOK' /\ taken' \subseteq Workers /\ received' \in BOOLEAN
      /\ ReadyIsUntaken' /\ (received => received') /\ (rx_char_ready' => received')
  BY HearFacts DEF ResetStatus
<1> QED BY <1>1, QuietIInv DEF ResetStatus

LEMMA CreateThreadFailsIInv == ASSUME IInv, CreateThreadFails PROVE IInv'
BY QuietIInv DEF CreateThreadFails, uart, history, IInv, TypeOK, UartTypeOK, ReadyIsUntaken

(* A step of thread w that leaves the UART, the lamps and the histories    *)
(* alone preserves the invariant if it does for w itself.                  *)
LEMMA OneThreadIInv ==
  ASSUME IInv, NEW w \in Workers, UNCHANGED <<uart, LED, taken, received>>,
         main' \in {"reset", "create"},
         NEW p \in PC, NEW o \in LedValue, NEW k \in BOOLEAN,
         pc' = [pc EXCEPT ![w] = p],
         out' = [out EXCEPT ![w] = o],
         calm' = [calm EXCEPT ![w] = k],
         rx' = rx,
         p \in {"rx", "first", "second", "write", "done"} => received,
         OutObeys(w)', TestsHold(w)'
  PROVE  IInv'
<1>1. TypeOK'
  BY DEF IInv, TypeOK, UartTypeOK, uart
<1>2. NoCommandBeforeChar'
  BY DEF IInv, TypeOK, NoCommandBeforeChar
<1>3. ReadyIsUntaken' /\ (rx_char_ready' => received')
  BY DEF IInv, ReadyIsUntaken, uart
<1>4. ASSUME NEW v \in Workers PROVE OutObeys(v)' /\ TestsHold(v)'
  <2>1. CASE v # w
    <3>1. pc'[v] = pc[v] /\ out'[v] = out[v] /\ calm'[v] = calm[v] /\ rx'[v] = rx[v]
      BY <2>1 DEF IInv, TypeOK
    <3>2. OutObeys(v) /\ TestsHold(v)
      BY DEF IInv
    <3> QED BY <3>1, <3>2 DEF OutObeys, TestsHold
  <2> QED BY <2>1
<1> QED BY <1>1, <1>2, <1>3, <1>4 DEF IInv

LEMMA CreateThreadIInv == ASSUME IInv, NEW w \in Workers, CreateThread(w) PROVE IInv'
<1>1. /\ pc' = [pc EXCEPT ![w] = "check"] /\ pc'[w] = "check"
      /\ out' = [out EXCEPT ![w] = out[w]] /\ out[w] \in LedValue
      /\ calm' = [calm EXCEPT ![w] = calm[w]] /\ calm[w] \in BOOLEAN
      /\ rx' = rx /\ main' \in {"reset", "create"}
      /\ UNCHANGED <<uart, LED, taken, received>>
  BY DEF CreateThread, history, IInv, TypeOK
<1>2. OutObeys(w)' /\ TestsHold(w)'
  BY <1>1 DEF OutObeys, TestsHold
<1>3. "check" \in PC /\ "check" \notin {"rx", "first", "second", "write", "done"}
  BY DEF PC
<1> HIDE DEF PC
<1> QED BY <1>1, <1>2, <1>3, OneThreadIInv

LEMMA CheckRxIInv == ASSUME IInv, NEW w \in Workers, CheckRx(w) PROVE IInv'
<1> DEFINE p == AfterCheck(rx_char_ready)
<1>1. p \in PC /\ p \in {"rx", "spin"} /\ (p = "rx" => received)
  BY DEF AfterCheck, PC, IInv
<1>2. /\ pc' = [pc EXCEPT ![w] = p] /\ pc'[w] = p
      /\ out' = [out EXCEPT ![w] = out[w]] /\ out[w] \in LedValue
      /\ calm' = [calm EXCEPT ![w] = calm[w]] /\ calm[w] \in BOOLEAN
      /\ rx' = rx /\ main' \in {"reset", "create"}
      /\ UNCHANGED <<uart, LED, taken, received>>
  BY DEF CheckRx, history, IInv, TypeOK
<1> HIDE DEF p
<1>3. OutObeys(w)' /\ TestsHold(w)'
  BY <1>1, <1>2 DEF OutObeys, TestsHold
<1>4. p \in {"rx", "first", "second", "write", "done"} => received
  BY <1>1
<1> QED BY <1>1, <1>2, <1>3, <1>4, OneThreadIInv

LEMMA FirstTestIInv == ASSUME IInv, NEW w \in Workers, FirstTest(w) PROVE IInv'
<1> DEFINE p == AfterFirst(w)
           o == IF p = "write" THEN Table[rx[w]][2] ELSE out[w]
<1>1. rx[w] \in Command /\ LED \in LedValue /\ out[w] \in LedValue /\ received
  BY DEF FirstTest, IInv, TypeOK, TestsHold, NoCommandBeforeChar
<1>2. p \in {"write", "second"} /\ (p = "write" <=> LED = Table[rx[w]][1])
  BY DEF AfterFirst
<1>3. /\ pc' = [pc EXCEPT ![w] = p] /\ pc'[w] = p
      /\ out' = [out EXCEPT ![w] = o] /\ out'[w] = o
      /\ calm' = [calm EXCEPT ![w] = TRUE] /\ rx' = rx /\ main' \in {"reset", "create"}
      /\ UNCHANGED <<uart, LED, taken, received>>
  BY DEF FirstTest, IInv, TypeOK
<1>4. o \in LedValue
  BY <1>1, SwitchIsApply
<1>5. OutObeys(w)'
  <2>1. CASE p = "write"
    BY <1>1, <1>3, <2>1, SwitchObeys DEF OutObeys
  <2>2. CASE p # "write"
    BY <1>3, <2>2 DEF OutObeys
  <2> QED BY <2>1, <2>2
<1>6. TestsHold(w)'
  <2>1. CASE p = "write"
    <3>1. o = Apply(rx[w], LED)
      BY <1>1, <1>2, <2>1, SwitchIsApply
    <3>2. out'[w] = Apply(rx'[w], LED') /\ pc'[w] = "write"
      BY <1>3, <2>1, <3>1
    <3> QED BY <3>2 DEF TestsHold
  <2>2. CASE p = "second"
    BY <1>1, <1>2, <1>3, <2>2 DEF TestsHold, Table
  <2> QED BY <1>2, <2>1, <2>2
<1>7. p \in PC
  BY <1>2 DEF PC
<1> HIDE DEF p, o
<1> QED BY <1>1, <1>3, <1>4, <1>5, <1>6, <1>7, OneThreadIInv

LEMMA SecondTestIInv == ASSUME IInv, NEW w \in Workers, SecondTest(w) PROVE IInv'
<1> DEFINE o == SecondValue(w)
<1>1. /\ rx[w] \in Command /\ LED \in LedValue /\ calm[w] \in BOOLEAN /\ received
      /\ calm[w] => LED # Table[rx[w]][1]
  BY DEF SecondTest, IInv, TypeOK, TestsHold, NoCommandBeforeChar
<1>2. /\ pc' = [pc EXCEPT ![w] = "write"] /\ pc'[w] = "write"
      /\ out' = [out EXCEPT ![w] = o] /\ out'[w] = o
      /\ calm' = [calm EXCEPT ![w] = calm[w]] /\ rx' = rx /\ main' \in {"reset", "create"}
      /\ UNCHANGED <<uart, LED, taken, received>>
  BY DEF SecondTest, IInv, TypeOK, history
<1>3. o = IF LED = Table[rx[w]][3] THEN Table[rx[w]][4] ELSE Table[rx[w]][5]
  BY DEF SecondValue
<1>4. o \in LedValue
  BY <1>1, <1>3, SwitchIsApply
<1>5. OutObeys(w)'
  BY <1>1, <1>2, <1>3, SwitchObeys DEF OutObeys
<1>6. TestsHold(w)'
  <2>1. calm[w] => o = Apply(rx[w], LED)
    BY <1>1, <1>3, SwitchIsApply
  <2>2. calm'[w] = calm[w]
    BY <1>2 DEF IInv, TypeOK
  <2>3. calm'[w] => out'[w] = Apply(rx'[w], LED')
    BY <1>2, <2>1, <2>2
  <2> QED BY <1>2, <2>3 DEF TestsHold
<1>7. "write" \in PC
  BY DEF PC
<1> HIDE DEF o, PC
<1> QED BY <1>1, <1>2, <1>4, <1>5, <1>6, <1>7, OneThreadIInv

LEMMA ReadRxIInv ==
  ASSUME IInv, NEW w \in Workers, NEW new \in Arrival, ReadRx(w, new)
  PROVE  IInv'
<1>1. /\ UartTypeOK' /\ taken' \subseteq Workers /\ received' \in BOOLEAN
      /\ ReadyIsUntaken' /\ (received => received') /\ (rx_char_ready' => received')
  BY HearFacts DEF ReadRx
<1> DEFINE r == LowBits(rx_data)
           p == IF r \in Command THEN "first" ELSE "write"
<1>2. r \in 0 .. 15 /\ received
  BY LowBitsRange DEF IInv, TypeOK, UartTypeOK, NoCommandBeforeChar, ReadRx
<1>3. /\ rx' = [rx EXCEPT ![w] = r] /\ pc' = [pc EXCEPT ![w] = p]
      /\ out' = [out EXCEPT ![w] = Off] /\ calm' = calm /\ LED' = LED /\ main' = main
  BY DEF ReadRx
<1>4. p \in {"first", "write"} /\ (p = "first" <=> r \in Command)
  OBVIOUS
<1> HIDE DEF r, p
<1>5. pc'[w] = p /\ rx'[w] = r /\ out'[w] = Off
  BY <1>3 DEF IInv, TypeOK
<1>6. TypeOK'
  <2>1. Off \in LedValue /\ p \in PC
    BY <1>4 DEF LedValue, PC
  <2> HIDE DEF LedValue, PC
  <2> QED BY <1>1, <1>2, <1>3, <2>1 DEF IInv, TypeOK
<1>7. NoCommandBeforeChar'
  BY <1>1, <1>2 DEF NoCommandBeforeChar
<1>8. OutObeys(w)' /\ TestsHold(w)'
  <2>1. CASE r \in Command
    BY <1>4, <1>5, <2>1 DEF OutObeys, TestsHold
  <2>2. CASE r \notin Command
    BY <1>2, <1>4, <1>5, <2>2 DEF OutObeys, TestsHold, Apply, Command
  <2> QED BY <2>1, <2>2
<1>9. ASSUME NEW v \in Workers, v # w PROVE OutObeys(v)' /\ TestsHold(v)'
  <2>1. pc'[v] = pc[v] /\ out'[v] = out[v] /\ calm'[v] = calm[v] /\ rx'[v] = rx[v] /\ LED' = LED
    BY <1>3, <1>9 DEF IInv, TypeOK
  <2>2. OutObeys(v) /\ TestsHold(v)
    BY DEF IInv
  <2> QED BY <2>1, <2>2 DEF OutObeys, TestsHold
<1> QED BY <1>1, <1>6, <1>7, <1>8, <1>9 DEF IInv

LEMMA WriteLedIInv == ASSUME IInv, NEW w \in Workers, WriteLed(w) PROVE IInv'
<1>1. /\ pc' = [pc EXCEPT ![w] = "done"] /\ rx' = [rx EXCEPT ![w] = 0]
      /\ out' = [out EXCEPT ![w] = Off] /\ LED' = out[w] /\ main' = main
      /\ calm' = [v \in Workers |-> v # w /\ calm[v] /\ LED' = LED]
      /\ UNCHANGED <<rx_data, rx_char_ready, rx_overrun, taken, received>>
  BY DEF WriteLed, uart
<1>2. TypeOK'
  <2>1. Off \in LedValue /\ "done" \in PC /\ 0 \in 0 .. 15
    BY DEF LedValue, PC
  <2>2. calm' \in [Workers -> BOOLEAN]
    BY <1>1 DEF IInv, TypeOK
  <2> HIDE DEF LedValue, PC
  <2> QED BY <1>1, <2>1, <2>2 DEF IInv, TypeOK, UartTypeOK
<1>3. NoCommandBeforeChar' /\ ReadyIsUntaken' /\ (rx_char_ready' => received')
  <2>1. received
    BY DEF WriteLed, IInv, NoCommandBeforeChar
  <2> QED BY <1>1, <2>1 DEF IInv, NoCommandBeforeChar, ReadyIsUntaken
<1>4. ASSUME NEW v \in Workers PROVE OutObeys(v)' /\ TestsHold(v)'
  <2>1. CASE v = w
    <3>1. pc'[v] = "done"
      BY <1>1, <2>1 DEF IInv, TypeOK
    <3> QED BY <3>1 DEF OutObeys, TestsHold
  <2>2. CASE v # w
    <3>1. /\ pc'[v] = pc[v] /\ out'[v] = out[v] /\ rx'[v] = rx[v]
          /\ calm'[v] => calm[v] /\ LED' = LED
      BY <1>1, <2>2 DEF IInv, TypeOK
    <3>2. OutObeys(v) /\ TestsHold(v)
      BY DEF IInv
    <3>3. OutObeys(v)'
      BY <3>1, <3>2 DEF OutObeys
    <3>4. CASE calm'[v]
      BY <3>1, <3>2, <3>3, <3>4 DEF TestsHold
    <3>5. CASE ~calm'[v]
      BY <3>1, <3>2, <3>3, <3>5 DEF TestsHold
    <3> QED BY <3>4, <3>5
  <2> QED BY <2>1, <2>2
<1> QED BY <1>2, <1>3, <1>4 DEF IInv

LEMMA NextIInv == IInv /\ [Next]_vars => IInv'
<1> SUFFICES ASSUME IInv, [Next]_vars PROVE IInv'
  OBVIOUS
<1>1. CASE \E c \in Char : Receive(c)
  BY <1>1, ReceiveIInv
<1>2. CASE MainStep
  BY <1>2, ResetStatusIInv, CreateThreadIInv, CreateThreadFailsIInv DEF MainStep
<1>3. ASSUME NEW w \in Workers, WorkerStep(w) PROVE IInv'
  BY <1>3, CheckRxIInv, ReadRxIInv, FirstTestIInv, SecondTestIInv, WriteLedIInv DEF WorkerStep
<1>4. CASE UNCHANGED vars
  BY <1>4 DEF vars, uart, threads, history, IInv, TypeOK, UartTypeOK, NoCommandBeforeChar,
     ReadyIsUntaken, OutObeys, TestsHold
<1> QED BY <1>1, <1>2, <1>3, <1>4 DEF Next

THEOREM InvariantHolds == Spec => []IInv
BY InitIInv, NextIInv, PTL DEF Spec

(* TypeOK of the run: the LED register only ever holds one of the four     *)
(* lamp patterns.                                                          *)
THEOREM TypeCorrect == Spec => []TypeOK
BY InvariantHolds, PTL DEF IInv

(* NoCommandBeforeChar of the run.                                         *)
THEOREM NoPhantomCommand == Spec => []NoCommandBeforeChar
BY InvariantHolds, PTL DEF IInv

(* ReadyIsUntaken of the run.                                              *)
THEOREM ReadyMeansUntaken == Spec => []ReadyIsUntaken
BY InvariantHolds, PTL DEF IInv

-----------------------------------------------------------------------------
(* A step in which a thread writes is that thread's WriteLed.              *)
LEMMA CommitIsWrite ==
  ASSUME IInv, [Next]_vars, NEW w \in Workers, Commits(w)
  PROVE  LED' = out[w]
<1>1. pc[w] = "write" /\ pc'[w] = "done"
  BY DEF Commits
<1>2. ASSUME NEW v \in Workers, WorkerStep(v) PROVE LED' = out[w]
  <2>1. CASE WriteLed(v)
    BY <1>1, <2>1 DEF WriteLed, IInv, TypeOK
  <2>2. CASE CheckRx(v)
    BY <1>1, <2>2 DEF CheckRx, AfterCheck, IInv, TypeOK
  <2>3. CASE \E new \in Arrival : ReadRx(v, new)
    BY <1>1, <2>3 DEF ReadRx, IInv, TypeOK
  <2>4. CASE FirstTest(v)
    BY <1>1, <2>4 DEF FirstTest, AfterFirst, IInv, TypeOK
  <2>5. CASE SecondTest(v)
    BY <1>1, <2>5 DEF SecondTest, IInv, TypeOK
  <2> QED BY <1>2, <2>1, <2>2, <2>3, <2>4, <2>5 DEF WorkerStep
<1>3. CASE MainStep
  BY <1>1, <1>3 DEF MainStep, ResetStatus, CreateThread, CreateThreadFails, threads, IInv, TypeOK
<1>4. CASE \E c \in Char : Receive(c)
  BY <1>1, <1>4 DEF Receive, threads
<1>5. CASE UNCHANGED vars
  BY <1>1, <1>5 DEF vars, threads
<1> QED BY <1>2, <1>3, <1>4, <1>5 DEF Next

(* OwnLampObeys of the run: no interleaving of any number of threads makes *)
(* a command leave its own lamp in the other state.                        *)
THEOREM OwnLampAlwaysObeys == Spec => OwnLampObeys
<1>1. ASSUME IInv, [Next]_vars, NEW w \in Workers, Commits(w)
      PROVE  /\ rx[w] \in {0, 1} => (Lamp1(LED') <=> rx[w] = 1)
             /\ rx[w] \in {2, 3} => (Lamp2(LED') <=> rx[w] = 3)
  <2>1. LED' = out[w] /\ OutObeys(w) /\ pc[w] = "write"
    BY <1>1, CommitIsWrite DEF IInv, Commits
  <2>2. /\ rx[w] = 0 => ~Lamp1(LED')
        /\ rx[w] = 1 => Lamp1(LED')
        /\ rx[w] = 2 => ~Lamp2(LED')
        /\ rx[w] = 3 => Lamp2(LED')
    BY <2>1 DEF OutObeys
  <2> QED BY <2>2
<1>2. IInv /\ [Next]_vars => [\A w \in Workers : Commits(w) =>
         /\ rx[w] \in {0, 1} => (Lamp1(LED') <=> rx[w] = 1)
         /\ rx[w] \in {2, 3} => (Lamp2(LED') <=> rx[w] = 3)]_vars
  BY <1>1
<1> QED BY InvariantHolds, <1>2, PTL DEF Spec, OwnLampObeys

(* UndisturbedIsAtomic of the run.                                         *)
THEOREM UndisturbedAlwaysAtomic == Spec => UndisturbedIsAtomic
<1>1. IInv /\ [Next]_vars =>
        [\A w \in Workers : Commits(w) /\ calm[w] => LED' = Apply(rx[w], LED)]_vars
  <2> SUFFICES ASSUME IInv, [Next]_vars, NEW w \in Workers, Commits(w), calm[w]
               PROVE  LED' = Apply(rx[w], LED)
    OBVIOUS
  <2>1. LED' = out[w] /\ TestsHold(w) /\ pc[w] = "write"
    BY CommitIsWrite DEF IInv, Commits
  <2> QED BY <2>1 DEF TestsHold
<1> QED BY InvariantHolds, <1>1, PTL DEF Spec, UndisturbedIsAtomic
=============================================================================
