----------------------------- MODULE LedControl -----------------------------
(***************************************************************************)
(* The remote control of the two lamps in main.c: the main loop starts one *)
(* thread per round, each thread tests RRDY once, takes the character from *)
(* the UART and updates the LED register by reading it once or twice and   *)
(* writing it once.  Nothing orders the threads of different rounds.       *)
(*                                                                         *)
(* The program is built without optimisation (Makefile), so every access   *)
(* the source writes is one access to the bus, in source order; one step   *)
(* is one such access, or a character arriving between two of them.        *)
(* A thread is neither joined nor detached: it never gives its resources   *)
(* back, and when all of Workers are used up pthread_create fails.         *)
(***************************************************************************)
EXTENDS AvalonUartRx

CONSTANTS Workers    \* the threads the process can create before it runs out

VARIABLES LED,       \* the data register of led_pio
          main,      \* what the main loop does next
          pc,        \* what each thread does next
          rx,        \* its rx_data: the low four bits of the character
          out,       \* the value its next write gives the LED register
          calm,      \* history: no one else changed the lamps since its first read
          taken,     \* history: who has been given the character in rx_data
          received   \* history: a character has been pending

threads == <<pc, rx, out>>
history == <<calm, taken, received>>
vars == <<uart, LED, main, threads, history>>

(* Register values: bits 0-3 are wired to lamp 1, bits 4-7 to lamp 2.      *)
Off == 0
One == 15
Two == 240
Both == 255
LedValue == {Off, One, Two, Both}

PC == {"none", "check", "spin", "rx", "first", "second", "write", "done"}

TypeOK ==
    /\ UartTypeOK
    /\ LED \in LedValue
    /\ main \in {"reset", "create"}
    /\ pc \in [Workers -> PC]
    /\ rx \in [Workers -> 0 .. 15]
    /\ out \in [Workers -> LedValue]
    /\ calm \in [Workers -> BOOLEAN]
    /\ taken \subseteq Workers
    /\ received \in BOOLEAN

-----------------------------------------------------------------------------
(* The switch of threadFunc.  For the four commands: the value the first   *)
(* test compares with and the value written on a match, the same for the   *)
(* second test, and the value written otherwise.                           *)
Row(t1, v1, t2, v2, else) == <<t1, v1, t2, v2, else>>

Command == 0 .. 3

TableSwapped ==
    [c \in Command |->
       IF c = 1 THEN Row(Two, Both, Both, Both, One)
       ELSE IF c = 3 THEN Row(One, Both, Both, Both, Two)
       ELSE IF c = 2 THEN Row(Both, Two, One, One, Off)
       ELSE Row(Both, Two, Two, Two, Off)]

Table ==
    [c \in Command |->
       IF c = 1 THEN Row(Two, Both, Both, Both, One)
       ELSE IF c = 3 THEN Row(One, Both, Both, Both, Two)
       ELSE IF c = 2 THEN Row(Both, One, One, One, Off)
       ELSE Row(Both, Two, Two, Two, Off)]

-----------------------------------------------------------------------------
Init ==
    /\ UartInit
    /\ LED \in LedValue
    /\ main = "reset"
    /\ pc = [w \in Workers |-> "none"]
    /\ rx = [w \in Workers |-> 0]
    /\ out = [w \in Workers |-> Off]
    /\ calm = [w \in Workers |-> FALSE]
    /\ taken = {}
    /\ received = rx_char_ready

(* What an arriving character does to the histories; givenTo is the thread *)
(* that reads rxdata in this clock, if any.                                *)
Hear(new, givenTo) ==
    /\ taken' = IF new # NoChar THEN {} ELSE taken \cup givenTo
    /\ received' = (received \/ new # NoChar)

Receive(c) ==
    /\ UartClock(FALSE, FALSE, c)
    /\ Hear(c, {})
    /\ UNCHANGED <<LED, main, threads, calm>>

(* initUART writes the divisor it had; resetStatus clears the error bits.  *)
ResetStatus(new) ==
    /\ main = "reset"
    /\ main' = "create"
    /\ UartClock(FALSE, TRUE, new)
    /\ Hear(new, {})
    /\ UNCHANGED <<LED, threads, calm>>

CreateThread(w) ==
    /\ main = "create"
    /\ main' = "reset"
    /\ pc[w] = "none"
    /\ pc' = [pc EXCEPT ![w] = "check"]
    /\ UNCHANGED <<uart, LED, rx, out, history>>

(* pthread_create fails: the round goes on without a thread.               *)
CreateThreadFails ==
    /\ main = "create"
    /\ main' = "reset"
    /\ \A w \in Workers : pc[w] # "none"
    /\ UNCHANGED <<uart, LED, threads, history>>

-----------------------------------------------------------------------------
(* Slips of the test: not looking at the sampled bit at all.               *)
AfterCheckBlind(ready) == "rx"

AfterCheck(ready) == IF ready THEN "rx" ELSE "spin"

(* The status register is read once.  A thread that saw RRDY clear loops   *)
(* on its own copy of the bit, which nothing changes any more.             *)
CheckRx(w) ==
    /\ pc[w] = "check"
    /\ pc' = [pc EXCEPT ![w] = AfterCheck(rx_char_ready)]
    /\ UNCHANGED <<uart, LED, main, rx, out, history>>

(* The & 0xf, and its omission.                                            *)
LowBitsUnmasked(c) == c

LowBits(c) == c % 16

ReadRx(w, new) ==
    /\ pc[w] = "rx"
    /\ rx' = [rx EXCEPT ![w] = LowBits(rx_data)]
    /\ pc' = [pc EXCEPT ![w] = IF LowBits(rx_data) \in Command THEN "first" ELSE "write"]
    /\ out' = [out EXCEPT ![w] = Off]
    /\ UartClock(TRUE, FALSE, new)
    /\ Hear(new, {w})
    /\ UNCHANGED <<LED, main, calm>>

(* A slip of the first test: repeating it until it matches.                *)
AfterFirstRetry(w) == IF LED = Table[rx[w]][1] THEN "write" ELSE "first"

AfterFirst(w) == IF LED = Table[rx[w]][1] THEN "write" ELSE "second"

(* First if: a read of the LED register.                                   *)
FirstTest(w) ==
    /\ pc[w] = "first"
    /\ calm' = [calm EXCEPT ![w] = TRUE]
    /\ pc' = [pc EXCEPT ![w] = AfterFirst(w)]
    /\ out' = [out EXCEPT ![w] = IF pc'[w] = "write" THEN Table[rx[w]][2] ELSE out[w]]
    /\ UNCHANGED <<uart, LED, main, rx, taken, received>>

(* A slip of the else-if: deciding by the first test alone.                *)
SecondValueElse(w) == Table[rx[w]][5]

SecondValue(w) ==
    IF LED = Table[rx[w]][3] THEN Table[rx[w]][4] ELSE Table[rx[w]][5]

(* Else if: another read of the LED register.                              *)
SecondTest(w) ==
    /\ pc[w] = "second"
    /\ out' = [out EXCEPT ![w] = SecondValue(w)]
    /\ pc' = [pc EXCEPT ![w] = "write"]
    /\ UNCHANGED <<uart, LED, main, rx, history>>

(* The write and pthread_exit; the locals of the thread are gone.          *)
WriteLed(w) ==
    /\ pc[w] = "write"
    /\ LED' = out[w]
    /\ pc' = [pc EXCEPT ![w] = "done"]
    /\ rx' = [rx EXCEPT ![w] = 0]
    /\ out' = [out EXCEPT ![w] = Off]
    /\ calm' = [v \in Workers |-> v # w /\ calm[v] /\ LED' = LED]
    /\ UNCHANGED <<uart, main, taken, received>>

WorkerStep(w) ==
    \/ CheckRx(w)
    \/ \E new \in Arrival : ReadRx(w, new)
    \/ FirstTest(w)
    \/ SecondTest(w)
    \/ WriteLed(w)

MainStep ==
    \/ \E new \in Arrival : ResetStatus(new)
    \/ \E w \in Workers : CreateThread(w)
    \/ CreateThreadFails

Next ==
    \/ \E c \in Char : Receive(c)
    \/ MainStep
    \/ \E w \in Workers : WorkerStep(w)

Spec == Init /\ [][Next]_vars

(* The kernel runs every thread; the serial line promises nothing.         *)
FairSpec ==
    /\ Spec
    /\ WF_vars(MainStep)
    /\ \A w \in Workers : WF_vars(WorkerStep(w))

-----------------------------------------------------------------------------
(* What the four commands mean, as a function of both lamps.               *)
Lamp1(v) == v \in {One, Both}
Lamp2(v) == v \in {Two, Both}
Lamps(l1, l2) == IF l1 THEN IF l2 THEN Both ELSE One ELSE IF l2 THEN Two ELSE Off

Apply(c, v) ==
    IF c \in Command
      THEN Lamps(IF c \in {0, 1} THEN c = 1 ELSE Lamp1(v),
                 IF c \in {2, 3} THEN c = 3 ELSE Lamp2(v))
      ELSE Off

Commits(w) == pc[w] = "write" /\ pc'[w] = "done"

(* Whatever the other threads do between its reads and its write, a thread *)
(* leaves the lamp it was told to switch as it was told (main.c:136-200).  *)
OwnLampObeys ==
    [][\A w \in Workers : Commits(w) =>
         /\ rx[w] \in {0, 1} => (Lamp1(LED') <=> rx[w] = 1)
         /\ rx[w] \in {2, 3} => (Lamp2(LED') <=> rx[w] = 3)]_vars

(* A thread that no one disturbed between its first read and its write     *)
(* applies its command to the lamps as they are: the other lamp keeps its  *)
(* state.  This is all the two reads and the write guarantee: a thread of  *)
(* another round in between can make it undo what that thread did.         *)
UndisturbedIsAtomic ==
    [][\A w \in Workers : Commits(w) /\ calm[w] => LED' = Apply(rx[w], LED)]_vars

(* No thread acts before a character has been pending: the zero rx_data    *)
(* holds after reset, which is command 0, is never taken for one.          *)
NoCommandBeforeChar ==
    \A w \in Workers : pc[w] \in {"rx", "first", "second", "write", "done"} => received

(* RRDY is only set while no thread has been given the character; the      *)
(* same character can only be given twice to threads that tested RRDY      *)
(* before the first of them read it.                                       *)
ReadyIsUntaken == rx_char_ready => taken = {} /\ rx_data \in Char

(* A thread that saw RRDY set completes its command.                       *)
CommandCompletes == \A w \in Workers : pc[w] = "rx" ~> pc[w] = "done"

(* A thread waiting for RRDY goes on when RRDY is set ("check RRDY in      *)
(* status register uart", main.c:125).                                     *)
WaitingThreadWakes ==
    \A w \in Workers : (pc[w] = "spin" /\ rx_char_ready) ~> pc[w] # "spin"
=============================================================================
