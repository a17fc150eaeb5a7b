---------------------------- MODULE AvalonUartRx ----------------------------
(***************************************************************************)
(* The receive side of the UART core uart_0 as software sees it: the       *)
(* rxdata register, the RRDY and ROE bits of the status register, and what *)
(* one clock edge does to them (soc_system_uart_0.v).  The shift register, *)
(* the baud clock and the BRK and FE bits are left out: they decide when a *)
(* character arrives, never what the three registers below do with it.     *)
(***************************************************************************)
EXTENDS Naturals

CONSTANTS Char,      \* the characters the serial line may deliver
          NoChar     \* no character arrives in this clock

ASSUME CharAssumption == Char \subseteq 0 .. 255 /\ NoChar \notin Char

VARIABLES rx_data,        \* last character shifted in
          rx_char_ready,  \* RRDY
          rx_overrun      \* ROE

uart == <<rx_data, rx_char_ready, rx_overrun>>

Arrival == Char \cup {NoChar}

UartTypeOK ==
    /\ rx_data \in Char \cup {0}
    /\ rx_char_ready \in BOOLEAN
    /\ rx_overrun \in BOOLEAN

(* The state an earlier run of the program, or the reset, leaves behind.   *)
UartInit ==
    /\ UartTypeOK
    /\ rx_char_ready => rx_data \in Char

(* A slip of the RRDY flag: a read that does not clear it.                 *)
NextReadyNoClear(rd, new) == rx_char_ready \/ new # NoChar

NextReady(rd, new) == ~rd /\ (rx_char_ready \/ new # NoChar)

NextOverrun(status_wr, new) ==
    ~status_wr /\ (rx_overrun \/ (new # NoChar /\ rx_char_ready))

(* One clock: rd is the first clock of a read of rxdata (it returns the    *)
(* rx_data of before the edge), status_wr a write of the status register,  *)
(* new the character whose stop bit ends in this clock.                    *)
UartClock(rd, status_wr, new) ==
    /\ rx_data' = IF new # NoChar THEN new ELSE rx_data
    /\ rx_char_ready' = NextReady(rd, new)
    /\ rx_overrun' = NextOverrun(status_wr, new)
=============================================================================
