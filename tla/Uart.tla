-------------------------------- MODULE Uart --------------------------------
(***************************************************************************)
(* The UART of rtl/peripherals/uart_apb.sv, a character at a time, with    *)
(* transmitter and receiver enabled as they are after reset.  A FIFO is    *)
(* the sequence of what it holds.                                          *)
(***************************************************************************)
EXTENDS Naturals, Sequences

CONSTANTS FIFO_DEPTH, Chars

ASSUME UartAssumption == FIFO_DEPTH \in Nat \ {0}

VARIABLES tx_fifo,   \* written by software, not yet in the shift register
          tx_shift,  \* the character on the wire; none in TX_IDLE
          rx_fifo    \* received, not yet read by software
uartVars == <<tx_fifo, tx_shift, rx_fifo>>

UartTypeOK ==
  /\ tx_fifo \in Seq(Chars) /\ Len(tx_fifo) <= FIFO_DEPTH
  /\ rx_fifo \in Seq(Chars) /\ Len(rx_fifo) <= FIFO_DEPTH
  /\ tx_shift \in Seq(Chars) /\ Len(tx_shift) <= 1

UartInit == tx_fifo = <<>> /\ tx_shift = <<>> /\ rx_fifo = <<>>

\* The bits of the status register that software polls.
TX_FULL  == Len(tx_fifo) = FIFO_DEPTH
TX_EMPTY == tx_fifo = <<>>
TX_BUSY  == tx_shift # <<>>
RX_EMPTY == rx_fifo = <<>>

\* A write to TX_DATA: a full FIFO takes nothing and reports nothing.
Pushed(fifo, c) == IF Len(fifo) = FIFO_DEPTH THEN fifo ELSE Append(fifo, c)
WriteTxData(c) == tx_fifo' = Pushed(tx_fifo, c)

\* A read of RX_DATA takes the oldest character.
ReadRxData == rx_fifo # <<>> /\ rx_fifo' = Tail(rx_fifo)

\* TX_IDLE with something to send, and the tick that ends TX_STOP.
TxPop == /\ ~TX_BUSY /\ ~TX_EMPTY
         /\ tx_shift' = <<Head(tx_fifo)>>
         /\ tx_fifo' = Tail(tx_fifo)
         /\ UNCHANGED rx_fifo

TxStop == TX_BUSY /\ tx_shift' = <<>> /\ UNCHANGED <<tx_fifo, rx_fifo>>

\* RX_STOP_CHECK: a character that meets a full FIFO is lost.
RxDone(c) == rx_fifo' = Pushed(rx_fifo, c) /\ UNCHANGED <<tx_fifo, tx_shift>>
=============================================================================
