-------------------------------- MODULE Acia --------------------------------
(***************************************************************************)
(* The keyboard ACIA, as acia.c emulates it: one receive register, its     *)
(* status and the interrupt output, which is GPIP input 4 of the MFP.      *)
(* RX_FULL and IRQ are set and cleared together, so one variable holds     *)
(* both; the transmitter is always empty.                                  *)
(***************************************************************************)
EXTENDS Mfp

CONSTANT Nothing     \* the receive register after a reset

VARIABLES
  ie,        \* receive interrupt enable, bit 7 of acia_control
  full,      \* ACIA_RX_FULL and ACIA_IRQ of acia_status
  rxData     \* rx_data

aciaVars == <<ie, full, rxData>>

\* acia_init resets the chip, which raises the line.
AciaInit ==
  /\ ie = FALSE /\ full = FALSE /\ rxData = Nothing
  /\ gpip = {4} /\ aer = {}
  /\ ier = {} /\ ipr = {} /\ isr = {} /\ imr = {}
  /\ sei = FALSE

\* set_status: the line follows the status, as the control register now is.
SetStatus(irq, enable) ==
  /\ full' = irq
  /\ IF enable /\ irq THEN ClrGPIP(4) ELSE SetGPIP(4)

\* acia_rx_data.
RxData(byte) ==
  /\ rxData' = byte
  /\ SetStatus(TRUE, ie)
  /\ UNCHANGED ie

\* Mutant: reading the data register leaves the line alone.
MutReadData ==
  /\ full' = FALSE
  /\ UNCHANGED <<ie, rxData, mfpVars>>

\* Reading the data register.
ReadData ==
  /\ SetStatus(FALSE, ie)
  /\ UNCHANGED <<ie, rxData>>

\* Mutant: the reset clears the registers without set_status.
MutAciaReset ==
  /\ ie' = FALSE /\ full' = FALSE
  /\ rxData' = Nothing
  /\ UNCHANGED mfpVars

\* Writing 3 to the control register.
AciaReset ==
  /\ ie' = FALSE
  /\ rxData' = Nothing
  /\ SetStatus(FALSE, FALSE)

\* Writing any other value: the line is left as it is.
WriteControl(enable) ==
  /\ ie' = enable
  /\ UNCHANGED <<full, rxData, mfpVars>>
=============================================================================
