------------------------------ MODULE MCSPIHal ------------------------------
(* The SPI HAL and the display on one bus, for TLC. *)
EXTENDS SPIHal
=============================================================================
