------------------------------ MODULE MCUartRx ------------------------------
(* A ring of four cells, its tail over eight values, and two byte values:  *)
(* the ring fills, refuses and wraps, and the tail wraps past the head.    *)
EXTENDS UartRx
MCBytes == {"a", "b"}
=============================================================================
