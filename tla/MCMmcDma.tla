------------------------------ MODULE MCMmcDma ------------------------------
(* TLC instance of MmcDma: bytes of two bits, a divider of one bit, a buffer *)
(* of three bytes and a timer of a few cycles.                              *)
EXTENDS MmcDma

CONSTANT Short   \* a timer value that runs out during a transfer

SomeAccesses ==
  {NoWrite,
   [NoWrite EXCEPT !.reg = "status", !.start = 1, !.val = 7],
   [NoWrite EXCEPT !.reg = "status", !.irq = 1, !.ncs = 1, !.val = 7],
   [NoWrite EXCEPT !.reg = "clkdiv", !.val = 0],
   [NoWrite EXCEPT !.reg = "timer", !.val = Short],
   [NoWrite EXCEPT !.reg = "timer", !.val = FrcMax],
   [NoWrite EXCEPT !.reg = "dma", !.val = MemMax],
   [NoWrite EXCEPT !.reg = "dma", !.irq = 1, !.start = 1, !.val = 0],
   [NoWrite EXCEPT !.reg = "dma", !.start = 1, !.val = MemMax]}

\* A data byte, the token, and "busy".
SomeBytes == {5, Token, Busy}
=============================================================================
