----------------------------- MODULE BlockReader -----------------------------
(***************************************************************************)
(* What the read DMA of the MMC/SD interface promises to software that     *)
(* keeps its rules: a transfer that was asked for ends as a success or as  *)
(* one of two errors.  A success stores bytes 0..want of the buffer, each  *)
(* once and in order, and nothing else; an error leaves the buffer alone.  *)
(* The cycles, the serial clock and the polling for the token are hidden.  *)
(***************************************************************************)
EXTENDS Naturals

CONSTANTS MemMax,   \* the last index of the buffer
          Cell      \* what a buffer cell can hold

VARIABLES
  status,   \* "ready", "busy", or how the last transfer failed
  want,     \* the index of the last byte of the transfer in progress
  got,      \* the bytes of it that are in the buffer
  buf       \* the buffer

readervars == <<status, want, got, buf>>

Failure == {"dataerr", "timeout"}

ReaderInit ==
  /\ status = "ready"
  /\ want = 0
  /\ got = 0
  /\ buf \in [0..MemMax -> Cell]

\* Software asks for bytes 0..n.
Begin(n) ==
  /\ status # "busy"
  /\ status' = "busy"
  /\ want' = n
  /\ got' = 0
  /\ UNCHANGED buf

\* A byte that is not the last one arrives.
Store(b) ==
  /\ status = "busy"
  /\ got < want
  /\ buf' = [buf EXCEPT ![got] = b]
  /\ got' = got + 1
  /\ UNCHANGED <<status, want>>

\* The last byte arrives.
Complete(b) ==
  /\ status = "busy"
  /\ got = want
  /\ buf' = [buf EXCEPT ![got] = b]
  /\ status' = "ready"
  /\ want' = 0
  /\ got' = 0

\* The card answers something else than a token, or nothing in time: only
\* before the first byte.
Fail(e) ==
  /\ status = "busy"
  /\ got = 0
  /\ status' = e
  /\ want' = 0
  /\ UNCHANGED <<got, buf>>

ReaderNext ==
  \/ \E n \in 0..MemMax : Begin(n)
  \/ \E b \in Cell : Store(b) \/ Complete(b)
  \/ \E e \in Failure : Fail(e)

ReaderSpec == ReaderInit /\ [][ReaderNext]_readervars
=============================================================================
