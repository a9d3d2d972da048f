---------------------------- MODULE ClockCrossing ----------------------------
(***************************************************************************)
(* From the camera's clock to the FPGA's (Top_Level.vhd): the dual-clock   *)
(* FIFO that takes 16-bit pixels and gives 32-bit words, and the process   *)
(* Transfert_Fifo that moves its words into the DMA unit's FIFO.  The      *)
(* start bit Ready holds both FIFOs in their clear while it is off.        *)
(*                                                                         *)
(* Each side of the FIFO sees the other's accesses SyncDelay edges of its  *)
(* own clock late: readerSees[a] is the number of pixels that the reader   *)
(* would count if writes needed a edges to reach it, writerSees[a] the     *)
(* number the writer would count if reads did.                             *)
(*                                                                         *)
(* A definition named Faulty... is a variant of the one below it, with a   *)
(* bug that one of the properties has to notice; nothing else uses it.     *)
(***************************************************************************)
EXTENDS Integers, Sequences

CONSTANTS
  Blocks,      \* what a pixel may be
  Depth,       \* pixels the FIFO holds (8)
  SyncDelay    \* rdsync_delaypipe, wrsync_delaypipe (4)

ASSUME CrossingConstants == Depth \in Nat /\ SyncDelay \in Nat \ {0}

VARIABLES
  Ready,
  cells,                      \* the pixels in the FIFO
  readerSees, writerSees,
  rdreq,                      \* rdreq_FIFO_Inter_Clock_Domain
  Combination_Signal,
  q,                          \* Output_Camera_2Pixels_32Bits
  word                        \* what the DMA unit's FIFO took at the last edge

crossingVars == <<Ready, cells, readerSees, writerSees,
                  rdreq, Combination_Signal, q, word>>

Delays == 1..SyncDelay
Nothing == [a \in Delays |-> 0]

CrossingInit ==
  /\ Ready = FALSE
  /\ cells = <<>> /\ readerSees = Nothing /\ writerSees = Nothing
  /\ rdreq = FALSE /\ Combination_Signal = FALSE
  /\ q = <<>> /\ word = <<>>

\* A view one access later: the fresh count enters, all others age.
Aged(view, change) ==
  [a \in Delays |-> (IF a = 1 THEN Len(cells) ELSE view[a - 1]) + change]

rdempty == readerSees[SyncDelay] < 2
wrfull  == writerSees[SyncDelay] >= Depth

\* An edge of the camera's clock; a pixel that finds the FIFO full is lost.
WriteEdge(wrreq, pixel) ==
  LET putting == wrreq /\ ~wrfull
  IN  /\ IF Ready
         THEN /\ cells' = IF putting THEN Append(cells, pixel) ELSE cells
              /\ writerSees' = Aged(writerSees, IF putting THEN 1 ELSE 0)
         ELSE UNCHANGED <<cells, writerSees>>
      /\ UNCHANGED <<Ready, readerSees, rdreq, Combination_Signal, q, word>>

FaultyWrite_Request == rdreq

Write_Request == Combination_Signal /\ rdreq

Transfert_Fifo ==
  /\ Combination_Signal' = rdreq
  /\ rdreq' = ~rdempty

\* An edge of the FPGA's clock, at which the start bit may change.
ReadEdge(start) ==
  LET running == Ready /\ start
      popping == rdreq /\ ~rdempty
  IN  /\ Ready' = start
      /\ Transfert_Fifo
      /\ word' = IF running /\ Write_Request THEN q ELSE <<>>
      /\ IF ~running
         THEN cells' = <<>> /\ readerSees' = Nothing /\ writerSees' = Nothing /\ q' = <<>>
         ELSE /\ readerSees' = Aged(readerSees, IF popping THEN -2 ELSE 0)
              /\ cells' = IF popping THEN SubSeq(cells, 3, Len(cells)) ELSE cells
              /\ q' = IF popping THEN SubSeq(cells, 1, 2) ELSE q
              /\ UNCHANGED writerSees

CrossingNext ==
  \/ \E wrreq \in BOOLEAN, pixel \in Blocks : WriteEdge(wrreq, pixel)
  \/ \E start \in BOOLEAN : ReadEdge(start)

CrossingSpec == CrossingInit /\ [][CrossingNext]_crossingVars

-----------------------------------------------------------------------------
\* Type correctness.
CrossingTypeOK ==
  /\ Ready \in BOOLEAN /\ rdreq \in BOOLEAN /\ Combination_Signal \in BOOLEAN
  /\ cells \in Seq(Blocks) /\ q \in Seq(Blocks) /\ word \in Seq(Blocks)
  /\ readerSees \in [Delays -> Int] /\ writerSees \in [Delays -> Int]

\* A word that has been read from the FIFO is written at the next edge.
Pending == IF Ready /\ Write_Request THEN q ELSE <<>>

Channel == INSTANCE WordChannel WITH inFlight <- Pending \o cells

\* Transfert_Fifo raises the write request from two flags of neighbouring
\* cycles; every pair of pixels all the same reaches the DMA unit's FIFO once
\* and in order, however the two clocks run and whenever the FIFO runs empty.
ImplementsChannel == Channel!ChannelSpec

=============================================================================
