------------------------- MODULE ClockCrossingProofs -------------------------
(***************************************************************************)
(* The clock crossing delivers every pair of pixels once and in order, for *)
(* every depth of the FIFO, every synchronisation delay and every way the  *)
(* two clocks and the start bit may run.                                   *)
(***************************************************************************)
EXTENDS ClockCrossing, SequenceTheorems, TLAPS

\* What the reader counts has been written; a word that is about to be taken
\* by the DMA unit's FIFO has just been read.
CrossingInv ==
  /\ cells \in Seq(Blocks) /\ q \in Seq(Blocks)
  /\ readerSees \in [Delays -> Int]
  /\ \A a \in Delays : readerSees[a] <= Len(cells)
  /\ ~Ready => cells = <<>>
  /\ Ready /\ Write_Request => Len(q) = 2

InFlight == Pending \o cells

\* A reader that does not find the FIFO empty finds two pixels.
LEMMA NotEmpty == CrossingInv /\ ~rdempty => Len(cells) \in Nat /\ Len(cells) >= 2
<1>1. SyncDelay \in Delays
  BY CrossingConstants DEF Delays
<1>2. CrossingInv => Len(cells) \in Nat
  BY LenProperties DEF CrossingInv
<1>3. CrossingInv => readerSees[SyncDelay] \in Int /\ readerSees[SyncDelay] <= Len(cells)
  BY <1>1 DEF CrossingInv
<1>4. QED
  BY <1>2, <1>3 DEF rdempty

\* Taking the first two pixels off leaves the others.
LEMMA SplitInTwo ==
  ASSUME NEW S, NEW s \in Seq(S), Len(s) >= 2
  PROVE  /\ SubSeq(s, 1, 2) \in Seq(S) /\ Len(SubSeq(s, 1, 2)) = 2
         /\ SubSeq(s, 3, Len(s)) \in Seq(S) /\ Len(SubSeq(s, 3, Len(s))) = Len(s) - 2
         /\ SubSeq(s, 1, 2) \o SubSeq(s, 3, Len(s)) = s
<1>1. Len(s) \in Nat /\ \A i \in 1..Len(s) : s[i] \in S
  BY LenProperties, ElementOfSeq
<1>2. SubSeq(s, 1, 2) \in Seq(S) /\ Len(SubSeq(s, 1, 2)) = 2
  <2>1. \A i \in 1..2 : s[i] \in S
    BY <1>1
  <2>2. QED
    BY <2>1, SubSeqProperties
<1>3. SubSeq(s, 3, Len(s)) \in Seq(S) /\ Len(SubSeq(s, 3, Len(s))) = Len(s) - 2
  <2>1. \A i \in 3..Len(s) : s[i] \in S
    BY <1>1
  <2>2. Len(SubSeq(s, 3, Len(s))) = IF 3 <= Len(s) THEN Len(s) - 3 + 1 ELSE 0
    BY <1>1, <2>1, SubSeqProperties
  <2>3. SubSeq(s, 3, Len(s)) \in Seq(S)
    BY <1>1, <2>1, SubSeqProperties
  <2>4. \A n \in Nat : n >= 2 => (IF 3 <= n THEN n - 3 + 1 ELSE 0) = n - 2
    OBVIOUS
  <2>5. QED
    BY <1>1, <2>2, <2>3, <2>4
<1>4. SubSeq(s, 1, 2) \o SubSeq(s, 3, Len(s)) = SubSeq(s, 1, Len(s))
  <2>1. 1 \in 1..Len(s) + 1 /\ 2 \in 1 - 1..Len(s) /\ Len(s) \in 2..Len(s) /\ 2 + 1 = 3
    BY <1>1
  <2>2. SubSeq(s, 1, 2) \o SubSeq(s, 2 + 1, Len(s)) = SubSeq(s, 1, Len(s))
    BY <2>1, ConcatAdjacentSubSeq
  <2>3. QED
    BY <2>1, <2>2
<1>5. QED
  BY <1>2, <1>3, <1>4, SubSeqFull

\* A word in front of the FIFO is what is delivered next.
LEMMA TakeWord ==
  ASSUME NEW S, NEW w \in Seq(S), NEW s \in Seq(S), Len(w) = 2
  PROVE  /\ Len(w \o s) >= 2
         /\ SubSeq(w \o s, 1, 2) = w
         /\ SubSeq(w \o s, 3, Len(w \o s)) = s
<1>1. Len(s) \in Nat /\ Len(w \o s) = 2 + Len(s) /\ w \o s \in Seq(S)
  <2>1. Len(w \o s) = Len(w) + Len(s) /\ w \o s \in Seq(S)
    BY ConcatProperties
  <2>2. QED
    BY <2>1, LenProperties
<1>2. SubSeq(w \o s, 1, 2) = w
  <2>1. 1 \in 1..Len(w) /\ 2 \in 1..Len(w)
    OBVIOUS
  <2>2. SubSeq(w \o s, 1, 2) = SubSeq(w, 1, 2)
    BY <2>1, SubSeqOfConcat1
  <2>3. QED
    BY <2>2, SubSeqFull
<1>3. SubSeq(w \o s, 3, Len(w \o s)) = s
  <2>1. CASE Len(s) = 0
    BY <1>1, <2>1, SubSeqEmpty, EmptySeq
  <2>2. CASE Len(s) > 0
    <3>1. SubSeq(w \o s, 3, 2 + Len(s)) = SubSeq(s, 3 - 2, 2 + Len(s) - 2)
      BY <1>1, <2>2, SubSeqOfConcat2
    <3>2. QED
      BY <1>1, <3>1, SubSeqFull
  <2>3. QED
    BY <1>1, <2>1, <2>2
<1>4. QED
  BY <1>1, <1>2, <1>3

-----------------------------------------------------------------------------
LEMMA InvInit == CrossingInit => CrossingInv
BY EmptySeq DEF CrossingInit, CrossingInv, Nothing, Delays

\* A pixel that the FIFO takes is the last one on its way.
LEMMA PixelEnters ==
  ASSUME CrossingInv, NEW pixel \in Blocks, Ready, cells' = Append(cells, pixel),
         UNCHANGED <<Ready, rdreq, Combination_Signal, q>>
  PROVE  InFlight \in Seq(Blocks) /\ InFlight' = Append(InFlight, pixel)
<1>1. Pending' = Pending
  BY DEF Pending, Write_Request
<1>2. Pending \in Seq(Blocks)
  BY EmptySeq DEF Pending, CrossingInv
<1>3. InFlight \in Seq(Blocks)
  BY <1>2, ConcatProperties DEF InFlight, CrossingInv
<1>4. cells \in Seq(Blocks) /\ <<pixel>> \in Seq(Blocks)
  BY DEF CrossingInv
<1>5. Pending \o (cells \o <<pixel>>) = (Pending \o cells) \o <<pixel>>
  BY <1>2, <1>4, ConcatAssociative
<1>6. QED
  BY <1>1, <1>3, <1>4, <1>5, AppendIsConcat DEF InFlight

\* An edge of the camera's clock keeps the invariant, and is a Put or nothing.
LEMMA WriteStep ==
  ASSUME CrossingInv, NEW wrreq \in BOOLEAN, NEW pixel \in Blocks, WriteEdge(wrreq, pixel)
  PROVE  CrossingInv' /\ (Channel!Put \/ UNCHANGED <<InFlight, word>>)
<1> USE DEF Write_Request
<1>1. UNCHANGED <<Ready, readerSees, rdreq, Combination_Signal, q, word>>
  BY DEF WriteEdge
<1>2. Pending' = Pending
  BY <1>1 DEF Pending
<1>3. CASE UNCHANGED cells
  BY <1>1, <1>2, <1>3 DEF CrossingInv, InFlight
<1>4. CASE Ready /\ cells' = Append(cells, pixel)
  <2>1. cells' \in Seq(Blocks) /\ Len(cells') = Len(cells) + 1 /\ Len(cells) \in Nat
    BY <1>4, AppendProperties, LenProperties DEF CrossingInv
  <2>2. CrossingInv'
    BY <1>1, <1>4, <2>1 DEF CrossingInv
  <2>3. InFlight \in Seq(Blocks) /\ InFlight' = Append(InFlight, pixel)
    BY <1>1, <1>4, PixelEnters
  <2>4. Len(InFlight') = Len(InFlight) + 1 /\ SubSeq(InFlight', 1, Len(InFlight)) = InFlight
    <3>1. Len(InFlight) \in Nat /\ Len(InFlight') = Len(InFlight) + 1
      BY <2>3, AppendProperties, LenProperties
    <3>2. <<pixel>> \in Seq(Blocks) /\ InFlight' = InFlight \o <<pixel>>
      BY <2>3, AppendIsConcat
    <3>3. CASE Len(InFlight) = 0
      <4>1. InFlight = <<>>
        BY <2>3, <3>3, EmptySeq
      <4>2. SubSeq(InFlight', 1, 0) = <<>>
        BY SubSeqEmpty
      <4>3. QED
        BY <3>1, <3>3, <4>1, <4>2
    <3>4. CASE Len(InFlight) > 0
      <4>1. SubSeq(InFlight \o <<pixel>>, 1, Len(InFlight))
              = SubSeq(InFlight, 1, Len(InFlight))
        BY <2>3, <3>1, <3>2, <3>4, SubSeqOfConcat1
      <4>2. QED
        BY <2>3, <3>1, <3>2, <4>1, SubSeqFull
    <3>5. QED
      BY <3>1, <3>3, <3>4
  <2>5. QED
    BY <1>1, <2>2, <2>4 DEF Channel!Put, InFlight
<1>5. QED
  BY <1>3, <1>4 DEF WriteEdge

\* An edge of the FPGA's clock while both FIFOs run: the word read before, if
\* any, is delivered.
LEMMA RunningStep ==
  ASSUME CrossingInv, ReadEdge(TRUE), Ready
  PROVE  CrossingInv' /\ (Channel!Deliver \/ Channel!Rest)
<1> DEFINE popping == rdreq /\ ~rdempty
<1> USE DEF Write_Request
<1>1. /\ Ready'
      /\ Combination_Signal' = rdreq /\ rdreq' = ~rdempty
      /\ word' = IF Write_Request THEN q ELSE <<>>
      /\ readerSees' = Aged(readerSees, IF popping THEN -2 ELSE 0)
      /\ cells' = IF popping THEN SubSeq(cells, 3, Len(cells)) ELSE cells
      /\ q' = IF popping THEN SubSeq(cells, 1, 2) ELSE q
  BY DEF ReadEdge, Transfert_Fifo
<1>2. popping => /\ SubSeq(cells, 1, 2) \in Seq(Blocks) /\ Len(SubSeq(cells, 1, 2)) = 2
                 /\ SubSeq(cells, 3, Len(cells)) \in Seq(Blocks)
                 /\ Len(SubSeq(cells, 3, Len(cells))) = Len(cells) - 2
                 /\ SubSeq(cells, 1, 2) \o SubSeq(cells, 3, Len(cells)) = cells
  BY NotEmpty, SplitInTwo DEF CrossingInv
<1>3. Write_Request' <=> popping
  BY <1>1
<1>4. CrossingInv'
  <2>1. cells' \in Seq(Blocks) /\ q' \in Seq(Blocks)
    BY <1>1, <1>2 DEF CrossingInv
  <2>2. Ready' /\ Write_Request' => Len(q') = 2
    BY <1>1, <1>2, <1>3
  <2>3. Len(cells) \in Nat /\ Len(cells') = Len(cells) + (IF popping THEN -2 ELSE 0)
    BY <1>1, <1>2, LenProperties DEF CrossingInv
  <2>4. /\ readerSees' \in [Delays -> Int]
        /\ \A a \in Delays : readerSees'[a] <= Len(cells')
    <3>1. \A a \in Delays : a # 1 => a - 1 \in Delays
      BY CrossingConstants DEF Delays
    <3>2. \A a \in Delays : IF a = 1 THEN TRUE
                            ELSE readerSees[a - 1] \in Int /\ readerSees[a - 1] <= Len(cells)
      BY <3>1 DEF CrossingInv
    <3>3. QED
      BY <1>1, <2>3, <3>2 DEF Aged
  <2>5. QED
    BY <1>1, <2>1, <2>2, <2>4 DEF CrossingInv
<1>5. InFlight' = cells
  <2>1. CASE popping
    BY <1>1, <1>2, <1>3, <2>1 DEF InFlight, Pending
  <2>2. CASE ~popping
    BY <1>1, <1>3, <2>2, ConcatEmptySeq DEF InFlight, Pending, CrossingInv
  <2>3. QED
    BY <2>1, <2>2
<1>6. CASE Write_Request
  <2>1. InFlight = q \o cells /\ word' = q
    BY <1>1, <1>6 DEF InFlight, Pending
  <2>2. Len(q \o cells) >= 2 /\ SubSeq(q \o cells, 1, 2) = q
        /\ SubSeq(q \o cells, 3, Len(q \o cells)) = cells
    BY <1>6, TakeWord DEF CrossingInv
  <2>3. QED
    BY <1>4, <1>5, <2>1, <2>2 DEF Channel!Deliver, InFlight
<1>7. CASE ~Write_Request
  <2>1. InFlight = cells /\ word' = <<>>
    BY <1>1, <1>7, ConcatEmptySeq DEF InFlight, Pending, CrossingInv
  <2>2. QED
    BY <1>4, <1>5, <2>1 DEF Channel!Rest, InFlight
<1>8. QED
  BY <1>6, <1>7

\* An edge of the FPGA's clock at which the start bit is or goes off, or has
\* just come on: everything is cleared.
LEMMA ClearedStep ==
  ASSUME CrossingInv, NEW start \in BOOLEAN, ReadEdge(start), ~(Ready /\ start)
  PROVE  CrossingInv' /\ Channel!Clear
<1> USE DEF Write_Request
<1>1. /\ Ready' = start /\ rdreq' = ~rdempty
      /\ word' = <<>> /\ cells' = <<>> /\ q' = <<>> /\ readerSees' = Nothing
  BY DEF ReadEdge, Transfert_Fifo
<1>2. Ready' => ~Write_Request'
  <2>1. Ready' => cells = <<>>
    BY <1>1 DEF CrossingInv
  <2>2. Ready' => rdempty
    BY <2>1, NotEmpty, EmptySeq
  <2>3. QED
    BY <1>1, <2>2
<1>3. CrossingInv'
  BY <1>1, <1>2, EmptySeq DEF CrossingInv, Nothing
<1>4. Pending' = <<>>
  BY <1>2 DEF Pending
<1>5. InFlight' = <<>>
  BY <1>1, <1>4, EmptySeq, ConcatEmptySeq DEF InFlight
<1>6. QED
  BY <1>1, <1>3, <1>5 DEF Channel!Clear, InFlight

\* Every step of the crossing is one of the channel, or none.
LEMMA CrossingStep ==
  CrossingInv /\ [CrossingNext]_crossingVars =>
    CrossingInv' /\ [Channel!ChannelNext]_(Channel!channelVars)
<1>1. ASSUME CrossingInv, UNCHANGED crossingVars
      PROVE  CrossingInv' /\ UNCHANGED Channel!channelVars
  BY <1>1 DEF CrossingInv, crossingVars, Channel!channelVars, Pending, Write_Request
<1>2. ASSUME CrossingInv, NEW wrreq \in BOOLEAN, NEW pixel \in Blocks, WriteEdge(wrreq, pixel)
      PROVE  CrossingInv' /\ [Channel!ChannelNext]_(Channel!channelVars)
  BY <1>2, WriteStep DEF Channel!ChannelNext, Channel!channelVars, InFlight
<1>3. ASSUME CrossingInv, NEW start \in BOOLEAN, ReadEdge(start)
      PROVE  CrossingInv' /\ [Channel!ChannelNext]_(Channel!channelVars)
  <2>1. CASE Ready /\ start
    <3>1. start = TRUE
      BY <2>1
    <3>2. ReadEdge(TRUE)
      BY <1>3, <3>1
    <3>3. QED
      BY <1>3, <2>1, <3>2, RunningStep DEF Channel!ChannelNext
  <2>2. CASE ~(Ready /\ start)
    BY <1>3, <2>2, ClearedStep DEF Channel!ChannelNext
  <2>3. QED
    BY <2>1, <2>2
<1>4. QED
  BY <1>1, <1>2, <1>3 DEF CrossingNext

\* Every pair of pixels reaches the DMA unit's FIFO once and in order.
THEOREM CrossingDelivers == CrossingSpec => ImplementsChannel
<1>1. CrossingInit => Channel!ChannelInit
  BY EmptySeq, ConcatEmptySeq DEF CrossingInit, Channel!ChannelInit, Pending, Write_Request
<1>2. QED
  BY <1>1, InvInit, CrossingStep, PTL DEF CrossingSpec, ImplementsChannel, Channel!ChannelSpec

\* What the FIFO's views and outputs are made of, whatever its two sides do.
THEOREM CrossingTyped == CrossingSpec => []CrossingTypeOK
<1>1. ASSUME CrossingInit PROVE CrossingTypeOK
  <2>1. Nothing \in [Delays -> Int]
    BY DEF Nothing
  <2>2. <<>> \in Seq(Blocks)
    BY EmptySeq
  <2>3. QED
    BY <1>1, <2>1, <2>2 DEF CrossingInit, CrossingTypeOK
<1>2. ASSUME CrossingInv, CrossingTypeOK, CrossingNext PROVE CrossingTypeOK'
  <2>1. CrossingInv'
    BY <1>2, CrossingStep
  <2>2. \A view \in [Delays -> Int], change \in Int : Aged(view, change) \in [Delays -> Int]
    <3>1. Len(cells) \in Nat
      BY <1>2, LenProperties DEF CrossingInv
    <3>2. \A a \in Delays : a # 1 => a - 1 \in Delays
      BY CrossingConstants DEF Delays
    <3>3. QED
      BY <3>1, <3>2 DEF Aged
  <2>3. ASSUME NEW wrreq \in BOOLEAN, NEW pixel \in Blocks, WriteEdge(wrreq, pixel)
        PROVE  CrossingTypeOK'
    <3>1. UNCHANGED <<Ready, rdreq, Combination_Signal, word>>
      BY <2>3 DEF WriteEdge
    <3>2. writerSees' = writerSees \/ \E change \in {0, 1} : writerSees' = Aged(writerSees, change)
      BY <2>3 DEF WriteEdge
    <3>3. writerSees' \in [Delays -> Int]
      BY <1>2, <2>2, <3>2 DEF CrossingTypeOK
    <3>4. QED
      BY <1>2, <2>1, <3>1, <3>3 DEF CrossingTypeOK, CrossingInv
  <2>4. ASSUME NEW start \in BOOLEAN, ReadEdge(start)
        PROVE  CrossingTypeOK'
    <3>1. /\ Ready' \in BOOLEAN /\ rdreq' \in BOOLEAN /\ Combination_Signal' = rdreq
          /\ word' \in {q, <<>>}
      BY <2>4 DEF ReadEdge, Transfert_Fifo
    <3>2. writerSees' \in [Delays -> Int]
      BY <1>2, <2>4 DEF ReadEdge, Nothing, CrossingTypeOK
    <3>3. word' \in Seq(Blocks)
      BY <1>2, <3>1, EmptySeq DEF CrossingInv
    <3>4. QED
      BY <1>2, <2>1, <3>1, <3>2, <3>3 DEF CrossingTypeOK, CrossingInv
  <2>5. QED
    BY <1>2, <2>3, <2>4 DEF CrossingNext
<1>3. CrossingTypeOK /\ UNCHANGED crossingVars => CrossingTypeOK'
  BY DEF CrossingTypeOK, crossingVars
<1>4. CrossingInv /\ [CrossingNext]_crossingVars => CrossingInv'
  BY CrossingStep
<1>5. QED
  BY <1>1, <1>2, <1>3, <1>4, InvInit, PTL DEF CrossingSpec

=============================================================================
