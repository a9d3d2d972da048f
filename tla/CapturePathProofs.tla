-------------------------- MODULE CapturePathProofs --------------------------
(***************************************************************************)
(* The capture path as a whole, for every size of the frames, the line     *)
(* store and the FIFO, every delay between the two clocks and every moment *)
(* at which the camera is started and stopped: its state stays typed, it   *)
(* is a channel of words, no pixel meets a full FIFO, a stop that was seen *)
(* within a frame leaves the acquisition waiting for a whole one, and the  *)
(* words that come out are the frame's, in their order.                    *)
(***************************************************************************)
EXTENDS CaptureProofs, ClockCrossingProofs

\* The FIFO carries what the acquisition makes.
BlocksAreGiven == [red : Numbers, green : Numbers \X Numbers, blue : Numbers] \subseteq Blocks

\* The acquisition: its registers, its requests and the line store.
AcquisitionInv ==
  /\ State \in {"Idle_Frame", "Idle_Line", "Getting_Pixels"}
  /\ Pixel_Number \in {0, 1} /\ Line_Number \in {0, 1}
  /\ Pixel_Value_Even \in Numbers
  /\ FVAL_Previous \in BOOLEAN /\ LVAL_Previous \in BOOLEAN
  /\ Out_Pixel \in Blocks /\ Pixel_Valid_Out \in BOOLEAN
  /\ Data_Read \in Pairs /\ Data_Write \in Pairs
  /\ store \in Seq(Pairs) /\ Len(store) <= LineStore

\* What a run of the path adds: the clocks, and a word count that is only
\* kept while whole frames of a known size come in.
PathInv ==
  /\ Ready \in BOOLEAN /\ clocked \in BOOLEAN
  /\ lead \in 0..MaxRatio
  /\ count \in Numbers
  /\ stream \in {"fresh", "aligned", "spoilt"}
  /\ stream = "aligned" => reg_state # "IDLE" /\ EvenFrames

\* Whether the camera's clock has brought a pixel to the FIFO.
Rested == IF Pixel_Valid_Out THEN 0 ELSE 1

\* The acquisition makes a pixel of two periods at least.
PaceInv == Pixel_Valid_Out => Pixel_Number = 0

\* What the reader cannot see yet has been written since; what it can see it
\* takes, two pixels at an edge, from the second edge on.
ReaderInv ==
  /\ \A a \in Delays :
       2 * (Len(cells) - readerSees[a]) <= (a - 1) * MaxRatio + lead + Rested
  /\ 2 * (Len(cells) - 1) <= (SyncDelay + IF rdreq THEN 1 ELSE 0) * MaxRatio + lead + Rested

\* What the writer counts was there, or has been written since.
WriterInv ==
  /\ writerSees \in [Delays -> Int]
  /\ \A a \in Delays :
       2 * (writerSees[a] - 1) <= (SyncDelay + 2) * MaxRatio + (a - 1) + Rested
  /\ ~Ready => readerSees = Nothing /\ writerSees = Nothing

\* A stop that was seen within a frame: the acquisition has FVAL up, or has
\* followed it since.
ResyncInv == metStop => FVAL_Previous \/ (clocked /\ Ready /\ ~frame_valid)

-----------------------------------------------------------------------------
(* Numbers of pixels.                                                      *)

LEMMA Products ==
  ASSUME NEW a \in Nat, NEW b \in Nat, NEW m \in Nat, a <= m, b <= m
  PROVE  a * b \in Nat /\ a * b <= m * m
<1>1. a * b <= a * m
  BY Z3
<1>2. a * m <= m * m
  BY Z3
<1>3. a * b \in Nat /\ a * m \in Nat /\ m * m \in Nat
  BY Z3
<1>4. QED
  BY <1>1, <1>2, <1>3

\* A pixel of the sensor is one of the frame.
LEMMA DataIsNumber == GeneratorInv => data \in Numbers
<1> SUFFICES ASSUME GeneratorInv PROVE data \in Numbers
  OBVIOUS
<1>1. Modulus \in Nat /\ Modulus >= 1 /\ Modulus * Modulus \in Nat
  <2>1. Modulus \in Nat /\ Modulus >= 1
    BY GeneratorConstants
  <2>2. QED
    BY <2>1, Products
<1>2. CASE ~line_valid
  BY <1>1, <1>2 DEF data, Numbers
<1>3. CASE line_valid
  <2>1. width_counter \in 1..Width /\ height_counter \in 1..Height
    BY <1>3 DEF GeneratorInv, UnitInv, CountersStop, line_valid
  <2>2. Width \in Nat /\ Width <= Modulus - 1 /\ Height \in Nat /\ Height <= Modulus - 1
    BY FieldNames, <1>1 DEF GeneratorInv, UnitInv, Width, Height, Lengths
  <2> DEFINE m == Modulus - 1
             above == height_counter - 1
  <2>3. m \in Nat /\ above \in Nat /\ above <= m
    BY <1>1, <2>1, <2>2
  <2>4. above * Width \in Nat /\ above * Width <= m * m
    <3> HIDE DEF m, above
    <3>1. QED
      BY <1>1, <2>2, <2>3, Products DEF m
  <2>5. m * m + m <= Modulus * Modulus /\ m * m \in Nat
    <3>1. Modulus * Modulus = (m + 1) * (m + 1)
      BY <1>1
    <3>2. (m + 1) * (m + 1) = m * m + 2 * m + 1
      <4> HIDE DEF m
      <4>1. QED
        BY <2>3, Z3
    <3>3. m * m \in Nat
      BY <2>3, Products
    <3>4. QED
      BY <2>3, <3>1, <3>2, <3>3
  <2>6. data = above * Width + width_counter - 1
    BY <1>3 DEF data, Width
  <2>7. width_counter \in Nat /\ width_counter - 1 >= 0 /\ width_counter - 1 <= m
    BY <1>1, <2>1, <2>2
  <2>8. QED
    <3> HIDE DEF m, above
    <3>1. above * Width + width_counter - 1 \in Nat
      BY <2>4, <2>7
    <3>2. above * Width + width_counter - 1 <= Modulus * Modulus
      BY <1>1, <2>3, <2>4, <2>5, <2>7
    <3>3. QED
      BY <1>1, <2>6, <3>1, <3>2 DEF Numbers
<1>4. QED
  BY <1>2, <1>3

\* The sizes of even frames have words, and no more than can be counted.
LEMMA WordsAreCounted ==
  ASSUME GeneratorInv, EvenFrames
  PROVE  FrameWords \in Nat /\ FrameWords >= 1 /\ FrameWords <= Modulus * Modulus
<1>1. Modulus \in Nat
  BY GeneratorConstants
<1>2. /\ Width \in Nat /\ Width <= Modulus /\ Width >= 1
      /\ Height \in Nat /\ Height <= Modulus /\ Height >= 1
  BY FieldNames, <1>1 DEF GeneratorInv, UnitInv, Width, Height, Lengths
<1> DEFINE size == Width * Height
<1>3. size \in Nat /\ size <= Modulus * Modulus /\ Modulus * Modulus \in Nat
  BY <1>1, <1>2, Products
<1>4. size >= 1
  <2>1. \A a, b \in Nat : a >= 1 /\ b >= 1 => a * b >= 1
    BY Z3
  <2>2. QED
    BY <1>2, <2>1
<1>5. size % 8 = 0 /\ FrameWords = size \div 8
  BY DEF EvenFrames, FrameWords
<1>6. QED
  <2> HIDE DEF size
  <2>1. size \div 8 \in Nat /\ size \div 8 >= 1 /\ size \div 8 <= size
    BY <1>3, <1>4, <1>5
  <2>2. QED
    BY <1>3, <1>5, <2>1

-----------------------------------------------------------------------------
(* The acquisition.                                                        *)

\* The line store holds pairs, no more than it has room for.
LEMMA StoreStep ==
  ASSUME AcquisitionInv, FIFO_Store_Line
  PROVE  /\ store' \in Seq(Pairs) /\ Len(store') <= LineStore
         /\ Data_Read' \in Pairs
<1>1. NoPair \in Pairs
  <2>1. 0 \in Numbers
    BY Products, GeneratorConstants DEF Numbers
  <2>2. QED
    BY <2>1 DEF NoPair, Pairs
<1>2. store \in Seq(Pairs) /\ Len(store) <= LineStore /\ Data_Read \in Pairs /\ Data_Write \in Pairs
  BY DEF AcquisitionInv
<1>3. CASE Clear
  BY <1>1, <1>3, EmptySeq, AcquisitionConstants DEF FIFO_Store_Line
<1>4. CASE ~Clear
  <2> DEFINE writing == Write_Req /\ Len(store) < LineStore
             reading == Read_Req /\ store # <<>>
             left    == IF reading THEN Tail(store) ELSE store
  <2>1. /\ store' = IF writing THEN Append(left, Data_Write) ELSE left
        /\ Data_Read' = IF reading THEN Head(store) ELSE Data_Read
    BY <1>4 DEF FIFO_Store_Line
  <2>2. left \in Seq(Pairs) /\ Len(left) <= Len(store) /\ Len(left) \in Nat /\ Len(store) \in Nat
    BY <1>2, HeadTailProperties, LenProperties
  <2>3. Data_Read' \in Pairs
    BY <1>2, <2>1, HeadTailProperties
  <2>4. Append(left, Data_Write) \in Seq(Pairs) /\ Len(Append(left, Data_Write)) = Len(left) + 1
    BY <1>2, <2>2, AppendProperties
  <2>5. QED
    BY <1>2, <2>1, <2>2, <2>3, <2>4, AcquisitionConstants
<1>5. QED
  BY <1>3, <1>4

\* One period: everything stays typed, and after a pixel comes a period
\* without one.
LEMMA AcquisitionStep ==
  ASSUME BlocksAreGiven, AcquisitionInv, PaceInv,
         NEW FVAL \in BOOLEAN, NEW LVAL \in BOOLEAN, NEW pixel \in Numbers, NEW on \in BOOLEAN,
         AcquisitionEdge(FVAL, LVAL, pixel, on)
  PROVE  /\ AcquisitionInv' /\ PaceInv'
         /\ Pixel_Valid_Out => ~Pixel_Valid_Out'
         /\ FVAL_Previous' = FVAL
<1>1. /\ store' \in Seq(Pairs) /\ Len(store') <= LineStore /\ Data_Read' \in Pairs
  BY StoreStep DEF AcquisitionEdge
<1>2. 0 \in Numbers /\ NoPair \in Pairs /\ NoBlock \in Blocks
  <2>1. 0 \in Numbers
    BY Products, GeneratorConstants DEF Numbers
  <2>2. NoPair \in Pairs
    BY <2>1 DEF NoPair, Pairs
  <2>3. NoBlock \in Blocks
    BY <2>1 DEF NoBlock, BlocksAreGiven
  <2>4. QED
    BY <2>1, <2>2, <2>3
<1>3. Camera_Acq(FVAL, LVAL, pixel, on)
  BY DEF AcquisitionEdge
<1> DEFINE Registers ==
      /\ State' \in {"Idle_Frame", "Idle_Line", "Getting_Pixels"}
      /\ Pixel_Number' \in {0, 1} /\ Line_Number' \in {0, 1}
      /\ Pixel_Value_Even' \in Numbers
      /\ Out_Pixel' \in Blocks /\ Pixel_Valid_Out' \in BOOLEAN
      /\ Data_Write' \in Pairs
      /\ Pixel_Valid_Out' => Pixel_Number' = 0 /\ Pixel_Number = 1
<1>4. /\ State \in {"Idle_Frame", "Idle_Line", "Getting_Pixels"}
      /\ Pixel_Number \in {0, 1} /\ Line_Number \in {0, 1} /\ Pixel_Value_Even \in Numbers
      /\ 1 - Pixel_Number \in {0, 1} /\ 1 - Line_Number \in {0, 1}
  BY DEF AcquisitionInv
<1>5. ASSUME Idle_Frame(FVAL, on) PROVE Registers
  BY <1>2, <1>4, <1>5 DEF Idle_Frame, Quiet, NoWrite, NoOutput
<1>6. ASSUME Idle_Line(LVAL, pixel, on) PROVE Registers
  BY <1>2, <1>4, <1>6 DEF Idle_Line, NoWrite, NoOutput, Enter
<1>7. ASSUME EndLine(FVAL, LVAL, on) PROVE Registers
  BY <1>2, <1>4, <1>7 DEF EndLine, Quiet, NoWrite, NoOutput, Enter
<1>8. ASSUME EndFrame(FVAL, LVAL) PROVE Registers
  BY <1>2, <1>4, <1>8 DEF EndFrame, Quiet, NoWrite, NoOutput
<1>9. ASSUME EvenPixel(FVAL, LVAL, pixel, on) PROVE Registers
  BY <1>2, <1>4, <1>9 DEF EvenPixel, TakePixel, NoWrite, NoOutput, Enter
<1>10. ASSUME OddPixelEvenLine(FVAL, LVAL, pixel, on) PROVE Registers
  <2>1. Data_Write' \in Pairs
    BY <1>4, <1>10 DEF OddPixelEvenLine, Pairs
  <2>2. QED
    BY <1>2, <1>4, <1>10, <2>1 DEF OddPixelEvenLine, TakePixel, NoOutput, Enter
<1>11. ASSUME OddPixelOddLine(FVAL, LVAL, pixel, on) PROVE Registers
  <2>1. Data_Read'.odd \in Numbers /\ Data_Read'.even \in Numbers
    BY <1>1 DEF Pairs
  <2>2. Out_Pixel' \in Blocks
    BY <1>4, <1>11, <2>1 DEF OddPixelOddLine, BlocksAreGiven
  <2>3. QED
    BY <1>2, <1>4, <1>11, <2>2 DEF OddPixelOddLine, TakePixel, NoWrite, Enter
<1>12. Registers
  BY <1>3, <1>5, <1>6, <1>7, <1>8, <1>9, <1>10, <1>11 DEF Camera_Acq
<1>13. FVAL_Previous' = FVAL /\ LVAL_Previous' = LVAL
  BY <1>3 DEF Camera_Acq
<1>14. Pixel_Valid_Out => ~Pixel_Valid_Out'
  BY <1>12 DEF PaceInv
<1>15. QED
  BY <1>1, <1>12, <1>13, <1>14 DEF AcquisitionInv, PaceInv

-----------------------------------------------------------------------------
(* The two clocks.                                                         *)

\* A reader that takes two pixels at each of its edges keeps up with a writer
\* of no more than four periods between them.
ReaderKeepsUp == MaxRatio <= 4

LEMMA Distances ==
  /\ \A n \in Int : n * MaxRatio \in Int /\ (n + 1) * MaxRatio = n * MaxRatio + MaxRatio
  /\ \A n \in Nat : n * MaxRatio >= 0
  /\ MaxRatio \in Nat /\ MaxRatio >= 1
<1>1. MaxRatio \in Nat /\ MaxRatio >= 1
  BY CaptureConstants
<1>2. \A n \in Int, r \in Int : n * r \in Int /\ (n + 1) * r = n * r + r
  BY Z3
<1>3. \A n \in Nat, r \in Nat : n * r >= 0
  BY Z3
<1>4. QED
  BY <1>1, <1>2, <1>3

\* A period of the camera's clock brings one pixel at most, and then the next
\* one brings none.
Brought(w) ==
  /\ Len(cells') = Len(cells) + w
  /\ 2 * w + Rested <= 1 + Rested'
  /\ \/ Ready /\ writerSees' = Aged(writerSees, w)
     \/ w = 0 /\ Rested' = Rested /\ UNCHANGED <<cells, writerSees>>
     \/ w = 0 /\ ~Ready /\ UNCHANGED <<cells, writerSees>>

LEMMA PixelPace ==
  ASSUME BlocksAreGiven, AcquisitionInv, PaceInv, PathInv, CrossingInv,
         GeneratorInv', PixelClock
  PROVE  /\ AcquisitionInv' /\ PaceInv' /\ CrossingInv'
         /\ Brought(0) \/ Brought(1)
         /\ Len(cells) \in Nat
         /\ UNCHANGED <<Ready, readerSees, rdreq>> /\ lead' = lead + 1
         /\ clocked => FVAL_Previous' = frame_valid'
         /\ ~clocked => FVAL_Previous' = FVAL_Previous
         /\ [CrossingNext]_crossingVars
<1>1. Len(cells) \in Nat
  BY LenProperties DEF CrossingInv
<1>2. lead' = lead + 1
  BY DEF PixelClock
<1>3. CASE clocked
  <2>1. /\ WriteEdge(Pixel_Valid_Out, Out_Pixel)
        /\ AcquisitionEdge(frame_valid', line_valid', data', Ready)
    BY <1>3 DEF PixelClock
  <2>2. frame_valid' \in BOOLEAN /\ line_valid' \in BOOLEAN
    BY DEF frame_valid, line_valid
  <2>3. data' \in Numbers
    <3>1. (GeneratorInv => data \in Numbers)'
      BY DataIsNumber, PTL
    <3>2. QED
      BY <3>1
  <2>4. /\ AcquisitionInv' /\ PaceInv'
        /\ Pixel_Valid_Out => ~Pixel_Valid_Out'
        /\ FVAL_Previous' = frame_valid'
    <3>1. Ready \in BOOLEAN
      BY DEF PathInv
    <3>2. QED
      BY <2>1, <2>2, <2>3, <3>1, AcquisitionStep
  <2>5. Pixel_Valid_Out \in BOOLEAN /\ Out_Pixel \in Blocks
    BY DEF AcquisitionInv
  <2>6. CrossingInv' /\ [CrossingNext]_crossingVars
    <3>1. CrossingNext
      BY <2>1, <2>5 DEF CrossingNext
    <3>2. QED
      BY <3>1, CrossingStep
  <2> DEFINE putting == Pixel_Valid_Out /\ ~wrfull
  <2>7. UNCHANGED <<Ready, readerSees, rdreq>>
    BY <2>1 DEF WriteEdge
  <2>8. CASE Ready /\ putting
    <3>1. cells' = Append(cells, Out_Pixel) /\ writerSees' = Aged(writerSees, 1)
      BY <2>1, <2>8 DEF WriteEdge
    <3>2. Len(cells') = Len(cells) + 1
      BY <2>5, <3>1, AppendProperties DEF CrossingInv
    <3>3. Rested = 0 /\ Rested' = 1
      BY <2>4, <2>8 DEF Rested
    <3>4. QED
      BY <1>1, <1>2, <1>3, <2>4, <2>6, <2>7, <2>8, <3>1, <3>2, <3>3 DEF Brought
  <2>9. CASE Ready /\ ~putting
    <3>1. cells' = cells /\ writerSees' = Aged(writerSees, 0)
      BY <2>1, <2>9 DEF WriteEdge
    <3>2. Brought(0)
      <4>1. Len(cells') = Len(cells) + 0
        BY <1>1, <3>1
      <4>2. 2 * 0 + Rested <= 1 + Rested'
        BY DEF Rested
      <4>3. QED
        BY <2>9, <3>1, <4>1, <4>2 DEF Brought
    <3>3. QED
      BY <1>1, <1>2, <1>3, <2>4, <2>6, <2>7, <3>2
  <2>10. CASE ~Ready
    <3>1. UNCHANGED <<cells, writerSees>>
      BY <2>1, <2>10 DEF WriteEdge
    <3>2. Brought(0)
      <4>1. Len(cells') = Len(cells) + 0
        BY <1>1, <3>1
      <4>2. 2 * 0 + Rested <= 1 + Rested'
        BY DEF Rested
      <4>3. QED
        BY <2>10, <3>1, <4>1, <4>2 DEF Brought
    <3>3. QED
      BY <1>1, <1>2, <1>3, <2>4, <2>6, <2>7, <3>2
  <2>11. QED
    BY <2>8, <2>9, <2>10
<1>4. CASE ~clocked
  <2>1. UNCHANGED <<crossingVars, acquisitionVars>>
    BY <1>4 DEF PixelClock
  <2>2. AcquisitionInv' /\ PaceInv' /\ Rested' = Rested /\ FVAL_Previous' = FVAL_Previous
    BY <2>1 DEF AcquisitionInv, PaceInv, Rested, acquisitionVars, requestVars, storeVars
  <2>3. CrossingInv' /\ UNCHANGED <<Ready, cells, readerSees, writerSees, rdreq>>
    BY <2>1, CrossingStep DEF crossingVars
  <2>4. Brought(0)
    BY <1>1, <2>2, <2>3 DEF Brought, Rested
  <2>5. QED
    BY <1>1, <1>2, <1>4, <2>1, <2>2, <2>3, <2>4
<1>5. QED
  BY <1>3, <1>4

LEMMA ViewsOfDelays ==
  /\ SyncDelay \in Delays /\ SyncDelay \in Nat /\ SyncDelay >= 1
  /\ \A a \in Delays : a \in Nat /\ a >= 1 /\ a <= SyncDelay
  /\ \A a \in Delays : a # 1 => a - 1 \in Delays
BY CrossingConstants DEF Delays

\* A period of the camera's clock: reader and writer are at most one pixel and
\* one period further apart.
LEMMA PixelKeepsViews ==
  ASSUME PathInv, CrossingInv, ReaderInv, WriterInv, Len(cells) \in Nat,
         NEW w \in {0, 1}, Brought(w), lead' = lead + 1, lead < MaxRatio,
         UNCHANGED <<Ready, readerSees, rdreq>>
  PROVE  ReaderInv' /\ WriterInv'
<1>1. lead \in Int /\ lead >= 0
  BY Distances DEF PathInv
<1>2. PICK r \in {0, 1} : Rested' = r
  BY DEF Rested
<1>3. Len(cells') = Len(cells) + w /\ 2 * w + Rested <= 1 + r /\ Rested \in {0, 1}
  BY <1>2 DEF Brought, Rested
<1>4. ReaderInv'
  <2>1. ASSUME NEW a \in Delays
        PROVE  2 * (Len(cells') - readerSees'[a]) <= (a - 1) * MaxRatio + lead' + Rested'
    <3>1. 2 * (Len(cells) - readerSees[a]) <= (a - 1) * MaxRatio + lead + Rested
      BY DEF ReaderInv
    <3>2. readerSees[a] \in Int /\ readerSees' = readerSees
      BY DEF CrossingInv
    <3>3. (a - 1) * MaxRatio \in Int
      BY ViewsOfDelays, Distances
    <3> DEFINE far == (a - 1) * MaxRatio
    <3>4. far \in Int /\ 2 * (Len(cells) - readerSees[a]) <= far + lead + Rested
      BY <3>1, <3>3
    <3> HIDE DEF far
    <3>5. 2 * ((Len(cells) + w) - readerSees[a]) <= far + (lead + 1) + r
      BY <1>1, <1>3, <3>2, <3>4
    <3>6. QED
      BY <1>2, <1>3, <3>2, <3>5 DEF far
  <2> DEFINE far == (SyncDelay + IF rdreq THEN 1 ELSE 0) * MaxRatio
  <2>2. far \in Int
    BY ViewsOfDelays, Distances
  <2>3. 2 * (Len(cells) - 1) <= far + lead + Rested
    BY DEF ReaderInv
  <2>4. far' = far
    OBVIOUS
  <2>5. 2 * (Len(cells') - 1) <= far + lead' + Rested'
    <3> HIDE DEF far
    <3>1. 2 * ((Len(cells) + w) - 1) <= far + (lead + 1) + r
      BY <1>1, <1>3, <2>2, <2>3
    <3>2. QED
      BY <1>2, <1>3, <3>1
  <2>6. QED
    BY <2>1, <2>4, <2>5 DEF ReaderInv
<1>5. WriterInv'
  <2>1. ~Ready' => readerSees' = Nothing /\ writerSees' = Nothing
    BY DEF WriterInv, Brought
  <2> DEFINE far == (SyncDelay + 2) * MaxRatio
  <2>2. far \in Int /\ far >= 0
    BY ViewsOfDelays, Distances
  <2>3. \A a \in Delays : writerSees[a] \in Int /\ 2 * (writerSees[a] - 1) <= far + (a - 1) + Rested
    BY DEF WriterInv
  <2> HIDE DEF far
  <2>4. CASE ~Ready
    <3>1. writerSees' = Nothing
      BY <2>1, <2>4
    <3>2. \A a \in Delays : writerSees'[a] = 0
      BY <3>1 DEF Nothing
    <3>3. \A a \in Delays : 2 * (writerSees'[a] - 1) <= far + (a - 1) + Rested'
      BY <2>2, <3>2, ViewsOfDelays DEF Rested
    <3>4. writerSees' \in [Delays -> Int]
      BY <3>1 DEF Nothing
    <3>5. QED
      BY <2>1, <3>3, <3>4 DEF WriterInv, far
  <2>5. CASE UNCHANGED writerSees /\ Rested' = Rested
    <3>1. \A a \in Delays : 2 * (writerSees'[a] - 1) <= far + (a - 1) + Rested'
      BY <2>3, <2>5
    <3>2. QED
      BY <2>1, <2>5, <3>1 DEF WriterInv, far
  <2>6. CASE Ready /\ writerSees' = Aged(writerSees, w)
    <3>1. ASSUME NEW a \in Delays
          PROVE  /\ writerSees'[a] \in Int
                 /\ 2 * (writerSees'[a] - 1) <= far + (a - 1) + Rested'
      <4> SUFFICES /\ writerSees'[a] \in Int
                   /\ 2 * (writerSees'[a] - 1) <= far + (a - 1) + r
        BY <1>2
      <4>1. CASE a = 1
        <5> DEFINE near == (SyncDelay + IF rdreq THEN 1 ELSE 0) * MaxRatio
        <5>1. near \in Int /\ near + MaxRatio <= far
          <6>1. \A n \in Int : (n + 1) * MaxRatio = n * MaxRatio + MaxRatio /\ n * MaxRatio \in Int
            BY Distances
          <6>2. /\ (SyncDelay + 2) * MaxRatio = (SyncDelay + 1) * MaxRatio + MaxRatio
                /\ (SyncDelay + 1) * MaxRatio = (SyncDelay + 0) * MaxRatio + MaxRatio
            BY <6>1, ViewsOfDelays
          <6>3. (SyncDelay + 0) * MaxRatio \in Int /\ (SyncDelay + 1) * MaxRatio \in Int
            BY <6>1, ViewsOfDelays
          <6>4. QED
            BY <6>2, <6>3, Distances DEF far
        <5>2. 2 * (Len(cells) - 1) <= near + lead + Rested
          BY DEF ReaderInv
        <5>3. writerSees'[a] = Len(cells) + w
          BY <2>6, <4>1 DEF Aged
        <5>4. QED
          <6> HIDE DEF near
          <6>1. 2 * ((Len(cells) + w) - 1) <= far + r
            BY <1>1, <1>3, <2>2, <5>1, <5>2, Distances
          <6>2. QED
            BY <1>1, <4>1, <5>3, <6>1, <2>2
      <4>2. CASE a # 1
        <5>1. a - 1 \in Delays /\ writerSees'[a] = writerSees[a - 1] + w
          BY <2>6, <4>2, ViewsOfDelays DEF Aged
        <5>2. writerSees[a - 1] \in Int /\ 2 * (writerSees[a - 1] - 1) <= far + (a - 2) + Rested
          BY <2>3, <5>1, ViewsOfDelays
        <5>3. 2 * ((writerSees[a - 1] + w) - 1) <= far + (a - 1) + r
          BY <1>3, <2>2, <5>2, ViewsOfDelays
        <5>4. QED
          BY <5>1, <5>2, <5>3
      <4>3. QED
        BY <4>1, <4>2
    <3>2. writerSees' \in [Delays -> Int]
      BY <2>6, <3>1 DEF Aged
    <3>3. QED
      BY <2>1, <3>1, <3>2 DEF WriterInv, far
  <2>7. QED
    BY <2>4, <2>5, <2>6 DEF Brought
<1>6. QED
  BY <1>4, <1>5

\* An edge of the FPGA's clock: what has been written becomes visible to the
\* reader, which takes two pixels if it has seen any before.
LEMMA ReadKeepsViews ==
  ASSUME ReaderKeepsUp, PathInv, CrossingInv, ReaderInv, WriterInv,
         NEW start \in BOOLEAN, ReadEdge(start), lead' = 0, Rested' = Rested
  PROVE  ReaderInv' /\ WriterInv'
<1>1. Rested \in {0, 1} /\ lead \in Int /\ lead >= 0 /\ lead <= MaxRatio
  BY Distances DEF Rested, PathInv
<1>2. CASE ~(Ready /\ start)
  <2>1. cells' = <<>> /\ readerSees' = Nothing /\ writerSees' = Nothing
    BY <1>2 DEF ReadEdge
  <2>2. Len(cells') = 0
    BY <2>1
  <2>3. readerSees' \in [Delays -> Int] /\ \A a \in Delays : readerSees'[a] = 0 /\ writerSees'[a] = 0
    BY <2>1 DEF Nothing
  <2>4. \A n \in Nat : n * MaxRatio \in Int /\ n * MaxRatio >= 0
    BY Distances
  <2>5. ASSUME NEW a \in Delays
        PROVE  /\ 2 * (Len(cells') - readerSees'[a]) <= (a - 1) * MaxRatio + lead' + Rested'
               /\ 2 * (writerSees'[a] - 1) <= (SyncDelay + 2) * MaxRatio + (a - 1) + Rested'
    <3> DEFINE here == (a - 1) * MaxRatio
               far  == (SyncDelay + 2) * MaxRatio
    <3>1. here \in Int /\ here >= 0 /\ far \in Int /\ far >= 0 /\ a \in Nat /\ a >= 1
      BY <2>4, ViewsOfDelays
    <3> HIDE DEF here, far
    <3>2. 2 * (0 - 0) <= here + 0 + Rested /\ 2 * (0 - 1) <= far + (a - 1) + Rested
      BY <1>1, <3>1
    <3>3. QED
      BY <2>2, <2>3, <3>2 DEF here, far
  <2>6. 2 * (Len(cells') - 1) <= (SyncDelay + IF rdreq' THEN 1 ELSE 0) * MaxRatio + lead' + Rested'
    <3>1. PICK n \in Nat : n = SyncDelay + IF rdreq' THEN 1 ELSE 0
      BY ViewsOfDelays
    <3> DEFINE far == n * MaxRatio
    <3>2. far \in Int /\ far >= 0
      BY <2>4
    <3> HIDE DEF far
    <3>3. 2 * (0 - 1) <= far + 0 + Rested
      BY <1>1, <3>2
    <3>4. QED
      BY <2>2, <3>1, <3>3 DEF far
  <2>7. writerSees' \in [Delays -> Int]
    BY <2>1 DEF Nothing
  <2>8. QED
    BY <2>1, <2>5, <2>6, <2>7 DEF ReaderInv, WriterInv
<1>3. CASE Ready /\ start
  <2> DEFINE popping == rdreq /\ ~rdempty
             level   == Len(cells)
             gone    == IF popping THEN 2 ELSE 0
             visible == readerSees[SyncDelay]
             near    == SyncDelay * MaxRatio
  <2>1. /\ Ready' /\ writerSees' = writerSees /\ rdreq' = ~rdempty
        /\ readerSees' = Aged(readerSees, IF popping THEN -2 ELSE 0)
        /\ cells' = IF popping THEN SubSeq(cells, 3, Len(cells)) ELSE cells
    BY <1>3 DEF ReadEdge, Transfert_Fifo
  <2>2. level \in Nat /\ cells \in Seq(Blocks)
    BY LenProperties DEF CrossingInv
  <2>3. Len(cells') = level - gone /\ gone \in {0, 2}
    BY <2>1, <2>2, NotEmpty, SplitInTwo
  <2>4. WriterInv'
    BY <2>1 DEF WriterInv
  <2>5. ASSUME NEW a \in Delays
        PROVE  2 * (Len(cells') - readerSees'[a]) <= (a - 1) * MaxRatio + lead' + Rested'
    <3> DEFINE here  == (a - 1) * MaxRatio
               there == ((a - 1) - 1) * MaxRatio
    <3>1. here \in Int /\ here >= 0 /\ there \in Int /\ here = there + MaxRatio
      <4>1. a - 1 \in Nat /\ (a - 1) - 1 \in Int /\ ((a - 1) - 1) + 1 = a - 1
        BY ViewsOfDelays
      <4>2. ((((a - 1) - 1) + 1) * MaxRatio) = there + MaxRatio
        BY <4>1, Distances
      <4>3. QED
        BY <4>1, <4>2, Distances
    <3>2. CASE a = 1
      <4>1. readerSees'[a] = level - gone
        BY <2>1, <2>2, <3>2 DEF Aged
      <4>2. 2 * ((level - gone) - (level - gone)) <= here + 0 + Rested
        <5> HIDE DEF here, there, level, gone
        <5>1. QED
          BY <1>1, <2>2, <2>3, <3>1
      <4>3. QED
        BY <2>3, <4>1, <4>2
    <3>3. CASE a # 1
      <4>1. a - 1 \in Delays /\ readerSees'[a] = readerSees[a - 1] - gone
        <5>1. a - 1 \in Delays
          BY <3>3, ViewsOfDelays
        <5>2. readerSees[a - 1] \in Int
          BY <5>1 DEF CrossingInv
        <5>3. QED
          BY <2>1, <3>3, <5>1, <5>2 DEF Aged
      <4>2. readerSees[a - 1] \in Int
        BY <4>1 DEF CrossingInv
      <4>3. 2 * (level - readerSees[a - 1]) <= there + lead + Rested
        BY <4>1 DEF ReaderInv
      <4>4. 2 * ((level - gone) - (readerSees[a - 1] - gone)) <= here + 0 + Rested
        <5> HIDE DEF here, there, level, gone
        <5>1. QED
          BY <1>1, <2>2, <2>3, <3>1, <4>2, <4>3, Distances
      <4>5. QED
        BY <2>3, <4>1, <4>4
    <3>4. QED
      BY <3>2, <3>3
  <2>6. visible \in Int /\ near \in Int /\ (rdempty => visible <= 1)
    BY ViewsOfDelays, Distances DEF CrossingInv, rdempty
  <2>7. 2 * (level - visible) <= (near - MaxRatio) + lead + Rested
    <3>1. 2 * (level - visible) <= (SyncDelay - 1) * MaxRatio + lead + Rested
      BY ViewsOfDelays DEF ReaderInv
    <3>2. near = (SyncDelay - 1) * MaxRatio + MaxRatio /\ (SyncDelay - 1) * MaxRatio \in Int
      <4>1. SyncDelay - 1 \in Int /\ (SyncDelay - 1) + 1 = SyncDelay
        BY ViewsOfDelays
      <4>2. ((SyncDelay - 1) + 1) * MaxRatio = (SyncDelay - 1) * MaxRatio + MaxRatio
        BY <4>1, Distances
      <4>3. QED
        BY <4>1, <4>2, Distances
    <3>3. (SyncDelay - 1) * MaxRatio = near - MaxRatio
      BY <2>6, <3>2, Distances
    <3>4. QED
      BY <3>1, <3>3
  <2>8. 2 * (level - 1) <= near + (IF rdreq THEN MaxRatio ELSE 0) + lead + Rested
    <3>1. 2 * (level - 1) <= (SyncDelay + IF rdreq THEN 1 ELSE 0) * MaxRatio + lead + Rested
      BY DEF ReaderInv
    <3>2. (SyncDelay + IF rdreq THEN 1 ELSE 0) * MaxRatio = near + IF rdreq THEN MaxRatio ELSE 0
      BY ViewsOfDelays, Distances
    <3>3. QED
      BY <2>6, <3>1, <3>2
  <2>9. 2 * ((level - gone) - 1) <= near + (IF rdempty THEN 0 ELSE MaxRatio) + 0 + Rested
    <3>1. MaxRatio \in Nat /\ MaxRatio <= 4
      BY Distances DEF ReaderKeepsUp
    <3>2. rdempty => gone = 0
      OBVIOUS
    <3>3. ~rdempty /\ rdreq => gone = 2
      OBVIOUS
    <3> HIDE DEF near, level, gone, visible, popping
    <3>4. CASE rdempty
      BY <1>1, <2>2, <2>6, <2>7, <3>1, <3>2, <3>4
    <3>5. CASE ~rdempty /\ rdreq
      BY <1>1, <2>2, <2>6, <2>8, <3>1, <3>3, <3>5
    <3>6. CASE ~rdempty /\ ~rdreq
      BY <1>1, <2>2, <2>3, <2>6, <2>8, <3>1, <3>6
    <3>7. QED
      BY <3>4, <3>5, <3>6
  <2>10. 2 * (Len(cells') - 1)
           <= (SyncDelay + IF rdreq' THEN 1 ELSE 0) * MaxRatio + lead' + Rested'
    <3>1. (SyncDelay + IF rdempty THEN 0 ELSE 1) * MaxRatio
            = near + IF rdempty THEN 0 ELSE MaxRatio
      BY ViewsOfDelays, Distances
    <3>2. (SyncDelay + IF rdreq' THEN 1 ELSE 0) = (SyncDelay + IF rdempty THEN 0 ELSE 1)
      BY <2>1
    <3>3. QED
      BY <2>3, <2>9, <3>1, <3>2
  <2>11. QED
    BY <2>1, <2>4, <2>5, <2>10 DEF ReaderInv
<1>4. QED
  BY <1>2, <1>3

-----------------------------------------------------------------------------
(* The source within the path.                                             *)

\* A frame keeps its size; a source that is not stopped does not become idle;
\* a frame that has a first blank begins with it.
LEMMA FrameKept ==
  ASSUME GeneratorInv, GeneratorEdge
  PROVE  /\ reg_state' # "IDLE" => config' = config
         /\ reg_state # "IDLE" /\ ~reg_stop => reg_state' # "IDLE"
         /\ ~frame_valid /\ frame_valid' /\ config["frameLine"] > 0 => AtFirstBlank'
<1>1. PICK access : MM_WRITE(access) /\ STATE_LOGIC /\ Driver(access)
  BY DEF GeneratorEdge
<1>2. UnitInv /\ HandshakeInv
  BY DEF GeneratorInv
<1>3. reg_state # "IDLE" \/ reg_start => config' = config
  <2>1. Allowed(access) /\ (access # None => quiet)
    BY <1>1, DriverAccess DEF GeneratorInv
  <2>2. QED
    BY <1>1, <1>2, <2>1, ConfigStep
<1>4. config["frameLine"] \in Nat
  BY FieldNames, <1>2 DEF UnitInv, Lengths
<1> DEFINE Goal ==
      /\ reg_state = "IDLE" /\ ~reg_start => reg_state' = "IDLE"
      /\ reg_state # "IDLE" /\ ~reg_stop => reg_state' # "IDLE"
      /\ ~frame_valid /\ frame_valid' /\ config["frameLine"] > 0 => AtFirstBlank'
<1>5. CASE StateIdle
  <2>1. Goal
    BY <1>4, <1>5 DEF StateIdle, StartOfFrame, Blank, Goto, FirstLine, frame_valid, AtFirstBlank
  <2>2. QED
    BY <1>3, <2>1
<1>6. CASE StateFrameFrameBlank
  <2>1. Goal
    BY <1>4, <1>6 DEF StateFrameFrameBlank, StartOfFrame, Blank, Goto, FirstLine, Halt,
                      frame_valid, AtFirstBlank
  <2>2. QED
    BY <1>3, <2>1
<1>7. CASE StateFrameLineBlank
  <2>1. Goal
    BY <1>7 DEF StateFrameLineBlank, Goto, FirstLine, Halt, frame_valid
  <2>2. QED
    BY <1>3, <2>1
<1>8. CASE StateValid
  <2>1. Goal
    BY <1>8 DEF StateValid, frame_valid
  <2>2. QED
    BY <1>3, <2>1
<1>9. CASE StateLineLineBlank
  <2>1. Goal
    BY <1>9 DEF StateLineLineBlank, Goto, Halt, frame_valid
  <2>2. QED
    BY <1>3, <2>1
<1>10. CASE StateLineFrameBlank
  <2>1. Goal
    BY <1>10 DEF StateLineFrameBlank, Blank, Goto, Halt, frame_valid
  <2>2. QED
    BY <1>3, <2>1
<1>11. QED
  BY <1>1, <1>5, <1>6, <1>7, <1>8, <1>9, <1>10 DEF STATE_LOGIC

\* A period of the camera's clock.
LEMMA PixelKeepsPath ==
  ASSUME GeneratorInv, PathInv, PixelClock, Ready' = Ready
  PROVE  PathInv'
<1>1. lead' \in 0..MaxRatio
  <2>1. lead' = lead + 1 /\ lead < MaxRatio /\ lead \in 0..MaxRatio
    BY DEF PixelClock, PathInv
  <2>2. lead + 1 \in 0..MaxRatio
    BY <2>1, Distances
  <2>3. QED
    BY <2>1, <2>2
<1>2. Ready' \in BOOLEAN /\ clocked' \in BOOLEAN /\ count' \in Numbers
  BY DEF PixelClock, PathInv
<1>3. stream \in {"fresh", "aligned", "spoilt"} /\ FollowStream /\ GeneratorEdge
  BY DEF PathInv, PixelClock
<1>4. stream' \in {"fresh", "aligned", "spoilt"}
  BY <1>3 DEF FollowStream
<1>5. ASSUME stream' = "aligned" PROVE reg_state' # "IDLE" /\ EvenFrames'
  <2>1. \/ stream = "aligned" /\ ~reg_stop
        \/ AtFirstBlank' /\ EvenFrames
    BY <1>3, <1>5 DEF FollowStream
  <2>2. reg_state' # "IDLE"
    BY <1>3, <2>1, FrameKept DEF PathInv, AtFirstBlank
  <2>3. config' = config
    BY <1>3, <2>2, FrameKept
  <2>4. EvenFrames
    BY <2>1 DEF PathInv
  <2>5. QED
    BY <2>2, <2>3, <2>4 DEF EvenFrames, Width, Height
<1>6. QED
  BY <1>1, <1>2, <1>4, <1>5 DEF PathInv

\* An edge of the FPGA's clock.
LEMMA FpgaKeepsPath ==
  ASSUME GeneratorInv, PathInv, FpgaClock
  PROVE  PathInv'
<1>1. PICK start \in BOOLEAN :
        /\ ReadEdge(start)
        /\ lead' = 0
        /\ clocked' \in IF Ready /\ ~start THEN {FALSE, clocked} ELSE {clocked}
        /\ stream' = IF start THEN stream ELSE "fresh"
        /\ count' = IF ~start \/ stream # "aligned" THEN 0
                    ELSE IF word' # <<>> THEN (count + 1) % FrameWords ELSE count
        /\ UNCHANGED <<generatorVars, acquisitionVars>>
  BY DEF FpgaClock
<1>2. Ready' \in BOOLEAN /\ clocked' \in BOOLEAN /\ lead' \in 0..MaxRatio
  <2>1. Ready' \in BOOLEAN
    BY <1>1 DEF ReadEdge
  <2>2. clocked' \in {FALSE, clocked} /\ clocked \in BOOLEAN
    BY <1>1 DEF PathInv
  <2>3. lead' \in 0..MaxRatio
    BY <1>1, Distances
  <2>4. QED
    BY <2>1, <2>2, <2>3
<1>3. count' \in Numbers
  <2>1. 0 \in Numbers
    BY Products, GeneratorConstants DEF Numbers
  <2>2. stream = "aligned" => (count + 1) % FrameWords \in Numbers
    <3>1. HAVE stream = "aligned"
    <3>2. FrameWords \in Nat /\ FrameWords >= 1 /\ FrameWords <= Modulus * Modulus
      BY <3>1, WordsAreCounted DEF PathInv
    <3>3. count \in Nat
      BY DEF PathInv, Numbers
    <3>4. Modulus * Modulus \in Nat
      BY Products, GeneratorConstants
    <3>5. (count + 1) % FrameWords \in 0..FrameWords - 1
      BY <3>2, <3>3
    <3>6. QED
      BY <3>2, <3>4, <3>5 DEF Numbers
  <2>3. QED
    BY <1>1, <2>1, <2>2 DEF PathInv
<1>4. UNCHANGED <<config, reg_state>>
  BY <1>1 DEF generatorVars, unitVars
<1>5. QED
  BY <1>1, <1>2, <1>3, <1>4 DEF PathInv, EvenFrames, Width, Height

-----------------------------------------------------------------------------
(* A stop that was seen within a frame.                                    *)

LEMMA ResyncStep ==
  ASSUME PathInv, ResyncInv, [CaptureNext]_captureVars,
         PixelClock /\ clocked => FVAL_Previous' = frame_valid'
  PROVE  ResyncInv'
<1>1. CASE UNCHANGED captureVars
  BY <1>1 DEF captureVars, acquisitionVars, crossingVars, historyVars, generatorVars, unitVars,
              ResyncInv, frame_valid
<1>2. CASE PixelClock /\ clocked
  <2>1. /\ FVAL_Previous' = frame_valid'
        /\ metStop' = IF Ready THEN metStop ELSE frame_valid'
        /\ clocked' = Ready /\ Ready' = Ready
    BY <1>2 DEF PixelClock, WriteEdge
  <2>2. CASE Ready
    BY <2>1, <2>2 DEF ResyncInv
  <2>3. CASE ~Ready
    BY <2>1, <2>3 DEF ResyncInv
  <2>4. QED
    BY <2>2, <2>3
<1>3. CASE PixelClock /\ ~clocked
  BY <1>3 DEF PixelClock, acquisitionVars, ResyncInv
<1>4. CASE FpgaClock
  <2>1. PICK start \in BOOLEAN :
          /\ start /\ ~Ready => ~clocked
          /\ ReadEdge(start)
          /\ clocked' \in IF Ready /\ ~start THEN {FALSE, clocked} ELSE {clocked}
          /\ metStop' = IF Ready /\ ~start THEN FALSE ELSE metStop
          /\ UNCHANGED <<generatorVars, acquisitionVars>>
    BY <1>4 DEF FpgaClock
  <2>2. Ready' = start /\ frame_valid' = frame_valid /\ FVAL_Previous' = FVAL_Previous
    BY <2>1 DEF ReadEdge, generatorVars, unitVars, acquisitionVars, frame_valid
  <2>3. CASE Ready /\ ~start
    BY <2>1, <2>3 DEF ResyncInv
  <2>4. CASE ~(Ready /\ ~start)
    <3>1. metStop' = metStop /\ clocked' = clocked
      BY <2>1, <2>4
    <3>2. QED
      BY <2>2, <2>4, <3>1 DEF ResyncInv
  <2>5. QED
    BY <2>3, <2>4
<1>5. QED
  BY <1>1, <1>2, <1>3, <1>4 DEF CaptureNext

-----------------------------------------------------------------------------
(* The invariants together.                                                *)

CapturePathInv ==
  /\ GeneratorInv /\ AcquisitionInv /\ PaceInv /\ CrossingInv
  /\ PathInv /\ ResyncInv

LEMMA CapturePathInit == ASSUME BlocksAreGiven, CaptureInit PROVE CapturePathInv
<1>1. GeneratorInv
  BY GeneratorInvInit
<1>2. AcquisitionInv
  <2>1. 0 \in Numbers
    BY Products, GeneratorConstants DEF Numbers
  <2>2. NoPair \in Pairs /\ NoBlock \in Blocks
    BY <2>1 DEF NoPair, Pairs, NoBlock, BlocksAreGiven
  <2>3. store \in Seq(Pairs) /\ Len(store) <= LineStore
    <3>1. store = <<>>
      BY DEF CaptureInit, AcquisitionInit
    <3>2. Len(store) = 0
      BY <3>1
    <3>3. QED
      BY <3>1, <3>2, EmptySeq, AcquisitionConstants
  <2>4. QED
    BY <2>1, <2>2, <2>3 DEF CaptureInit, AcquisitionInit, AcquisitionInv
<1>3. CrossingInv
  BY InvInit DEF CaptureInit
<1>4. PaceInv /\ ResyncInv
  BY DEF CaptureInit, AcquisitionInit, PaceInv, ResyncInv
<1>5. PathInv
  <2>1. 0 \in Numbers
    BY Products, GeneratorConstants DEF Numbers
  <2>2. 0 \in 0..MaxRatio
    BY Distances
  <2>3. QED
    BY <2>1, <2>2 DEF CaptureInit, CrossingInit, PathInv
<1>6. QED
  BY <1>1, <1>2, <1>3, <1>4, <1>5 DEF CapturePathInv

LEMMA CapturePathStep ==
  ASSUME BlocksAreGiven, CapturePathInv, [CaptureNext]_captureVars
  PROVE  CapturePathInv' /\ [CrossingNext]_crossingVars
<1>1. GeneratorInv'
  BY GeneratorInvStep DEF CapturePathInv
<1>2. CASE PixelClock
  <2>1. /\ AcquisitionInv' /\ PaceInv' /\ CrossingInv'
        /\ Ready' = Ready /\ [CrossingNext]_crossingVars
        /\ clocked => FVAL_Previous' = frame_valid'
    BY <1>1, <1>2, PixelPace DEF CapturePathInv
  <2>2. PathInv'
    BY <1>2, <2>1, PixelKeepsPath DEF CapturePathInv
  <2>3. ResyncInv'
    BY <1>2, <2>1, ResyncStep DEF CapturePathInv
  <2>4. QED
    BY <1>1, <2>1, <2>2, <2>3 DEF CapturePathInv
<1>3. CASE FpgaClock
  <2>1. PICK start \in BOOLEAN : ReadEdge(start) /\ UNCHANGED acquisitionVars
    BY <1>3 DEF FpgaClock
  <2>2. CrossingNext
    BY <2>1 DEF CrossingNext
  <2>3. AcquisitionInv' /\ PaceInv'
    BY <2>1 DEF CapturePathInv, AcquisitionInv, PaceInv, acquisitionVars, requestVars, storeVars
  <2>4. CrossingInv'
    BY <2>2, CrossingStep DEF CapturePathInv
  <2>5. PathInv'
    BY <1>3, FpgaKeepsPath DEF CapturePathInv
  <2>6. PixelClock /\ clocked => FVAL_Previous' = frame_valid'
    <3>1. PixelClock /\ clocked => AcquisitionEdge(frame_valid', line_valid', data', Ready)
      BY DEF PixelClock
    <3>2. QED
      BY <3>1 DEF AcquisitionEdge, Camera_Acq
  <2>7. ResyncInv'
    BY <2>6, ResyncStep DEF CapturePathInv
  <2>8. QED
    BY <1>1, <2>2, <2>3, <2>4, <2>5, <2>7 DEF CapturePathInv
<1>4. CASE UNCHANGED captureVars
  <2>1. UNCHANGED <<generatorVars, acquisitionVars, crossingVars, clocked, lead, count, stream, metStop>>
    BY <1>4 DEF captureVars, historyVars
  <2>2. AcquisitionInv' /\ PaceInv'
    BY <2>1 DEF CapturePathInv, AcquisitionInv, PaceInv, acquisitionVars, requestVars, storeVars
  <2>3. CrossingInv'
    BY <2>1, CrossingStep DEF CapturePathInv
  <2>4. PathInv' /\ ResyncInv'
    BY <2>1 DEF CapturePathInv, PathInv, ResyncInv, EvenFrames, Width, Height, frame_valid,
                generatorVars, unitVars, acquisitionVars, crossingVars
  <2>5. QED
    BY <1>1, <2>1, <2>2, <2>3, <2>4 DEF CapturePathInv
<1>5. QED
  BY <1>2, <1>3, <1>4 DEF CaptureNext

LEMMA CapturePathHolds ==
  ASSUME BlocksAreGiven PROVE CaptureSpec => []CapturePathInv
BY CapturePathInit, CapturePathStep, PTL DEF CaptureSpec

\* Whatever the acquisition writes, the crossing takes it as its pixels.
LEMMA CaptureCrosses ==
  ASSUME BlocksAreGiven PROVE CaptureSpec => CrossingSpec
<1>1. CaptureInit => CrossingInit
  BY DEF CaptureInit
<1>2. CapturePathInv /\ [CaptureNext]_captureVars => [CrossingNext]_crossingVars
  BY CapturePathStep
<1>3. QED
  BY <1>1, <1>2, CapturePathHolds, PTL DEF CaptureSpec, CrossingSpec

\* Every pair of pixels that the acquisition makes reaches the DMA unit's FIFO
\* once and in order: Transfert_Fifo within the whole path.
THEOREM CaptureDelivers ==
  ASSUME BlocksAreGiven PROVE CaptureSpec => ImplementsChannel
BY CaptureCrosses, CrossingDelivers, PTL

\* The whole path stays typed: the line store within its room, the pixels and
\* words with their shape, the counters in their range.
THEOREM CaptureTyped ==
  ASSUME BlocksAreGiven PROVE CaptureSpec => []CaptureTypeOK
<1>1. CapturePathInv => AcquisitionTypeOK
  BY DEF CapturePathInv, AcquisitionInv, AcquisitionTypeOK
<1>2. CapturePathInv => lead \in 0..MaxRatio /\ count \in Numbers
  BY DEF CapturePathInv, PathInv
<1>3. CapturePathInv /\ GeneratorTypeOK /\ CrossingTypeOK => CaptureTypeOK
  BY <1>1, <1>2 DEF CaptureTypeOK
<1>4. CaptureSpec => []CrossingTypeOK
  BY CaptureCrosses, CrossingTyped, PTL
<1>5. QED
  BY <1>3, <1>4, GeneratorTyped, CapturePathHolds, PTL

\* A stop that the acquisition saw within a frame leaves Camera_Acq in
\* Idle_Frame with FVAL up: it begins with the first blank of a frame.
THEOREM StopsResynchronise ==
  ASSUME BlocksAreGiven PROVE CaptureSpec => StopResynchronises
<1>1. ASSUME CapturePathInv, [CaptureNext]_captureVars,
             clocked, Ready, FrameBegins, metStop, config["frameLine"] > 0
      PROVE  AtFirstBlank'
  <2>1. PixelClock
    <3>1. State # State'
      BY <1>1 DEF FrameBegins
    <3>2. ~UNCHANGED captureVars
      BY <3>1 DEF captureVars, acquisitionVars
    <3>3. ~FpgaClock
      BY <3>1 DEF FpgaClock, acquisitionVars
    <3>4. QED
      BY <1>1, <3>2, <3>3 DEF CaptureNext
  <2>2. GeneratorEdge /\ AcquisitionEdge(frame_valid', line_valid', data', Ready)
    BY <1>1, <2>1 DEF PixelClock
  <2>3. frame_valid' /\ ~FVAL_Previous
    BY <1>1, <2>2 DEF FrameBegins, AcquisitionEdge, Camera_Acq, Idle_Frame, Idle_Line, EndLine,
                      EndFrame, EvenPixel, OddPixelEvenLine, OddPixelOddLine, TakePixel
  <2>4. ~frame_valid
    BY <1>1, <2>3 DEF CapturePathInv, ResyncInv
  <2>5. QED
    BY <1>1, <2>2, <2>3, <2>4, FrameKept DEF CapturePathInv
<1>2. CapturePathInv /\ [CaptureNext]_captureVars =>
        [clocked /\ Ready /\ FrameBegins /\ metStop /\ config["frameLine"] > 0
           => AtFirstBlank']_captureVars
  BY <1>1
<1>3. QED
  BY <1>2, CapturePathHolds, PTL DEF CaptureSpec, StopResynchronises

-----------------------------------------------------------------------------
(* No pixel is lost.                                                       *)

\* What the FIFO has to hold if its full flag is not looked at: the pixels of
\* the periods that pass until the reader sees and takes them, and until the
\* writer sees that they are gone.  At the delivered sizes (equal clocks, four
\* edges of delay, a FIFO of eight) it is 11 < 16.
FifoSuffices == (SyncDelay + 2) * MaxRatio + SyncDelay + 1 < 2 * Depth

LEMMA ViewsHold ==
  ASSUME BlocksAreGiven, ReaderKeepsUp
  PROVE  CaptureSpec => [](ReaderInv /\ WriterInv)
<1>1. ASSUME CaptureInit PROVE ReaderInv /\ WriterInv
  <2>1. cells = <<>> /\ readerSees = Nothing /\ writerSees = Nothing /\ lead = 0
    BY <1>1 DEF CaptureInit, CrossingInit
  <2>2. Len(cells) = 0 /\ \A a \in Delays : readerSees[a] = 0 /\ writerSees[a] = 0
    BY <2>1 DEF Nothing
  <2>3. \A n \in Nat : n * MaxRatio \in Int /\ n * MaxRatio >= 0
    BY Distances
  <2>4. Rested \in {0, 1}
    BY DEF Rested
  <2>5. ASSUME NEW a \in Delays
        PROVE  /\ 2 * (Len(cells) - readerSees[a]) <= (a - 1) * MaxRatio + lead + Rested
               /\ 2 * (writerSees[a] - 1) <= (SyncDelay + 2) * MaxRatio + (a - 1) + Rested
    <3> DEFINE here == (a - 1) * MaxRatio
               far  == (SyncDelay + 2) * MaxRatio
    <3>1. here \in Int /\ here >= 0 /\ far \in Int /\ far >= 0 /\ a \in Nat /\ a >= 1
      BY <2>3, ViewsOfDelays
    <3> HIDE DEF here, far
    <3>2. 2 * (0 - 0) <= here + 0 + Rested /\ 2 * (0 - 1) <= far + (a - 1) + Rested
      BY <2>4, <3>1
    <3>3. QED
      BY <2>1, <2>2, <3>2 DEF here, far
  <2>6. 2 * (Len(cells) - 1) <= (SyncDelay + IF rdreq THEN 1 ELSE 0) * MaxRatio + lead + Rested
    <3>1. PICK n \in Nat : n = SyncDelay + IF rdreq THEN 1 ELSE 0
      BY ViewsOfDelays
    <3> DEFINE far == n * MaxRatio
    <3>2. far \in Int /\ far >= 0
      BY <2>3
    <3> HIDE DEF far
    <3>3. 2 * (0 - 1) <= far + 0 + Rested
      BY <2>4, <3>2
    <3>4. QED
      BY <2>1, <2>2, <3>1, <3>3 DEF far
  <2>7. writerSees \in [Delays -> Int]
    BY <2>1 DEF Nothing
  <2>8. QED
    BY <2>1, <2>5, <2>6, <2>7 DEF ReaderInv, WriterInv
<1>2. ASSUME CapturePathInv, CapturePathInv', ReaderInv, WriterInv, [CaptureNext]_captureVars
      PROVE  ReaderInv' /\ WriterInv'
  <2>1. CASE PixelClock
    <3>1. /\ Len(cells) \in Nat /\ lead' = lead + 1 /\ (Brought(0) \/ Brought(1))
          /\ UNCHANGED <<Ready, readerSees, rdreq>>
      BY <1>2, <2>1, PixelPace DEF CapturePathInv
    <3>2. lead < MaxRatio
      BY <2>1 DEF PixelClock
    <3>3. QED
      BY <1>2, <3>1, <3>2, PixelKeepsViews DEF CapturePathInv
  <2>2. CASE FpgaClock
    <3>1. PICK start \in BOOLEAN : ReadEdge(start) /\ lead' = 0 /\ UNCHANGED acquisitionVars
      BY <2>2 DEF FpgaClock
    <3>2. Rested' = Rested
      BY <3>1 DEF Rested, acquisitionVars
    <3>3. QED
      BY <1>2, <3>1, <3>2, ReadKeepsViews DEF CapturePathInv
  <2>3. CASE UNCHANGED captureVars
    BY <1>2, <2>3 DEF captureVars, crossingVars, acquisitionVars, ReaderInv, WriterInv, Rested
  <2>4. QED
    BY <1>2, <2>1, <2>2, <2>3 DEF CaptureNext
<1>3. QED
  BY <1>1, <1>2, CapturePathHolds, PTL DEF CaptureSpec

\* A pixel never meets a FIFO that its writer believes to be full, although
\* wrfull is left open in Top_Level.vhd: however late both sides see each
\* other, and whatever the sizes of the frames.
THEOREM NothingIsLost ==
  ASSUME BlocksAreGiven, ReaderKeepsUp, FifoSuffices
  PROVE  CaptureSpec => []NothingLost
<1>1. ASSUME WriterInv, Pixel_Valid_Out PROVE ~wrfull
  <2> DEFINE far == (SyncDelay + 2) * MaxRatio
  <2>1. far \in Int /\ Depth \in Nat /\ far + SyncDelay + 1 < 2 * Depth
    BY Distances, ViewsOfDelays, CrossingConstants DEF FifoSuffices
  <2>2. Rested = 0
    BY <1>1 DEF Rested
  <2>3. /\ writerSees[SyncDelay] \in Int
        /\ 2 * (writerSees[SyncDelay] - 1) <= far + (SyncDelay - 1) + 0
    BY <1>1, <2>2, ViewsOfDelays DEF WriterInv
  <2> HIDE DEF far
  <2>4. QED
    BY <2>1, <2>3, ViewsOfDelays DEF wrfull
<1>2. WriterInv => NothingLost
  BY <1>1 DEF NothingLost
<1>3. QED
  BY <1>2, ViewsHold, PTL

-----------------------------------------------------------------------------
(* What the acquisition makes of an even frame.  Lines and pixels are       *)
(* counted from 1 by the source; h and w are its counters, W is the width. *)

\* The c-th pair of line y (both from 0), as it goes to the line store, and
\* the c-th block of the line with counter h and the one above it.
PairAt(W, y, c) == [odd |-> y * W + 2 * c + 1, even |-> y * W + 2 * c]

BlockAt(W, h, c) ==
  [red   |-> PairAt(W, h - 2, c).odd,
   green |-> <<PairAt(W, h - 2, c).even, PairAt(W, h - 1, c).even>>,
   blue  |-> PairAt(W, h - 1, c).odd]

\* A sequence is pairs a, a + 1, ... b - 1 of line y.
HoldsPairs(s, W, y, a, b) ==
  /\ Len(s) = b - a
  /\ \A i \in 1..(b - a) : s[i] = PairAt(W, y, a + i - 1)

\* In a line that is stored, with its w-th pixel taken.
StoredLine(W, h, w) ==
  /\ State = "Getting_Pixels" /\ Line_Number = 0 /\ Pixel_Number = w % 2
  /\ Clear = FALSE /\ Read_Req = FALSE /\ Pixel_Valid_Out = FALSE
  /\ w % 2 = 1 => Pixel_Value_Even = (h - 1) * W + w - 1 /\ Write_Req = FALSE
  /\ w % 2 = 0 => Write_Req = TRUE /\ Data_Write = PairAt(W, h - 1, w \div 2 - 1)
  /\ HoldsPairs(store, W, h - 1, 0, (w - 1) \div 2)

\* In a line that is combined with the one above it.
PairedLine(W, h, w) ==
  /\ State = "Getting_Pixels" /\ Line_Number = 1 /\ Pixel_Number = w % 2
  /\ Clear = FALSE /\ Write_Req = FALSE
  /\ w % 2 = 1 => /\ Read_Req = TRUE /\ Pixel_Valid_Out = FALSE
                  /\ Pixel_Value_Even = (h - 1) * W + w - 1
  /\ w % 2 = 0 => /\ Read_Req = FALSE /\ Pixel_Valid_Out = TRUE
                  /\ Out_Pixel = BlockAt(W, h, w \div 2 - 1)
  /\ HoldsPairs(store, W, h - 2, w \div 2, W \div 2)

NoRequests == Write_Req = FALSE /\ Read_Req = FALSE /\ Pixel_Valid_Out = FALSE

\* Between the two, in front of two lines, and between two frames.
BetweenThem(W, h) ==
  /\ State = "Idle_Line" /\ Line_Number = 1 /\ Clear = FALSE /\ NoRequests
  /\ HoldsPairs(store, W, h - 1, 0, W \div 2)

InFront ==
  State = "Idle_Line" /\ Line_Number = 0 /\ NoRequests /\ (Clear = TRUE \/ store = <<>>)

BetweenFrames ==
  State = "Idle_Frame" /\ NoRequests /\ (Clear = TRUE \/ store = <<>>)

LEMMA PairsAppended ==
  ASSUME NEW s \in Seq(Pairs), NEW W \in Nat, NEW y \in Nat, NEW b \in Nat,
         HoldsPairs(s, W, y, 0, b), NEW p \in Pairs, p = PairAt(W, y, b)
  PROVE  HoldsPairs(Append(s, p), W, y, 0, b + 1)
<1>1. Len(s) = b /\ \A i \in 1..b : s[i] = PairAt(W, y, 0 + i - 1)
  BY DEF HoldsPairs
<1>2. /\ Len(Append(s, p)) = b + 1
      /\ \A i \in 1..b : Append(s, p)[i] = s[i]
      /\ Append(s, p)[b + 1] = p
  BY <1>1, AppendProperties
<1>3. \A i \in 1..(b + 1) : i \in 1..b \/ (i = b + 1 /\ 0 + i - 1 = b)
  OBVIOUS
<1>4. \A i \in 1..(b + 1) : Append(s, p)[i] = PairAt(W, y, 0 + i - 1)
  BY <1>1, <1>2, <1>3
<1>5. QED
  BY <1>2, <1>4 DEF HoldsPairs

LEMMA PairTaken ==
  ASSUME NEW s \in Seq(Pairs), NEW W \in Nat, NEW y \in Int, NEW a \in Nat, NEW b \in Nat,
         HoldsPairs(s, W, y, a, b), a < b
  PROVE  s # <<>> /\ Head(s) = PairAt(W, y, a) /\ HoldsPairs(Tail(s), W, y, a + 1, b)
<1>1. Len(s) = b - a /\ \A i \in 1..(b - a) : s[i] = PairAt(W, y, a + i - 1)
  BY DEF HoldsPairs
<1>2. s # <<>>
  BY <1>1, EmptySeq
<1>3. /\ Head(s) = s[1] /\ Len(Tail(s)) = Len(s) - 1
      /\ \A i \in 1..Len(Tail(s)) : Tail(s)[i] = s[i + 1]
  BY <1>2, HeadTailProperties
<1>4. Head(s) = PairAt(W, y, a)
  <2>1. 1 \in 1..(b - a) /\ a + 1 - 1 = a
    OBVIOUS
  <2>2. QED
    BY <1>1, <1>3, <2>1
<1>5. Len(Tail(s)) = b - (a + 1)
  BY <1>1, <1>3
<1>6. \A i \in 1..(b - (a + 1)) : i + 1 \in 1..(b - a) /\ a + (i + 1) - 1 = (a + 1) + i - 1
  OBVIOUS
<1>7. \A i \in 1..(b - (a + 1)) : Tail(s)[i] = PairAt(W, y, (a + 1) + i - 1)
  BY <1>1, <1>3, <1>5, <1>6
<1>8. QED
  BY <1>2, <1>4, <1>5, <1>7 DEF HoldsPairs

\* What the line store does when it is asked for nothing.
LEMMA StoreWaits ==
  ASSUME FIFO_Store_Line, Write_Req = FALSE, Read_Req = FALSE
  PROVE  /\ Clear = FALSE => store' = store
         /\ Clear = TRUE => store' = <<>>
BY DEF FIFO_Store_Line

\* In a line, a pixel is taken.
LEMMA PixelTaken ==
  ASSUME State = "Getting_Pixels", NEW pixel, Camera_Acq(TRUE, TRUE, pixel, TRUE)
  PROVE  \/ Pixel_Number = 0 /\ EvenPixel(TRUE, TRUE, pixel, TRUE)
         \/ Pixel_Number = 1 /\ Line_Number = 0 /\ OddPixelEvenLine(TRUE, TRUE, pixel, TRUE)
         \/ Pixel_Number = 1 /\ Line_Number = 1 /\ OddPixelOddLine(TRUE, TRUE, pixel, TRUE)
<1>1. ~Idle_Frame(TRUE, TRUE) /\ ~Idle_Line(TRUE, pixel, TRUE)
  BY DEF Idle_Frame, Idle_Line
<1>2. ~EndLine(TRUE, TRUE, TRUE) /\ ~EndFrame(TRUE, TRUE)
  BY DEF EndLine, EndFrame, LineEnds, FrameEnds
<1>3. EvenPixel(TRUE, TRUE, pixel, TRUE) => Pixel_Number = 0
  BY DEF EvenPixel
<1>4. OddPixelEvenLine(TRUE, TRUE, pixel, TRUE) => Pixel_Number = 1 /\ Line_Number = 0
  BY DEF OddPixelEvenLine
<1>5. OddPixelOddLine(TRUE, TRUE, pixel, TRUE) => Pixel_Number = 1 /\ Line_Number = 1
  BY DEF OddPixelOddLine
<1>6. QED
  BY <1>1, <1>2, <1>3, <1>4, <1>5 DEF Camera_Acq

\* Requests are raised in the second line of two.
LEMMA SecondLine ==
  /\ Line_Number = 0 => (Line_Number = 1) = FALSE
  /\ Line_Number = 1 => (Line_Number = 1) = TRUE
<1>1. Line_Number = 0 => ~(Line_Number = 1)
  OBVIOUS
<1>2. QED
  BY <1>1, Zenon

LEMMA EvenPixelTaken ==
  ASSUME State = "Getting_Pixels", Pixel_Number = 0, NEW pixel, Camera_Acq(TRUE, TRUE, pixel, TRUE)
  PROVE  /\ State' = "Getting_Pixels" /\ Pixel_Number' = 1 /\ Line_Number' = Line_Number
         /\ Clear' = FALSE /\ Pixel_Value_Even' = pixel
         /\ Write_Req' = FALSE /\ Pixel_Valid_Out' = FALSE
         /\ Line_Number = 0 => Read_Req' = FALSE
         /\ Line_Number = 1 => Read_Req' = TRUE
<1>1. EvenPixel(TRUE, TRUE, pixel, TRUE)
  <2>1. ~(Pixel_Number = 1)
    OBVIOUS
  <2>2. QED
    BY <2>1, PixelTaken, Zenon
<1>2. /\ TakePixel(TRUE, TRUE, TRUE) /\ Pixel_Value_Even' = pixel
      /\ Read_Req' = (Line_Number = 1) /\ NoWrite /\ NoOutput
  BY <1>1, Zenon DEF EvenPixel
<1>3. /\ Line_Number = 0 => Read_Req' = FALSE
      /\ Line_Number = 1 => Read_Req' = TRUE
  BY <1>2, SecondLine, Zenon
<1>4. /\ State' = "Getting_Pixels" /\ Pixel_Number' = 1 - Pixel_Number
      /\ Line_Number' = Line_Number /\ Clear' = FALSE
  BY <1>2 DEF TakePixel, Enter
<1>5. Write_Req' = FALSE /\ Pixel_Valid_Out' = FALSE
  BY <1>2 DEF NoWrite, NoOutput
<1>6. QED
  BY <1>2, <1>3, <1>4, <1>5

\* A line that is stored goes on.
LEMMA StoredLineGoesOn ==
  ASSUME AcquisitionInv, FVAL_Previous = TRUE, NEW W \in Nat, NEW h \in Nat, NEW w \in Nat,
         h >= 1, w >= 1, W % 2 = 0, w < W, W <= 2 * LineStore, StoredLine(W, h, w),
         NEW pixel \in Numbers, pixel = (h - 1) * W + (w + 1) - 1,
         AcquisitionEdge(TRUE, TRUE, pixel, TRUE)
  PROVE  StoredLine(W, h, w + 1)'
<1>1. FIFO_Store_Line /\ Camera_Acq(TRUE, TRUE, pixel, TRUE)
  BY DEF AcquisitionEdge
<1>2. State = "Getting_Pixels" /\ Line_Number = 0 /\ Pixel_Number = w % 2
      /\ Clear = FALSE /\ Read_Req = FALSE
  BY DEF StoredLine
<1>3. (h - 1) * W \in Nat
  BY Z3
<1>4. CASE w % 2 = 1
  <2>0. Pixel_Number = 1
    BY <1>2, <1>4
  <2>1. OddPixelEvenLine(TRUE, TRUE, pixel, TRUE)
    <3>1. ~(Pixel_Number = 0) /\ ~(Line_Number = 1)
      BY <1>2, <2>0
    <3>2. QED
      BY <1>1, <1>2, <3>1, PixelTaken, Zenon
  <2>2. /\ State' = "Getting_Pixels" /\ Line_Number' = 0 /\ Pixel_Number' = 0
        /\ Clear' = FALSE /\ Read_Req' = FALSE /\ Pixel_Valid_Out' = FALSE
        /\ Write_Req' = TRUE /\ Data_Write' = [odd |-> pixel, even |-> Pixel_Value_Even]
    BY <1>2, <2>0, <2>1 DEF OddPixelEvenLine, TakePixel, Enter, NoOutput
  <2>3. (w + 1) % 2 = 0 /\ (w + 1) \div 2 - 1 = (w - 1) \div 2 /\ ((w + 1) - 1) \div 2 = (w - 1) \div 2
        /\ 2 * ((w - 1) \div 2) = w - 1
    BY <1>4
  <2>4. Data_Write' = PairAt(W, h - 1, (w + 1) \div 2 - 1)
    <3>1. Pixel_Value_Even = (h - 1) * W + w - 1
      BY <1>4 DEF StoredLine
    <3> DEFINE start == (h - 1) * W
    <3>2. pixel = start + 2 * ((w - 1) \div 2) + 1 /\ Pixel_Value_Even = start + 2 * ((w - 1) \div 2)
      <4>1. start \in Nat
        BY <1>3
      <4>2. pixel = start + (w + 1) - 1 /\ Pixel_Value_Even = start + w - 1
        BY <3>1
      <4> HIDE DEF start
      <4>3. QED
        BY <2>3, <4>1, <4>2
    <3>3. QED
      BY <2>2, <2>3, <3>2 DEF PairAt
  <2>5. store' = store
    BY <1>1, <1>2, <1>4, StoreWaits DEF StoredLine
  <2>6. HoldsPairs(store', W, h - 1, 0, ((w + 1) - 1) \div 2)
    BY <2>3, <2>5 DEF StoredLine
  <2>7. QED
    BY <2>2, <2>3, <2>4, <2>6 DEF StoredLine
<1>5. CASE w % 2 = 0
  <2>0. Pixel_Number = 0
    BY <1>2, <1>5
  <2>2. /\ State' = "Getting_Pixels" /\ Line_Number' = 0 /\ Pixel_Number' = 1
        /\ Clear' = FALSE /\ Read_Req' = FALSE /\ Pixel_Valid_Out' = FALSE
        /\ Write_Req' = FALSE /\ Pixel_Value_Even' = pixel
    BY <1>1, <1>2, <2>0, EvenPixelTaken
  <2>3. (w + 1) % 2 = 1 /\ (w - 1) \div 2 = w \div 2 - 1 /\ ((w + 1) - 1) \div 2 = (w \div 2 - 1) + 1
        /\ w \div 2 - 1 \in Nat /\ w \div 2 - 1 < LineStore /\ h - 1 \in Nat
    BY <1>5, AcquisitionConstants
  <2>4. store' = Append(store, Data_Write)
    <3>1. Len(store) = w \div 2 - 1
      BY <2>3 DEF StoredLine, HoldsPairs
    <3>2. Write_Req = TRUE
      BY <1>5 DEF StoredLine
    <3>3. QED
      BY <1>1, <1>2, <2>3, <3>1, <3>2 DEF FIFO_Store_Line
  <2>5. HoldsPairs(store', W, h - 1, 0, ((w + 1) - 1) \div 2)
    <3>1. HoldsPairs(store, W, h - 1, 0, w \div 2 - 1) /\ Data_Write = PairAt(W, h - 1, w \div 2 - 1)
      BY <1>5, <2>3 DEF StoredLine
    <3>2. HoldsPairs(Append(store, Data_Write), W, h - 1, 0, (w \div 2 - 1) + 1)
      BY <2>3, <3>1, PairsAppended DEF AcquisitionInv
    <3>3. QED
      BY <2>3, <2>4, <3>2
  <2>6. QED
    BY <2>2, <2>3, <2>5 DEF StoredLine
<1>6. QED
  BY <1>4, <1>5

\* It ends with all its pairs in the store.
LEMMA StoredLineEnds ==
  ASSUME AcquisitionInv, FVAL_Previous = TRUE, LVAL_Previous = TRUE,
         NEW W \in Nat, NEW h \in Nat, h >= 1, W >= 1, W % 2 = 0, W <= 2 * LineStore,
         StoredLine(W, h, W), NEW pixel \in Numbers, AcquisitionEdge(TRUE, FALSE, pixel, TRUE)
  PROVE  BetweenThem(W, h)'
<1>1. FIFO_Store_Line /\ Camera_Acq(TRUE, FALSE, pixel, TRUE)
  BY DEF AcquisitionEdge
<1>2. State = "Getting_Pixels" /\ Line_Number = 0 /\ Clear = FALSE /\ Read_Req = FALSE
      /\ Write_Req = TRUE /\ Data_Write = PairAt(W, h - 1, W \div 2 - 1)
  BY DEF StoredLine
<1>3. EndLine(TRUE, FALSE, TRUE)
  BY <1>1, <1>2 DEF Camera_Acq, Idle_Frame, Idle_Line, EndFrame, EvenPixel, OddPixelEvenLine,
       OddPixelOddLine, TakePixel, LineEnds, FrameEnds
<1>4. State' = "Idle_Line" /\ Line_Number' = 1 /\ Clear' = FALSE /\ NoRequests'
  BY <1>2, <1>3 DEF EndLine, Enter, Quiet, NoWrite, NoOutput, NoRequests
<1>5. (W - 1) \div 2 = W \div 2 - 1 /\ W \div 2 = (W \div 2 - 1) + 1
      /\ W \div 2 - 1 \in Nat /\ W \div 2 - 1 < LineStore /\ h - 1 \in Nat
  BY AcquisitionConstants
<1>6. HoldsPairs(store, W, h - 1, 0, W \div 2 - 1)
  BY <1>5 DEF StoredLine
<1>7. store' = Append(store, Data_Write)
  <2>1. Len(store) = W \div 2 - 1
    BY <1>5, <1>6 DEF HoldsPairs
  <2>2. QED
    BY <1>1, <1>2, <1>5, <2>1 DEF FIFO_Store_Line
<1>8. HoldsPairs(store', W, h - 1, 0, W \div 2)
  <2>1. HoldsPairs(Append(store, Data_Write), W, h - 1, 0, (W \div 2 - 1) + 1)
    BY <1>2, <1>5, <1>6, PairsAppended DEF AcquisitionInv
  <2>2. QED
    BY <1>5, <1>7, <2>1
<1>9. QED
  BY <1>4, <1>8 DEF BetweenThem

\* Between lines: the next one begins, or does not yet.
LEMMA InIdleLine ==
  ASSUME State = "Idle_Line", NEW FVAL, NEW LVAL, NEW pixel, Camera_Acq(FVAL, LVAL, pixel, TRUE)
  PROVE  Idle_Line(LVAL, pixel, TRUE)
<1>1. ~Idle_Frame(FVAL, TRUE) /\ ~EndLine(FVAL, LVAL, TRUE) /\ ~EndFrame(FVAL, LVAL)
  BY DEF Idle_Frame, EndLine, EndFrame
<1>2. ~TakePixel(FVAL, LVAL, TRUE)
  BY DEF TakePixel
<1>3. /\ ~EvenPixel(FVAL, LVAL, pixel, TRUE) /\ ~OddPixelEvenLine(FVAL, LVAL, pixel, TRUE)
      /\ ~OddPixelOddLine(FVAL, LVAL, pixel, TRUE)
  BY <1>2, Zenon DEF EvenPixel, OddPixelEvenLine, OddPixelOddLine
<1>4. QED
  BY <1>1, <1>3, Zenon DEF Camera_Acq

LEMMA LineWaits ==
  ASSUME State = "Idle_Line", NEW FVAL, NEW pixel, Camera_Acq(FVAL, FALSE, pixel, TRUE)
  PROVE  State' = "Idle_Line" /\ Line_Number' = Line_Number /\ Clear' = FALSE /\ NoRequests'
<1>1. Idle_Line(FALSE, pixel, TRUE)
  BY InIdleLine
<1>2. ~LineBegins(FALSE)
  BY DEF LineBegins
<1>3. /\ Clear' = FALSE /\ NoWrite /\ NoOutput /\ Line_Number' = Line_Number
      /\ Enter(State, TRUE) /\ Read_Req' = FALSE
  BY <1>1, <1>2, Zenon DEF Idle_Line
<1>4. QED
  BY <1>3 DEF Enter, NoWrite, NoOutput, NoRequests

LEMMA LineStarts ==
  ASSUME State = "Idle_Line", LVAL_Previous = FALSE, NEW FVAL, NEW pixel,
         Camera_Acq(FVAL, TRUE, pixel, TRUE)
  PROVE  /\ State' = "Getting_Pixels" /\ Pixel_Number' = 1 /\ Line_Number' = Line_Number
         /\ Clear' = FALSE /\ Pixel_Value_Even' = pixel
         /\ Write_Req' = FALSE /\ Pixel_Valid_Out' = FALSE
         /\ Line_Number = 0 => Read_Req' = FALSE
         /\ Line_Number = 1 => Read_Req' = TRUE
<1>1. Idle_Line(TRUE, pixel, TRUE)
  BY InIdleLine
<1>2. LineBegins(TRUE)
  BY DEF LineBegins
<1>3. /\ Clear' = FALSE /\ NoWrite /\ NoOutput /\ Line_Number' = Line_Number
      /\ Enter("Getting_Pixels", TRUE) /\ Pixel_Value_Even' = pixel /\ Pixel_Number' = 1
      /\ Read_Req' = (Line_Number = 1)
  BY <1>1, <1>2, Zenon DEF Idle_Line
<1>4. /\ Line_Number = 0 => Read_Req' = FALSE
      /\ Line_Number = 1 => Read_Req' = TRUE
  BY <1>3, SecondLine, Zenon
<1>5. QED
  BY <1>3, <1>4 DEF Enter, NoWrite, NoOutput

LEMMA BetweenThemStays ==
  ASSUME NEW W \in Nat, NEW h \in Nat, BetweenThem(W, h), NEW FVAL, NEW pixel,
         AcquisitionEdge(FVAL, FALSE, pixel, TRUE)
  PROVE  BetweenThem(W, h)'
<1>1. FIFO_Store_Line /\ Camera_Acq(FVAL, FALSE, pixel, TRUE)
  BY DEF AcquisitionEdge
<1>2. State' = "Idle_Line" /\ Line_Number' = 1 /\ Clear' = FALSE /\ NoRequests'
  BY <1>1, LineWaits DEF BetweenThem
<1>3. store' = store
  BY <1>1, StoreWaits DEF BetweenThem, NoRequests
<1>4. QED
  BY <1>2, <1>3 DEF BetweenThem

LEMMA PairedLineStarts ==
  ASSUME NEW W \in Nat, NEW h \in Nat, BetweenThem(W, h), LVAL_Previous = FALSE,
         NEW FVAL, NEW pixel, pixel = ((h + 1) - 1) * W + 1 - 1,
         AcquisitionEdge(FVAL, TRUE, pixel, TRUE)
  PROVE  PairedLine(W, h + 1, 1)'
<1>1. FIFO_Store_Line /\ Camera_Acq(FVAL, TRUE, pixel, TRUE)
  BY DEF AcquisitionEdge
<1>2. /\ State' = "Getting_Pixels" /\ Pixel_Number' = 1 /\ Line_Number' = 1
      /\ Clear' = FALSE /\ Pixel_Value_Even' = pixel
      /\ Write_Req' = FALSE /\ Pixel_Valid_Out' = FALSE /\ Read_Req' = TRUE
  BY <1>1, LineStarts DEF BetweenThem
<1>3. store' = store
  BY <1>1, StoreWaits DEF BetweenThem, NoRequests
<1>4. HoldsPairs(store', W, (h + 1) - 2, 1 \div 2, W \div 2)
  <2>1. (h + 1) - 2 = h - 1 /\ 1 \div 2 = 0
    OBVIOUS
  <2>2. QED
    BY <1>3, <2>1 DEF BetweenThem
<1>5. 1 % 2 = 1 /\ ~(1 % 2 = 0)
  OBVIOUS
<1>6. QED
  BY <1>2, <1>4, <1>5 DEF PairedLine

LEMMA StoredLineStarts ==
  ASSUME NEW W \in Nat, NEW h \in Nat, InFront, LVAL_Previous = FALSE,
         NEW FVAL, NEW pixel, pixel = ((h + 1) - 1) * W + 1 - 1,
         AcquisitionEdge(FVAL, TRUE, pixel, TRUE)
  PROVE  StoredLine(W, h + 1, 1)'
<1>1. FIFO_Store_Line /\ Camera_Acq(FVAL, TRUE, pixel, TRUE)
  BY DEF AcquisitionEdge
<1>2. /\ State' = "Getting_Pixels" /\ Pixel_Number' = 1 /\ Line_Number' = 0
      /\ Clear' = FALSE /\ Pixel_Value_Even' = pixel
      /\ Write_Req' = FALSE /\ Pixel_Valid_Out' = FALSE /\ Read_Req' = FALSE
  BY <1>1, LineStarts DEF InFront
<1>3. store' = <<>>
  BY <1>1 DEF InFront, NoRequests, FIFO_Store_Line
<1>4. HoldsPairs(store', W, (h + 1) - 1, 0, (1 - 1) \div 2)
  <2>1. Len(store') = 0 /\ (1 - 1) \div 2 = 0
    BY <1>3
  <2>2. QED
    BY <2>1 DEF HoldsPairs
<1>5. 1 % 2 = 1 /\ ~(1 % 2 = 0)
  OBVIOUS
<1>6. QED
  BY <1>2, <1>4, <1>5 DEF StoredLine

LEMMA InFrontStays ==
  ASSUME InFront, NEW FVAL, NEW pixel, AcquisitionEdge(FVAL, FALSE, pixel, TRUE)
  PROVE  InFront'
<1>1. FIFO_Store_Line /\ Camera_Acq(FVAL, FALSE, pixel, TRUE)
  BY DEF AcquisitionEdge
<1>2. State' = "Idle_Line" /\ Line_Number' = 0 /\ NoRequests'
  BY <1>1, LineWaits DEF InFront
<1>3. store' = <<>>
  BY <1>1 DEF InFront, NoRequests, FIFO_Store_Line
<1>4. QED
  BY <1>2, <1>3 DEF InFront

\* A line that is paired goes on: the pair above comes back with its second
\* pixel.
LEMMA PairedLineGoesOn ==
  ASSUME AcquisitionInv, NEW W \in Nat, NEW h \in Nat, NEW w \in Nat,
         h >= 2, w >= 1, W % 2 = 0, w < W, PairedLine(W, h, w),
         NEW pixel \in Numbers, pixel = (h - 1) * W + (w + 1) - 1,
         AcquisitionEdge(TRUE, TRUE, pixel, TRUE)
  PROVE  PairedLine(W, h, w + 1)'
<1>1. FIFO_Store_Line /\ Camera_Acq(TRUE, TRUE, pixel, TRUE)
  BY DEF AcquisitionEdge
<1>2. State = "Getting_Pixels" /\ Line_Number = 1 /\ Pixel_Number = w % 2
      /\ Clear = FALSE /\ Write_Req = FALSE
  BY DEF PairedLine
<1>3. (h - 1) * W \in Nat /\ h - 2 \in Int
  BY Z3
<1>4. CASE w % 2 = 1
  <2>1. Pixel_Number = 1
    BY <1>2, <1>4
  <2>2. OddPixelOddLine(TRUE, TRUE, pixel, TRUE)
    <3>1. ~(Pixel_Number = 0) /\ ~(Line_Number = 0)
      BY <1>2, <2>1
    <3>2. QED
      BY <1>1, <1>2, <3>1, PixelTaken, Zenon
  <2>3. /\ State' = "Getting_Pixels" /\ Line_Number' = 1 /\ Pixel_Number' = 0
        /\ Clear' = FALSE /\ Write_Req' = FALSE /\ Read_Req' = FALSE /\ Pixel_Valid_Out' = TRUE
    BY <1>2, <2>1, <2>2 DEF OddPixelOddLine, TakePixel, Enter, NoWrite
  <2>4. /\ (w + 1) % 2 = 0 /\ (w + 1) \div 2 - 1 = w \div 2 /\ (w + 1) \div 2 = w \div 2 + 1
        /\ w = 2 * (w \div 2) + 1 /\ w \div 2 \in Nat /\ W \div 2 \in Nat /\ w \div 2 < W \div 2
    BY <1>4
  <2>5. HoldsPairs(store, W, h - 2, w \div 2, W \div 2)
    BY DEF PairedLine
  <2>6. /\ store # <<>> /\ Head(store) = PairAt(W, h - 2, w \div 2)
        /\ HoldsPairs(Tail(store), W, h - 2, w \div 2 + 1, W \div 2)
    BY <1>3, <2>4, <2>5, PairTaken DEF AcquisitionInv
  <2>7. store' = Tail(store) /\ Data_Read' = Head(store)
    <3>1. Read_Req = TRUE
      BY <1>4 DEF PairedLine
    <3>2. QED
      BY <1>1, <1>2, <2>6, <3>1 DEF FIFO_Store_Line
  <2>8. Out_Pixel' = BlockAt(W, h, (w + 1) \div 2 - 1)
    <3> DEFINE start == (h - 1) * W
               c == w \div 2
    <3>1. Pixel_Value_Even = start + w - 1
      BY <1>4 DEF PairedLine
    <3>2. Pixel_Value_Even = start + 2 * c /\ pixel = start + 2 * c + 1
      <4>1. start \in Nat /\ c \in Nat /\ w = 2 * c + 1
        BY <1>3, <2>4
      <4>2. pixel = start + (w + 1) - 1
        OBVIOUS
      <4> HIDE DEF start, c
      <4>3. QED
        BY <3>1, <4>1, <4>2
    <3>3. PairAt(W, h - 1, c).even = Pixel_Value_Even /\ PairAt(W, h - 1, c).odd = pixel
      BY <3>2 DEF PairAt
    <3>4. Out_Pixel' = [red |-> Data_Read'.odd, green |-> <<Data_Read'.even, Pixel_Value_Even>>,
                        blue |-> pixel]
      BY <2>2 DEF OddPixelOddLine
    <3>5. Data_Read' = PairAt(W, h - 2, c)
      BY <2>6, <2>7
    <3> HIDE DEF c
    <3>6. Out_Pixel' = BlockAt(W, h, c)
      BY <3>3, <3>4, <3>5, Zenon DEF BlockAt
    <3>7. QED
      BY <2>4, <3>6 DEF c
  <2>9. HoldsPairs(store', W, h - 2, (w + 1) \div 2, W \div 2)
    BY <2>4, <2>6, <2>7
  <2>10. QED
    BY <2>3, <2>4, <2>8, <2>9 DEF PairedLine
<1>5. CASE w % 2 = 0
  <2>1. Pixel_Number = 0
    BY <1>2, <1>5
  <2>2. /\ State' = "Getting_Pixels" /\ Line_Number' = 1 /\ Pixel_Number' = 1
        /\ Clear' = FALSE /\ Read_Req' = TRUE /\ Pixel_Valid_Out' = FALSE
        /\ Write_Req' = FALSE /\ Pixel_Value_Even' = pixel
    BY <1>1, <1>2, <2>1, EvenPixelTaken
  <2>3. (w + 1) % 2 = 1 /\ (w + 1) \div 2 = w \div 2
    BY <1>5
  <2>4. store' = store
    BY <1>1, <1>2, <1>5, StoreWaits DEF PairedLine
  <2>5. HoldsPairs(store', W, h - 2, (w + 1) \div 2, W \div 2)
    BY <2>3, <2>4 DEF PairedLine
  <2>6. QED
    BY <2>2, <2>3, <2>5 DEF PairedLine
<1>6. QED
  BY <1>4, <1>5

\* At its end the store is empty: a line is over, or the frame.
LEMMA PairedLineEnds ==
  ASSUME AcquisitionInv, FVAL_Previous = TRUE, LVAL_Previous = TRUE,
         NEW W \in Nat, NEW h \in Nat, W % 2 = 0, PairedLine(W, h, W),
         NEW FVAL \in BOOLEAN, NEW pixel, AcquisitionEdge(FVAL, FALSE, pixel, TRUE)
  PROVE  (FVAL => InFront') /\ (~FVAL => BetweenFrames')
<1>1. FIFO_Store_Line /\ Camera_Acq(FVAL, FALSE, pixel, TRUE)
  BY DEF AcquisitionEdge
<1>2. /\ State = "Getting_Pixels" /\ Line_Number = 1 /\ Clear = FALSE
      /\ Write_Req = FALSE /\ Read_Req = FALSE
  BY DEF PairedLine
<1>3. store' = <<>>
  <2>1. Len(store) = W \div 2 - W \div 2
    BY DEF PairedLine, HoldsPairs
  <2>2. W \div 2 - W \div 2 = 0
    OBVIOUS
  <2>3. store = <<>>
    BY <2>1, <2>2, EmptySeq DEF AcquisitionInv
  <2>4. QED
    BY <1>1, <1>2, <2>3, StoreWaits
<1>4. ~Idle_Frame(FVAL, TRUE) /\ ~Idle_Line(FALSE, pixel, TRUE)
  BY <1>2 DEF Idle_Frame, Idle_Line
<1>5. ~TakePixel(FVAL, FALSE, TRUE)
  BY DEF TakePixel, LineEnds, FrameEnds
<1>6. /\ ~EvenPixel(FVAL, FALSE, pixel, TRUE) /\ ~OddPixelEvenLine(FVAL, FALSE, pixel, TRUE)
      /\ ~OddPixelOddLine(FVAL, FALSE, pixel, TRUE)
  BY <1>5, Zenon DEF EvenPixel, OddPixelEvenLine, OddPixelOddLine
<1>7. EndLine(FVAL, FALSE, TRUE) \/ EndFrame(FVAL, FALSE)
  BY <1>1, <1>4, <1>6, Zenon DEF Camera_Acq
<1>8. CASE EndLine(FVAL, FALSE, TRUE)
  <2>1. FVAL /\ State' = "Idle_Line" /\ Line_Number' = 0 /\ NoRequests'
    BY <1>2, <1>8 DEF EndLine, LineEnds, Enter, Quiet, NoWrite, NoOutput, NoRequests
  <2>2. QED
    BY <1>3, <2>1 DEF InFront
<1>9. CASE EndFrame(FVAL, FALSE)
  <2>1. ~FVAL /\ State' = "Idle_Frame" /\ NoRequests'
    BY <1>9 DEF EndFrame, FrameEnds, Quiet, NoWrite, NoOutput, NoRequests
  <2>2. QED
    BY <1>3, <2>1 DEF BetweenFrames
<1>10. QED
  BY <1>7, <1>8, <1>9

\* Between frames: the next one is waited for, or begins with its first blank.
LEMMA FrameWaits ==
  ASSUME State = "Idle_Frame", NEW pixel, AcquisitionEdge(frame_valid', line_valid', pixel, TRUE)
  PROVE  /\ frame_valid' /\ ~FVAL_Previous => InFront'
         /\ ~(frame_valid' /\ ~FVAL_Previous) => BetweenFrames'
<1>1. Camera_Acq(frame_valid', line_valid', pixel, TRUE)
  BY Zenon DEF AcquisitionEdge
<1>2. /\ ~Idle_Line(line_valid', pixel, TRUE) /\ ~EndLine(frame_valid', line_valid', TRUE)
      /\ ~EndFrame(frame_valid', line_valid')
  BY DEF Idle_Line, EndLine, EndFrame
<1>3. ~TakePixel(frame_valid', line_valid', TRUE)
  BY DEF TakePixel
<1>4. /\ ~EvenPixel(frame_valid', line_valid', pixel, TRUE)
      /\ ~OddPixelEvenLine(frame_valid', line_valid', pixel, TRUE)
      /\ ~OddPixelOddLine(frame_valid', line_valid', pixel, TRUE)
  BY <1>3, Zenon DEF EvenPixel, OddPixelEvenLine, OddPixelOddLine
<1>5. Idle_Frame(frame_valid', TRUE)
  BY <1>1, <1>2, <1>4, Zenon DEF Camera_Acq
<1>6. /\ State' = IF frame_valid' /\ ~FVAL_Previous THEN "Idle_Line" ELSE "Idle_Frame"
      /\ Line_Number' = 0 /\ Clear' = TRUE /\ NoRequests'
  BY <1>5 DEF Idle_Frame, Quiet, NoWrite, NoOutput, NoRequests
<1>7. QED
  BY <1>6 DEF InFront, BetweenFrames

-----------------------------------------------------------------------------
(* Counting modulo a frame.                                                *)

\* Division by m is what its remainder says it is.
LEMMA Parts ==
  ASSUME NEW m \in Nat, m >= 1, NEW x \in Int
  PROVE  x \div m \in Int /\ (x % m) \in 0..m - 1 /\ x = (x \div m) * m + (x % m)
BY Z3

LEMMA Divides ==
  ASSUME NEW m \in Nat, m >= 1, NEW k \in Int, NEW r \in 0..m - 1
  PROVE  (k * m + r) \div m = k /\ (k * m + r) % m = r
<1> DEFINE x  == k * m + r
<1>0. x \in Int /\ x = k * m + r
  BY Z3
<1> HIDE DEF x
<1> DEFINE k2 == x \div m
           r2 == x % m
           d  == k - k2
<1>1. k2 \in Int /\ r2 \in 0..m - 1 /\ x = k2 * m + r2
  BY <1>0, Parts
<1>2. d \in Int /\ d * m = r2 - r
  <2>1. \A a \in Int, b \in Int : (a - b) * m = a * m - b * m /\ a * m \in Int
    BY Z3
  <2>2. d \in Int /\ d * m = k * m - k2 * m
    BY <1>1, <2>1
  <2>3. k * m \in Int /\ k2 * m \in Int
    BY <1>1, <2>1
  <2> DEFINE km == k * m
             mk == k2 * m
  <2> HIDE DEF km, mk, d, r2
  <2>4. km - mk = r2 - r
    BY <1>0, <1>1, <2>3 DEF km, mk
  <2>5. QED
    BY <2>2, <2>4 DEF km, mk
<1>3. d = 0
  <2>1. \A a \in Int : a >= 1 => a * m >= m
    BY Z3
  <2>2. \A a \in Int : a <= -1 => a * m <= -m
    BY Z3
  <2>3. r2 - r < m /\ r2 - r > -m /\ r2 - r \in Int
    BY <1>1
  <2> HIDE DEF d, r2, k2
  <2>4. ~(d >= 1) /\ ~(d <= -1)
    BY <1>2, <2>1, <2>2, <2>3
  <2>5. QED
    BY <1>2, <2>4
<1>4. k = k2 /\ r = r2
  <2>1. 0 * m = 0
    OBVIOUS
  <2> HIDE DEF k2, r2
  <2>2. k2 \in Int /\ r2 \in Int /\ k - k2 = 0
    BY <1>1, <1>3
  <2>3. r2 - r = 0
    BY <1>2, <1>3, <2>1
  <2>4. QED
    BY <2>2, <2>3
<1>5. QED
  BY <1>4 DEF x

LEMMA Remains ==
  ASSUME NEW m \in Nat, m >= 1
  PROVE  /\ \A n \in 0..m - 1 : n % m = n
         /\ m % m = 0
         /\ \A x \in Nat : (x + m) % m = x % m /\ (x + 1) % m = ((x % m) + 1) % m
<1>1. ASSUME NEW n \in 0..m - 1 PROVE n % m = n
  <2>1. n = 0 * m + n /\ 0 \in Int
    OBVIOUS
  <2>2. (0 * m + n) % m = n
    BY <2>1, Divides, Zenon
  <2>3. QED
    BY <2>1, <2>2
<1>2. m % m = 0
  <2>1. m = 1 * m + 0 /\ 0 \in 0..m - 1 /\ 1 \in Int
    OBVIOUS
  <2>2. (1 * m + 0) % m = 0
    BY <2>1, Divides, Zenon
  <2>3. QED
    BY <2>1, <2>2
<1>3. ASSUME NEW x \in Nat PROVE (x + m) % m = x % m /\ (x + 1) % m = ((x % m) + 1) % m
  <2>1. PICK k \in Int, r \in 0..m - 1 : x = k * m + r /\ x % m = r
    <3>1. x \in Int
      OBVIOUS
    <3>2. x \div m \in Int /\ (x % m) \in 0..m - 1 /\ x = (x \div m) * m + (x % m)
      BY <3>1, Parts
    <3>3. QED
      BY <3>2, Zenon
  <2> DEFINE km   == k * m
             km2  == (k + 1) * m
             far  == x + m
             next == x + 1
             r2   == r + 1
  <2>2. km2 = km + m /\ km \in Int /\ km2 \in Int /\ k + 1 \in Int /\ r2 \in Int
        /\ far \in Int /\ next \in Int /\ 0 \in 0..m - 1
    BY Z3
  <2>3. x = km + r /\ far = x + m /\ next = x + 1 /\ r2 = r + 1
    BY <2>1
  <2> HIDE DEF km, km2, far, next, r2
  <2>4. far % m = r
    <3>1. far = (k + 1) * m + r
      BY <2>1, <2>2, <2>3 DEF km2
    <3>2. ((k + 1) * m + r) % m = r
      BY <2>2, Divides, Zenon
    <3>3. QED
      BY <3>1, <3>2
  <2>5. CASE r + 1 < m
    <3>1. r2 \in 0..m - 1 /\ next = km + r2
      BY <2>1, <2>2, <2>3, <2>5
    <3>2. (k * m + r2) % m = r2
      BY <3>1, Divides, Zenon
    <3>3. r2 % m = r2
      BY <1>1, <3>1
    <3>4. QED
      BY <2>1, <2>4, <3>1, <3>2, <3>3 DEF km, far, next, r2
  <2>6. CASE r + 1 = m
    <3>1. next = km2 + 0
      BY <2>1, <2>2, <2>3, <2>6
    <3>2. ((k + 1) * m + 0) % m = 0
      BY <2>2, Divides, Zenon
    <3>3. QED
      BY <1>2, <2>1, <2>4, <2>6, <3>1, <3>2 DEF km2, far, next
  <2>7. QED
    BY <2>1, <2>3, <2>5, <2>6
<1>4. QED
  BY <1>1, <1>2, <1>3

-----------------------------------------------------------------------------
(* The blocks of a frame, by their numbers.                                *)

CornerIn(W, n) == 2 * (n \div (W \div 2)) * W + 2 * (n % (W \div 2))

BlockIn(W, n) ==
  {CornerIn(W, n), CornerIn(W, n) + 1, CornerIn(W, n) + W, CornerIn(W, n) + W + 1}

LEMMA BlockHere == \A n : BlockOf(n) = BlockIn(Width, n)
BY DEF BlockOf, Corner, BlockIn, CornerIn

\* What the acquisition makes of two lines is the blocks between them.
LEMMA BlockMade ==
  ASSUME NEW W \in Nat, W % 2 = 0, NEW h \in Nat, h % 2 = 0, h >= 2,
         NEW c \in Nat, c < W \div 2
  PROVE  PixelsOf(BlockAt(W, h, c)) = BlockIn(W, (h \div 2 - 1) * (W \div 2) + c)
<1> DEFINE a == W \div 2
           k == h \div 2 - 1
           n == k * a + c
<1>1. a \in Nat /\ a >= 1 /\ k \in Nat /\ c \in 0..a - 1 /\ h - 2 = 2 * k /\ h - 1 = 2 * k + 1
  OBVIOUS
<1>2. n \div a = k /\ n % a = c
  <2> HIDE DEF a, k
  <2>1. k \in Int
    BY <1>1
  <2>2. QED
    BY <1>1, <2>1, Divides
<1>3. CornerIn(W, n) = 2 * k * W + 2 * c
  <2>1. CornerIn(W, n) = 2 * (n \div a) * W + 2 * (n % a)
    BY DEF CornerIn
  <2> HIDE DEF a, k, n
  <2>2. QED
    BY <1>2, <2>1
<1>4. (h - 2) * W = 2 * k * W /\ (h - 1) * W = 2 * k * W + W /\ 2 * k * W \in Int
  <2>1. \A x \in Nat : 2 * x * W \in Int /\ (2 * x + 1) * W = 2 * x * W + W
    BY Z3
  <2> HIDE DEF k
  <2>2. QED
    BY <1>1, <2>1
<1> DEFINE y == 2 * k * W
<1>5. PixelsOf(BlockAt(W, h, c)) =
        {(h - 2) * W + 2 * c + 1, (h - 2) * W + 2 * c, (h - 1) * W + 2 * c, (h - 1) * W + 2 * c + 1}
  BY DEF PixelsOf, BlockAt, PairAt
<1>6. PixelsOf(BlockAt(W, h, c)) = {y + 2 * c + 1, y + 2 * c, y + W + 2 * c, y + W + 2 * c + 1}
  BY <1>4, <1>5
<1>7. BlockIn(W, n) = {y + 2 * c, y + 2 * c + 1, y + 2 * c + W, y + 2 * c + W + 1}
  <2> HIDE DEF n
  <2>1. QED
    BY <1>3 DEF BlockIn
<1>8. y + W + 2 * c = y + 2 * c + W /\ y + W + 2 * c + 1 = y + 2 * c + W + 1
  <2> HIDE DEF y, k
  <2>1. y \in Int
    BY <1>4 DEF y
  <2>2. QED
    BY <2>1
<1>9. BlockIn(W, n) = PixelsOf(BlockAt(W, h, c))
  <2> HIDE DEF y, n
  <2>1. QED
    BY <1>6, <1>7, <1>8
<1>10. QED
  BY <1>9

\* A frame of whole words has two blocks for each of them.
WholeWords(W, H) == W % 2 = 0 /\ H % 2 = 0 /\ (W * H) % 8 = 0

LEMMA BlocksOfFrame ==
  ASSUME NEW W \in Nat, NEW H \in Nat, W >= 1, H >= 1, WholeWords(W, H)
  PROVE  /\ 2 * ((W * H) \div 8) = (H \div 2) * (W \div 2)
         /\ (W * H) \div 8 \in Nat /\ (W * H) \div 8 >= 1
<1> DEFINE a == W \div 2
           b == H \div 2
           p == b * a
           s == W * H
<1>1. a \in Nat /\ b \in Nat /\ a >= 1 /\ b >= 1 /\ W = 2 * a /\ H = 2 * b
  BY DEF WholeWords
<1>2. s = 4 * p /\ p \in Nat /\ p >= 1
  <2>1. \A x, y \in Nat : (2 * x) * (2 * y) = 4 * (y * x) /\ y * x \in Nat
    BY Z3
  <2>2. \A x, y \in Nat : x >= 1 /\ y >= 1 => y * x >= 1
    BY Z3
  <2> HIDE DEF a, b
  <2>3. QED
    BY <1>1, <2>1, <2>2
<1>3. s % 8 = 0
  BY DEF WholeWords
<1>4. 2 * (s \div 8) = p /\ s \div 8 \in Nat /\ s \div 8 >= 1
  <2> HIDE DEF s, p
  <2>1. QED
    BY <1>2, <1>3
<1>5. QED
  BY <1>4

\* How many blocks of the frame have been made when the source is in state s
\* with its counters h and w, the one at the output not counted.
MadeAt(W, s, h, w) ==
  CASE s = "VALID" -> ((h - 1) \div 2) * (W \div 2) + (IF h % 2 = 0 THEN (w - 1) \div 2 ELSE 0)
    [] s = "LINE_LINE_BLANK" -> (h \div 2) * (W \div 2)
    [] OTHER -> 0

\* After a block comes the next one, and after the last the first.
LEMMA BlockAfter ==
  ASSUME NEW W \in Nat, NEW H \in Nat, WholeWords(W, H), NEW h \in 1..H, h % 2 = 0,
         NEW w \in 1..W, w % 2 = 0
  PROVE  LET here  == MadeAt(W, "VALID", h, w)
             after == (here + 1) % ((H \div 2) * (W \div 2))
         IN  /\ here = (h \div 2 - 1) * (W \div 2) + (w \div 2 - 1)
             /\ w < W => after = MadeAt(W, "VALID", h, w + 1)
             /\ w = W /\ h < H => after = MadeAt(W, "LINE_LINE_BLANK", h, w)
             /\ w = W /\ h = H => after = 0
<1>0. PICK L : L = (H \div 2) * (W \div 2)
  OBVIOUS
<1> DEFINE a == W \div 2
           b == H \div 2
           k == h \div 2 - 1
           c == w \div 2 - 1
           n == k * a + c
<1>1. /\ a \in Nat /\ b \in Nat /\ k \in Nat /\ c \in 0..a - 1 /\ k + 1 <= b
      /\ W = 2 * a /\ H = 2 * b /\ h = 2 * (k + 1) /\ w = 2 * (c + 1)
      /\ (h - 1) \div 2 = k /\ h \div 2 = k + 1
      /\ (w - 1) \div 2 = c /\ ((w + 1) - 1) \div 2 = c + 1
  BY DEF WholeWords
<1>2. MadeAt(W, "VALID", h, w) = n /\ MadeAt(W, "VALID", h, w + 1) = k * a + (c + 1)
      /\ MadeAt(W, "LINE_LINE_BLANK", h, w) = (k + 1) * a
  BY <1>1 DEF MadeAt
<1>3. /\ k * a \in Nat /\ (k + 1) * a = k * a + a /\ L \in Nat
      /\ (k + 1) * a <= L /\ (k + 1 < b => (k + 1) * a < L)
  <2>1. \A x, y \in Nat : x * y \in Nat /\ (x + 1) * y = x * y + y
    BY Z3
  <2>2. \A x, y, z \in Nat : x <= y => x * z <= y * z
    BY Z3
  <2>3. \A x, y, z \in Nat : x < y /\ z >= 1 => x * z < y * z
    BY Z3
  <2>4. L = b * a
    BY <1>0
  <2> HIDE DEF a, b, k, c, n
  <2>5. k + 1 \in Nat /\ a >= 1
    BY <1>1
  <2>6. QED
    BY <1>1, <2>1, <2>2, <2>3, <2>4, <2>5
<1> DEFINE ka == k * a
           ka2 == (k + 1) * a
<1>4. n \in 0..L - 1 /\ L >= 1
  <2> HIDE DEF a, b, k, c, ka, ka2
  <2>1. ka \in Nat /\ ka2 = ka + a /\ ka2 <= L /\ L \in Nat /\ n = ka + c
    BY <1>3 DEF ka, ka2
  <2> HIDE DEF n
  <2>2. QED
    BY <1>1, <2>1
<1>5. ASSUME w < W PROVE (n + 1) % L = k * a + (c + 1)
  <2> HIDE DEF a, b, k, c, ka, ka2
  <2>1. ka \in Nat /\ ka2 = ka + a /\ ka2 <= L /\ L \in Nat /\ n = ka + c
    BY <1>3 DEF ka, ka2
  <2> DEFINE m == n + 1
  <2>2. m \in 0..L - 1 /\ m = ka + (c + 1)
    <3> HIDE DEF n
    <3>1. QED
      BY <1>1, <1>5, <2>1
  <2> HIDE DEF n, m
  <2>3. m % L = m
    BY <1>3, <1>4, <2>2, Remains
  <2>4. QED
    BY <2>2, <2>3 DEF m, ka
<1>6. ASSUME w = W
      PROVE  /\ h < H => (n + 1) % L = (k + 1) * a
             /\ h = H => (n + 1) % L = 0
  <2>1. h = H => ka2 = L
    <3>1. h = H => k + 1 = b
      <4> HIDE DEF a, b, k, c, ka, ka2
      <4>1. QED
        BY <1>1
    <3>2. L = b * a
      BY <1>0
    <3> HIDE DEF a, b, k
    <3>3. QED
      BY <3>1, <3>2
  <2> HIDE DEF a, b, k, c, ka, ka2
  <2>2. ka \in Nat /\ ka2 = ka + a /\ ka2 <= L /\ L \in Nat /\ n = ka + c /\ (h < H => ka2 < L)
    BY <1>1, <1>3 DEF ka, ka2
  <2> DEFINE m == n + 1
  <2>3. m = ka2 /\ m \in Nat
    <3> HIDE DEF n
    <3>1. QED
      BY <1>1, <1>6, <2>2
  <2> HIDE DEF n, m
  <2>4. h < H => m % L = m
    <3>1. HAVE h < H
    <3>2. m \in 0..L - 1
      BY <2>2, <2>3, <3>1
    <3>3. QED
      BY <1>3, <1>4, <3>2, Remains
  <2>5. h = H => m % L = 0
    BY <1>3, <1>4, <2>1, <2>3, Remains
  <2>6. QED
    BY <2>3, <2>4, <2>5 DEF m, ka2
<1> DEFINE here == MadeAt(W, "VALID", h, w)
<1>7. /\ w < W => (here + 1) % L = MadeAt(W, "VALID", h, w + 1)
      /\ w = W /\ h < H => (here + 1) % L = MadeAt(W, "LINE_LINE_BLANK", h, w)
      /\ w = W /\ h = H => (here + 1) % L = 0
  <2> HIDE DEF a, b, k, c, n, here
  <2>1. here = n /\ MadeAt(W, "LINE_LINE_BLANK", h, w) = (k + 1) * a
    BY <1>2 DEF here
  <2>2. QED
    BY <1>2, <1>5, <1>6, <2>1, Zenon
<1>8. QED
  BY <1>0, <1>2, <1>7, Zenon

-----------------------------------------------------------------------------
(* The source and the acquisition, edge by edge.                           *)

Moves(s, t) == reg_state = s /\ reg_state' = t

Counts(h, w) == height_counter' = h /\ width_counter' = w

\* Where a source goes that is not stopped; h and w are its counters.
SourceGoes(h, w) ==
  \/ Moves("FRAME_LINE_BLANK", "FRAME_LINE_BLANK") /\ Counts(h, w)
  \/ Moves("FRAME_LINE_BLANK", "VALID") /\ Counts(1, 1)
  \/ Moves("VALID", "VALID") /\ w < Width /\ Counts(h, w + 1)
  \/ Moves("VALID", "LINE_LINE_BLANK") /\ w = Width /\ h < Height /\ height_counter' = h
  \/ Moves("VALID", "LINE_FRAME_BLANK") /\ w = Width /\ h = Height
  \/ Moves("VALID", "FRAME_FRAME_BLANK") /\ w = Width /\ h = Height
  \/ Moves("LINE_LINE_BLANK", "LINE_LINE_BLANK") /\ Counts(h, w)
  \/ Moves("LINE_LINE_BLANK", "VALID") /\ h < Height /\ Counts(h + 1, 1)
  \/ Moves("LINE_FRAME_BLANK", "LINE_FRAME_BLANK")
  \/ Moves("LINE_FRAME_BLANK", "FRAME_FRAME_BLANK")
  \/ Moves("FRAME_FRAME_BLANK", "FRAME_FRAME_BLANK")
  \/ Moves("FRAME_FRAME_BLANK", "FRAME_LINE_BLANK")

LEMMA SourceMoves ==
  ASSUME GeneratorInv, GeneratorEdge, reg_state # "IDLE", ~reg_stop, config["frameLine"] > 0,
         NEW h, h = height_counter, NEW w, w = width_counter
  PROVE  SourceGoes(h, w)
<1>1. STATE_LOGIC
  BY DEF GeneratorEdge
<1>2. UnitInv /\ config["frameLine"] # 0
  BY DEF GeneratorInv
<1>3. /\ Modulus \in Nat
      /\ reg_state = "VALID" => w \in 1..Width /\ h \in 1..Height
      /\ reg_state = "LINE_LINE_BLANK" => h \in 1..Height - 1
      /\ Width \in Nat /\ Width < Modulus /\ Height \in Nat /\ Height < Modulus
  BY <1>2, FieldNames, GeneratorConstants DEF UnitInv, CountersStop, Lengths, Width, Height
<1>4. \A x \in Nat : x < Modulus => x % Modulus = x
  BY SmallMod
<1>5. ~StateIdle
  BY DEF StateIdle
<1>6. ASSUME StateFrameFrameBlank PROVE SourceGoes(h, w)
  BY <1>2, <1>6 DEF StateFrameFrameBlank, Halt, StartOfFrame, Blank, Goto, SourceGoes, Moves
<1>7. ASSUME StateFrameLineBlank PROVE SourceGoes(h, w)
  BY <1>7 DEF StateFrameLineBlank, Halt, FirstLine, Goto, SourceGoes, Moves, Counts
<1>8. ASSUME StateValid PROVE SourceGoes(h, w)
  <2>1. reg_state = "VALID" /\ height_counter' = h /\ width_counter' = (w + 1) % Modulus
    BY <1>8 DEF StateValid
  <2>2. CASE ~EndOfLine
    <3>1. w < Width /\ (w + 1) % Modulus = w + 1
      BY <1>3, <1>4, <2>1, <2>2 DEF EndOfLine, Width
    <3>2. reg_state' = "VALID"
      BY <1>8, <2>2 DEF StateValid
    <3>3. QED
      BY <2>1, <3>1, <3>2 DEF SourceGoes, Moves, Counts
  <2>3. CASE EndOfLine
    <3>1. w = Width
      BY <2>3 DEF EndOfLine, Width
    <3>2. /\ h < Height => reg_state' = "LINE_LINE_BLANK"
          /\ ~(h < Height) => reg_state' \in {"LINE_FRAME_BLANK", "FRAME_FRAME_BLANK"}
      BY <1>8, <2>3 DEF StateValid, Height
    <3>3. h < Height \/ h = Height
      BY <1>3, <2>1
    <3>4. QED
      BY <2>1, <3>1, <3>2, <3>3 DEF SourceGoes, Moves
  <2>4. QED
    BY <2>2, <2>3
<1>9. ASSUME StateLineLineBlank PROVE SourceGoes(h, w)
  <2>1. reg_state = "LINE_LINE_BLANK"
    BY <1>9 DEF StateLineLineBlank
  <2>2. h < Height /\ (h + 1) % Modulus = h + 1
    BY <1>3, <1>4, <2>1
  <2>3. QED
    BY <1>9, <2>1, <2>2 DEF StateLineLineBlank, Halt, Goto, SourceGoes, Moves, Counts
<1>10. ASSUME StateLineFrameBlank PROVE SourceGoes(h, w)
  BY <1>10 DEF StateLineFrameBlank, Halt, Blank, Goto, SourceGoes, Moves
<1>11. QED
  BY <1>1, <1>5, <1>6, <1>7, <1>8, <1>9, <1>10 DEF STATE_LOGIC

\* Where the acquisition is while the source is in its state.
PlaceOf(W, h, w) ==
  /\ reg_state = "VALID" /\ h % 2 = 1 => StoredLine(W, h, w)
  /\ reg_state = "VALID" /\ h % 2 = 0 => PairedLine(W, h, w)
  /\ reg_state = "LINE_LINE_BLANK" /\ h % 2 = 1 => BetweenThem(W, h)
  /\ reg_state = "LINE_LINE_BLANK" /\ h % 2 = 0 => InFront
  /\ reg_state = "FRAME_LINE_BLANK" => InFront
  /\ reg_state = "LINE_FRAME_BLANK" => InFront
  /\ reg_state = "FRAME_FRAME_BLANK" => InFront \/ BetweenFrames

\* What the acquisition sees of the source.
LEMMA EdgeSeen ==
  ASSUME NEW pixel, AcquisitionEdge(frame_valid', line_valid', pixel, TRUE)
  PROVE  /\ reg_state' = "VALID" => AcquisitionEdge(TRUE, TRUE, pixel, TRUE)
         /\ reg_state' \in {"FRAME_LINE_BLANK", "LINE_LINE_BLANK", "LINE_FRAME_BLANK"} =>
              AcquisitionEdge(TRUE, FALSE, pixel, TRUE)
         /\ reg_state' = "FRAME_FRAME_BLANK" => AcquisitionEdge(FALSE, FALSE, pixel, TRUE)
<1>1. /\ reg_state' = "VALID" => frame_valid' /\ line_valid'
      /\ reg_state' \in {"FRAME_LINE_BLANK", "LINE_LINE_BLANK", "LINE_FRAME_BLANK"} =>
           frame_valid' /\ ~line_valid'
      /\ reg_state' = "FRAME_FRAME_BLANK" => ~frame_valid' /\ ~line_valid'
  BY DEF frame_valid, line_valid
<1>2. frame_valid' \in BOOLEAN /\ line_valid' \in BOOLEAN
  BY DEF frame_valid, line_valid
<1>3. /\ frame_valid' => frame_valid' = TRUE
      /\ ~frame_valid' => frame_valid' = FALSE
      /\ line_valid' => line_valid' = TRUE
      /\ ~line_valid' => line_valid' = FALSE
  BY <1>2
<1>4. ASSUME reg_state' = "VALID" PROVE AcquisitionEdge(TRUE, TRUE, pixel, TRUE)
  <2>1. frame_valid' = TRUE /\ line_valid' = TRUE
    BY <1>1, <1>3, <1>4, Zenon
  <2>2. QED
    BY <2>1, Zenon
<1>5. ASSUME reg_state' \in {"FRAME_LINE_BLANK", "LINE_LINE_BLANK", "LINE_FRAME_BLANK"}
      PROVE  AcquisitionEdge(TRUE, FALSE, pixel, TRUE)
  <2>1. frame_valid' = TRUE /\ line_valid' = FALSE
    BY <1>1, <1>3, <1>5, Zenon
  <2>2. QED
    BY <2>1, Zenon
<1>6. ASSUME reg_state' = "FRAME_FRAME_BLANK" PROVE AcquisitionEdge(FALSE, FALSE, pixel, TRUE)
  <2>1. frame_valid' = FALSE /\ line_valid' = FALSE
    BY <1>1, <1>3, <1>6, Zenon
  <2>2. QED
    BY <2>1, Zenon
<1>7. QED
  BY <1>4, <1>5, <1>6, Zenon

\* The acquisition follows the source: it stores odd lines and pairs even ones.
LEMMA PlaceKept ==
  ASSUME AcquisitionInv, NEW W \in Nat, NEW H \in Nat, W % 2 = 0, H % 2 = 0, W >= 1,
         W <= 2 * LineStore, Width = W, Height = H, NEW h \in Nat, NEW w \in Nat,
         reg_state = "VALID" => h \in 1..H /\ w \in 1..W,
         reg_state = "LINE_LINE_BLANK" => h \in 1..H,
         FVAL_Previous = frame_valid, LVAL_Previous = line_valid,
         PlaceOf(W, h, w), SourceGoes(h, w),
         NEW h2, h2 = height_counter', NEW w2, w2 = width_counter',
         NEW pixel \in Numbers, reg_state' = "VALID" => pixel = (h2 - 1) * W + w2 - 1,
         AcquisitionEdge(frame_valid', line_valid', pixel, TRUE)
  PROVE  PlaceOf(W, h2, w2)'
<1>1. /\ reg_state' = "VALID" => AcquisitionEdge(TRUE, TRUE, pixel, TRUE)
      /\ reg_state' \in {"FRAME_LINE_BLANK", "LINE_LINE_BLANK", "LINE_FRAME_BLANK"} =>
           AcquisitionEdge(TRUE, FALSE, pixel, TRUE)
      /\ reg_state' = "FRAME_FRAME_BLANK" => AcquisitionEdge(FALSE, FALSE, pixel, TRUE)
  BY EdgeSeen
<1>2. /\ reg_state = "VALID" => FVAL_Previous = TRUE /\ LVAL_Previous = TRUE
      /\ reg_state # "VALID" => LVAL_Previous = FALSE
      /\ reg_state = "FRAME_FRAME_BLANK" => FVAL_Previous = FALSE
  BY DEF AcquisitionInv, frame_valid, line_valid
<1>3. h % 2 = 0 \/ h % 2 = 1
  OBVIOUS
<1>4. ASSUME NEW FVAL, InFront, AcquisitionEdge(FVAL, FALSE, pixel, TRUE) PROVE InFront'
  BY <1>4, InFrontStays
<1>5. CASE Moves("FRAME_LINE_BLANK", "FRAME_LINE_BLANK")
  <2>1. InFront'
    BY <1>1, <1>4, <1>5 DEF Moves, PlaceOf
  <2>2. QED
    BY <1>5, <2>1 DEF Moves, PlaceOf
<1>6. CASE Moves("FRAME_LINE_BLANK", "VALID") /\ Counts(1, 1)
  <2>1. h2 = 0 + 1 /\ w2 = 1 /\ pixel = ((0 + 1) - 1) * W + 1 - 1 /\ h2 % 2 = 1
    BY <1>6 DEF Moves, Counts
  <2>2. StoredLine(W, 0 + 1, 1)'
    BY <1>1, <1>2, <1>6, <2>1, StoredLineStarts DEF Moves, PlaceOf
  <2>3. StoredLine(W, h2, w2)'
    BY <2>1, <2>2
  <2>4. QED
    BY <1>6, <2>1, <2>3 DEF Moves, PlaceOf
<1>7. CASE Moves("VALID", "VALID") /\ w < Width /\ Counts(h, w + 1)
  <2>1. h2 = h /\ w2 = w + 1 /\ pixel = (h - 1) * W + (w + 1) - 1 /\ h >= 1 /\ w >= 1 /\ w < W
    BY <1>7 DEF Moves, Counts
  <2>2. CASE h % 2 = 1
    <3>1. StoredLine(W, h, w + 1)'
      BY <1>1, <1>2, <1>7, <2>1, <2>2, StoredLineGoesOn DEF Moves, PlaceOf
    <3>2. StoredLine(W, h2, w2)'
      BY <2>1, <3>1
    <3>3. QED
      BY <1>7, <2>1, <2>2, <3>2 DEF Moves, PlaceOf
  <2>3. CASE h % 2 = 0
    <3>0. h >= 2
      BY <2>1, <2>3
    <3>1. PairedLine(W, h, w) /\ h >= 2 /\ AcquisitionEdge(TRUE, TRUE, pixel, TRUE)
      BY <1>1, <1>7, <2>3, <3>0, Zenon DEF Moves, PlaceOf
    <3>2. PairedLine(W, h, w + 1)'
      BY <2>1, <3>1, PairedLineGoesOn
    <3>3. PairedLine(W, h2, w2)'
      BY <2>1, <3>2
    <3>4. QED
      BY <1>7, <2>1, <2>3, <3>3 DEF Moves, PlaceOf
  <2>4. QED
    BY <1>3, <2>2, <2>3
<1>8. CASE Moves("VALID", "LINE_LINE_BLANK") /\ w = Width /\ height_counter' = h
  <2>0. reg_state' \in {"FRAME_LINE_BLANK", "LINE_LINE_BLANK", "LINE_FRAME_BLANK"}
    BY <1>8 DEF Moves
  <2>1. h2 = h /\ w = W /\ h >= 1 /\ AcquisitionEdge(TRUE, FALSE, pixel, TRUE)
    <3>1. h2 = h /\ w = W /\ h >= 1
      BY <1>8 DEF Moves
    <3>2. QED
      BY <1>1, <2>0, <3>1, Zenon
  <2>2. CASE h % 2 = 1
    <3>1. BetweenThem(W, h)'
      BY <1>2, <1>8, <2>1, <2>2, StoredLineEnds DEF Moves, PlaceOf
    <3>2. QED
      BY <1>8, <2>1, <2>2, <3>1 DEF Moves, PlaceOf
  <2>3. CASE h % 2 = 0
    <3>1. InFront'
      BY <1>2, <1>8, <2>1, <2>3, PairedLineEnds DEF Moves, PlaceOf
    <3>2. QED
      BY <1>8, <2>1, <2>3, <3>1 DEF Moves, PlaceOf
  <2>4. QED
    BY <1>3, <2>2, <2>3
<1>9. CASE Moves("VALID", "LINE_FRAME_BLANK") /\ w = Width /\ h = Height
  <2>1. InFront'
    BY <1>1, <1>2, <1>9, PairedLineEnds DEF Moves, PlaceOf
  <2>2. QED
    BY <1>9, <2>1 DEF Moves, PlaceOf
<1>10. CASE Moves("VALID", "FRAME_FRAME_BLANK") /\ w = Width /\ h = Height
  <2>1. BetweenFrames'
    BY <1>1, <1>2, <1>10, PairedLineEnds DEF Moves, PlaceOf
  <2>2. QED
    BY <1>10, <2>1 DEF Moves, PlaceOf
<1>11. CASE Moves("LINE_LINE_BLANK", "LINE_LINE_BLANK") /\ Counts(h, w)
  <2>1. h2 = h /\ AcquisitionEdge(TRUE, FALSE, pixel, TRUE)
    BY <1>1, <1>11 DEF Moves, Counts
  <2>2. CASE h % 2 = 1
    <3>1. BetweenThem(W, h)'
      BY <1>11, <2>1, <2>2, BetweenThemStays DEF Moves, PlaceOf
    <3>2. QED
      BY <1>11, <2>1, <2>2, <3>1 DEF Moves, PlaceOf
  <2>3. CASE h % 2 = 0
    <3>1. InFront'
      BY <1>4, <1>11, <2>1, <2>3 DEF Moves, PlaceOf
    <3>2. QED
      BY <1>11, <2>1, <2>3, <3>1 DEF Moves, PlaceOf
  <2>4. QED
    BY <1>3, <2>2, <2>3
<1>12. CASE Moves("LINE_LINE_BLANK", "VALID") /\ Counts(h + 1, 1)
  <2>1. h2 = h + 1 /\ w2 = 1 /\ pixel = ((h + 1) - 1) * W + 1 - 1
        /\ AcquisitionEdge(TRUE, TRUE, pixel, TRUE) /\ LVAL_Previous = FALSE
    BY <1>1, <1>2, <1>12 DEF Moves, Counts
  <2>2. CASE h % 2 = 1
    <3>1. PairedLine(W, h + 1, 1)'
      BY <1>12, <2>1, <2>2, PairedLineStarts DEF Moves, PlaceOf
    <3>2. PairedLine(W, h2, w2)' /\ h2 % 2 = 0
      BY <2>1, <2>2, <3>1
    <3>3. QED
      BY <1>12, <3>2 DEF Moves, PlaceOf
  <2>3. CASE h % 2 = 0
    <3>1. StoredLine(W, h + 1, 1)'
      BY <1>12, <2>1, <2>3, StoredLineStarts DEF Moves, PlaceOf
    <3>2. StoredLine(W, h2, w2)' /\ h2 % 2 = 1
      BY <2>1, <2>3, <3>1
    <3>3. QED
      BY <1>12, <3>2 DEF Moves, PlaceOf
  <2>4. QED
    BY <1>3, <2>2, <2>3
<1>13. CASE Moves("LINE_FRAME_BLANK", "LINE_FRAME_BLANK")
  <2>1. InFront'
    BY <1>1, <1>4, <1>13 DEF Moves, PlaceOf
  <2>2. QED
    BY <1>13, <2>1 DEF Moves, PlaceOf
<1>14. CASE Moves("LINE_FRAME_BLANK", "FRAME_FRAME_BLANK")
  <2>1. InFront'
    BY <1>1, <1>4, <1>14 DEF Moves, PlaceOf
  <2>2. QED
    BY <1>14, <2>1 DEF Moves, PlaceOf
<1>15. CASE Moves("FRAME_FRAME_BLANK", "FRAME_FRAME_BLANK")
  <2>1. CASE InFront
    BY <1>1, <1>4, <1>15, <2>1 DEF Moves, PlaceOf
  <2>2. CASE BetweenFrames
    <3>1. BetweenFrames'
      <4>1. frame_valid' \in BOOLEAN /\ ~frame_valid'
        BY <1>15 DEF Moves, frame_valid
      <4>2. State = "Idle_Frame"
        BY <2>2 DEF BetweenFrames
      <4>3. QED
        BY <4>1, <4>2, FrameWaits, Zenon
    <3>2. QED
      BY <1>15, <3>1 DEF Moves, PlaceOf
  <2>3. QED
    BY <1>15, <2>1, <2>2 DEF Moves, PlaceOf
<1>16. CASE Moves("FRAME_FRAME_BLANK", "FRAME_LINE_BLANK")
  <2>1. CASE InFront
    BY <1>1, <1>4, <1>16, <2>1 DEF Moves, PlaceOf
  <2>2. CASE BetweenFrames
    <3>1. InFront'
      <4>1. frame_valid' \in BOOLEAN /\ frame_valid' /\ ~FVAL_Previous
        BY <1>2, <1>16 DEF Moves, frame_valid
      <4>2. State = "Idle_Frame"
        BY <2>2 DEF BetweenFrames
      <4>3. QED
        BY <4>1, <4>2, FrameWaits, Zenon
    <3>2. QED
      BY <1>16, <3>1 DEF Moves, PlaceOf
  <2>3. QED
    BY <1>16, <2>1, <2>2 DEF Moves, PlaceOf
<1>17. QED
  BY <1>5, <1>6, <1>7, <1>8, <1>9, <1>10, <1>11, <1>12, <1>13, <1>14, <1>15, <1>16, Zenon
     DEF SourceGoes

\* The pixels at the output are the frame's blocks, one after the other.
NextBlock(W, H, m, m2) ==
  \/ Pixel_Valid_Out = FALSE /\ m2 = m
  \/ /\ Pixel_Valid_Out = TRUE /\ PixelsOf(Out_Pixel) = BlockIn(W, m)
     /\ m2 = (m + 1) % ((H \div 2) * (W \div 2))

LEMMA BlocksFollow ==
  ASSUME NEW W \in Nat, NEW H \in Nat, WholeWords(W, H), Width = W, Height = H,
         NEW h \in Nat, NEW w \in Nat,
         reg_state = "VALID" => h \in 1..H /\ w \in 1..W,
         reg_state = "LINE_LINE_BLANK" => h \in 1..H,
         reg_state # "IDLE", PlaceOf(W, h, w), SourceGoes(h, w),
         NEW h2, h2 = height_counter', NEW w2, w2 = width_counter'
  PROVE  NextBlock(W, H, MadeAt(W, reg_state, h, w), MadeAt(W, reg_state', h2, w2))
<1>01. PICK m, m2 : m = MadeAt(W, reg_state, h, w) /\ m2 = MadeAt(W, reg_state', h2, w2)
  OBVIOUS
<1>02. PICK L : L = (H \div 2) * (W \div 2)
  OBVIOUS
<1> SUFFICES \/ Pixel_Valid_Out = FALSE /\ m2 = m
             \/ /\ Pixel_Valid_Out = TRUE /\ PixelsOf(Out_Pixel) = BlockIn(W, m)
                /\ m2 = (m + 1) % L
  BY <1>01, <1>02, Zenon DEF NextBlock
<1> USE <1>01, <1>02
<1> DEFINE a == W \div 2
<1>1. a \in Nat /\ W % 2 = 0 /\ H % 2 = 0
  BY DEF WholeWords
<1>2. CASE reg_state = "VALID" /\ h % 2 = 0 /\ w % 2 = 0
  <2>1. h \in 1..H /\ w \in 1..W /\ h >= 2 /\ w \div 2 - 1 \in Nat /\ w \div 2 - 1 < W \div 2
    BY <1>1, <1>2
  <2>2. m = (h \div 2 - 1) * (W \div 2) + (w \div 2 - 1) /\ m = MadeAt(W, "VALID", h, w)
    BY <1>2, <2>1, BlockAfter
  <2>3. Pixel_Valid_Out = TRUE /\ PixelsOf(Out_Pixel) = BlockIn(W, m)
    <3>1. Pixel_Valid_Out = TRUE /\ Out_Pixel = BlockAt(W, h, w \div 2 - 1)
      BY <1>2 DEF PlaceOf, PairedLine
    <3>2. PixelsOf(BlockAt(W, h, w \div 2 - 1))
            = BlockIn(W, (h \div 2 - 1) * (W \div 2) + (w \div 2 - 1))
      BY <1>1, <1>2, <2>1, BlockMade
    <3>3. QED
      BY <2>2, <3>1, <3>2, Zenon
  <2> DEFINE here == MadeAt(W, "VALID", h, w)
  <2>4. /\ w < W => (here + 1) % L = MadeAt(W, "VALID", h, w + 1)
        /\ w = W /\ h < H => (here + 1) % L = MadeAt(W, "LINE_LINE_BLANK", h, w)
        /\ w = W /\ h = H => (here + 1) % L = 0
    <3>1. h \in 1..H /\ w \in 1..W /\ h % 2 = 0 /\ w % 2 = 0
      BY <1>2, <2>1
    <3> DEFINE P == (H \div 2) * (W \div 2)
    <3>2. /\ w < W => (here + 1) % P = MadeAt(W, "VALID", h, w + 1)
          /\ w = W /\ h < H => (here + 1) % P = MadeAt(W, "LINE_LINE_BLANK", h, w)
          /\ w = W /\ h = H => (here + 1) % P = 0
      BY <3>1, BlockAfter, ZenonT(60)
    <3>3. L = P
      OBVIOUS
    <3> HIDE DEF P, here
    <3>4. QED
      BY <3>2, <3>3, Zenon
  <2> DEFINE next == (m + 1) % L
  <2>5. next = (here + 1) % L
    BY <2>2
  <2> HIDE DEF here, next
  <2>6. CASE Moves("VALID", "VALID") /\ w < Width /\ Counts(h, w + 1)
    <3>1. w < W /\ h2 = h /\ w2 = w + 1 /\ reg_state' = "VALID"
      BY <2>6 DEF Counts, Moves
    <3>2. m2 = MadeAt(W, "VALID", h, w + 1)
      BY <3>1, Zenon
    <3>3. m2 = next
      BY <2>4, <2>5, <3>1, <3>2, Zenon
    <3>4. QED
      BY <2>3, <3>3 DEF next
  <2>7. CASE Moves("VALID", "LINE_LINE_BLANK") /\ w = Width /\ h < Height /\ height_counter' = h
    <3>1. w = W /\ h < H /\ h2 = h /\ reg_state' = "LINE_LINE_BLANK"
      BY <2>7 DEF Moves
    <3>2. m2 = MadeAt(W, "LINE_LINE_BLANK", h, w2) /\ m2 = MadeAt(W, "LINE_LINE_BLANK", h, w)
      BY <3>1 DEF MadeAt
    <3>3. m2 = next
      BY <2>4, <2>5, <3>1, <3>2, Zenon
    <3>4. QED
      BY <2>3, <3>3 DEF next
  <2>8. CASE \/ Moves("VALID", "LINE_FRAME_BLANK") /\ w = Width /\ h = Height
             \/ Moves("VALID", "FRAME_FRAME_BLANK") /\ w = Width /\ h = Height
    <3>1. w = W /\ h = H /\ m2 = 0
      BY <2>8 DEF Moves, MadeAt
    <3>2. m2 = next
      BY <2>4, <2>5, <3>1, Zenon
    <3>3. QED
      BY <2>3, <3>2 DEF next
  <2>9. QED
    BY <1>2, <2>6, <2>7, <2>8 DEF SourceGoes, Moves
<1>3. CASE reg_state = "VALID" /\ h % 2 = 0 /\ w % 2 = 1
  <2>1. Pixel_Valid_Out = FALSE
    BY <1>3 DEF PlaceOf, PairedLine
  <2>2. h \in 1..H /\ w \in 1..W /\ w # W
    BY <1>1, <1>3
  <2>3. reg_state' = "VALID" /\ h2 = h /\ w2 = w + 1
    BY <1>3, <2>2 DEF SourceGoes, Moves, Counts
  <2>4. (w - 1) \div 2 = ((w + 1) - 1) \div 2
    BY <1>3, <2>2
  <2>5. m2 = m
    BY <1>3, <2>3, <2>4 DEF MadeAt
  <2>6. QED
    BY <2>1, <2>5
<1>4. CASE reg_state = "VALID" /\ h % 2 = 1
  <2>1. Pixel_Valid_Out = FALSE
    BY <1>4 DEF PlaceOf, StoredLine
  <2>2. h \in 1..H /\ h # H /\ (h - 1) \div 2 = h \div 2 /\ h % 2 # 0
    BY <1>1, <1>4
  <2>3. m = (h \div 2) * a + 0
    BY <1>4, <2>2 DEF MadeAt
  <2>4. (reg_state' = "VALID" \/ reg_state' = "LINE_LINE_BLANK") /\ h2 = h
    BY <1>4, <2>2 DEF SourceGoes, Moves, Counts
  <2>5. m2 = (h \div 2) * a + 0
    <3>1. (h \div 2) * a = (h \div 2) * a + 0
      <4>1. h \div 2 \in Nat
        OBVIOUS
      <4>2. \A x, y \in Nat : x * y = x * y + 0
        BY Z3
      <4>3. QED
        BY <1>1, <4>1, <4>2
    <3>2. CASE reg_state' = "VALID"
      BY <2>2, <2>4, <3>2 DEF MadeAt
    <3>3. CASE reg_state' = "LINE_LINE_BLANK"
      BY <2>4, <3>1, <3>3 DEF MadeAt
    <3>4. QED
      BY <2>4, <3>2, <3>3
  <2>6. QED
    BY <2>1, <2>3, <2>5
<1>5. CASE reg_state = "LINE_LINE_BLANK"
  <2>1. Pixel_Valid_Out = FALSE
    BY <1>5 DEF PlaceOf, BetweenThem, InFront, NoRequests
  <2>2. m = (h \div 2) * a
    BY <1>5 DEF MadeAt
  <2>3. CASE Moves("LINE_LINE_BLANK", "LINE_LINE_BLANK") /\ Counts(h, w)
    BY <2>1, <2>2, <2>3 DEF MadeAt, Moves, Counts
  <2>4. CASE Moves("LINE_LINE_BLANK", "VALID") /\ Counts(h + 1, 1)
    <3>1. reg_state' = "VALID" /\ h2 = h + 1 /\ w2 = 1
      BY <2>4 DEF Moves, Counts
    <3>2. (h + 1) - 1 = h /\ (1 - 1) \div 2 = 0
      OBVIOUS
    <3>3. m2 = (h \div 2) * a + 0
      BY <3>1, <3>2 DEF MadeAt
    <3>4. (h \div 2) * a + 0 = (h \div 2) * a
      <4>1. h \div 2 \in Nat
        OBVIOUS
      <4>2. \A x, y \in Nat : x * y + 0 = x * y
        BY Z3
      <4>3. QED
        BY <1>1, <4>1, <4>2
    <3>5. QED
      BY <2>1, <2>2, <3>3, <3>4
  <2>5. QED
    BY <1>5, <2>3, <2>4 DEF SourceGoes, Moves
<1>6. CASE reg_state \in {"FRAME_LINE_BLANK", "LINE_FRAME_BLANK", "FRAME_FRAME_BLANK"}
  <2>1. Pixel_Valid_Out = FALSE
    BY <1>6 DEF PlaceOf, InFront, BetweenFrames, NoRequests
  <2>2. m = 0
    BY <1>6 DEF MadeAt
  <2>3. m2 = 0
    <3>1. CASE reg_state' # "VALID"
      BY <1>6, <3>1 DEF SourceGoes, Moves, MadeAt
    <3>2. CASE reg_state' = "VALID"
      <4>1. h2 = 1 /\ w2 = 1
        BY <1>6, <3>2 DEF SourceGoes, Moves, Counts
      <4>2. (1 - 1) \div 2 = 0 /\ 1 % 2 # 0 /\ 0 * a + 0 = 0
        BY <1>1
      <4>3. QED
        BY <3>2, <4>1, <4>2 DEF MadeAt
    <3>3. QED
      BY <3>1, <3>2
  <2>4. QED
    BY <2>1, <2>2, <2>3
<1>7. (h % 2 = 0 \/ h % 2 = 1) /\ (w % 2 = 0 \/ w % 2 = 1)
  OBVIOUS
<1>8. \/ reg_state = "VALID" \/ reg_state = "LINE_LINE_BLANK"
      \/ reg_state \in {"FRAME_LINE_BLANK", "LINE_FRAME_BLANK", "FRAME_FRAME_BLANK"}
  BY DEF SourceGoes, Moves
<1>9. QED
  BY <1>2, <1>3, <1>4, <1>5, <1>6, <1>7, <1>8, Zenon

-----------------------------------------------------------------------------
(* The pixels on their way.                                                *)

\* Sequence s continues a frame of 2 * F blocks after its first c words, and
\* block m comes next.
Ordered(s, c, W, F, m) ==
  /\ (2 * c + Len(s)) % (2 * F) = m
  /\ \A i \in 1..Len(s) : PixelsOf(s[i]) = BlockIn(W, (2 * c + i - 1) % (2 * F))

LEMMA OrderedPut ==
  ASSUME NEW s \in Seq(Blocks), NEW p \in Blocks, NEW c \in Nat, NEW W, NEW F \in Nat, F >= 1,
         NEW m, Ordered(s, c, W, F, m), PixelsOf(p) = BlockIn(W, m)
  PROVE  Ordered(Append(s, p), c, W, F, (m + 1) % (2 * F))
<1>1. /\ Len(s) \in Nat /\ Len(Append(s, p)) = Len(s) + 1
      /\ \A i \in 1..Len(s) : Append(s, p)[i] = s[i]
      /\ Append(s, p)[Len(s) + 1] = p
  BY AppendProperties, LenProperties
<1>2. PICK n : n = Len(s)
  OBVIOUS
<1>3. PICK d : d = 2 * F
  OBVIOUS
<1>4. d \in Nat /\ d >= 1 /\ 2 * c + n \in Nat /\ n \in Nat
  BY <1>1, <1>2, <1>3
<1>5. (2 * c + n) % d = m
  BY <1>2, <1>3 DEF Ordered
<1>6. ((2 * c + n) + 1) % d = (((2 * c + n) % d) + 1) % d
  BY <1>4, Remains
<1>7. 2 * c + (n + 1) = (2 * c + n) + 1 /\ 2 * c + (n + 1) - 1 = 2 * c + n
  BY <1>4
<1>8. (2 * c + (n + 1)) % d = (m + 1) % d
  BY <1>5, <1>6, <1>7
<1>9. ASSUME NEW i \in 1..n + 1
      PROVE  PixelsOf(Append(s, p)[i]) = BlockIn(W, (2 * c + i - 1) % d)
  <2>1. CASE i \in 1..n
    BY <1>1, <1>2, <1>3, <2>1 DEF Ordered
  <2>2. CASE i = n + 1
    <3>1. Append(s, p)[i] = p /\ 2 * c + i - 1 = 2 * c + n
      BY <1>1, <1>2, <1>7, <2>2
    <3>2. (2 * c + i - 1) % d = m
      BY <1>5, <3>1
    <3>3. QED
      BY <3>1, <3>2
  <2>3. i \in 1..n \/ i = n + 1
    BY <1>4
  <2>4. QED
    BY <2>1, <2>2, <2>3, Zenon
<1>10. QED
  BY <1>1, <1>2, <1>3, <1>8, <1>9 DEF Ordered

\* Sequence s begins with the word before c, and goes on from c.
WordTaken(s, c, W, F, m) ==
  /\ c \in 0..F - 1
  /\ Ordered(SubSeq(s, 3, Len(s)), c, W, F, m)
  /\ PixelsOf(SubSeq(s, 1, 2)[1]) = BlockIn(W, 2 * ((c + F - 1) % F))
  /\ PixelsOf(SubSeq(s, 1, 2)[2]) = BlockIn(W, 2 * ((c + F - 1) % F) + 1)

LEMMA OrderedDeliver ==
  ASSUME NEW s \in Seq(Blocks), Len(s) >= 2, NEW W, NEW F \in Nat, F >= 1, NEW c \in 0..F - 1,
         NEW m, Ordered(s, c, W, F, m)
  PROVE  WordTaken(s, (c + 1) % F, W, F, m)
<1>0. PICK c2 : c2 = (c + 1) % F
  OBVIOUS
<1> SUFFICES WordTaken(s, c2, W, F, m)
  BY <1>0, Zenon
<1> USE <1>0
<1>1. PICK n : n = Len(s)
  OBVIOUS
<1>2. PICK d : d = 2 * F
  OBVIOUS
<1>3. n \in Nat /\ n >= 2 /\ d \in Nat /\ d >= 1 /\ c \in Nat
  BY <1>1, <1>2, LenProperties
<1>4. \/ c + 1 < F /\ c2 = c + 1
      \/ c + 1 = F /\ c2 = 0
  <2>1. CASE c + 1 < F
    <3>1. PICK e : e = c + 1
      OBVIOUS
    <3>2. e \in 0..F - 1
      BY <2>1, <3>1
    <3>3. e % F = e
      BY <3>2, Remains
    <3>4. QED
      BY <2>1, <3>1, <3>3
  <2>2. CASE c + 1 = F
    <3>1. F % F = 0
      BY Remains
    <3>2. QED
      BY <2>2, <3>1
  <2>3. QED
    BY <2>1, <2>2
<1>5. c2 \in 0..F - 1
  BY <1>4
<1>6. ASSUME NEW x \in Nat PROVE (2 * c2 + x) % d = (2 * c + (x + 2)) % d
  <2>1. CASE c + 1 < F /\ c2 = c + 1
    <3>1. 2 * c2 + x = 2 * c + (x + 2)
      BY <1>3, <2>1
    <3>2. QED
      BY <3>1
  <2>2. CASE c + 1 = F /\ c2 = 0
    <3>1. 2 * c + (x + 2) = x + d /\ 2 * c2 + x = x
      BY <1>2, <1>3, <2>2
    <3>2. (x + d) % d = x % d
      BY <1>3, Remains
    <3>3. QED
      BY <3>1, <3>2
  <2>3. QED
    BY <1>4, <2>1, <2>2
<1>7. (c2 + F - 1) % F = c
  <2>1. CASE c + 1 < F /\ c2 = c + 1
    <3>1. c2 + F - 1 = c + F
      BY <1>3, <2>1
    <3>2. (c + F) % F = c % F /\ c % F = c
      BY <1>3, Remains
    <3>3. QED
      BY <3>1, <3>2
  <2>2. CASE c + 1 = F /\ c2 = 0
    <3>1. c2 + F - 1 = c
      BY <1>3, <2>2
    <3>2. c % F = c
      BY Remains
    <3>3. QED
      BY <3>1, <3>2
  <2>3. QED
    BY <1>4, <2>1, <2>2
<1>8. /\ (2 * c + n) % d = m
      /\ \A i \in 1..n : PixelsOf(s[i]) = BlockIn(W, (2 * c + i - 1) % d)
  BY <1>1, <1>2 DEF Ordered
<1> DEFINE t == SubSeq(s, 3, Len(s))
           u == SubSeq(s, 1, 2)
<1>9. /\ Len(t) = n - 2 /\ \A i \in 1..(n - 2) : t[i] = s[i + 2]
      /\ u[1] = s[1] /\ u[2] = s[2]
  <2>1. \A i \in 1..n : s[i] \in Blocks
    BY <1>1, <1>3, ElementOfSeq
  <2>2. /\ Len(SubSeq(s, 3, n)) = IF 3 <= n THEN n - 3 + 1 ELSE 0
        /\ \A i \in 1..n - 3 + 1 : SubSeq(s, 3, n)[i] = s[3 + i - 1]
    BY <1>3, <2>1, SubSeqProperties
  <2>3. \A i \in 1..2 - 1 + 1 : SubSeq(s, 1, 2)[i] = s[1 + i - 1]
    <3>1. \A i \in 1..2 : s[i] \in Blocks
      BY <1>3, <2>1
    <3>2. QED
      BY <3>1, SubSeqProperties
  <2>4. u[1] = s[1] /\ u[2] = s[2]
    BY <2>3
  <2>5. \A i \in 1..(n - 2) : i \in 1..n - 3 + 1 /\ 3 + i - 1 = i + 2
    BY <1>3
  <2>6. (IF 3 <= n THEN n - 3 + 1 ELSE 0) = n - 2
    BY <1>3
  <2>7. QED
    BY <1>1, <2>2, <2>4, <2>5, <2>6
<1>10. Ordered(t, c2, W, F, m)
  <2>1. PICK x \in Nat : x = n - 2
    BY <1>3
  <2>2. (2 * c2 + x) % d = m
    <3>1. x + 2 = n
      BY <1>3, <2>1
    <3>2. QED
      BY <1>6, <1>8, <3>1
  <2>3. ASSUME NEW i \in 1..x PROVE PixelsOf(t[i]) = BlockIn(W, (2 * c2 + i - 1) % d)
    <3>1. PICK y \in Nat : y = i - 1
      OBVIOUS
    <3>2. (2 * c2 + y) % d = (2 * c + (y + 2)) % d
      BY <1>6
    <3>3. 2 * c2 + i - 1 = 2 * c2 + y /\ 2 * c + (i + 2) - 1 = 2 * c + (y + 2)
          /\ i + 2 \in 1..n
      BY <1>3, <1>5, <2>1, <3>1
    <3>4. PixelsOf(s[i + 2]) = BlockIn(W, (2 * c + (i + 2) - 1) % d)
      BY <1>8, <3>3
    <3>5. t[i] = s[i + 2]
      BY <1>9, <2>1
    <3> HIDE DEF t
    <3>6. QED
      BY <3>2, <3>3, <3>4, <3>5
  <2>4. Len(t) = x
    BY <1>9, <2>1
  <2> HIDE DEF t
  <2>5. QED
    BY <1>2, <2>2, <2>3, <2>4 DEF Ordered
<1>11. PixelsOf(u[1]) = BlockIn(W, 2 * c) /\ PixelsOf(u[2]) = BlockIn(W, 2 * c + 1)
  <2>1. PICK x, y : x = 2 * c /\ y = 2 * c + 1
    OBVIOUS
  <2>2. x \in 0..d - 1 /\ y \in 0..d - 1 /\ 2 * c + 1 - 1 = x /\ 2 * c + 2 - 1 = y
    BY <1>2, <1>3, <2>1
  <2>3. x % d = x /\ y % d = y
    BY <1>3, <2>2, Remains
  <2>4. PixelsOf(s[1]) = BlockIn(W, (2 * c + 1 - 1) % d) /\ PixelsOf(s[2]) = BlockIn(W, (2 * c + 2 - 1) % d)
    BY <1>3, <1>8
  <2> HIDE DEF u
  <2>5. QED
    BY <1>9, <2>1, <2>2, <2>3, <2>4
<1>12. QED
  BY <1>5, <1>7, <1>10, <1>11, Zenon DEF WordTaken

-----------------------------------------------------------------------------
(* Words in order, through the whole path.                                 *)

\* Room for a line of the largest frame: 1920 <= 2 * 1024 as delivered.
StoreSuffices == Maximum <= 2 * LineStore

\* The driver writes no size beyond its bounds, and reset does not either.
BoundInv == \A f \in Fields : config[f] <= Maximum

\* Pixels are taken within a frame.
FollowsInv == State = "Getting_Pixels" \/ Pixel_Valid_Out => FVAL_Previous

\* A fresh stream has nothing on its way; a camera that is off is fresh.
FreshInv ==
  /\ stream = "fresh" => InFlight = <<>> /\ word = <<>> /\ count = 0
  /\ ~Ready => stream = "fresh"

\* The word just delivered is the one before the next.
LastWord(W, F) ==
  word # <<>> =>
    LET n == (count + F - 1) % F
    IN  PixelsOf(word[1]) = BlockIn(W, 2 * n) /\ PixelsOf(word[2]) = BlockIn(W, 2 * n + 1)

\* An aligned stream, with frames of size W times H, the source at h and w.
AlignedAt(W, H, h, w) ==
  /\ Ready = TRUE /\ clocked = TRUE
  /\ Width = W /\ Height = H /\ height_counter = h /\ width_counter = w
  /\ config["frameLine"] > 0 /\ W <= 2 * LineStore
  /\ FVAL_Previous = frame_valid /\ LVAL_Previous = line_valid
  /\ count < (W * H) \div 8
  /\ PlaceOf(W, h, w)
  /\ Ordered(InFlight, count, W, (W * H) \div 8, MadeAt(W, reg_state, h, w))
  /\ LastWord(W, (W * H) \div 8)

AlignedInv == stream = "aligned" => \E W, H, h, w \in Nat : AlignedAt(W, H, h, w)

LEMMA BoundStep ==
  ASSUME GeneratorInv, BoundInv, [CaptureNext]_captureVars
  PROVE  BoundInv'
<1>1. CASE config' = config
  BY <1>1 DEF BoundInv
<1>2. CASE config' # config
  <2>1. GeneratorEdge
    BY <1>2 DEF CaptureNext, PixelClock, FpgaClock, captureVars, generatorVars, unitVars
  <2>2. PICK access : MM_WRITE(access) /\ Driver(access)
    BY <2>1 DEF GeneratorEdge
  <2>3. Allowed(access)
    BY <2>2, DriverAccess DEF GeneratorInv
  <2>4. access.kind = "register" /\ reg_state = "IDLE"
    BY <1>2, <2>2 DEF MM_WRITE
  <2>5. PICK f \in Fields, v \in Minimum..Maximum : access = Register(f, v)
    BY <2>3, <2>4 DEF Allowed, None, Status, Command
  <2>6. v \in Nat /\ v < Modulus /\ v <= Maximum
    BY GeneratorConstants
  <2>7. config' = [config EXCEPT ![f] = v]
    BY <2>2, <2>4, <2>5, <2>6, SmallMod DEF MM_WRITE, Register
  <2>8. config \in [Fields -> Lengths]
    BY DEF GeneratorInv, UnitInv
  <2>9. QED
    BY <2>6, <2>7, <2>8 DEF BoundInv
<1>3. QED
  BY <1>1, <1>2

LEMMA FollowsStep ==
  ASSUME FollowsInv, [CaptureNext]_captureVars
  PROVE  FollowsInv'
<1>1. CASE UNCHANGED acquisitionVars
  BY <1>1 DEF FollowsInv, acquisitionVars
<1>2. CASE ~UNCHANGED acquisitionVars
  <2>1. PixelClock /\ clocked
    BY <1>2 DEF CaptureNext, PixelClock, FpgaClock, captureVars
  <2>2. Camera_Acq(frame_valid', line_valid', data', Ready)
    BY <2>1 DEF PixelClock, AcquisitionEdge
  <2>3. line_valid' => frame_valid'
    BY DEF line_valid, frame_valid
  <2>4. QED
    BY <2>2, <2>3 DEF Camera_Acq, FollowsInv, Idle_Frame, Idle_Line, LineBegins, Quiet, NoWrite,
       NoOutput, EndLine, EndFrame, EvenPixel, OddPixelEvenLine, OddPixelOddLine, TakePixel,
       FrameEnds, Enter
<1>3. QED
  BY <1>1, <1>2

\* An edge of the FPGA's clock, as the stream sees it.
LEMMA FpgaEdge ==
  ASSUME CrossingInv, FpgaClock
  PROVE  /\ UNCHANGED <<generatorVars, acquisitionVars>> /\ CrossingInv'
         /\ \/ /\ Ready /\ Ready' = TRUE /\ clocked' = clocked /\ stream' = stream
               /\ count' = IF stream # "aligned" THEN 0
                           ELSE IF word' # <<>> THEN (count + 1) % FrameWords ELSE count
               /\ \/ /\ Len(InFlight) >= 2 /\ word' = SubSeq(InFlight, 1, 2)
                     /\ InFlight' = SubSeq(InFlight, 3, Len(InFlight))
                  \/ word' = <<>> /\ InFlight' = InFlight
            \/ /\ ~Ready /\ Ready' /\ stream' = stream /\ InFlight' = <<>> /\ word' = <<>>
               /\ count' = IF stream # "aligned" THEN 0 ELSE count
            \/ ~Ready' /\ stream' = "fresh" /\ InFlight' = <<>> /\ word' = <<>> /\ count' = 0
<1>1. PICK start \in BOOLEAN :
        /\ ReadEdge(start)
        /\ clocked' \in IF Ready /\ ~start THEN {FALSE, clocked} ELSE {clocked}
        /\ stream' = IF start THEN stream ELSE "fresh"
        /\ count' = IF ~start \/ stream # "aligned" THEN 0
                    ELSE IF word' # <<>> THEN (count + 1) % FrameWords ELSE count
        /\ UNCHANGED <<generatorVars, acquisitionVars>>
  BY DEF FpgaClock
<1>2. Ready' = start
  BY <1>1 DEF ReadEdge
<1>3. CASE Ready /\ start
  <2>1. start = TRUE
    BY <1>3
  <2>2. CrossingInv' /\ (Channel!Deliver \/ Channel!Rest)
    BY <1>1, <1>3, <2>1, RunningStep
  <2>3. \/ /\ Len(InFlight) >= 2 /\ word' = SubSeq(InFlight, 1, 2)
           /\ InFlight' = SubSeq(InFlight, 3, Len(InFlight))
        \/ word' = <<>> /\ InFlight' = InFlight
    BY <2>2 DEF Channel!Deliver, Channel!Rest, InFlight
  <2>4. QED
    BY <1>1, <1>2, <1>3, <2>1, <2>2, <2>3
<1>4. CASE ~(Ready /\ start)
  <2>1. CrossingInv' /\ InFlight' = <<>> /\ word' = <<>>
    BY <1>1, <1>4, ClearedStep DEF Channel!Clear, InFlight
  <2>2. QED
    BY <1>1, <1>2, <1>4, <2>1
<1>5. QED
  BY <1>3, <1>4

\* A period of the camera's clock that brings no pixel.
LEMMA NoPixel ==
  ASSUME PixelClock, ~(clocked /\ Ready /\ Pixel_Valid_Out)
  PROVE  UNCHANGED <<InFlight, word, Ready>>
<1>1. UNCHANGED <<Ready, cells, rdreq, Combination_Signal, q, word>>
  BY DEF PixelClock, WriteEdge, crossingVars
<1>2. QED
  BY <1>1 DEF InFlight, Pending, Write_Request

LEMMA FreshStep ==
  ASSUME CrossingInv, FreshInv, FollowsInv, [CaptureNext]_captureVars
  PROVE  FreshInv'
<1>1. CASE PixelClock
  <2>1. FollowStream /\ count' = count
    BY <1>1 DEF PixelClock
  <2>2. Ready' = Ready
    BY <1>1 DEF PixelClock, WriteEdge, crossingVars
  <2>3. ~Ready => stream' = "fresh"
    BY <2>1 DEF FreshInv, FollowStream
  <2>4. stream' = "fresh" => stream = "fresh" /\ ~(clocked /\ Ready /\ Pixel_Valid_Out)
    BY <2>1 DEF FollowStream
  <2>5. QED
    BY <1>1, <2>1, <2>2, <2>3, <2>4, NoPixel DEF FreshInv
<1>2. CASE FpgaClock
  <2>1. \/ /\ Ready /\ Ready' = TRUE /\ stream' = stream
           /\ stream # "aligned" => count' = 0
           /\ Len(InFlight) >= 2 \/ (word' = <<>> /\ InFlight' = InFlight)
        \/ /\ ~Ready /\ Ready' /\ stream' = stream /\ InFlight' = <<>> /\ word' = <<>>
           /\ stream # "aligned" => count' = 0
        \/ ~Ready' /\ stream' = "fresh" /\ InFlight' = <<>> /\ word' = <<>> /\ count' = 0
    BY <1>2, FpgaEdge
  <2>2. InFlight = <<>> => ~(Len(InFlight) >= 2)
    OBVIOUS
  <2>3. QED
    BY <2>1, <2>2 DEF FreshInv
<1>3. CASE UNCHANGED captureVars
  BY <1>3 DEF captureVars, crossingVars, historyVars, FreshInv, InFlight, Pending, Write_Request
<1>4. QED
  BY <1>1, <1>2, <1>3 DEF CaptureNext

\* A period that the acquisition sees, with a source that is not stopped: the
\* next pixel is in its place, and a block that is made goes in as the next.
LEMMA AlignedGoesOn ==
  ASSUME CapturePathInv, GeneratorInv', NothingLost, stream = "aligned", ~reg_stop, PixelClock,
         NEW W \in Nat, NEW H \in Nat, NEW h \in Nat, NEW w \in Nat, AlignedAt(W, H, h, w)
  PROVE  \E h2, w2 \in Nat : AlignedAt(W, H, h2, w2)'
<1> DEFINE F == (W * H) \div 8
<1>1. /\ GeneratorEdge /\ WriteEdge(Pixel_Valid_Out, Out_Pixel)
      /\ AcquisitionEdge(frame_valid', line_valid', data', TRUE)
      /\ clocked' = TRUE /\ Ready' = TRUE /\ count' = count /\ word' = word
  <2>1. Ready = TRUE /\ clocked = TRUE
    BY DEF AlignedAt
  <2>2. /\ GeneratorEdge /\ WriteEdge(Pixel_Valid_Out, Out_Pixel)
        /\ AcquisitionEdge(frame_valid', line_valid', data', Ready)
        /\ clocked' = Ready /\ count' = count
    BY <2>1 DEF PixelClock
  <2>3. Ready' = Ready /\ word' = word
    BY <2>2 DEF WriteEdge
  <2>4. QED
    BY <2>1, <2>2, <2>3, Zenon
<1>2. reg_state # "IDLE" /\ reg_state' # "IDLE" /\ config' = config /\ EvenFrames
  BY <1>1, FrameKept DEF CapturePathInv, PathInv
<1>3. PICK h2, w2 : h2 = height_counter' /\ w2 = width_counter'
  OBVIOUS
<1>4. /\ W >= 1 /\ H >= 1 /\ WholeWords(W, H) /\ W % 2 = 0 /\ H % 2 = 0
      /\ reg_state = "VALID" => h \in 1..H /\ w \in 1..W
      /\ reg_state = "LINE_LINE_BLANK" => h \in 1..H
      /\ h2 \in Nat /\ w2 \in Nat
  <2>1. Width = W /\ Height = H /\ height_counter = h /\ width_counter = w
    BY DEF AlignedAt
  <2>2. Width >= 1 /\ Height >= 1 /\ CountersStop
        /\ (reg_state = "LINE_LINE_BLANK" => height_counter \in 1..Height - 1)
    BY FieldNames DEF CapturePathInv, GeneratorInv, UnitInv, Width, Height
  <2>3. h2 \in Nat /\ w2 \in Nat
    BY <1>3 DEF GeneratorInv, UnitInv, Lengths
  <2>4. WholeWords(W, H)
    BY <1>2, <2>1 DEF EvenFrames, WholeWords
  <2>5. \A n \in 1..H - 1 : n \in 1..H
    OBVIOUS
  <2>6. QED
    BY <2>1, <2>2, <2>3, <2>4, <2>5 DEF CountersStop, WholeWords
<1>5. PICK pixel : pixel = data'
  OBVIOUS
<1>6. /\ pixel \in Numbers /\ AcquisitionEdge(frame_valid', line_valid', pixel, TRUE)
      /\ reg_state' = "VALID" => pixel = (h2 - 1) * W + w2 - 1
  <2>1. data' \in Numbers
    <3>1. (GeneratorInv => data \in Numbers)'
      BY DataIsNumber, PTL
    <3>2. QED
      BY <3>1
  <2>2. reg_state' = "VALID" => data' = (height_counter' - 1) * config'["width"] + width_counter' - 1
    BY DEF data, line_valid
  <2>3. config'["width"] = W
    BY <1>2 DEF AlignedAt, Width
  <2>4. QED
    BY <1>1, <1>3, <1>5, <2>1, <2>2, <2>3, Zenon
<1>7. SourceGoes(h, w)
  BY <1>1, <1>2, SourceMoves DEF CapturePathInv, AlignedAt
<1>8. PlaceOf(W, h2, w2)'
  <2>1. /\ W <= 2 * LineStore /\ Width = W /\ Height = H
        /\ FVAL_Previous = frame_valid /\ LVAL_Previous = line_valid /\ PlaceOf(W, h, w)
    BY DEF AlignedAt
  <2>2. AcquisitionInv
    BY DEF CapturePathInv
  <2>3. QED
    BY <1>3, <1>4, <1>6, <1>7, <2>1, <2>2, PlaceKept
<1>9. PICK m : m = MadeAt(W, reg_state, h, w)
  OBVIOUS
<1>10. PICK m2 : m2 = MadeAt(W, reg_state', h2, w2)
  OBVIOUS
<1>11. PICK L : L = (H \div 2) * (W \div 2)
  OBVIOUS
<1>12. \/ Pixel_Valid_Out = FALSE /\ m2 = m
       \/ /\ Pixel_Valid_Out = TRUE /\ PixelsOf(Out_Pixel) = BlockIn(W, m)
          /\ m2 = (m + 1) % L
  <2>1. Width = W /\ Height = H /\ PlaceOf(W, h, w)
    BY DEF AlignedAt
  <2>2. NextBlock(W, H, MadeAt(W, reg_state, h, w), MadeAt(W, reg_state', h2, w2))
    BY <1>2, <1>3, <1>4, <1>7, <2>1, BlocksFollow
  <2>3. QED
    BY <1>9, <1>10, <1>11, <2>2, Zenon DEF NextBlock
<1>13. 2 * F = L /\ F \in Nat /\ F >= 1
  BY <1>4, <1>11, BlocksOfFrame
<1>14. Ordered(InFlight, count, W, F, m) /\ count \in Nat
  <2>1. Ordered(InFlight, count, W, (W * H) \div 8, MadeAt(W, reg_state, h, w))
    BY DEF AlignedAt
  <2>2. count \in Nat
    BY DEF CapturePathInv, PathInv, Numbers
  <2>3. QED
    BY <1>9, <2>1, <2>2, Zenon
<1> HIDE DEF F
<1>15. Ordered(InFlight', count, W, F, m2)
  <2>1. CASE Pixel_Valid_Out = FALSE
    <3>1. InFlight' = InFlight /\ m2 = m
      BY <1>12, <2>1, NoPixel
    <3>2. QED
      BY <1>14, <3>1, Zenon
  <2>2. CASE Pixel_Valid_Out = TRUE
    <3>1. ~wrfull /\ Ready
      BY <2>2 DEF NothingLost, AlignedAt
    <3>2. cells' = Append(cells, Out_Pixel)
          /\ UNCHANGED <<Ready, rdreq, Combination_Signal, q>>
      BY <1>1, <2>2, <3>1 DEF WriteEdge
    <3>3. Out_Pixel \in Blocks /\ CrossingInv
      BY DEF CapturePathInv, AcquisitionInv
    <3>4. InFlight \in Seq(Blocks) /\ InFlight' = Append(InFlight, Out_Pixel)
      BY <3>1, <3>2, <3>3, PixelEnters
    <3>5. PixelsOf(Out_Pixel) = BlockIn(W, m)
          /\ m2 = (m + 1) % L
      BY <1>12, <2>2
    <3>6. Ordered(Append(InFlight, Out_Pixel), count, W, F, (m + 1) % (2 * F))
      BY <1>13, <1>14, <3>3, <3>4, <3>5, OrderedPut
    <3>7. (m + 1) % (2 * F) = m2
      BY <1>13, <3>5, Zenon
    <3>8. QED
      BY <3>4, <3>6, <3>7, Zenon
  <2>3. QED
    BY <1>12, <2>1, <2>2
<1>16. FVAL_Previous' = frame_valid' /\ LVAL_Previous' = line_valid'
  BY <1>1 DEF AcquisitionEdge, Camera_Acq
<1>17. /\ (Width = W)' /\ (Height = H)' /\ config'["frameLine"] > 0 /\ W <= 2 * LineStore
       /\ count < F
  BY <1>2 DEF AlignedAt, Width, Height, F
<1>18. LastWord(W, F)'
  BY <1>1 DEF AlignedAt, LastWord, F
<1>19. Ordered(InFlight, count, W, (W * H) \div 8, MadeAt(W, reg_state, h2, w2))'
  BY <1>1, <1>10, <1>15, Zenon DEF F
<1>20. AlignedAt(W, H, h2, w2)'
  <2>1. count' < (W * H) \div 8
    BY <1>1, <1>17 DEF F
  <2>2. QED
    BY <1>1, <1>3, <1>8, <1>16, <1>17, <1>18, <1>19, <2>1, Zenon DEF AlignedAt, F
<1>21. QED
  BY <1>4, <1>20

\* The first blank of a frame, met with nothing on its way, aligns a stream.
LEMMA AlignedBegins ==
  ASSUME StoreSuffices, CapturePathInv, GeneratorInv', BoundInv, FollowsInv, FreshInv,
         PixelClock, stream = "fresh", stream' = "aligned"
  PROVE  \E W, H, h, w \in Nat : AlignedAt(W, H, h, w)'
<1>1. Ready /\ FrameBegins /\ AtFirstBlank' /\ EvenFrames
  BY DEF PixelClock, FollowStream
<1>2. clocked
  BY <1>1 DEF PixelClock, FrameBegins, acquisitionVars
<1>3. /\ GeneratorEdge /\ AcquisitionEdge(frame_valid', line_valid', data', Ready)
      /\ clocked' = Ready /\ count' = count
  BY <1>2 DEF PixelClock
<1>4. Ready = TRUE
  BY <1>1 DEF CapturePathInv, PathInv
<1>5. AcquisitionEdge(frame_valid', line_valid', data', TRUE)
  BY <1>3, <1>4, Zenon
<1>6. State = "Idle_Frame" /\ State' = "Idle_Line"
  BY <1>1 DEF FrameBegins
<1>7. frame_valid' /\ ~FVAL_Previous /\ InFront'
  <2>1. /\ frame_valid' /\ ~FVAL_Previous => InFront'
        /\ ~(frame_valid' /\ ~FVAL_Previous) => BetweenFrames'
    BY <1>5, <1>6, FrameWaits, Zenon
  <2>2. ~BetweenFrames'
    BY <1>6 DEF BetweenFrames
  <2>3. QED
    BY <2>1, <2>2
<1>8. InFlight' = <<>> /\ word' = <<>> /\ Ready' = TRUE /\ count' = 0
  <2>1. ~Pixel_Valid_Out
    BY <1>7 DEF FollowsInv
  <2>2. QED
    BY <1>3, <1>4, <2>1, NoPixel DEF FreshInv
<1>9. reg_state' = "FRAME_LINE_BLANK" /\ config' = config
  BY <1>1, <1>3, FrameKept DEF AtFirstBlank, CapturePathInv
<1>10. config'["frameLine"] > 0
  <2>1. blank_counter' \in 1..config'["frameLine"] /\ config' \in [Fields -> Lengths]
    BY <1>9 DEF GeneratorInv, UnitInv, CountersStop
  <2>2. config'["frameLine"] \in Nat
    BY <2>1, FieldNames DEF Lengths
  <2>3. QED
    BY <2>1, <2>2
<1>11. PICK W, H, h, w : W = Width' /\ H = Height' /\ h = height_counter' /\ w = width_counter'
  OBVIOUS
<1>12. /\ W \in Nat /\ H \in Nat /\ h \in Nat /\ w \in Nat /\ W >= 1 /\ H >= 1
       /\ W <= 2 * LineStore /\ WholeWords(W, H)
  <2>1. /\ Width \in Nat /\ Height \in Nat /\ Width >= 1 /\ Height >= 1 /\ Width <= Maximum
        /\ W = Width /\ H = Height
    BY <1>9, <1>11, FieldNames
       DEF CapturePathInv, GeneratorInv, UnitInv, Width, Height, Lengths, BoundInv
  <2>2. h \in Nat /\ w \in Nat
    BY <1>11 DEF GeneratorInv, UnitInv, Lengths
  <2>3. WholeWords(W, H)
    BY <1>1, <2>1 DEF EvenFrames, WholeWords
  <2>4. W <= 2 * LineStore
    BY <2>1, GeneratorConstants, AcquisitionConstants DEF StoreSuffices
  <2>5. QED
    BY <2>1, <2>2, <2>3, <2>4
<1> DEFINE F == (W * H) \div 8
<1>13. F \in Nat /\ F >= 1
  BY <1>12, BlocksOfFrame
<1> HIDE DEF F
<1>14. Ordered(<<>>, 0, W, F, 0)
  <2>1. PICK d : d = 2 * F
    OBVIOUS
  <2>2. d \in Nat /\ d >= 1 /\ 0 \in 0..d - 1
    BY <1>13, <2>1
  <2>3. 0 % d = 0
    BY <2>2, Remains
  <2>4. 2 * 0 + Len(<<>>) = 0 /\ ~ \E i : i \in 1..Len(<<>>)
    BY EmptySeq
  <2>5. QED
    BY <2>1, <2>3, <2>4 DEF Ordered
<1>15. MadeAt(W, reg_state', h, w) = 0
  BY <1>9 DEF MadeAt
<1>16. Ordered(InFlight, count, W, F, MadeAt(W, reg_state, h, w))'
  BY <1>8, <1>14, <1>15, Zenon
<1>17. PlaceOf(W, h, w)'
  BY <1>7, <1>9 DEF PlaceOf
<1>18. LastWord(W, F)'
  BY <1>8 DEF LastWord
<1>19. FVAL_Previous' = frame_valid' /\ LVAL_Previous' = line_valid'
  BY <1>3 DEF AcquisitionEdge, Camera_Acq
<1>20. count' < F
  BY <1>8, <1>13
<1>21. AlignedAt(W, H, h, w)'
  BY <1>3, <1>4, <1>8, <1>10, <1>11, <1>12, <1>16, <1>17, <1>18, <1>19, <1>20, Zenon
     DEF AlignedAt, F
<1>22. QED
  BY <1>12, <1>21

\* A word that is delivered is the next of its frame.
LEMMA AlignedDelivers ==
  ASSUME CapturePathInv, FpgaClock, stream = "aligned", stream' = "aligned",
         NEW W \in Nat, NEW H \in Nat, NEW h \in Nat, NEW w \in Nat, AlignedAt(W, H, h, w)
  PROVE  AlignedAt(W, H, h, w)'
<1> DEFINE F == (W * H) \div 8
           m == MadeAt(W, reg_state, h, w)
<1>1. /\ UNCHANGED <<generatorVars, acquisitionVars>>
      /\ Ready' = TRUE /\ clocked' = clocked
      /\ count' = IF word' # <<>> THEN (count + 1) % FrameWords ELSE count
      /\ \/ /\ Len(InFlight) >= 2 /\ word' = SubSeq(InFlight, 1, 2)
            /\ InFlight' = SubSeq(InFlight, 3, Len(InFlight))
         \/ word' = <<>> /\ InFlight' = InFlight
  <2>1. CrossingInv
    BY DEF CapturePathInv
  <2>2. Ready = TRUE
    BY DEF AlignedAt
  <2>3. QED
    BY <2>1, <2>2, FpgaEdge
<1>2. FrameWords = F /\ F \in Nat /\ F >= 1
  <2>1. FrameWords = F
    BY DEF FrameWords, AlignedAt
  <2>2. FrameWords \in Nat /\ FrameWords >= 1
    BY WordsAreCounted DEF CapturePathInv, PathInv
  <2> HIDE DEF F
  <2>3. QED
    BY <2>1, <2>2
<1>3. PICK c, c2 : c = count /\ c2 = count'
  OBVIOUS
<1>4. c \in 0..F - 1 /\ Ordered(InFlight, c, W, F, m)
  <2>1. count \in Nat /\ count < F
    BY DEF CapturePathInv, PathInv, Numbers, AlignedAt
  <2>2. Ordered(InFlight, count, W, F, m)
    BY DEF AlignedAt
  <2> HIDE DEF F, m
  <2>3. QED
    BY <1>2, <1>3, <2>1, <2>2
<1> HIDE DEF F, m
<1>5. InFlight \in Seq(Blocks)
  <2>1. Pending \in Seq(Blocks) /\ cells \in Seq(Blocks)
    BY EmptySeq DEF CapturePathInv, CrossingInv, Pending
  <2>2. QED
    BY <2>1, ConcatProperties DEF InFlight
<1>6. Ordered(InFlight', c2, W, F, m) /\ c2 < F /\ LastWord(W, F)'
  <2>1. CASE /\ Len(InFlight) >= 2 /\ word' = SubSeq(InFlight, 1, 2)
             /\ InFlight' = SubSeq(InFlight, 3, Len(InFlight))
    <3>1. word' # <<>>
      <4>1. Len(SubSeq(InFlight, 1, 2)) = 2
        BY <1>5, <2>1, SplitInTwo
      <4>2. QED
        BY <2>1, <4>1, EmptySeq
    <3>2. c2 = (c + 1) % F
      BY <1>1, <1>2, <1>3, <3>1
    <3>3. /\ c2 \in 0..F - 1
          /\ Ordered(SubSeq(InFlight, 3, Len(InFlight)), c2, W, F, m)
          /\ PixelsOf(SubSeq(InFlight, 1, 2)[1]) = BlockIn(W, 2 * ((c2 + F - 1) % F))
          /\ PixelsOf(SubSeq(InFlight, 1, 2)[2]) = BlockIn(W, 2 * ((c2 + F - 1) % F) + 1)
      <4>1. WordTaken(InFlight, (c + 1) % F, W, F, m)
        BY <1>2, <1>4, <1>5, <2>1, OrderedDeliver
      <4>2. QED
        BY <3>2, <4>1, Zenon DEF WordTaken
    <3>4. c2 < F
      BY <1>2, <3>3
    <3>5. LastWord(W, F)'
      BY <1>3, <2>1, <3>3, Zenon DEF LastWord
    <3>6. QED
      BY <2>1, <3>3, <3>4, <3>5, Zenon
  <2>2. CASE word' = <<>> /\ InFlight' = InFlight
    <3>1. c2 = c
      BY <1>1, <1>3, <2>2
    <3>2. LastWord(W, F)'
      BY <2>2 DEF LastWord
    <3>3. c2 < F
      BY <1>2, <1>4, <3>1
    <3>4. QED
      BY <1>4, <2>2, <3>1, <3>2, <3>3, Zenon
  <2>3. QED
    BY <1>1, <2>1, <2>2
<1>7. PlaceOf(W, h, w)'
  <2>1. PlaceOf(W, h, w)
    BY DEF AlignedAt
  <2>2. QED
    BY <1>1, <2>1 DEF PlaceOf, StoredLine, PairedLine, BetweenThem, InFront, BetweenFrames,
       NoRequests, generatorVars, unitVars, acquisitionVars, requestVars, storeVars
<1>8. /\ (Width = W)' /\ (Height = H)' /\ height_counter' = h /\ width_counter' = w
      /\ config'["frameLine"] > 0 /\ W <= 2 * LineStore
      /\ FVAL_Previous' = frame_valid' /\ LVAL_Previous' = line_valid'
      /\ reg_state' = reg_state /\ clocked' = TRUE
  BY <1>1 DEF AlignedAt, Width, Height, frame_valid, line_valid,
     generatorVars, unitVars, acquisitionVars
<1>9. Ordered(InFlight, count, W, F, MadeAt(W, reg_state, h, w))'
  BY <1>3, <1>6, <1>8, Zenon DEF m
<1>10. QED
  BY <1>1, <1>3, <1>6, <1>7, <1>8, <1>9, Zenon DEF AlignedAt, F

LEMMA AlignedStep ==
  ASSUME StoreSuffices, CapturePathInv, CapturePathInv', NothingLost, BoundInv, FollowsInv,
         FreshInv, AlignedInv, [CaptureNext]_captureVars
  PROVE  AlignedInv'
<1> SUFFICES ASSUME stream' = "aligned"
             PROVE  \E W, H, h, w \in Nat : AlignedAt(W, H, h, w)'
  BY DEF AlignedInv
<1>1. GeneratorInv'
  BY DEF CapturePathInv
<1>2. CASE PixelClock
  <2>1. \/ stream = "fresh"
        \/ stream = "aligned" /\ ~reg_stop
    BY <1>2 DEF PixelClock, FollowStream
  <2>2. CASE stream = "fresh"
    BY <1>1, <1>2, <2>2, AlignedBegins
  <2>3. CASE stream = "aligned" /\ ~reg_stop
    <3>1. PICK W, H, h, w \in Nat : AlignedAt(W, H, h, w)
      BY <2>3 DEF AlignedInv
    <3>2. \E h2, w2 \in Nat : AlignedAt(W, H, h2, w2)'
      BY <1>1, <1>2, <2>3, <3>1, AlignedGoesOn
    <3>3. QED
      BY <3>2, Zenon
  <2>4. QED
    BY <2>1, <2>2, <2>3
<1>3. CASE FpgaClock
  <2>1. stream = "aligned"
    BY <1>3 DEF FpgaClock
  <2>2. PICK W, H, h, w \in Nat : AlignedAt(W, H, h, w)
    BY <2>1 DEF AlignedInv
  <2>3. AlignedAt(W, H, h, w)'
    BY <1>3, <2>1, <2>2, AlignedDelivers
  <2>4. QED
    BY <2>3, Zenon
<1>4. CASE UNCHANGED captureVars
  <2>1. stream = "aligned"
    BY <1>4 DEF captureVars, historyVars
  <2>2. PICK W, H, h, w \in Nat : AlignedAt(W, H, h, w)
    BY <2>1 DEF AlignedInv
  <2>3. InFlight' = InFlight /\ UNCHANGED <<Ready, clocked, count, word, Width, Height,
          height_counter, width_counter, config, frame_valid, line_valid, reg_state,
          FVAL_Previous, LVAL_Previous>>
    BY <1>4 DEF captureVars, crossingVars, historyVars, generatorVars, unitVars,
       acquisitionVars, InFlight, Pending, Write_Request, Width, Height, frame_valid, line_valid
  <2>4. PlaceOf(W, h, w)'
    <3>1. PlaceOf(W, h, w)
      BY <2>2 DEF AlignedAt
    <3>2. QED
      BY <1>4, <3>1 DEF PlaceOf, StoredLine, PairedLine, BetweenThem, InFront, BetweenFrames,
         NoRequests, captureVars, generatorVars, unitVars, acquisitionVars, requestVars, storeVars
  <2>5. LastWord(W, (W * H) \div 8)'
    BY <2>2, <2>3 DEF AlignedAt, LastWord
  <2>6. Ordered(InFlight, count, W, (W * H) \div 8, MadeAt(W, reg_state, h, w))'
    BY <2>2, <2>3, Zenon DEF AlignedAt
  <2>7. AlignedAt(W, H, h, w)'
    BY <2>2, <2>3, <2>4, <2>5, <2>6, Zenon DEF AlignedAt
  <2>8. QED
    BY <2>7, Zenon
<1>5. QED
  BY <1>2, <1>3, <1>4 DEF CaptureNext

\* From a start that meets the first blank of a frame on, every word that
\* enters the DMA unit's FIFO is the next two blocks of the frame, frame after
\* frame: Camera_Acq pairs lines with the right lines and pixels with the
\* right pixels, the line store and the FIFO between the clocks lose and
\* double nothing, whatever the sizes of frames, stores and delays.
THEOREM WordsAreInOrder ==
  ASSUME BlocksAreGiven, ReaderKeepsUp, FifoSuffices, StoreSuffices
  PROVE  CaptureSpec => []WordsInOrder
<1> DEFINE Ordering == BoundInv /\ FollowsInv /\ FreshInv /\ AlignedInv
<1>1. ASSUME CaptureInit PROVE Ordering
  <2>1. BoundInv
    <3>1. \A f \in Fields : config[f] <= 1
      BY <1>1 DEF CaptureInit, GeneratorInit, ResetConfig
    <3>2. \A f \in Fields : config[f] \in Nat
      BY <1>1, GeneratorInvInit DEF GeneratorInv, UnitInv, Lengths
    <3>3. QED
      BY <3>1, <3>2, GeneratorConstants DEF BoundInv
  <2>2. FollowsInv
    BY <1>1 DEF CaptureInit, AcquisitionInit, FollowsInv
  <2>3. FreshInv
    <3>1. Pending = <<>> /\ cells = <<>>
      BY <1>1 DEF CaptureInit, CrossingInit, Pending
    <3>2. InFlight = <<>>
      BY <3>1, EmptySeq, ConcatEmptySeq DEF InFlight
    <3>3. QED
      BY <1>1, <3>2 DEF CaptureInit, CrossingInit, FreshInv
  <2>4. AlignedInv
    BY <1>1 DEF CaptureInit, AlignedInv
  <2>5. QED
    BY <2>1, <2>2, <2>3, <2>4
<1>2. ASSUME Ordering, CapturePathInv, CapturePathInv', NothingLost, [CaptureNext]_captureVars
      PROVE  Ordering'
  <2>1. BoundInv' /\ FollowsInv' /\ FreshInv'
    BY <1>2, BoundStep, FollowsStep, FreshStep DEF CapturePathInv
  <2>2. AlignedInv'
    BY <1>2, AlignedStep
  <2>3. QED
    BY <2>1, <2>2
<1>3. Ordering => WordsInOrder
  <2> SUFFICES ASSUME AlignedInv, stream = "aligned", word # <<>>
               PROVE  LET n == (count + FrameWords - 1) % FrameWords
                      IN  /\ PixelsOf(word[1]) = BlockOf(2 * n)
                          /\ PixelsOf(word[2]) = BlockOf(2 * n + 1)
    BY DEF WordsInOrder
  <2>1. PICK W, H, h, w \in Nat : AlignedAt(W, H, h, w)
    BY DEF AlignedInv
  <2>2. Width = W /\ FrameWords = (W * H) \div 8 /\ LastWord(W, (W * H) \div 8)
    BY <2>1 DEF AlignedAt, FrameWords
  <2>3. LastWord(Width, FrameWords)
    BY <2>2, Zenon
  <2>4. QED
    BY <2>3, BlockHere, Zenon DEF LastWord
<1>4. CaptureSpec => []NothingLost
  BY NothingIsLost
<1>5. QED
  BY <1>1, <1>2, <1>3, <1>4, CapturePathHolds, PTL DEF CaptureSpec

=============================================================================
