------------------------- MODULE TripleBufferProofs -------------------------
(***************************************************************************)
(* Proofs about the abstract triple buffer, for any set of buffers.        *)
(***************************************************************************)
EXTENDS TripleBuffer, TLAPS

\* The zones the two units name are always buffers (or none).
THEOREM BuffersAreTyped ==
  ASSUME BufferConstants
  PROVE  TBSpec => []TBTypeOK
<1>1. TBInit => TBTypeOK
  BY BufferConstants DEF BufferConstants, TBInit, TBTypeOK
<1>2. TBTypeOK /\ [TBNext]_tbVars => TBTypeOK'
  <2>1. CASE UNCHANGED tbVars
    BY <2>1 DEF TBTypeOK, tbVars, cameraSide
  <2>2. CASE TBNext
    <3>1. TBTypeOK => writing' \in Buffers /\ claimed' \in Buffers /\ saved' \in Buffers
      BY <2>2, BufferConstants DEF BufferConstants, TBTypeOK, TBNext, Camera, Publish, Restart, cameraSide
    <3>2. TBTypeOK => reading' \in Buffers \cup {NoBuffer}
      BY <2>2 DEF TBTypeOK, TBNext, Lcd, Latch, Release
    <3>3. QED
      BY <3>1, <3>2 DEF TBTypeOK
  <2>3. QED
    BY <2>1, <2>2
<1>3. QED
  BY <1>1, <1>2, PTL DEF TBSpec

\* The image on display begins to be overwritten only in the race of a latch
\* with an announcement, at a restart, or before the buffers rotate.
THEOREM TearsNeedARace ==
  ASSUME BufferConstants
  PROVE  TBSpec => TearNeedsRace
<1>1. TBTypeOK /\ TBNext =>
        (Torn' => Torn \/ (Publish /\ Latch) \/ Restart \/ ~Rotating)
  <2> SUFFICES ASSUME TBTypeOK, TBNext
               PROVE  Torn' => Torn \/ (Publish /\ Latch) \/ Restart \/ ~Rotating
    OBVIOUS
  <2>1. CASE Publish /\ ~Latch
    <3>1. writing' \in Buffers /\ writing' # reading
      BY <2>1 DEF Publish
    <3>2. reading' \in {reading, NoBuffer}
      BY <2>1 DEF TBNext, Lcd, Release
    <3>3. QED
      BY <3>1, <3>2, BufferConstants DEF BufferConstants, Torn
  <2>2. CASE UNCHANGED cameraSide
    <3>1. reading' \in {reading, saved, NoBuffer}
      BY DEF TBNext, Lcd, Latch, Release
    <3>2. Torn' /\ ~Torn => ~Rotating
      BY <2>2, <3>1, BufferConstants DEF BufferConstants, Torn, Rotating, cameraSide, TBTypeOK
    <3>3. QED
      BY <3>2
  <2>3. QED
    BY <2>1, <2>2 DEF TBNext, Camera
<1>2. TBTypeOK /\ [TBNext]_tbVars =>
        [Torn' => Torn \/ (Publish /\ Latch) \/ Restart \/ ~Rotating]_tbVars
  BY <1>1
<1>3. QED
  BY <1>2, BuffersAreTyped, PTL DEF TBSpec, TearNeedsRace

\* From the first complete frame on the camera announces the zone it wrote,
\* until it is restarted.
THEOREM RotationLasts == TBSpec => RotationIsKept
<1>1. TBNext => ((NextFrame \/ Rotating) => (Rotating' \/ Restart))
  BY DEF TBNext, Camera, Publish, Restart, NextFrame, Rotating, cameraSide
<1>2. [TBNext]_tbVars => [(NextFrame \/ Rotating) => (Rotating' \/ Restart)]_tbVars
  BY <1>1
<1>3. QED
  BY <1>2, PTL DEF TBSpec, RotationIsKept

\* A torn pass over the image is torn at most until the camera's frame ends.
THEOREM TearsEnd ==
  ASSUME BufferConstants
  PROVE  TBSpec => TearEndsWithFrame
<1>1. TBNext /\ NextFrame => Publish
  BY DEF TBNext, Camera, Restart, NextFrame, cameraSide
<1>2. TBTypeOK /\ TBNext => (Torn /\ NextFrame => ~Torn')
  BY <1>1, BufferConstants DEF BufferConstants, TBTypeOK, TBNext, Lcd, Latch, Release, Publish, Torn
<1>3. TBTypeOK /\ [TBNext]_tbVars => [Torn /\ NextFrame => ~Torn']_tbVars
  BY <1>2
<1>4. QED
  BY <1>3, BuffersAreTyped, PTL DEF TBSpec, TearEndsWithFrame

=============================================================================
