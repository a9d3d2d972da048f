------------------------- MODULE VideoPipelineProofs -------------------------
(***************************************************************************)
(* The two DMA units, for every burst and frame length and every depth of  *)
(* their FIFOs, implement the triple buffer.                               *)
(***************************************************************************)
EXTENDS VideoPipeline, CameraMasterProofs

\* The registers the two units show each other.
HandshakeOK ==
  /\ Base \in Zones /\ Zone \in Zones /\ Buffer_Saved \in Zones
  /\ BufferUsed \in Zones

ReadingView == IF Reading THEN BufferUsed ELSE 3

\* An edge of the camera's unit is a Camera step of the triple buffer, or none.
LEMMA CameraSideStep ==
  ASSUME HandshakeOK, CameraUnit
  PROVE  TB!Camera /\ Base' \in Zones /\ Zone' \in Zones /\ Buffer_Saved' \in Zones
<1>1. PICK wait \in BOOLEAN : AvalonBus(BufferUsed, wait)
  BY DEF CameraUnit, CamEdge, Display_Buffer
<1>2. CASE NewFrame(BufferUsed)
  <2>1. Buffer_Saved' = Zone /\ Zone' = NextZone(BufferUsed, Zone) /\ Base' = Zone'
    BY <1>2 DEF NewFrame
  <2>2. Zone' \in Zones \ {BufferUsed, Zone}
    BY <2>1, NextZoneIsFree DEF HandshakeOK
  <2>3. Zone' # 3
    BY <2>2 DEF Zones
  <2>4. TB!Publish
    BY <2>1, <2>2, <2>3 DEF TB!Publish
  <2>5. QED
    BY <2>1, <2>2, <2>4 DEF TB!Camera, HandshakeOK
<1>3. CASE Stopped
  <2>1. Base' = 0 /\ Zone' = Zone /\ Buffer_Saved' = Buffer_Saved
    BY <1>3 DEF Stopped
  <2>2. TB!Restart \/ UNCHANGED TB!cameraSide
    BY <2>1 DEF TB!Restart, TB!cameraSide
  <2>3. QED
    BY <2>1, <2>2 DEF TB!Camera, HandshakeOK, Zones
<1>4. CASE SameFrame \/ IdleForData \/ ClockWaitDataFifo \/ CollectDataFifo
           \/ DmaSendInit \/ DmaSendLoop(wait)
  <2>1. Base' = Base /\ Zone' = Zone /\ Buffer_Saved' = Buffer_Saved
    BY <1>4 DEF SameFrame, IdleForData, ClockWaitDataFifo, CollectDataFifo,
                DmaSendInit, DmaSendLoop
  <2>2. QED
    BY <2>1 DEF TB!Camera, TB!cameraSide, HandshakeOK
<1>5. QED
  BY <1>1, <1>2, <1>3, <1>4 DEF AvalonBus

\* An edge of the LCD's unit is an Lcd step of the triple buffer, or none.
LEMMA LcdSideStep ==
  ASSUME HandshakeOK, LcdUnit
  PROVE  TB!Lcd /\ BufferUsed' \in Zones
<1>1. PICK wait \in BOOLEAN, valid \in BOOLEAN : Master(Buffer_Saved, wait, valid)
  BY DEF LcdUnit, LcdEdge
<1>2. BufferUsed # 3
  BY DEF HandshakeOK, Zones
<1>3. CASE MasterInit
  BY <1>3 DEF MasterInit, TB!Lcd, Reading, Zones
<1>4. CASE Copy(Buffer_Saved)
  <2>1. BufferUsed' = Buffer_Saved /\ mState = "Copy" /\ mState' \in {"Copy", "Assert_Read_Data"}
    BY <1>4 DEF Copy
  <2>2. TB!Latch \/ ReadingView' = ReadingView
    BY <2>1 DEF TB!Latch, Reading, ReadingView
  <2>3. QED
    BY <2>1, <2>2 DEF TB!Lcd, HandshakeOK, ReadingView
<1>5. CASE CheckAdd
  <2>1. BufferUsed' = BufferUsed /\ mState = "Check_Add" /\ mState' \in {"Init", "Check_FIFO"}
    BY <1>5 DEF CheckAdd
  <2>2. TB!Release \/ ReadingView' = ReadingView
    BY <1>2, <2>1 DEF TB!Release, Reading, ReadingView
  <2>3. QED
    BY <2>1, <2>2 DEF TB!Lcd, HandshakeOK, ReadingView
<1>6. CASE AssertReadData \/ CheckWaitRequest(wait) \/ ReadData(valid) \/ NewAdd
           \/ CheckFifo \/ WaitLcdControl
  <2>1. BufferUsed' = BufferUsed /\ mState \notin {"Init", "Copy"} /\ mState' \notin {"Init", "Copy"}
    BY <1>6 DEF AssertReadData, CheckWaitRequest, ReadData, NewAdd, CheckFifo, WaitLcdControl
  <2>2. ReadingView' = ReadingView
    BY <2>1 DEF Reading, ReadingView
  <2>3. QED
    BY <2>1, <2>2 DEF TB!Lcd, HandshakeOK, ReadingView
<1>7. QED
  BY <1>1, <1>3, <1>4, <1>5, <1>6 DEF Master

\* The handshake's invariant holds after reset ...
LEMMA HandshakeInit == Init => HandshakeOK
BY DEF Init, CamInit, LcdInit, HandshakeOK, Zones

\* ... and is kept by every edge of the two units.
LEMMA HandshakeStep == HandshakeOK /\ [Next]_vars => HandshakeOK'
<1>1. HandshakeOK /\ UNCHANGED vars => HandshakeOK'
  BY DEF HandshakeOK, vars, camVars, fsmVars, lcdVars, masterVars
<1>2. HandshakeOK /\ Next => HandshakeOK'
  BY CameraSideStep, LcdSideStep DEF Next, HandshakeOK
<1>3. QED
  BY <1>1, <1>2

\* The two units, their buses, FIFOs and driver refine the triple buffer.
THEOREM PipelineRefines == Spec => ImplementsTripleBuffer
<1>1. Init => TB!TBInit
  BY DEF Init, CamInit, LcdInit, TB!TBInit, Reading
<1>2. HandshakeOK /\ Next => TB!TBNext
  BY CameraSideStep, LcdSideStep DEF Next, TB!TBNext
<1>3. UNCHANGED vars => UNCHANGED TB!tbVars
  BY DEF vars, camVars, fsmVars, lcdVars, masterVars, TB!tbVars, TB!cameraSide, Reading
<1>4. HandshakeOK /\ [Next]_vars => [TB!TBNext]_(TB!tbVars)
  BY <1>2, <1>3
<1>5. QED
  BY <1>1, <1>4, HandshakeInit, HandshakeStep, PTL
     DEF Spec, ImplementsTripleBuffer, TB!TBSpec

\* What a step of the pipeline does to an image on display.
LEMMA TearStep ==
  HandshakeOK /\ Next =>
    /\ TB!Torn' => TB!Torn \/ (TB!Publish /\ TB!Latch) \/ TB!Restart \/ ~TB!Rotating
    /\ TB!Torn /\ TB!NextFrame => ~TB!Torn'
<1> SUFFICES ASSUME HandshakeOK, Next
             PROVE  /\ TB!Torn' => TB!Torn \/ (TB!Publish /\ TB!Latch) \/ TB!Restart
                                   \/ ~TB!Rotating
                    /\ TB!Torn /\ TB!NextFrame => ~TB!Torn'
  OBVIOUS
<1>1. TB!Camera /\ TB!Lcd /\ HandshakeOK'
  BY CameraSideStep, LcdSideStep DEF Next, HandshakeOK
<1>2. Base # 3 /\ Base' # 3
  BY <1>1 DEF HandshakeOK, Zones
<1>3. TB!Torn /\ TB!NextFrame => ~TB!Torn'
  <2>1. TB!NextFrame => TB!Publish
    BY <1>1 DEF TB!Camera, TB!Restart, TB!NextFrame, TB!cameraSide
  <2>2. QED
    BY <1>1, <1>2, <2>1 DEF TB!Lcd, TB!Latch, TB!Release, TB!Publish, TB!Torn
<1>4. TB!Torn' => TB!Torn \/ (TB!Publish /\ TB!Latch) \/ TB!Restart \/ ~TB!Rotating
  <2>1. CASE TB!Publish /\ ~TB!Latch
    BY <1>1, <1>2, <2>1 DEF TB!Lcd, TB!Release, TB!Publish, TB!Torn
  <2>2. CASE UNCHANGED TB!cameraSide
    <3>1. UNCHANGED <<Base, Zone, Buffer_Saved>>
      BY <2>2 DEF TB!cameraSide
    <3>2. ReadingView' \in {ReadingView, 3, Buffer_Saved}
      BY <1>1 DEF TB!Lcd, TB!Latch, TB!Release, ReadingView
    <3>3. (TB!Torn' => ReadingView' = Base) /\ (ReadingView = Base => TB!Torn)
      BY <3>1 DEF TB!Torn, ReadingView
    <3>4. TB!Rotating => Buffer_Saved # Base
      BY DEF TB!Rotating
    <3>5. QED
      BY <1>2, <3>2, <3>3, <3>4
  <2>3. QED
    BY <1>1, <2>1, <2>2 DEF TB!Camera
<1>5. QED
  BY <1>3, <1>4

\* The image on display begins to be overwritten only in the race of the two
\* units' edges, at a stop of the camera, or before its first frame is stored.
THEOREM PipelineTearsNeedARace == Spec => TearNeedsRace
<1>1. HandshakeOK /\ [Next]_vars =>
        [TB!Torn' => TB!Torn \/ (TB!Publish /\ TB!Latch) \/ TB!Restart \/ ~TB!Rotating]_(TB!tbVars)
  BY TearStep DEF vars, camVars, fsmVars, lcdVars, masterVars, TB!tbVars, TB!cameraSide, Reading
<1>2. QED
  BY <1>1, HandshakeInit, HandshakeStep, PTL DEF Spec, TearNeedsRace, TB!TearNeedsRace

\* From the first complete frame to the next stop the camera announces what it
\* wrote and writes what it has not announced.
THEOREM PipelineRotationLasts == Spec => RotationIsKept
<1>1. HandshakeOK /\ Next =>
        (TB!NextFrame \/ TB!Rotating => TB!Rotating' \/ TB!Restart)
  BY CameraSideStep DEF Next, TB!Camera, TB!Publish, TB!Restart, TB!NextFrame,
                        TB!Rotating, TB!cameraSide
<1>2. HandshakeOK /\ [Next]_vars =>
        [TB!NextFrame \/ TB!Rotating => TB!Rotating' \/ TB!Restart]_(TB!tbVars)
  BY <1>1 DEF vars, camVars, fsmVars, lcdVars, masterVars, TB!tbVars, TB!cameraSide, Reading
<1>3. QED
  BY <1>2, HandshakeInit, HandshakeStep, PTL DEF Spec, RotationIsKept, TB!RotationIsKept

\* A torn pass is torn at most until the camera completes its frame.
THEOREM PipelineTearsEnd == Spec => TearEndsWithFrame
<1>1. HandshakeOK /\ [Next]_vars => [TB!Torn /\ TB!NextFrame => ~TB!Torn']_(TB!tbVars)
  BY TearStep DEF vars, camVars, fsmVars, lcdVars, masterVars, TB!tbVars, TB!cameraSide, Reading
<1>2. QED
  BY <1>1, HandshakeInit, HandshakeStep, PTL DEF Spec, TearEndsWithFrame, TB!TearEndsWithFrame

=============================================================================
