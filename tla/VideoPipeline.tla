--------------------------- MODULE VideoPipeline ---------------------------
(***************************************************************************)
(* The two DMA units on their common clock, wired as in the top level:     *)
(* Buffer_Saved from the camera to the LCD, Display_Buffer back.  Each     *)
(* unit has an Avalon master of its own; every step is one rising edge of  *)
(* the clock, seen by both.                                                *)
(***************************************************************************)
EXTENDS CameraMaster, LcdEngine

vars == <<camVars, lcdVars>>

Init == CamInit /\ LcdInit

CameraUnit ==
  \E start, push, wait \in BOOLEAN : CamEdge(Display_Buffer, start, push, wait)

LcdUnit ==
  \E wait, valid \in BOOLEAN, w \in RegisterWrites :
    LcdEdge(Buffer_Saved, wait, valid, w)

Next == CameraUnit /\ LcdUnit

Spec == Init /\ [][Next]_vars

-----------------------------------------------------------------------------
(* The pipeline implements the triple buffer: the LCD reads the zone it    *)
(* has latched from the edge that leaves Copy to the one that re-enters    *)
(* Init.                                                                   *)

Reading == mState \notin {"Init", "Copy"}

TB == INSTANCE TripleBuffer WITH
        Buffers <- Zones, Home <- 0, NoBuffer <- 3,
        writing <- Base, claimed <- Zone, saved <- Buffer_Saved,
        reading <- IF Reading THEN BufferUsed ELSE 3

\* The handshake of the two units, with all their stalls, does what
\* TripleBuffer says: the camera never picks the zone it has announced or the
\* one whose number the LCD shows, and the LCD latches what was announced.
ImplementsTripleBuffer == TB!TBSpec

\* The image on display begins to be overwritten only when the LCD leaves Copy
\* at the edge at which the camera switches zones, when the camera is stopped,
\* or before its first frame is complete.
TearNeedsRace == TB!TearNeedsRace

\* From the first complete frame on the camera announces what it wrote and
\* writes what it has not announced, until it is stopped.
RotationIsKept == TB!RotationIsKept

\* A torn pass is torn at most until the camera completes its frame.
TearEndsWithFrame == TB!TearEndsWithFrame

\* "capture and store the image from the camera and then to read and display
\* it" (README.MD:8): once the buffers rotate and while the camera runs, the
\* LCD's pass over a stored image is never overtaken by the camera.
StoredThenRead ==
  [][Reading' /\ BufferUsed' = Base' =>
       \/ TB!Torn \/ ~TB!Rotating \/ Stopped]_vars

=============================================================================
