---------------------------- MODULE TripleBuffer ----------------------------
(***************************************************************************)
(* What the camera's and the LCD's DMA units promise each other: frames    *)
(* written into one buffer at a time, the last complete one announced, and *)
(* the one on display left alone.  The two units share a clock, so a step  *)
(* of this specification is one clock edge, at which each unit may act.    *)
(***************************************************************************)
CONSTANTS
  Buffers,   \* the memory zones
  Home,      \* the zone at the start address
  NoBuffer   \* the LCD reads nothing

\* What is assumed of the constants.
BufferConstants == Home \in Buffers /\ NoBuffer \notin Buffers

VARIABLES
  writing,   \* the zone the camera's words go to
  claimed,   \* the zone the camera will announce when the frame is complete
  saved,     \* the zone it has announced last
  reading    \* the zone the LCD reads

cameraSide == <<writing, claimed, saved>>
tbVars     == <<cameraSide, reading>>

TBInit ==
  /\ writing = Home /\ claimed = Home
  /\ saved \in Buffers
  /\ reading = NoBuffer

\* The camera announces the frame it has completed and starts another in a
\* zone it has not announced and the LCD was not reading.
Publish ==
  /\ saved' = claimed
  /\ claimed' \in Buffers \ {claimed, reading}
  /\ writing' = claimed'

\* A stopped camera starts over at the start address, with its old claim.
Restart ==
  /\ writing # Home
  /\ writing' = Home
  /\ UNCHANGED <<claimed, saved>>

Camera == Publish \/ Restart \/ UNCHANGED cameraSide

\* The LCD starts a pass over the announced zone.
Latch == reading = NoBuffer /\ reading' = saved

\* The LCD has read all of it.
Release == reading # NoBuffer /\ reading' = NoBuffer

Lcd == Latch \/ Release \/ UNCHANGED reading

TBNext == Camera /\ Lcd

TBSpec == TBInit /\ [][TBNext]_tbVars

-----------------------------------------------------------------------------
\* Type correctness of the four registers.
TBTypeOK ==
  /\ writing \in Buffers /\ claimed \in Buffers /\ saved \in Buffers
  /\ reading \in Buffers \cup {NoBuffer}

\* The image on display is being overwritten.
Torn == reading = writing

\* The camera announces what it writes, and writes what it has not announced:
\* so it is from the first frame after a start on, until the camera is stopped.
Rotating == writing = claimed /\ saved # claimed

\* A frame is complete and the camera goes on to another zone, seen from the
\* registers: this is what Publish must make harmless.
NextFrame == claimed' # claimed

\* A tear begins only when the LCD latches the announced zone at the very
\* edge at which the camera announces another, when the camera is restarted,
\* or before the first frame after a start is complete.
TearNeedsRace ==
  [][Torn' => \/ Torn
              \/ Publish /\ Latch
              \/ Restart
              \/ ~Rotating]_tbVars

\* The buffers rotate from the first complete frame on: only a restart of the
\* camera ends it.
RotationIsKept ==
  [][(NextFrame \/ Rotating) => (Rotating' \/ Restart)]_tbVars

\* A torn pass is torn at most until the camera completes its frame: the next
\* zone is not the one on display.
TearEndsWithFrame == [][Torn /\ NextFrame => ~Torn']_tbVars

=============================================================================
