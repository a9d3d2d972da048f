------------------------------- MODULE Capture -------------------------------
(***************************************************************************)
(* The capture path of the camera module, from the sensor's pins to the    *)
(* words that enter the DMA unit's FIFO: a source of frames, the           *)
(* acquisition module, the clock crossing, on two clocks that run as they  *)
(* like except that at most MaxRatio edges of the camera's fall between    *)
(* two of the FPGA's.                                                      *)
(*                                                                         *)
(* A step is a period of the camera's clock (its rising edge, seen by the  *)
(* source, the line store and the crossing, then its falling edge, seen by *)
(* the acquisition) or an edge of the FPGA's clock.  The acquisition's     *)
(* clock comes from a PLL that the stop bit resets: it stops when Ready    *)
(* falls, with or without one last period, and comes back some time after  *)
(* Ready has risen.                                                        *)
(***************************************************************************)
EXTENDS CmosGenerator, Acquisition, ClockCrossing

CONSTANTS
  MaxRatio,   \* of the two clocks (1 in the delivered configuration)
  MaxStarts   \* a bound on the times the camera is started

ASSUME CaptureConstants == MaxRatio \in Nat \ {0} /\ MaxStarts \in Nat \ {0}

VARIABLES
  clocked,    \* the PLL gives the acquisition its clock
  lead,       \* periods of the camera's clock since the last FPGA edge
  starts,     \* how often the camera has been started
  stream,     \* history: what the words since the last start can be
  count,      \* history: words delivered since then, modulo a frame
  metStop     \* history: the acquisition saw the last stop in a frame

historyVars == <<stream, count, metStop>>
captureVars == <<generatorVars, acquisitionVars, crossingVars,
                 clocked, lead, starts, historyVars>>

CaptureInit ==
  /\ GeneratorInit /\ AcquisitionInit /\ CrossingInit
  /\ clocked = FALSE /\ lead = 0 /\ starts = 0
  /\ stream = "fresh" /\ count = 0 /\ metStop = TRUE

Width  == config["width"]
Height == config["height"]

\* Frames that the module can make whole words of.
EvenFrames == Width % 2 = 0 /\ Height % 2 = 0 /\ (Width * Height) % 8 = 0

FrameWords == (Width * Height) \div 8

\* A word is part of whole frames from a start on if the acquisition begins
\* with the blank in front of a frame's first line.
FrameBegins == State = "Idle_Frame" /\ State' = "Idle_Line"

AtFirstBlank == reg_state = "FRAME_LINE_BLANK" /\ blank_counter = 1

FollowStream ==
  stream' = CASE reg_stop /\ stream = "aligned" -> "spoilt"
              [] stream = "fresh" /\ Ready /\ FrameBegins ->
                   IF AtFirstBlank' /\ EvenFrames THEN "aligned" ELSE "spoilt"
              [] stream = "fresh" /\ Ready /\ Pixel_Valid_Out -> "spoilt"
              [] OTHER -> stream

\* One period of the camera's clock, with the PLL running or not.
PixelClock ==
  /\ lead < MaxRatio /\ lead' = lead + 1
  /\ GeneratorEdge
  /\ IF clocked
     THEN /\ WriteEdge(Pixel_Valid_Out, Out_Pixel)
          /\ AcquisitionEdge(frame_valid', line_valid', data', Ready)
          /\ metStop' = IF Ready THEN metStop ELSE frame_valid'
          /\ clocked' = Ready
     ELSE /\ UNCHANGED <<crossingVars, acquisitionVars, metStop>>
          /\ clocked' \in {FALSE, Ready}
  /\ FollowStream
  /\ UNCHANGED <<starts, count>>

\* One edge of the FPGA's clock.  The software starts the camera only when
\* the last period of a stop is over.
FpgaClock ==
  \E start \in BOOLEAN :
    /\ start /\ ~Ready => ~clocked /\ starts < MaxStarts
    /\ starts' = IF start /\ ~Ready THEN starts + 1 ELSE starts
    /\ ReadEdge(start)
    /\ lead' = 0
    /\ clocked' \in IF Ready /\ ~start THEN {FALSE, clocked} ELSE {clocked}
    /\ metStop' = IF Ready /\ ~start THEN FALSE ELSE metStop
    /\ stream' = IF start THEN stream ELSE "fresh"
    /\ count' = IF ~start \/ stream # "aligned" THEN 0
                ELSE IF word' # <<>> THEN (count + 1) % FrameWords ELSE count
    /\ UNCHANGED <<generatorVars, acquisitionVars>>

CaptureNext == PixelClock \/ FpgaClock

CaptureSpec == CaptureInit /\ [][CaptureNext]_captureVars

-----------------------------------------------------------------------------
(* Fairness: both clocks run, and the PLL locks if it is given the time.    *)

PllLocks == ~clocked /\ PixelClock /\ clocked'

CaptureFairSpec ==
  /\ CaptureSpec
  /\ WF_captureVars(PixelClock) /\ WF_captureVars(FpgaClock)
  /\ SF_captureVars(PllLocks)

-----------------------------------------------------------------------------
(* Properties.                                                             *)

Lengths == 0..Modulus - 1
Numbers == 0..Modulus * Modulus

GeneratorTypeOK ==
  /\ config \in [Fields -> Lengths]
  /\ {reg_start, reg_stop, success, quiet} \subseteq BOOLEAN
  /\ {width_counter, height_counter, blank_counter} \subseteq Lengths
  /\ reg_state \in {"IDLE", "FRAME_FRAME_BLANK", "FRAME_LINE_BLANK", "VALID",
                    "LINE_LINE_BLANK", "LINE_FRAME_BLANK"}

Pairs == [odd : Numbers, even : Numbers]

AcquisitionTypeOK ==
  /\ State \in {"Idle_Frame", "Idle_Line", "Getting_Pixels"}
  /\ {Pixel_Number, Line_Number} \subseteq {0, 1}
  /\ Pixel_Value_Even \in Numbers /\ Out_Pixel \in Blocks
  /\ store \in Seq(Pairs) /\ {Data_Read, Data_Write} \subseteq Pairs
  /\ Len(store) <= LineStore

\* Type correctness of the whole path.
CaptureTypeOK == GeneratorTypeOK /\ AcquisitionTypeOK /\ CrossingTypeOK
                 /\ lead \in 0..MaxRatio /\ count \in Numbers

\* The sensor pixels of a frame's n-th block of two by two.
Corner(n) ==
  LET perLine == Width \div 2
  IN  2 * (n \div perLine) * Width + 2 * (n % perLine)

BlockOf(n) == {Corner(n), Corner(n) + 1, Corner(n) + Width, Corner(n) + Width + 1}

PixelsOf(block) == {block.red, block.green[1], block.green[2], block.blue}

\* Every word that enters the DMA unit's FIFO is the next two blocks of the
\* frame, frame after frame: lines are paired with the right lines, pixels
\* with the right pixels, and nothing is lost or doubled on the way.
WordsInOrder ==
  stream = "aligned" /\ word # <<>> =>
    LET n == (count + FrameWords - 1) % FrameWords
    IN  PixelsOf(word[1]) = BlockOf(2 * n) /\ PixelsOf(word[2]) = BlockOf(2 * n + 1)

\* No pixel meets a full FIFO: its flag is left open by the top level, so
\* that the reader must never fall behind, although it sees each word late and
\* the writer sees each read late.
NothingLost == clocked /\ Ready /\ Pixel_Valid_Out => ~wrfull

\* A stop that the acquisition saw within a frame leaves it waiting for a
\* whole one: after the next start it does not begin in the middle.
StopResynchronises ==
  [][clocked /\ Ready /\ FrameBegins /\ metStop /\ config["frameLine"] > 0
       => AtFirstBlank']_captureVars

\* The driver's bounds keep the frame counters from missing the values on
\* which they stop: they never pass them.
CountersStop ==
  /\ reg_state = "VALID" =>
       width_counter \in 1..Width /\ height_counter \in 1..Height
  /\ reg_state = "FRAME_FRAME_BLANK" => blank_counter \in 1..config["frameFrame"]
  /\ reg_state = "FRAME_LINE_BLANK" => blank_counter \in 1..config["frameLine"]
  /\ reg_state = "LINE_LINE_BLANK" => blank_counter \in 1..config["lineLine"]
  /\ reg_state = "LINE_FRAME_BLANK" => blank_counter \in 1..config["lineFrame"]

\* "Returns true if successful (values within bounds), and false otherwise"
\* (cmos_sensor_output_generator.c:286): after a configure that returned true
\* the unit, which was running when it began, has all six values.
ConfigureIsDone ==
  todo = <<>> /\ success => config = values

\* "Stops the generator" (cmos_sensor_output_generator.c:318): two edges after
\* the command the unit is idle, whatever it was doing, and stays so.
StopIsHeard ==
  commanded = "STOP" /\ quiet /\ ~reg_stop => reg_state = "IDLE"

\* A source that runs and a camera that stays on bring words for ever.
Filming == Ready /\ reg_state # "IDLE" /\ todo = <<>> /\ program = <<>>

WordsKeepComing == <>[](Filming /\ EvenFrames) => []<>(word # <<>>)

\* The colour of a sensor pixel, in the words of the comments on the branches
\* that sample it (Camera_Acquisition_module.vhd:123,127,135,138).
ColourOf(n) ==
  LET evenLine == (n \div Width) % 2 = 0
      evenPixel == (n % Width) % 2 = 0
  IN  CASE evenLine /\ evenPixel  -> "green1"
        [] evenLine /\ ~evenPixel -> "red"
        [] ~evenLine /\ evenPixel -> "blue"
        [] OTHER                  -> "green2"

\* "Pixel Red", "Sum of two green pixels", "Pixel Blue" (lines 140 to 143):
\* each component of a pixel is made of what its name says.
ColoursInPlace ==
  stream = "aligned" /\ Pixel_Valid_Out =>
    /\ ColourOf(Out_Pixel.red) = "red"
    /\ {ColourOf(Out_Pixel.green[1]), ColourOf(Out_Pixel.green[2])} = {"green1", "green2"}
    /\ ColourOf(Out_Pixel.blue) = "blue"

=============================================================================
