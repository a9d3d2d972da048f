----------------------------- MODULE Acquisition -----------------------------
(***************************************************************************)
(* Camera_Acquisition_module.vhd: from the sensor's Bayer pattern to one   *)
(* pixel per block of two by two.  Pixels of even lines go to the line     *)
(* store FIFO_Store_Line in pairs; those of odd lines are combined with    *)
(* the pairs that come back.                                               *)
(*                                                                         *)
(* One step is one period of Clk: its rising edge, at which the store      *)
(* serves the requests it was given, then its falling edge, at which the   *)
(* module samples the camera and the store.  A pixel value stands for      *)
(* itself, not reduced to five bits; of the line and pixel numbers, which  *)
(* only count, the parity is kept.                                         *)
(*                                                                         *)
(* A definition named Faulty... is a variant of the one below it, with a   *)
(* bug that one of the properties has to notice; nothing else uses it.     *)
(***************************************************************************)
EXTENDS Integers, Sequences

CONSTANTS
  LineStore    \* pairs that FIFO_Store_Line holds (1024)

ASSUME AcquisitionConstants == LineStore \in Nat

VARIABLES
  State,
  Pixel_Number, Line_Number,           \* modulo 2
  Pixel_Value_Even,
  FVAL_Previous, LVAL_Previous,
  Out_Pixel, Pixel_Valid_Out,
  Write_Req, Data_Write, Read_Req, Clear,   \* ..._FIFO_Store_Line
  store, Data_Read                          \* the store: pairs held, output

storeVars       == <<store, Data_Read>>
requestVars     == <<Write_Req, Data_Write, Read_Req, Clear>>
acquisitionVars == <<State, Pixel_Number, Line_Number, Pixel_Value_Even,
                     FVAL_Previous, LVAL_Previous, Out_Pixel, Pixel_Valid_Out,
                     requestVars, storeVars>>

NoPair  == [odd |-> 0, even |-> 0]
NoBlock == [red |-> 0, green |-> <<0, 0>>, blue |-> 0]

AcquisitionInit ==
  /\ State = "Idle_Frame"
  /\ Pixel_Number = 0 /\ Line_Number = 0 /\ Pixel_Value_Even = 0
  /\ FVAL_Previous = TRUE /\ LVAL_Previous = TRUE
  /\ Out_Pixel = NoBlock /\ Pixel_Valid_Out = FALSE
  /\ Write_Req = FALSE /\ Data_Write = NoPair /\ Read_Req = FALSE /\ Clear = TRUE
  /\ store = <<>> /\ Data_Read = NoPair

FaultyFIFO_Store_Line ==
  LET left == IF Read_Req /\ store # <<>> THEN Tail(store) ELSE store
  IN  IF Clear
      THEN store' = <<>> /\ Data_Read' = NoPair
      ELSE /\ store' = IF Write_Req THEN Append(left, Data_Write) ELSE left
           /\ Data_Read' = IF Read_Req /\ store # <<>> THEN Head(store) ELSE Data_Read

\* The rising edge: a scfifo that ignores a write when full and a read when
\* empty, and is empty as long as it is cleared.
FIFO_Store_Line ==
  LET writing == Write_Req /\ Len(store) < LineStore
      reading == Read_Req /\ store # <<>>
      left    == IF reading THEN Tail(store) ELSE store
  IN  IF Clear
      THEN store' = <<>> /\ Data_Read' = NoPair
      ELSE /\ store' = IF writing THEN Append(left, Data_Write) ELSE left
           /\ Data_Read' = IF reading THEN Head(store) ELSE Data_Read

-----------------------------------------------------------------------------
(* The falling edge.                                                       *)

NoWrite  == Write_Req' = FALSE /\ Data_Write' = NoPair
NoOutput == Out_Pixel' = NoBlock /\ Pixel_Valid_Out' = FALSE
Quiet    == NoWrite /\ NoOutput /\ Read_Req' = FALSE

Enter(state, Ready) == State' = IF Ready THEN state ELSE "Idle_Frame"

FaultyIdle_Frame(FVAL, Ready) ==
  /\ State = "Idle_Frame"
  /\ State' = IF FVAL /\ Ready THEN "Idle_Line" ELSE State
  /\ Pixel_Number' = 0 /\ Line_Number' = 0 /\ Pixel_Value_Even' = 0
  /\ Clear' = TRUE
  /\ Quiet

Idle_Frame(FVAL, Ready) ==
  /\ State = "Idle_Frame"
  /\ State' = IF FVAL /\ ~FVAL_Previous /\ Ready THEN "Idle_Line" ELSE State
  /\ Pixel_Number' = 0 /\ Line_Number' = 0 /\ Pixel_Value_Even' = 0
  /\ Clear' = TRUE
  /\ Quiet

FaultyLineBegins(LVAL) == LVAL /\ ~FVAL_Previous

LineBegins(LVAL) == LVAL /\ ~LVAL_Previous

FaultyIdle_Line(LVAL, pixel, Ready) ==
  /\ State = "Idle_Line"
  /\ Clear' = FALSE
  /\ NoWrite /\ NoOutput
  /\ UNCHANGED Line_Number
  /\ Read_Req' = FALSE
  /\ IF LineBegins(LVAL)
     THEN /\ Enter("Getting_Pixels", Ready)
          /\ Pixel_Value_Even' = pixel
          /\ Pixel_Number' = 1
     ELSE /\ Enter(State, Ready)
          /\ Pixel_Value_Even' = 0
          /\ Pixel_Number' = 0

\* The first pixel of a line is taken by the edge that sees the line begin.
Idle_Line(LVAL, pixel, Ready) ==
  /\ State = "Idle_Line"
  /\ Clear' = FALSE
  /\ NoWrite /\ NoOutput
  /\ UNCHANGED Line_Number
  /\ IF LineBegins(LVAL)
     THEN /\ Enter("Getting_Pixels", Ready)
          /\ Pixel_Value_Even' = pixel
          /\ Pixel_Number' = 1
          /\ Read_Req' = (Line_Number = 1)
     ELSE /\ Enter(State, Ready)
          /\ Pixel_Value_Even' = 0
          /\ Pixel_Number' = 0
          /\ Read_Req' = FALSE

LineEnds(FVAL, LVAL)  == ~LVAL /\ LVAL_Previous /\ FVAL /\ FVAL_Previous
FrameEnds(FVAL)       == ~FVAL /\ FVAL_Previous

EndLine(FVAL, LVAL, Ready) ==
  /\ State = "Getting_Pixels" /\ LineEnds(FVAL, LVAL)
  /\ Enter("Idle_Line", Ready)
  /\ Line_Number' = 1 - Line_Number
  /\ Quiet /\ Clear' = FALSE
  /\ UNCHANGED <<Pixel_Number, Pixel_Value_Even>>

EndFrame(FVAL, LVAL) ==
  /\ State = "Getting_Pixels" /\ ~LineEnds(FVAL, LVAL) /\ FrameEnds(FVAL)
  /\ State' = "Idle_Frame"
  /\ Quiet /\ Clear' = FALSE
  /\ UNCHANGED <<Pixel_Number, Line_Number, Pixel_Value_Even>>

TakePixel(FVAL, LVAL, Ready) ==
  /\ State = "Getting_Pixels" /\ ~LineEnds(FVAL, LVAL) /\ ~FrameEnds(FVAL)
  /\ Enter(State, Ready)
  /\ Pixel_Number' = 1 - Pixel_Number
  /\ Clear' = FALSE
  /\ UNCHANGED Line_Number

FaultyEvenPixel(FVAL, LVAL, pixel, Ready) ==
  /\ TakePixel(FVAL, LVAL, Ready) /\ Pixel_Number = 0
  /\ Pixel_Value_Even' = pixel
  /\ Read_Req' = (Line_Number = 1)
  /\ NoWrite /\ UNCHANGED <<Out_Pixel, Pixel_Valid_Out>>

\* An even pixel waits for its neighbour; in an odd line the pair above is
\* asked for at the same time.
EvenPixel(FVAL, LVAL, pixel, Ready) ==
  /\ TakePixel(FVAL, LVAL, Ready) /\ Pixel_Number = 0
  /\ Pixel_Value_Even' = pixel
  /\ Read_Req' = (Line_Number = 1)
  /\ NoWrite /\ NoOutput

OddPixelEvenLine(FVAL, LVAL, pixel, Ready) ==
  /\ TakePixel(FVAL, LVAL, Ready) /\ Pixel_Number = 1 /\ Line_Number = 0
  /\ Write_Req' = TRUE
  /\ Data_Write' = [odd |-> pixel, even |-> Pixel_Value_Even]
  /\ Read_Req' = FALSE
  /\ NoOutput
  /\ UNCHANGED Pixel_Value_Even

\* Sum_Pixel is the sum of the two pixels that "green" names.
OddPixelOddLine(FVAL, LVAL, pixel, Ready) ==
  /\ TakePixel(FVAL, LVAL, Ready) /\ Pixel_Number = 1 /\ Line_Number = 1
  /\ Out_Pixel' = [red   |-> Data_Read'.odd,
                   green |-> <<Data_Read'.even, Pixel_Value_Even>>,
                   blue  |-> pixel]
  /\ Pixel_Valid_Out' = TRUE
  /\ Read_Req' = FALSE
  /\ NoWrite
  /\ UNCHANGED Pixel_Value_Even

Camera_Acq(FVAL, LVAL, pixel, Ready) ==
  /\ FVAL_Previous' = FVAL /\ LVAL_Previous' = LVAL
  /\ \/ Idle_Frame(FVAL, Ready)
     \/ Idle_Line(LVAL, pixel, Ready)
     \/ EndLine(FVAL, LVAL, Ready)
     \/ EndFrame(FVAL, LVAL)
     \/ EvenPixel(FVAL, LVAL, pixel, Ready)
     \/ OddPixelEvenLine(FVAL, LVAL, pixel, Ready)
     \/ OddPixelOddLine(FVAL, LVAL, pixel, Ready)

AcquisitionEdge(FVAL, LVAL, pixel, Ready) ==
  FIFO_Store_Line /\ Camera_Acq(FVAL, LVAL, pixel, Ready)

=============================================================================
