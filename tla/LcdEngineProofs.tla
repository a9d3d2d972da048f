--------------------------- MODULE LcdEngineProofs ---------------------------
(***************************************************************************)
(* The safety of the LCD controller, for every burst, frame and FIFO size: *)
(* the unit reads the buffer it latched, no word is dropped, no pixel is   *)
(* invented, and a pass over the frame ends with every pixel shown.        *)
(*                                                                         *)
(* Either side of the FIFO decides on a view that is late.  What saves it  *)
(* is that the last access of the other side is some cycles old by then:   *)
(* SinceWrite and SinceRead say how many, state by state.                  *)
(***************************************************************************)
EXTENDS LcdEngine, TLAPS

Fetching == mState \notin {"Init", "Copy"}

\* A half that has been taken from the FIFO and is not yet on the panel.
Reading == IF cState \in {"Display", "Display_16"} THEN 1 ELSE 0

\* The halves of the pass that have been put in the FIFO.
Fetched == Halves * (Add - (EndAdd - LcdBursts)) + 2 * mCount

\* Where the unit is in its frame and in its burst.
MasterInv ==
  /\ mState \in MasterStates
  /\ avm_Read \in BOOLEAN /\ (avm_Read <=> mState = "Check_WaitRequest")
  /\ mCount \in 0..LcdWords
  /\ mState = "New_Add" => mCount = LcdWords
  /\ mState \notin {"Read_Data", "New_Add"} => mCount = 0
  /\ pending = IF mState = "Read_Data" THEN LcdWords - mCount ELSE 0
  /\ BufferUsed \in 0..2
  /\ Add \in 0..3 * LcdBursts /\ EndAdd \in 0..3 * LcdBursts
  /\ Fetching => /\ EndAdd = LcdBursts * (BufferUsed + 1)
                 /\ Add \in EndAdd - LcdBursts..EndAdd
                 /\ mState # "Check_Add" => Add # EndAdd

\* The counters of the controller run only in the states that use them.
ControlInv ==
  /\ cState \in ControlStates
  /\ cTime \in 0..TaskTime /\ cWord \in 0..Halves
  /\ cState \notin Timed => cTime = 0
  /\ cState \notin {"Empty_16", "Display_16"} => cWord = 0
  /\ cState = "Display_16" => cWord # Halves

\* A view is the later the lower for the reader, the higher for the writer,
\* with the true level between the two.
ViewInv ==
  /\ readerSees \in [0..SyncDelay -> 0..Capacity]
  /\ writerSees \in [0..SyncDelay -> 0..Capacity]
  /\ writerSees[0] = readerSees[0]
  /\ \A a, b \in 0..SyncDelay : a <= b =>
       readerSees[b] <= readerSees[a] /\ writerSees[a] <= writerSees[b]

\* The controller takes 32 halves while the unit waits for it to, and takes
\* the rest while the unit is at rest.
HandInv ==
  /\ cState \in {"Empty_16", "Display_16"} => mState = "Wait_LCD_Control"
  /\ cState \in {"Empty", "Display", "End_Display"} => mState = "Init"

\* The unit is done with the frame, and the controller shows the rest of it.
Draining == mState = "Init" /\ cState \in {"Check_Master", "Empty", "Display", "End_Display"}

\* Every half that was fetched is in the FIFO, on its way or shown.
CountInv ==
  /\ shown \in 0..FrameHalves + 1
  /\ Fetching => Level + shown + Reading = Fetched
  /\ Draining => Level + shown + Reading = FrameHalves
  /\ ~(Fetching \/ Draining) => Level \in {0, FrameHalves}
  /\ cState = "End_Display" => Level = 0
  /\ (Fetching \/ (Draining /\ cState = "Check_Master")) =>
       \E drained \in 0..LcdBursts : shown = Halves * drained + cWord
  /\ (Fetching /\ cState \notin {"Check_Master", "Empty_16", "Display_16"}) => shown = 0

\* Room for what has been asked for, and a full FIFO when the unit waits.
RoomInv ==
  /\ mState \in {"Assert_Read_Data", "Check_WaitRequest", "Read_Data"} =>
       Level + 2 * (LcdWords - mCount) <= Capacity
  /\ mState = "Wait_LCD_Control" => Level + cWord + Reading = Capacity

\* At least so many edges have passed since the last write to the FIFO ...
SinceWrite ==
  CASE mState = "New_Add"    -> 1
    [] mState = "Check_Add"  -> 2
    [] mState = "Check_FIFO" -> 3
    [] mState = "Copy"       -> 4
    [] mState = "Init"       -> IF cState = "Empty" THEN 4
                                ELSE IF cState = "Display" THEN 5 + cTime
                                ELSE 3
    [] mState = "Wait_LCD_Control" ->
                                IF cState \notin {"Empty_16", "Display_16"} THEN 4
                                ELSE IF cWord # 0 THEN TaskTime + 4
                                ELSE IF cState = "Empty_16" THEN 5
                                ELSE 6 + cTime
    [] OTHER                 -> 0

\* ... and so many since the last read.
SinceRead ==
  CASE mState = "Assert_Read_Data"  -> TaskTime + 2
    [] mState = "Check_WaitRequest" -> TaskTime + 3
    [] cState \in {"Display", "Display_16"} -> cTime
    [] cState \in {"Empty", "Empty_16"}     -> TaskTime + 1
    [] cState = "End_Display"               -> TaskTime + 2
    [] mState = "Init" /\ cState \in {"Command", "End_Command_Data"} -> TaskTime + 3
    [] OTHER                        -> TaskTime + 4

ReaderSeesAll == \A a \in 0..SyncDelay : readerSees[a] = Level

SinceInv ==
  /\ \A a \in 0..SyncDelay :
       /\ a <= SinceWrite => readerSees[a] = Level
       /\ a >= SinceWrite => Level - readerSees[a] <= 2 * (a - SinceWrite)
       /\ a <= SinceRead => writerSees[a] = Level
  /\ cState = "Empty" => Level >= Halves \/ ReaderSeesAll

\* The delay of the FIFO's flags, against the length of a burst and of a
\* write to the panel (16 words and 8 cycles in the code, so up to 12 cycles;
\* both pipelines of the FIFO have 4 stages).
SyncIsShort == SyncDelay <= LcdWords + 3 /\ SyncDelay <= TaskTime + 4

EngineInv == MasterInv /\ ControlInv /\ ViewInv /\ HandInv
FlowInv   == EngineInv /\ CountInv /\ RoomInv /\ SinceInv

-----------------------------------------------------------------------------
(* Sizes.                                                                  *)

LEMMA Times ==
  ASSUME NEW h \in Nat, NEW x \in Int, NEW y \in Int
  PROVE  /\ h * x \in Int
         /\ h * (x + 1) = h * x + h
         /\ x <= y => h * x <= h * y
  OBVIOUS

LEMMA TimesLeast ==
  ASSUME NEW h \in Nat, NEW n \in Nat \ {0}
  PROVE  n * h \in Nat /\ n * h >= h
<1>1. n * h = h * n
  OBVIOUS
<1>2. h * 1 = h /\ h * 1 <= h * n
  BY Times
<1>3. h * n \in Nat
  OBVIOUS
<1> QED
  BY <1>1, <1>2, <1>3

LEMMA Sizes ==
  /\ Halves \in Nat /\ Halves = 2 * LcdWords /\ Halves >= 2
  /\ Capacity \in Nat /\ Capacity >= Halves /\ Capacity = Halves * FifoBursts
  /\ FrameHalves \in Nat /\ FrameHalves >= Halves /\ FrameHalves = Halves * LcdBursts
  /\ 3 * LcdBursts \in Nat
<1>1. Halves \in Nat /\ Halves = 2 * LcdWords /\ Halves >= 2
  BY LcdConstants DEF Halves
<1>2. Capacity \in Nat /\ Capacity >= Halves
  BY <1>1, TimesLeast, LcdConstants DEF Capacity
<1>3. FrameHalves \in Nat /\ FrameHalves >= Halves
  BY <1>1, TimesLeast, LcdConstants DEF FrameHalves
<1>4. Capacity = Halves * FifoBursts /\ FrameHalves = Halves * LcdBursts
  BY <1>1, LcdConstants DEF Capacity, FrameHalves
<1>5. 3 * LcdBursts \in Nat
  BY LcdConstants
<1> QED
  BY <1>1, <1>2, <1>3, <1>4, <1>5

-----------------------------------------------------------------------------
(* The DMA unit alone.                                                     *)

LEMMA InitMaster ==
  LcdInit => MasterInv
<1> SUFFICES ASSUME LcdInit PROVE MasterInv
  OBVIOUS
<1>1. avm_Read \in BOOLEAN /\ (avm_Read <=> mState = "Check_WaitRequest")
  BY Zenon DEF LcdInit
<1>2. /\ mState = "Init" /\ mCount = 0 /\ pending = 0
      /\ BufferUsed = 0 /\ Add = 0 /\ EndAdd = 0
  BY DEF LcdInit
<1> QED
  BY <1>1, <1>2, LcdConstants, Sizes DEF MasterInv, MasterStates, Fetching

LEMMA MasterStep ==
  ASSUME MasterInv,
         NEW saved \in 0..2, NEW wait \in BOOLEAN, NEW valid \in BOOLEAN,
         Master(saved, wait, valid), ReadBus(wait, valid)
  PROVE  MasterInv'
<1> USE LcdConstants, Sizes DEF MasterInv, MasterStates, Fetching
<1>1. CASE MasterInit
  <2>1. avm_Read' \in BOOLEAN /\ (avm_Read' <=> mState' = "Check_WaitRequest")
    BY <1>1, Zenon DEF MasterInit
  <2> QED
    BY <1>1, <2>1 DEF MasterInit, ReadBus
<1>2. CASE Copy(saved)
  <2>1. LcdBursts * saved \in 0..3 * LcdBursts /\ LcdBursts * (saved + 1) \in 0..3 * LcdBursts
    <3>1. saved = 0 \/ saved = 1 \/ saved = 2
      OBVIOUS
    <3> QED
      BY <3>1
  <2>2. LcdBursts * (saved + 1) = LcdBursts * saved + LcdBursts
    BY Times
  <2>3. avm_Read' \in BOOLEAN /\ (avm_Read' <=> mState' = "Check_WaitRequest")
    BY <1>2, Zenon DEF Copy
  <2> QED
    BY <1>2, <2>1, <2>2, <2>3 DEF Copy, ReadBus
<1>3. CASE AssertReadData
  BY <1>3 DEF AssertReadData, ReadBus
<1>4. CASE CheckWaitRequest(wait)
  BY <1>4 DEF CheckWaitRequest, ReadBus
<1>5. CASE ReadData(valid)
  BY <1>5 DEF ReadData, ReadBus
<1>6. CASE NewAdd
  BY <1>6 DEF NewAdd, ReadBus
<1>7. CASE CheckAdd
  BY <1>7 DEF CheckAdd, ReadBus
<1>8. CASE CheckFifo
  BY <1>8 DEF CheckFifo, ReadBus
<1>9. CASE WaitLcdControl
  BY <1>9 DEF WaitLcdControl, ReadBus
<1> QED
  BY <1>1, <1>2, <1>3, <1>4, <1>5, <1>6, <1>7, <1>8, <1>9 DEF Master

-----------------------------------------------------------------------------
(* The panel controller alone.                                             *)

LEMMA InitControl ==
  LcdInit => ControlInv
BY LcdConstants, Sizes DEF LcdInit, ControlInv, ControlStates, Timed

LEMMA ControlStep ==
  ASSUME ControlInv, LCD_Control
  PROVE  ControlInv'
<1> USE LcdConstants, Sizes DEF ControlInv, ControlStates, Timed, Done_Task, Task
<1>1. CASE ControlInit
  <2>1. cState' \in {"Command", "Data", "Init"}
    BY <1>1 DEF ControlInit
  <2> QED
    BY <1>1, <2>1 DEF ControlInit
<1>2. CASE CommandTask
  BY <1>2 DEF CommandTask
<1>3. CASE CheckCommand
  BY <1>3 DEF CheckCommand
<1>4. CASE DataTask
  BY <1>4 DEF DataTask
<1>5. CASE CheckMaster
  BY <1>5 DEF CheckMaster
<1>6. CASE Empty
  BY <1>6 DEF Empty
<1>7. CASE DisplayTask
  BY <1>7 DEF DisplayTask
<1>8. CASE Empty16
  BY <1>8 DEF Empty16
<1>9. CASE Display16
  BY <1>9 DEF Display16
<1>10. CASE EndDisplay
  <2> DEFINE next == CASE State_Command_Data = 1 -> "End_Command_Data"
                       [] State_Command_Data = 3 -> "Command"
                       [] OTHER                  -> "End_Display"
  <2>1. next \in {"End_Command_Data", "Command", "End_Display"}
    OBVIOUS
  <2>2. Task("End_Display", next) /\ cWord' = cWord
    BY <1>10 DEF EndDisplay
  <2> HIDE DEF next
  <2> QED
    BY <2>1, <2>2
<1>11. CASE EndCommandData
  BY <1>11 DEF EndCommandData
<1> QED
  BY <1>1, <1>2, <1>3, <1>4, <1>5, <1>6, <1>7, <1>8, <1>9, <1>10, <1>11 DEF LCD_Control

-----------------------------------------------------------------------------
(* The FIFO alone.                                                         *)

LEMMA InitView ==
  LcdInit => ViewInv
BY LcdConstants, Sizes DEF LcdInit, ViewInv

LEMMA ViewStep ==
  ASSUME ViewInv, NEW valid \in BOOLEAN, Fifo(valid)
  PROVE  ViewInv'
<1> DEFINE t == Taken
           p == Put(valid)
<1>1. /\ t \in 0..1 /\ (t = 1 => readerSees[SyncDelay] > 0)
      /\ p \in {0, 2} /\ (p = 2 => writerSees[SyncDelay] <= Capacity - 2)
  BY LcdConstants, Sizes DEF ViewInv, Taken, Put, Empty_FIFO, Full_FIFO
<1>2. \A a \in 0..SyncDelay :
        /\ readerSees[SyncDelay] <= readerSees[a] /\ readerSees[a] <= readerSees[0]
        /\ writerSees[0] <= writerSees[a] /\ writerSees[a] <= writerSees[SyncDelay]
        /\ readerSees[a] \in 0..Capacity /\ writerSees[a] \in 0..Capacity
  BY LcdConstants, Sizes DEF ViewInv
<1>3. /\ readerSees' = [a \in 0..SyncDelay |->
                          (IF a = 0 THEN readerSees[0] + p ELSE readerSees[a - 1]) - t]
      /\ writerSees' = [a \in 0..SyncDelay |->
                          (IF a = 0 THEN readerSees[0] - t ELSE writerSees[a - 1]) + p]
  BY DEF Fifo, Level
<1> HIDE DEF t, p
<1>4. ASSUME NEW a \in 0..SyncDelay
      PROVE  readerSees'[a] \in 0..Capacity /\ writerSees'[a] \in 0..Capacity
  <2>1. CASE a = 0
    <3>1. readerSees[0] = writerSees[0] /\ 0 \in 0..SyncDelay
      BY LcdConstants DEF ViewInv
    <3>2. /\ readerSees'[a] = readerSees[0] + p - t
          /\ writerSees'[a] = readerSees[0] - t + p
      BY <2>1, <3>1, <1>1, <1>2, <1>3, Sizes
    <3> QED
      BY <3>1, <3>2, <1>1, <1>2, LcdConstants, Sizes
  <2>2. CASE a # 0
    <3>1. a - 1 \in 0..SyncDelay
      BY <2>2, LcdConstants
    <3>2. readerSees'[a] = readerSees[a - 1] - t /\ writerSees'[a] = writerSees[a - 1] + p
      BY <2>2, <1>3
    <3> QED
      BY <3>1, <3>2, <1>1, <1>2, LcdConstants, Sizes
  <2> QED
    BY <2>1, <2>2
<1>5. /\ readerSees' \in [0..SyncDelay -> 0..Capacity]
      /\ writerSees' \in [0..SyncDelay -> 0..Capacity]
  BY <1>3, <1>4
<1>6. writerSees'[0] = readerSees'[0]
  <2>1. 0 \in 0..SyncDelay
    BY LcdConstants
  <2> QED
    BY <2>1, <1>1, <1>2, <1>3
<1>7. ASSUME NEW a \in 0..SyncDelay, NEW b \in 0..SyncDelay, a <= b
      PROVE  readerSees'[b] <= readerSees'[a] /\ writerSees'[a] <= writerSees'[b]
  <2>1. CASE b = 0
    <3>1. a = b
      BY <2>1, <1>7, LcdConstants
    <3> QED
      BY <3>1, <1>4, Sizes
  <2>2. CASE a = 0 /\ b # 0
    <3>1. b - 1 \in 0..SyncDelay
      BY <2>2, LcdConstants
    <3>2. readerSees[0] = writerSees[0] /\ 0 \in 0..SyncDelay
      BY LcdConstants DEF ViewInv
    <3>3. /\ readerSees'[b] = readerSees[b - 1] - t /\ readerSees'[a] = readerSees[0] + p - t
          /\ writerSees'[b] = writerSees[b - 1] + p /\ writerSees'[a] = readerSees[0] - t + p
      BY <2>2, <3>1, <3>2, <1>1, <1>2, <1>3, Sizes
    <3>4. /\ readerSees[b - 1] <= readerSees[0] /\ writerSees[0] <= writerSees[b - 1]
          /\ readerSees[b - 1] \in 0..Capacity /\ writerSees[b - 1] \in 0..Capacity
          /\ readerSees[0] \in 0..Capacity
      BY <3>1, <3>2, <1>2
    <3> QED
      BY <3>2, <3>3, <3>4, <1>1, Sizes
  <2>3. CASE a # 0
    <3>1. a - 1 \in 0..SyncDelay /\ b - 1 \in 0..SyncDelay /\ a - 1 <= b - 1
      BY <2>3, <1>7, LcdConstants
    <3>2. /\ readerSees'[b] = readerSees[b - 1] - t /\ readerSees'[a] = readerSees[a - 1] - t
          /\ writerSees'[b] = writerSees[b - 1] + p /\ writerSees'[a] = writerSees[a - 1] + p
      BY <2>3, <1>7, <1>3, LcdConstants
    <3>3. readerSees[b - 1] <= readerSees[a - 1] /\ writerSees[a - 1] <= writerSees[b - 1]
      BY <3>1 DEF ViewInv
    <3>4. /\ readerSees[b - 1] \in 0..Capacity /\ writerSees[b - 1] \in 0..Capacity
          /\ readerSees[a - 1] \in 0..Capacity /\ writerSees[a - 1] \in 0..Capacity
      BY <3>1, <1>2
    <3> QED
      BY <3>2, <3>3, <3>4, <1>1, Sizes
  <2> QED
    BY <2>1, <2>2, <2>3, LcdConstants
<1> QED
  BY <1>5, <1>6, <1>7 DEF ViewInv

-----------------------------------------------------------------------------
(* From which state each state is entered.                                 *)

LEMMA MasterMoves ==
  ASSUME MasterInv,
         NEW saved \in 0..2, NEW wait \in BOOLEAN, NEW valid \in BOOLEAN,
         Master(saved, wait, valid)
  PROVE  /\ mState' = "Init" => \/ mState = "Init" /\ ~Master_Start
                                \/ mState = "Check_Add" /\ Add = EndAdd
         /\ mState' = "Copy" => \/ mState = "Init" /\ Master_Start
                                \/ mState = "Copy" /\ ~Empty_FIFO
         /\ mState' = "Assert_Read_Data" => \/ mState = "Copy" /\ Empty_FIFO
                                            \/ mState = "Check_FIFO" /\ ~Full_FIFO
                                            \/ mState = "Wait_LCD_Control" /\ Write_16
         /\ mState' = "Check_WaitRequest" =>
              mState \in {"Assert_Read_Data", "Check_WaitRequest"}
         /\ mState' = "Read_Data" => \/ mState = "Check_WaitRequest"
                                     \/ mState = "Read_Data" /\ mCount # LcdWords
         /\ mState' = "New_Add" => mState = "Read_Data" /\ mCount = LcdWords
         /\ mState' = "Check_Add" => mState = "New_Add"
         /\ mState' = "Check_FIFO" => mState = "Check_Add"
         /\ mState' = "Wait_LCD_Control" => \/ mState = "Check_FIFO" /\ Full_FIFO
                                            \/ mState = "Wait_LCD_Control" /\ ~Write_16
BY DEF Master, MasterInit, Copy, AssertReadData, CheckWaitRequest, ReadData,
       NewAdd, CheckAdd, CheckFifo, WaitLcdControl

LEMMA ControlMoves ==
  ASSUME ControlInv, LCD_Control
  PROVE  /\ cState' = "Empty" => \/ cState = "Check_Master" /\ Master_Ready
                                 \/ cState = "Display" /\ cTime = TaskTime
         /\ cState' = "Display" => \/ cState = "Empty" /\ ~Empty_FIFO /\ cTime' = 0
                                   \/ cState = "Display" /\ cTime # TaskTime /\ cTime' = cTime + 1
         /\ cState' = "End_Display" => \/ cState = "Empty" /\ Empty_FIFO
                                       \/ cState = "End_Display"
         /\ cState' = "Empty_16" =>
              \/ cState = "Check_Master" /\ Master_Waiting /\ cWord' = cWord
              \/ cState = "Display_16" /\ cTime = TaskTime /\ cWord' = cWord + 1
         /\ cState' = "Display_16" =>
              /\ cWord' = cWord
              /\ \/ cState = "Empty_16" /\ cWord # Halves /\ cTime' = 0
                 \/ cState = "Display_16" /\ cTime # TaskTime /\ cTime' = cTime + 1
         /\ cState' = "Check_Master" =>
              \/ cState = "Check_Command" /\ ~Master_Ready
              \/ cState = "Check_Master" /\ ~Master_Ready /\ ~Master_Waiting
              \/ cState = "Empty_16" /\ cWord = Halves
         /\ cState' = "Init" => cState \in {"Init", "End_Command_Data"}
         /\ cState' = "Command" => cState \in {"Init", "Command", "End_Display"}
         /\ cState' = "Data" => cState \in {"Init", "Data"}
         /\ cState' = "Check_Command" => cState \in {"Command", "Check_Command"}
         /\ cState' = "End_Command_Data" =>
              cState \in {"Data", "Check_Command", "End_Display", "End_Command_Data"}
<1> USE LcdConstants, Sizes DEF ControlInv, ControlStates, Timed, Done_Task, Task
<1>1. CASE ControlInit
  <2>1. cState' \in {"Command", "Data", "Init"} /\ cState = "Init"
    BY <1>1 DEF ControlInit
  <2> QED
    BY <2>1
<1>2. CASE CommandTask
  BY <1>2 DEF CommandTask
<1>3. CASE CheckCommand
  BY <1>3 DEF CheckCommand
<1>4. CASE DataTask
  BY <1>4 DEF DataTask
<1>5. CASE CheckMaster
  BY <1>5 DEF CheckMaster
<1>6. CASE Empty
  BY <1>6 DEF Empty
<1>7. CASE DisplayTask
  BY <1>7 DEF DisplayTask
<1>8. CASE Empty16
  BY <1>8 DEF Empty16
<1>9. CASE Display16
  BY <1>9 DEF Display16
<1>10. CASE EndDisplay
  <2> DEFINE next == CASE State_Command_Data = 1 -> "End_Command_Data"
                       [] State_Command_Data = 3 -> "Command"
                       [] OTHER                  -> "End_Display"
  <2>1. next \in {"End_Command_Data", "Command", "End_Display"}
    OBVIOUS
  <2>2. Task("End_Display", next)
    BY <1>10 DEF EndDisplay
  <2> HIDE DEF next
  <2> QED
    BY <2>1, <2>2
<1>11. CASE EndCommandData
  BY <1>11 DEF EndCommandData
<1> QED
  BY <1>1, <1>2, <1>3, <1>4, <1>5, <1>6, <1>7, <1>8, <1>9, <1>10, <1>11 DEF LCD_Control

-----------------------------------------------------------------------------
(* Both machines.                                                          *)

LEMMA InitHand ==
  LcdInit => HandInv
BY DEF LcdInit, HandInv

LEMMA HandStep ==
  ASSUME MasterInv, ControlInv, HandInv, MasterInv', ControlInv',
         NEW saved \in 0..2, NEW wait \in BOOLEAN, NEW valid \in BOOLEAN,
         Master(saved, wait, valid), LCD_Control
  PROVE  HandInv'
<1>1. mState = "Init" /\ cState # "Check_Command" => mState' = "Init"
  BY DEF Master, MasterInit, Copy, AssertReadData, CheckWaitRequest, ReadData,
         NewAdd, CheckAdd, CheckFifo, WaitLcdControl, Master_Start
<1>2. mState = "Wait_LCD_Control" /\ ~Write_16 => mState' = "Wait_LCD_Control"
  BY DEF Master, MasterInit, Copy, AssertReadData, CheckWaitRequest, ReadData,
         NewAdd, CheckAdd, CheckFifo, WaitLcdControl
<1>3. cState' \in {"Empty_16", "Display_16"} => mState' = "Wait_LCD_Control"
  BY <1>2, ControlMoves DEF HandInv, Master_Waiting, Write_16
<1>4. cState' \in {"Empty", "Display", "End_Display"} => mState' = "Init"
  BY <1>1, ControlMoves DEF HandInv, Master_Ready
<1> QED
  BY <1>3, <1>4 DEF HandInv

LEMMA InitEngine ==
  LcdInit => EngineInv
BY InitMaster, InitControl, InitView, InitHand DEF EngineInv

LEMMA EngineStep ==
  ASSUME EngineInv,
         NEW saved \in 0..2, NEW wait \in BOOLEAN, NEW valid \in BOOLEAN,
         NEW w \in RegisterWrites, LcdEdge(saved, wait, valid, w)
  PROVE  EngineInv'
<1>1. /\ ReadBus(wait, valid) /\ Master(saved, wait, valid)
      /\ Fifo(valid) /\ LCD_Control
  BY DEF LcdEdge
<1>2. MasterInv'
  BY <1>1, MasterStep DEF EngineInv
<1>3. ControlInv'
  BY <1>1, ControlStep DEF EngineInv
<1>4. ViewInv'
  BY <1>1, ViewStep DEF EngineInv
<1>5. HandInv'
  BY <1>1, <1>2, <1>3, HandStep DEF EngineInv
<1> QED
  BY <1>2, <1>3, <1>4, <1>5 DEF EngineInv

LEMMA EngineStutter ==
  EngineInv /\ UNCHANGED lcdVars => EngineInv'
BY DEF EngineInv, MasterInv, ControlInv, ViewInv, HandInv, Fetching, lcdVars,
       slaveVars, masterVars, lcdFifoVars, controlVars, driverVars

-----------------------------------------------------------------------------
(* What the invariant says of the states in which a flag decides.          *)

LEMMA Levels ==
  ASSUME EngineInv
  PROVE  /\ Level \in 0..Capacity /\ writerSees[0] = Level
         /\ \A a \in 0..SyncDelay :
              /\ readerSees[a] \in 0..Capacity /\ writerSees[a] \in 0..Capacity
              /\ readerSees[SyncDelay] <= readerSees[a] /\ readerSees[a] <= Level
              /\ Level <= writerSees[a] /\ writerSees[a] <= writerSees[SyncDelay]
         /\ 0 \in 0..SyncDelay /\ SyncDelay \in 0..SyncDelay
<1>1. 0 \in 0..SyncDelay /\ SyncDelay \in 0..SyncDelay
  BY LcdConstants
<1> QED
  BY <1>1, LcdConstants DEF EngineInv, ViewInv, Level

\* The counters that SinceWrite and SinceRead speak of are naturals.
LEMMA SinceTyped ==
  EngineInv => SinceWrite \in Nat /\ SinceRead \in Nat
<1> SUFFICES ASSUME EngineInv PROVE SinceWrite \in Nat /\ SinceRead \in Nat
  OBVIOUS
<1>1. cTime \in Nat /\ TaskTime \in Nat
  BY LcdConstants DEF EngineInv, ControlInv
<1>2. mState \in MasterStates /\ cState \in ControlStates
  BY DEF EngineInv, MasterInv, ControlInv
<1>3. SinceWrite \in Nat
  BY <1>1, <1>2 DEF SinceWrite, MasterStates
<1>4. SinceRead \in Nat
  BY <1>1, <1>2 DEF SinceRead, MasterStates, ControlStates
<1> QED
  BY <1>3, <1>4

\* In a state the reader has seen every write but those of the last cycles.
LEMMA ReaderView ==
  ASSUME EngineInv, SinceInv, SyncIsShort
  PROVE  /\ SinceWrite >= TaskTime + 4 => readerSees[SyncDelay] = Level
         /\ SinceWrite >= 4 /\ Level >= Halves => readerSees[SyncDelay] > 0
         /\ readerSees[SyncDelay] \in 0..Capacity /\ readerSees[SyncDelay] <= Level
<1>1. /\ Level \in 0..Capacity /\ SyncDelay \in 0..SyncDelay
      /\ readerSees[SyncDelay] \in 0..Capacity /\ readerSees[SyncDelay] <= Level
  BY Levels
<1>2. SinceWrite \in Nat
  BY SinceTyped
<1>3. /\ SyncDelay <= SinceWrite => readerSees[SyncDelay] = Level
      /\ SyncDelay >= SinceWrite =>
           Level - readerSees[SyncDelay] <= 2 * (SyncDelay - SinceWrite)
  BY <1>1 DEF SinceInv
<1> HIDE DEF SinceWrite
<1>4. SinceWrite >= TaskTime + 4 => readerSees[SyncDelay] = Level
  BY <1>2, <1>3, LcdConstants DEF SyncIsShort
<1>5. ASSUME SinceWrite >= 4, Level >= Halves
      PROVE  readerSees[SyncDelay] > 0
  <2>1. CASE SyncDelay <= SinceWrite
    BY <2>1, <1>1, <1>3, <1>5, Sizes
  <2>2. CASE SyncDelay > SinceWrite
    <3>1. 2 * (SyncDelay - SinceWrite) <= 2 * (LcdWords - 1)
      BY <1>2, <1>5, LcdConstants DEF SyncIsShort
    <3> QED
      BY <2>2, <3>1, <1>1, <1>2, <1>3, <1>5, Sizes, LcdConstants
  <2> QED
    BY <2>1, <2>2, <1>2, LcdConstants
<1> QED
  BY <1>1, <1>4, <1>5

\* Where the writer has seen every read.
LEMMA WriterView ==
  ASSUME EngineInv, SinceInv, SyncIsShort, SinceRead >= TaskTime + 4
  PROVE  writerSees[SyncDelay] = Level
<1>1. SyncDelay \in 0..SyncDelay /\ SyncDelay <= SinceRead
  BY SinceTyped, LcdConstants DEF SyncIsShort
<1> QED
  BY <1>1 DEF SinceInv

LEMMA EmptyMeansEmpty ==
  ASSUME FlowInv, SyncIsShort, Empty_FIFO, mState = "Copy" \/ cState = "Empty"
  PROVE  Level = 0
<1>1. EngineInv /\ SinceInv /\ CountInv /\ HandInv
  BY DEF FlowInv, EngineInv
<1>2. readerSees[SyncDelay] = 0 /\ Level \in 0..Capacity /\ SyncDelay \in 0..SyncDelay
  BY <1>1, Levels DEF Empty_FIFO
<1>3. SinceWrite = 4
  BY <1>1 DEF SinceWrite, HandInv
<1>4. ~(Level >= Halves)
  BY <1>1, <1>2, <1>3, ReaderView
<1>5. CASE mState = "Copy"
  <2>1. Level \in {0, FrameHalves}
    BY <1>1, <1>5 DEF CountInv, Fetching, Draining
  <2> QED
    BY <2>1, <1>4, Sizes
<1>6. CASE cState = "Empty"
  <2>1. ReaderSeesAll
    BY <1>1, <1>4, <1>6 DEF SinceInv
  <2> QED
    BY <2>1, <1>2 DEF ReaderSeesAll
<1> QED
  BY <1>5, <1>6

LEMMA FlowKeepsRoom ==
  ASSUME FlowInv, SyncIsShort
  PROVE  BurstHasRoom
<1>1. /\ EngineInv /\ SinceInv /\ RoomInv /\ HandInv
      /\ mCount \in 0..LcdWords /\ Level \in 0..Capacity
  BY Levels DEF FlowInv, EngineInv, MasterInv
<1>2. ASSUME mState = "Read_Data", mCount # LcdWords
      PROVE  ~Full_FIFO
  <2>1. SinceRead = TaskTime + 4
    BY <1>1, <1>2 DEF SinceRead, HandInv
  <2>2. writerSees[SyncDelay] = Level
    BY <1>1, <2>1, WriterView, LcdConstants
  <2>3. Level + 2 * (LcdWords - mCount) <= Capacity
    BY <1>1, <1>2 DEF RoomInv
  <2> QED
    BY <2>2, <2>3, <1>1, <1>2, LcdConstants, Sizes DEF Full_FIFO
<1> QED
  BY <1>1, <1>2 DEF RoomInv, BurstHasRoom

LEMMA FlowFeedsPanel ==
  ASSUME FlowInv, SyncIsShort
  PROVE  PixelIsThere
<1>1. /\ EngineInv /\ SinceInv /\ RoomInv /\ HandInv
      /\ Level \in 0..Capacity /\ cWord \in 0..Halves
  BY Levels DEF FlowInv, EngineInv, ControlInv
<1>2. ASSUME cState = "Empty_16", cWord # Halves
      PROVE  ~Empty_FIFO
  <2>1. mState = "Wait_LCD_Control" /\ Level + cWord = Capacity
    BY <1>1, <1>2, Sizes DEF HandInv, RoomInv, Reading
  <2>2. CASE cWord = 0
    <3>1. SinceWrite = 5
      BY <1>2, <2>1, <2>2 DEF SinceWrite
    <3>2. readerSees[SyncDelay] > 0
      BY <1>1, <2>1, <2>2, <3>1, ReaderView, Sizes
    <3> QED
      BY <3>2 DEF Empty_FIFO
  <2>3. CASE cWord # 0
    <3>1. SinceWrite = TaskTime + 4
      BY <1>2, <2>1, <2>3 DEF SinceWrite
    <3>2. readerSees[SyncDelay] = Level
      BY <1>1, <3>1, ReaderView, LcdConstants
    <3> QED
      BY <1>1, <1>2, <2>1, <3>2, Sizes DEF Empty_FIFO
  <2> QED
    BY <2>2, <2>3
<1> QED
  BY <1>2 DEF PixelIsThere, Read_FIFO

LEMMA FlowEndsFrame ==
  FlowInv => WholeFrame
<1> SUFFICES ASSUME FlowInv, cState = "End_Display"
             PROVE  shown = FrameHalves /\ Level = 0 /\ mState = "Init"
  BY DEF WholeFrame
<1>1. mState = "Init" /\ Level = 0 /\ shown \in 0..FrameHalves + 1
  BY DEF FlowInv, EngineInv, HandInv, CountInv
<1>2. Level + shown + Reading = FrameHalves
  BY <1>1 DEF FlowInv, CountInv, Draining
<1> QED
  BY <1>1, <1>2, Sizes DEF Reading

-----------------------------------------------------------------------------
(* What one edge does to the level and to the count of halves shown.       *)

InEdge(saved, wait, valid, w) ==
  /\ FlowInv /\ SyncIsShort
  /\ saved \in 0..2 /\ wait \in BOOLEAN /\ valid \in BOOLEAN /\ w \in RegisterWrites
  /\ LcdEdge(saved, wait, valid, w)

\* Nothing is written to a full FIFO and nothing read from an empty one.
LEMMA WritesAndReads ==
  ASSUME NEW saved, NEW wait, NEW valid, NEW w, InEdge(saved, wait, valid, w)
  PROVE  /\ Put(valid) = IF mState = "Read_Data" /\ valid THEN 2 ELSE 0
         /\ mState = "Read_Data" /\ valid => mCount # LcdWords /\ mCount' = mCount + 1
         /\ Taken = IF \/ cState = "Empty" /\ ~Empty_FIFO
                       \/ cState = "Empty_16" /\ cWord # Halves
                    THEN 1 ELSE 0
         /\ Level' = Level + Put(valid) - Taken
<1>1. /\ EngineInv /\ MasterInv /\ valid \in BOOLEAN
      /\ ReadBus(wait, valid) /\ Fifo(valid) /\ Master(saved, wait, valid)
  BY DEF InEdge, FlowInv, EngineInv, LcdEdge
<1>2. mState = "Read_Data" /\ valid => mCount # LcdWords
  BY <1>1, LcdConstants DEF MasterInv, ReadBus
<1>3. mState = "Read_Data" /\ valid => mCount' = mCount + 1
  BY <1>1, <1>2 DEF Master, MasterInit, Copy, AssertReadData, CheckWaitRequest,
     ReadData, NewAdd, CheckAdd, CheckFifo, WaitLcdControl
<1>4. mState = "Read_Data" /\ valid => ~Full_FIFO
  BY <1>2, FlowKeepsRoom DEF InEdge, BurstHasRoom
<1>5. Put(valid) = IF mState = "Read_Data" /\ valid THEN 2 ELSE 0
  BY <1>1, <1>2, <1>4 DEF Put, Write_FIFO
<1>6. cState = "Empty_16" /\ cWord # Halves => ~Empty_FIFO
  BY FlowFeedsPanel DEF InEdge, PixelIsThere, Read_FIFO
<1>7. Taken = IF \/ cState = "Empty" /\ ~Empty_FIFO
                 \/ cState = "Empty_16" /\ cWord # Halves
              THEN 1 ELSE 0
  BY <1>6 DEF Taken, Read_FIFO
<1>8. Level' = Level + Put(valid) - Taken
  <2>1. Put(valid) \in {0, 2} /\ Taken \in {0, 1}
    BY <1>5, <1>7
  <2>2. 0 \in 0..SyncDelay /\ Level \in 0..Capacity
    BY <1>1, Levels
  <2>3. readerSees'[0] = (IF 0 = 0 THEN Level + Put(valid) ELSE readerSees[0 - 1]) - Taken
    BY <1>1, <2>2 DEF Fifo
  <2> QED
    BY <2>1, <2>2, <2>3, Sizes DEF Level
<1> QED
  BY <1>2, <1>3, <1>5, <1>7, <1>8

\* A pass never fetches more than a frame.
LEMMA FetchedBound ==
  ASSUME MasterInv, Fetching
  PROVE  /\ Fetched \in Nat /\ Fetched <= FrameHalves
         /\ mState = "Check_Add" /\ Add = EndAdd => Fetched = FrameHalves
         /\ mState # "Check_Add" => Fetched - 2 * mCount + Halves <= FrameHalves
<1> DEFINE burst == Add - (EndAdd - LcdBursts)
<1>1. /\ burst \in 0..LcdBursts /\ mCount \in 0..LcdWords
      /\ mState # "Check_Add" => burst + 1 <= LcdBursts
      /\ mState = "Check_Add" => mCount = 0
      /\ mState = "Check_Add" /\ Add = EndAdd => burst = LcdBursts
  BY LcdConstants, Sizes DEF MasterInv, Fetching
<1> HIDE DEF burst
<1>2. /\ Halves * burst \in Int /\ Halves * (burst + 1) = Halves * burst + Halves
      /\ Halves * 0 <= Halves * burst /\ Halves * burst <= Halves * LcdBursts
      /\ burst + 1 <= LcdBursts => Halves * (burst + 1) <= Halves * LcdBursts
  BY <1>1, Times, Sizes, LcdConstants
<1>3. Fetched = Halves * burst + 2 * mCount
  BY DEF Fetched, burst
<1> QED
  BY <1>1, <1>2, <1>3, Sizes, LcdConstants

\* How the controller goes round its two loops.
LEMMA Loops ==
  ASSUME ControlInv, ControlInv', LCD_Control
  PROVE  /\ cState = "Empty" => cState' = IF Empty_FIFO THEN "End_Display" ELSE "Display"
         /\ cState = "Display" => cState' = IF Done_Task THEN "Empty" ELSE "Display"
         /\ cState = "Empty_16" => IF cWord = Halves
                                   THEN cState' = "Check_Master" /\ cWord' = 0
                                   ELSE cState' = "Display_16" /\ cWord' = cWord
         /\ cState = "Display_16" => IF Done_Task
                                     THEN cState' = "Empty_16" /\ cWord' = cWord + 1
                                     ELSE cState' = "Display_16" /\ cWord' = cWord
         /\ cState \notin {"Empty_16", "Display_16"} =>
              cWord' = 0 /\ cState' # "Display_16"
         /\ cState \notin {"Empty", "Display"} => cState' # "Display"
         /\ cState = "Check_Master" => cState' = IF Master_Ready THEN "Empty"
                                                 ELSE IF Master_Waiting THEN "Empty_16"
                                                 ELSE "Check_Master"
<1>1. cState = "Empty" => cState' = IF Empty_FIFO THEN "End_Display" ELSE "Display"
  BY DEF LCD_Control, ControlInit, CommandTask, CheckCommand, DataTask, CheckMaster,
     Empty, DisplayTask, Empty16, Display16, EndDisplay, EndCommandData, Task
<1>2. cState = "Display" => cState' = IF Done_Task THEN "Empty" ELSE "Display"
  BY DEF LCD_Control, ControlInit, CommandTask, CheckCommand, DataTask, CheckMaster,
     Empty, DisplayTask, Empty16, Display16, EndDisplay, EndCommandData, Task
<1>3. cState = "Empty_16" => IF cWord = Halves
                             THEN cState' = "Check_Master" /\ cWord' = 0
                             ELSE cState' = "Display_16" /\ cWord' = cWord
  BY DEF LCD_Control, ControlInit, CommandTask, CheckCommand, DataTask, CheckMaster,
     Empty, DisplayTask, Empty16, Display16, EndDisplay, EndCommandData, Task
<1>4. cState = "Display_16" => IF Done_Task
                               THEN cState' = "Empty_16" /\ cWord' = cWord + 1
                               ELSE cState' = "Display_16" /\ cWord' = cWord
  BY DEF LCD_Control, ControlInit, CommandTask, CheckCommand, DataTask, CheckMaster,
     Empty, DisplayTask, Empty16, Display16, EndDisplay, EndCommandData, Task
<1>5. cState \notin {"Empty_16", "Display_16"} => cWord' = 0 /\ cState' # "Display_16"
  <2> SUFFICES ASSUME cState \notin {"Empty_16", "Display_16"}
               PROVE  cWord' = 0 /\ cState' # "Display_16"
    OBVIOUS
  <2>1. cWord = 0
    BY DEF ControlInv
  <2>2. cState' # "Display_16"
    BY ControlMoves
  <2>3. cWord' = cWord \/ cWord' = 0
    BY DEF LCD_Control, ControlInit, CommandTask, CheckCommand, DataTask, CheckMaster,
       Empty, DisplayTask, Empty16, Display16, EndDisplay, EndCommandData, Task
  <2> QED
    BY <2>1, <2>2, <2>3
<1>6. cState \notin {"Empty", "Display"} => cState' # "Display"
  BY ControlMoves
<1>7. cState = "Check_Master" => cState' = IF Master_Ready THEN "Empty"
                                           ELSE IF Master_Waiting THEN "Empty_16"
                                           ELSE "Check_Master"
  BY DEF LCD_Control, ControlInit, CommandTask, CheckCommand, DataTask, CheckMaster,
     Empty, DisplayTask, Empty16, Display16, EndDisplay, EndCommandData, Task
<1> QED
  BY <1>1, <1>2, <1>3, <1>4, <1>5, <1>6, <1>7

\* A half that leaves the FIFO is on its way until it is shown.
LEMMA ShownMoves ==
  ASSUME NEW saved, NEW wait, NEW valid, NEW w, InEdge(saved, wait, valid, w)
  PROVE  /\ mState = "Copy" => shown' = 0 /\ Taken = 0 /\ Reading' = 0
         /\ mState # "Copy" => shown' + Reading' = shown + Reading + Taken
         /\ mState # "Copy" /\ cState \notin {"Display", "Display_16"} => shown' = shown
         /\ cState = "Display_16" => shown' - cWord' = shown - cWord
         /\ shown \in Nat /\ shown' \in 0..FrameHalves + 1
<1>1. /\ MasterInv /\ ControlInv /\ HandInv /\ CountInv
      /\ LCD_Control /\ History(w) /\ Level \in 0..Capacity
  BY Levels DEF InEdge, FlowInv, EngineInv, LcdEdge
<1>2. ControlInv'
  BY <1>1, ControlStep
<1>3. /\ cState \in {"Empty", "Display", "Empty_16", "Display_16"} => mState # "Copy"
      /\ shown \in 0..FrameHalves + 1 /\ cWord \in 0..Halves
  BY <1>1 DEF HandInv, CountInv, ControlInv
<1>4. ASSUME cState \in {"Display", "Display_16"}
      PROVE  shown + 1 <= FrameHalves
  <2>1. Reading = 1
    BY <1>4 DEF Reading
  <2>2. CASE cState = "Display"
    <3>1. Level + shown + Reading = FrameHalves
      BY <1>1, <2>2 DEF CountInv, HandInv, Draining
    <3> QED
      BY <1>1, <1>3, <2>1, <3>1, Sizes
  <2>3. CASE cState = "Display_16"
    <3>1. mState = "Wait_LCD_Control" /\ Fetching
      BY <1>1, <2>3 DEF HandInv, Fetching
    <3>2. Level + shown + Reading = Fetched
      BY <1>1, <3>1 DEF CountInv
    <3>3. Fetched \in Nat /\ Fetched <= FrameHalves
      BY <1>1, <3>1, FetchedBound
    <3> QED
      BY <1>1, <1>3, <2>1, <3>2, <3>3, Sizes
  <2> QED
    BY <1>4, <2>2, <2>3
<1>5. shown' = IF mState = "Copy" THEN 0
               ELSE IF Done_Task /\ cState \in {"Display", "Display_16"} THEN shown + 1
               ELSE shown
  BY <1>1, <1>3, <1>4, Sizes DEF History, UpTo
<1>6. Taken = IF \/ cState = "Empty" /\ ~Empty_FIFO
                 \/ cState = "Empty_16" /\ cWord # Halves
              THEN 1 ELSE 0
  BY WritesAndReads
<1>7. CASE cState \in {"Display", "Display_16"}
  BY <1>1, <1>2, <1>3, <1>4, <1>5, <1>6, <1>7, Loops, Sizes DEF Reading
<1>8. CASE cState \in {"Empty", "Empty_16"}
  BY <1>1, <1>2, <1>3, <1>5, <1>6, <1>8, Loops, Sizes DEF Reading
<1>9. CASE cState \notin {"Display", "Display_16", "Empty", "Empty_16"}
  BY <1>1, <1>2, <1>3, <1>5, <1>6, <1>9, Loops, Sizes DEF Reading
<1> QED
  BY <1>7, <1>8, <1>9

LEMMA FetchedMoves ==
  ASSUME NEW saved, NEW wait, NEW valid, NEW w, InEdge(saved, wait, valid, w)
  PROVE  /\ Fetching /\ Fetching' => Fetched' = Fetched + Put(valid)
         /\ mState = "Copy" /\ Fetching' => Fetched' = 0
         /\ Fetching' => Fetching \/ mState = "Copy"
         /\ Fetching /\ ~Fetching' => mState' = "Init" /\ Fetched = FrameHalves
<1>1. /\ MasterInv /\ saved \in 0..2 /\ wait \in BOOLEAN /\ valid \in BOOLEAN
      /\ Master(saved, wait, valid)
  BY DEF InEdge, FlowInv, EngineInv, LcdEdge
<1>2. MasterInv'
  BY EngineStep DEF InEdge, FlowInv, EngineInv
<1>3. /\ Put(valid) = IF mState = "Read_Data" /\ valid THEN 2 ELSE 0
      /\ mState = "Read_Data" /\ valid => mCount # LcdWords /\ mCount' = mCount + 1
  BY WritesAndReads
<1>4. ASSUME Fetching, Fetching'
      PROVE  Fetched' = Fetched + Put(valid)
  <2> DEFINE burst == Add - (EndAdd - LcdBursts)
  <2>1. burst \in Nat /\ mCount \in Nat
    BY <1>1, <1>4, LcdConstants DEF MasterInv, Fetching
  <2>2. Fetched = Halves * burst + 2 * mCount /\ Fetched' = Halves * burst' + 2 * mCount'
    BY DEF Fetched
  <2>3. CASE NewAdd
    <3>1. mCount = LcdWords /\ mCount' = 0 /\ Add' = Add + 1 /\ EndAdd' = EndAdd
      BY <1>1, <2>3 DEF NewAdd, MasterInv
    <3>2. burst' = burst + 1
      BY <1>1, <3>1, LcdConstants DEF MasterInv
    <3>3. Put(valid) = 0
      BY <1>3, <2>3 DEF NewAdd
    <3> HIDE DEF burst
    <3>4. Halves * (burst + 1) = Halves * burst + Halves /\ Halves * burst \in Int
      BY <2>1, Times, Sizes
    <3> QED
      BY <2>2, <3>1, <3>2, <3>3, <3>4, Sizes, LcdConstants
  <2>4. CASE ReadData(valid)
    <3>1. burst' = burst
      BY <2>4 DEF ReadData
    <3>2. mCount' = IF valid THEN mCount + 1 ELSE mCount
      BY <2>4, <1>3 DEF ReadData
    <3>3. Put(valid) = IF valid THEN 2 ELSE 0
      BY <2>4, <1>3 DEF ReadData
    <3> HIDE DEF burst
    <3>4. Halves * burst \in Int
      BY <2>1, Times, Sizes
    <3> QED
      BY <1>1, <2>1, <2>2, <3>1, <3>2, <3>3, <3>4
  <2>5. CASE \/ AssertReadData \/ CheckWaitRequest(wait) \/ CheckAdd
             \/ CheckFifo \/ WaitLcdControl
    <3>1. Add' = Add /\ EndAdd' = EndAdd /\ mCount' = mCount /\ mState # "Read_Data"
      BY <2>5 DEF AssertReadData, CheckWaitRequest, CheckAdd, CheckFifo, WaitLcdControl
    <3>2. Fetched' = Fetched
      BY <3>1 DEF Fetched
    <3>3. Fetched \in Nat
      BY <1>1, <1>4, FetchedBound
    <3> QED
      BY <1>3, <3>1, <3>2, <3>3
  <2>6. ~MasterInit /\ ~Copy(saved)
    BY <1>4 DEF MasterInit, Copy, Fetching
  <2> QED
    BY <1>1, <2>3, <2>4, <2>5, <2>6 DEF Master
<1>5. ASSUME mState = "Copy", Fetching'
      PROVE  Fetched' = 0
  <2>1. Copy(saved)
    BY <1>1, <1>5 DEF Master, MasterInit, AssertReadData, CheckWaitRequest,
       ReadData, NewAdd, CheckAdd, CheckFifo, WaitLcdControl
  <2>2. Add' = LcdBursts * saved /\ EndAdd' = LcdBursts * (saved + 1) /\ mCount' = 0
    BY <1>1, <1>5, <2>1 DEF Copy, MasterInv
  <2>3. LcdBursts * (saved + 1) = LcdBursts * saved + LcdBursts /\ LcdBursts * saved \in Int
    BY <1>1, Times, LcdConstants
  <2>4. Add' - (EndAdd' - LcdBursts) = 0
    BY <2>2, <2>3, LcdConstants
  <2> QED
    BY <2>2, <2>4, Sizes DEF Fetched
<1>6. Fetching' => Fetching \/ mState = "Copy"
  BY <1>1, <1>2, MasterMoves DEF Fetching, MasterInv, MasterStates
<1>7. ASSUME Fetching, ~Fetching'
      PROVE  mState' = "Init" /\ Fetched = FrameHalves
  <2>1. mState' = "Init" /\ mState = "Check_Add" /\ Add = EndAdd
    BY <1>1, <1>7, MasterMoves DEF Fetching
  <2> QED
    BY <1>1, <1>7, <2>1, FetchedBound
<1> QED
  BY <1>4, <1>5, <1>6, <1>7

-----------------------------------------------------------------------------
(* CountInv, conjunct by conjunct.                                         *)

LEMMA CountTotal ==
  ASSUME NEW saved, NEW wait, NEW valid, NEW w, InEdge(saved, wait, valid, w)
  PROVE  /\ Fetching' => Level' + shown' + Reading' = Fetched'
         /\ Draining' => Level' + shown' + Reading' = FrameHalves
         /\ ~(Fetching' \/ Draining') => Level' \in {0, FrameHalves}
         /\ cState' = "End_Display" => Level' = 0
<1>1. /\ MasterInv /\ ControlInv /\ HandInv /\ CountInv
      /\ saved \in 0..2 /\ wait \in BOOLEAN /\ valid \in BOOLEAN
      /\ LCD_Control /\ Master(saved, wait, valid)
      /\ Level \in 0..Capacity
  BY Levels DEF InEdge, FlowInv, EngineInv, LcdEdge
<1>2. MasterInv' /\ ControlInv' /\ HandInv'
  BY EngineStep DEF InEdge, FlowInv, EngineInv
<1>3. /\ Put(valid) = IF mState = "Read_Data" /\ valid THEN 2 ELSE 0
      /\ Taken = IF \/ cState = "Empty" /\ ~Empty_FIFO
                    \/ cState = "Empty_16" /\ cWord # Halves
                 THEN 1 ELSE 0
      /\ Level' = Level + Put(valid) - Taken
  BY WritesAndReads
<1>4. /\ mState = "Copy" => shown' = 0 /\ Taken = 0 /\ Reading' = 0
      /\ mState # "Copy" => shown' + Reading' = shown + Reading + Taken
      /\ shown \in Nat /\ shown' \in Nat
  BY ShownMoves, Sizes
<1>5. /\ Reading \in {0, 1} /\ Reading' \in {0, 1}
      /\ Put(valid) \in {0, 2} /\ Taken \in {0, 1}
  BY <1>3 DEF Reading
<1>6. ASSUME mState # "Copy"
      PROVE  Level' + shown' + Reading' = Level + shown + Reading + Put(valid)
  <2>1. Level' = Level + Put(valid) - Taken /\ Level \in Int
    BY <1>1, <1>3, Sizes
  <2>2. shown' + Reading' = shown + Reading + Taken
    BY <1>4, <1>6
  <2>3. Reading \in Int /\ Reading' \in Int /\ Put(valid) \in Int /\ Taken \in Int
    BY <1>5
  <2>4. shown \in Int /\ shown' \in Int
    BY <1>4
  <2>5. Level' \in Int
    BY <2>1, <2>3
  <2>6. Level' + (shown' + Reading') = Level + Put(valid) - Taken + (shown + Reading + Taken)
    BY <2>1, <2>2
  <2> QED
    BY <2>1, <2>3, <2>4, <2>5, <2>6
<1>7. Fetching' => Level' + shown' + Reading' = Fetched'
  <2>1. CASE Fetching
    <3>1. Fetched \in Nat /\ Level + shown + Reading = Fetched /\ mState # "Copy"
      BY <1>1, <2>1, FetchedBound DEF CountInv, Fetching
    <3> QED
      BY <1>5, <1>6, <2>1, <3>1, FetchedMoves
  <2>2. CASE Fetching' /\ mState = "Copy"
    <3>1. mState' = "Assert_Read_Data" /\ Empty_FIFO
      BY <1>1, <1>2, <2>2, MasterMoves DEF Fetching, MasterInv, MasterStates
    <3>2. Level = 0
      BY <2>2, <3>1, EmptyMeansEmpty DEF InEdge
    <3> QED
      BY <1>3, <1>4, <2>2, <3>2, FetchedMoves
  <2> QED
    BY <2>1, <2>2, FetchedMoves
<1>8. cState' = "End_Display" => Level' = 0
  <2> SUFFICES ASSUME cState' = "End_Display" PROVE Level' = 0
    OBVIOUS
  <2>1. (cState = "Empty" /\ Empty_FIFO) \/ cState = "End_Display"
    BY <1>1, ControlMoves
  <2>2. Level = 0
    BY <1>1, <2>1, EmptyMeansEmpty DEF InEdge, CountInv
  <2>3. Put(valid) = 0 /\ Taken = 0
    BY <1>1, <1>3, <2>1 DEF HandInv
  <2> QED
    BY <1>3, <2>2, <2>3
<1>9. ASSUME Fetching, mState' = "Init"
      PROVE  /\ Level' + shown' + Reading' = FrameHalves
             /\ cState # "Check_Master" => Level' = FrameHalves
  <2>1. mState = "Check_Add"
    BY <1>1, <1>9, MasterMoves DEF Fetching
  <2>2. Level + shown + Reading = FrameHalves
    BY <1>1, <1>9, FetchedMoves DEF CountInv, Fetching
  <2>3. Put(valid) = 0 /\ Taken = 0
    BY <1>1, <1>3, <2>1 DEF HandInv
  <2>4. cState # "Check_Master" => shown = 0 /\ Reading = 0
    BY <1>1, <1>9, <2>1 DEF CountInv, HandInv, Reading
  <2> QED
    BY <1>1, <1>3, <1>4, <1>6, <2>1, <2>2, <2>3, <2>4, Sizes
<1>10. ASSUME Draining' PROVE Level' + shown' + Reading' = FrameHalves
  <2>1. mState = "Init" \/ Fetching
    BY <1>1, <1>10, MasterMoves DEF Draining, Fetching
  <2>2. CASE mState = "Init"
    <3>1. Draining
      BY <1>1, <1>10, <2>2, ControlMoves DEF Draining, HandInv, Master_Ready
    <3> QED
      BY <1>1, <1>3, <1>5, <1>6, <2>2, <3>1 DEF CountInv
  <2> QED
    BY <1>9, <1>10, <2>1, <2>2 DEF Draining
<1>11. ASSUME ~(Fetching' \/ Draining') PROVE Level' \in {0, FrameHalves}
  <2>1. CASE Fetching
    <3>1. mState' = "Init" /\ mState = "Check_Add"
      BY <1>1, <1>11, <2>1, MasterMoves DEF Fetching
    <3>2. cState # "Check_Master"
      BY <1>1, <1>2, <1>11, <3>1 DEF Draining, LCD_Control, ControlInit, CommandTask,
         CheckCommand, DataTask, CheckMaster, Empty, DisplayTask, Empty16, Display16,
         EndDisplay, EndCommandData, Task, Master_Ready, Master_Waiting
    <3> QED
      BY <1>9, <2>1, <3>1, <3>2
  <2>2. CASE ~Fetching
    <3>1. Put(valid) = 0
      BY <1>3, <2>2 DEF Fetching
    <3>2. CASE Draining
      <4>1. cState = "End_Display"
        BY <1>1, <1>2, <1>11, <3>2, MasterMoves DEF Draining, Fetching, LCD_Control,
           ControlInit, CommandTask, CheckCommand, DataTask, CheckMaster, Empty,
           DisplayTask, Empty16, Display16, EndDisplay, EndCommandData, Task,
           Master_Ready, Master_Waiting, Master_Start, MasterInv, MasterStates
      <4>2. Level = 0 /\ Taken = 0
        BY <1>1, <1>3, <4>1 DEF CountInv
      <4> QED
        BY <1>3, <3>1, <4>2
    <3>3. CASE ~Draining
      <4>1. Level \in {0, FrameHalves}
        BY <1>1, <2>2, <3>3 DEF CountInv
      <4>2. Taken = 0
        BY <1>1, <1>3, <2>2, <3>3 DEF HandInv, Draining, Fetching
      <4> QED
        BY <1>3, <3>1, <4>1, <4>2, Sizes
    <3> QED
      BY <3>2, <3>3
  <2> QED
    BY <2>1, <2>2
<1> QED
  BY <1>7, <1>8, <1>10, <1>11

LEMMA CountDrained ==
  ASSUME NEW saved, NEW wait, NEW valid, NEW w, InEdge(saved, wait, valid, w)
  PROVE  /\ (Fetching' \/ (Draining' /\ cState' = "Check_Master")) =>
              \E drained \in 0..LcdBursts : shown' = Halves * drained + cWord'
         /\ (Fetching' /\ cState' \notin {"Check_Master", "Empty_16", "Display_16"})
              => shown' = 0
<1>1. /\ MasterInv /\ ControlInv /\ HandInv /\ CountInv
      /\ saved \in 0..2 /\ wait \in BOOLEAN /\ valid \in BOOLEAN
      /\ LCD_Control /\ Master(saved, wait, valid)
      /\ Level \in 0..Capacity
  BY Levels DEF InEdge, FlowInv, EngineInv, LcdEdge
<1>2. ControlInv'
  BY EngineStep DEF InEdge, FlowInv, EngineInv
<1>3. /\ mState = "Copy" => shown' = 0 /\ cWord' = 0
      /\ shown \in Nat /\ shown' \in Nat /\ cWord \in Nat /\ cWord' \in Nat
  <2>1. mState = "Copy" => cWord' = 0
    BY <1>1, <1>2, Loops DEF HandInv
  <2>2. cWord \in Nat /\ cWord' \in Nat
    BY <1>1, <1>2, Sizes DEF ControlInv
  <2> QED
    BY <2>1, <2>2, ShownMoves, Sizes
<1>4. CASE mState = "Copy"
  <2>1. 0 \in 0..LcdBursts /\ shown' = Halves * 0 + cWord'
    BY <1>3, <1>4, LcdConstants, Sizes
  <2> QED
    BY <1>3, <1>4, <2>1
<1>5. CASE Fetching
  <2>1. PICK drained \in 0..LcdBursts : shown = Halves * drained + cWord
    BY <1>1, <1>5 DEF CountInv
  <2>2. drained \in Nat /\ Halves * drained \in Int
        /\ Halves * (drained + 1) = Halves * drained + Halves
    BY <2>1, Times, Sizes
  <2>3. CASE cState = "Display_16"
    <3>1. shown' - cWord' = shown - cWord
      BY <2>3, ShownMoves
    <3>2. shown' = Halves * drained + cWord'
      BY <1>3, <2>1, <2>2, <3>1
    <3>3. cState' \in {"Empty_16", "Display_16"}
      BY <1>1, <1>2, <2>3, Loops
    <3> QED
      BY <3>2, <3>3
  <2>4. CASE cState = "Empty_16" /\ cWord = Halves
    <3>1. shown' = shown /\ cWord' = 0 /\ cState' = "Check_Master"
      BY <1>1, <1>2, <1>5, <2>4, ShownMoves, Loops DEF Fetching
    <3>2. shown = Halves * (drained + 1)
      BY <2>1, <2>2, <2>4, Sizes
    <3>3. shown <= FrameHalves
      <4>1. Level + shown + Reading = Fetched /\ Fetched <= FrameHalves /\ Fetched \in Nat
        BY <1>1, <1>5, FetchedBound DEF CountInv
      <4> QED
        BY <1>1, <1>3, <2>4, <4>1, Sizes DEF Reading
    <3>4. drained + 1 \in 0..LcdBursts
      <4>1. CASE drained = LcdBursts
        <5>1. Halves * (drained + 1) = FrameHalves + Halves
          BY <2>2, <4>1, Sizes
        <5> QED
          BY <3>2, <3>3, <5>1, Sizes
      <4>2. CASE drained # LcdBursts
        BY <2>1, <4>2, LcdConstants
      <4> QED
        BY <4>1, <4>2
    <3> DEFINE next == drained + 1
    <3>5. shown' = Halves * next + cWord'
      BY <2>2, <3>1, <3>2, Sizes
    <3>6. next \in 0..LcdBursts
      BY <3>4
    <3> HIDE DEF next
    <3> QED
      BY <3>1, <3>5, <3>6
  <2>5. CASE cState = "Empty_16" /\ cWord # Halves
    <3>1. shown' = shown /\ cWord' = cWord /\ cState' = "Display_16"
      BY <1>1, <1>2, <1>5, <2>5, ShownMoves, Loops DEF Fetching
    <3> QED
      BY <2>1, <3>1
  <2>6. CASE cState \notin {"Empty_16", "Display_16"}
    <3>1. cWord = 0 /\ cWord' = 0
      BY <1>1, <1>2, <2>6, Loops DEF ControlInv
    <3>2. shown' = shown
      BY <1>1, <1>5, <2>6, ShownMoves DEF HandInv, Fetching
    <3>3. cState = "Check_Master" => cState' \in {"Empty_16", "Check_Master"}
      BY <1>1, <1>2, <1>5, Loops DEF Fetching, Master_Ready
    <3>4. cState' \notin {"Check_Master", "Empty_16", "Display_16"} => shown = 0
      BY <1>1, <1>5, <2>6, <3>3 DEF CountInv
    <3> QED
      BY <2>1, <3>1, <3>2, <3>4
  <2> QED
    BY <2>3, <2>4, <2>5, <2>6
<1>6. CASE mState = "Init"
  <2>1. ~Fetching'
    BY <1>6, FetchedMoves DEF Fetching
  <2>2. ~(Draining' /\ cState' = "Check_Master")
    BY <1>1, <1>6, ControlMoves DEF HandInv, Master_Ready
  <2> QED
    BY <2>1, <2>2
<1> QED
  BY <1>4, <1>5, <1>6 DEF Fetching

LEMMA CountStep ==
  ASSUME NEW saved, NEW wait, NEW valid, NEW w, InEdge(saved, wait, valid, w)
  PROVE  CountInv'
<1>1. shown' \in 0..FrameHalves + 1
  BY ShownMoves
<1>2. FrameHalves' = FrameHalves /\ Halves' = Halves
  BY DEF FrameHalves, Halves
<1> QED
  BY <1>1, <1>2, CountTotal, CountDrained DEF CountInv

-----------------------------------------------------------------------------
(* RoomInv.                                                                *)

\* A pass that is between two bursts has left whole bursts in the FIFO.
LEMMA WholeBursts ==
  ASSUME FlowInv, mState = "Check_FIFO"
  PROVE  /\ Level < Capacity => Level + Halves <= Capacity
         /\ Level > Capacity - 2 => Level = Capacity
<1>1. /\ MasterInv /\ ControlInv /\ HandInv /\ CountInv /\ Fetching
      /\ Level \in 0..Capacity
  BY Levels DEF FlowInv, EngineInv, Fetching
<1>2. cWord = 0 /\ Reading = 0 /\ mCount = 0
  BY <1>1 DEF ControlInv, HandInv, Reading, MasterInv
<1>3. PICK drained \in 0..LcdBursts : shown = Halves * drained
  <2>1. PICK drained \in 0..LcdBursts : shown = Halves * drained + cWord
    BY <1>1 DEF CountInv
  <2>2. Halves * drained \in Int
    BY Times, Sizes
  <2> QED
    BY <1>2, <2>1, <2>2
<1> DEFINE burst == Add - (EndAdd - LcdBursts)
<1>4. burst \in Nat
  BY <1>1, LcdConstants DEF MasterInv, Fetching
<1>5. Level + shown = Halves * burst
  <2>1. Halves * burst \in Int /\ Fetched = Halves * burst + 2 * mCount
    BY <1>4, Times, Sizes DEF Fetched
  <2>2. Level + shown + Reading = Fetched /\ shown \in Int
    BY <1>1, Sizes DEF CountInv
  <2> QED
    BY <1>1, <1>2, <2>1, <2>2, Sizes
<1> DEFINE held == burst - drained
<1>6. held \in Int /\ Level = Halves * held
  <2>1. Halves * burst = Halves * drained + Halves * held
    BY <1>3, <1>4, Sizes
  <2>2. held \in Int /\ Halves * held \in Int /\ Halves * drained \in Int
    BY <1>3, <1>4, Times, Sizes
  <2>3. Level \in Int
    BY <1>1, Sizes
  <2> HIDE DEF burst, held
  <2> QED
    BY <1>3, <1>5, <2>1, <2>2, <2>3
<1> HIDE DEF held
<1>7. /\ Halves * (held + 1) = Halves * held + Halves
      /\ held + 1 <= FifoBursts => Halves * (held + 1) <= Halves * FifoBursts
      /\ FifoBursts <= held => Halves * FifoBursts <= Halves * held
  BY <1>6, Times, Sizes, LcdConstants
<1> QED
  BY <1>1, <1>6, <1>7, Sizes, LcdConstants

LEMMA RoomStep ==
  ASSUME NEW saved, NEW wait, NEW valid, NEW w, InEdge(saved, wait, valid, w)
  PROVE  RoomInv'
<1>1. /\ FlowInv /\ EngineInv /\ SinceInv /\ SyncIsShort
      /\ MasterInv /\ ControlInv /\ HandInv /\ RoomInv
      /\ saved \in 0..2 /\ wait \in BOOLEAN /\ valid \in BOOLEAN
      /\ LCD_Control /\ Master(saved, wait, valid)
      /\ Level \in 0..Capacity
  BY Levels DEF InEdge, FlowInv, EngineInv, LcdEdge
<1>2. MasterInv' /\ ControlInv' /\ HandInv'
  BY EngineStep DEF InEdge, FlowInv, EngineInv
<1>3. /\ Put(valid) = IF mState = "Read_Data" /\ valid THEN 2 ELSE 0
      /\ mState = "Read_Data" /\ valid => mCount # LcdWords /\ mCount' = mCount + 1
      /\ Taken = IF \/ cState = "Empty" /\ ~Empty_FIFO
                    \/ cState = "Empty_16" /\ cWord # Halves
                 THEN 1 ELSE 0
      /\ Level' = Level + Put(valid) - Taken
  BY WritesAndReads
<1>4. mCount \in 0..LcdWords /\ mCount' \in 0..LcdWords /\ cWord \in 0..Halves
  BY <1>1, <1>2 DEF MasterInv, ControlInv
<1>5. ASSUME mState = "Check_FIFO"
      PROVE  /\ ~Full_FIFO => Level + Halves <= Capacity
             /\ Full_FIFO => Level = Capacity
  <2>1. SinceRead = TaskTime + 4
    BY <1>1, <1>5 DEF SinceRead, HandInv
  <2>2. writerSees[SyncDelay] = Level
    BY <1>1, <2>1, WriterView, LcdConstants
  <2> QED
    BY <1>1, <1>5, <2>2, WholeBursts, Sizes DEF Full_FIFO
<1>6. mState # "Wait_LCD_Control" /\ mState # "Init" => Taken = 0
  BY <1>1, <1>3 DEF HandInv
<1>7. ASSUME mState' = "Assert_Read_Data"
      PROVE  Level' + 2 * (LcdWords - mCount') <= Capacity
  <2>1. mCount' = 0
    BY <1>2, <1>7 DEF MasterInv
  <2>2. CASE mState = "Copy" /\ Empty_FIFO
    <3>1. Level = 0
      BY <1>1, <2>2, EmptyMeansEmpty
    <3> QED
      BY <1>3, <1>6, <2>1, <2>2, <3>1, Sizes, LcdConstants
  <2>3. CASE mState = "Check_FIFO" /\ ~Full_FIFO
    BY <1>1, <1>3, <1>5, <1>6, <2>1, <2>3, Sizes, LcdConstants
  <2>4. CASE mState = "Wait_LCD_Control" /\ Write_16
    <3>1. cState = "Empty_16" /\ cWord = Halves /\ Reading = 0
      BY <2>4 DEF Write_16, Reading
    <3>2. Level + cWord + Reading = Capacity /\ Taken = 0 /\ Put(valid) = 0
      BY <1>1, <1>3, <2>4, <3>1 DEF RoomInv
    <3> QED
      BY <1>1, <1>3, <2>1, <3>1, <3>2, Sizes, LcdConstants
  <2> QED
    BY <1>1, <1>7, <2>2, <2>3, <2>4, MasterMoves
<1>8. ASSUME mState' \in {"Check_WaitRequest", "Read_Data"}
      PROVE  Level' + 2 * (LcdWords - mCount') <= Capacity
  <2>1. mState \in {"Assert_Read_Data", "Check_WaitRequest", "Read_Data"}
    BY <1>1, <1>8, MasterMoves
  <2>2. Level + 2 * (LcdWords - mCount) <= Capacity /\ Taken = 0
    BY <1>1, <1>6, <2>1 DEF RoomInv
  <2>3. CASE mState = "Read_Data" /\ valid
    BY <1>1, <1>3, <1>4, <2>2, <2>3, Sizes, LcdConstants
  <2>4. CASE ~(mState = "Read_Data" /\ valid)
    <3>1. mCount' = mCount
      BY <1>1, <2>1, <2>4 DEF Master, MasterInit, Copy, AssertReadData, CheckWaitRequest,
         ReadData, NewAdd, CheckAdd, CheckFifo, WaitLcdControl
    <3> QED
      BY <1>1, <1>3, <1>4, <2>2, <2>4, <3>1, Sizes, LcdConstants
  <2> QED
    BY <2>3, <2>4
<1>9. ASSUME mState' = "Wait_LCD_Control"
      PROVE  Level' + cWord' + Reading' = Capacity
  <2>1. CASE mState = "Check_FIFO" /\ Full_FIFO
    <3>1. Level' = Capacity
      BY <1>1, <1>3, <1>5, <1>6, <2>1, Sizes
    <3>2. cState \notin {"Empty", "Display", "Empty_16", "Display_16"}
      BY <1>1, <2>1 DEF HandInv
    <3>3. cWord' = 0 /\ Reading' = 0
      BY <1>1, <1>2, <3>2, Loops DEF Reading
    <3> QED
      BY <3>1, <3>3, Sizes
  <2>2. CASE mState = "Wait_LCD_Control" /\ ~Write_16
    <3>1. Level + cWord + Reading = Capacity /\ Put(valid) = 0
      BY <1>1, <1>3, <2>2 DEF RoomInv
    <3>2. CASE cState = "Empty_16"
      <4>1. cState' = "Display_16" /\ cWord' = cWord /\ Taken = 1
        BY <1>1, <1>2, <1>3, <2>2, <3>2, Loops DEF Write_16
      <4> QED
        BY <1>1, <1>3, <1>4, <3>1, <3>2, <4>1, Sizes DEF Reading
    <3>3. CASE cState = "Display_16"
      <4>1. Taken = 0
        BY <1>3, <3>3
      <4>2. cWord' + Reading' = cWord + Reading
        BY <1>1, <1>2, <1>4, <3>3, Loops, Sizes DEF Reading
      <4>3. Reading \in Int /\ Reading' \in Int /\ cWord \in Int /\ cWord' \in Int
        BY <1>2, <1>4, Sizes DEF Reading, ControlInv
      <4>4. Level' = Level /\ Level \in Int
        BY <1>1, <1>3, <3>1, <4>1, Sizes
      <4>5. Level' + (cWord' + Reading') = Level + (cWord + Reading)
        BY <4>2, <4>4
      <4>6. Level + (cWord + Reading) = Level + cWord + Reading
        BY <4>3, <4>4
      <4>7. Level' + (cWord' + Reading') = Level' + cWord' + Reading'
        BY <4>3, <4>4
      <4> QED
        BY <3>1, <4>5, <4>6, <4>7
    <3>4. CASE cState \notin {"Empty_16", "Display_16"}
      <4>1. cState \notin {"Empty", "Display"}
        BY <1>1, <2>2 DEF HandInv
      <4>2. cWord = 0 /\ Reading = 0 /\ Taken = 0
        BY <1>1, <1>3, <3>4, <4>1 DEF ControlInv, Reading
      <4>3. cWord' = 0 /\ Reading' = 0
        BY <1>1, <1>2, <3>4, <4>1, Loops DEF Reading
      <4> QED
        BY <1>1, <1>3, <3>1, <4>2, <4>3, Sizes
    <3> QED
      BY <3>2, <3>3, <3>4
  <2> QED
    BY <1>1, <1>9, <2>1, <2>2, MasterMoves
<1>10. Capacity' = Capacity
  BY DEF Capacity, Halves
<1> QED
  BY <1>7, <1>8, <1>9, <1>10 DEF RoomInv

-----------------------------------------------------------------------------
(* SinceInv.                                                               *)

\* An edge makes the last write older by one cycle.
LEMMA SinceWriteMoves ==
  ASSUME NEW saved, NEW wait, NEW valid, NEW w, InEdge(saved, wait, valid, w)
  PROVE  /\ Put(valid) = 2 => SinceWrite = 0 /\ SinceWrite' = 0
         /\ SinceWrite' <= SinceWrite + 1
<1>1. /\ MasterInv /\ ControlInv /\ HandInv
      /\ saved \in 0..2 /\ wait \in BOOLEAN /\ valid \in BOOLEAN
      /\ LCD_Control /\ Master(saved, wait, valid)
  BY DEF InEdge, FlowInv, EngineInv, LcdEdge
<1>2. MasterInv' /\ ControlInv' /\ HandInv'
  BY EngineStep DEF InEdge, FlowInv, EngineInv
<1>3. /\ cTime \in Nat /\ cTime' \in Nat /\ TaskTime \in Nat
      /\ cWord \in Nat /\ cWord' \in Nat
  BY <1>1, <1>2, LcdConstants, Sizes DEF ControlInv
<1>4. SinceWrite \in Nat /\ SinceWrite' \in Nat
  <2>1. EngineInv /\ EngineInv'
    BY EngineStep DEF InEdge, FlowInv
  <2>2. SinceWrite \in Nat
    BY <2>1, SinceTyped
  <2>3. SinceWrite' \in Nat
    <3>1. mState' \in MasterStates
      BY <1>2 DEF MasterInv
    <3> QED
      BY <1>3, <3>1 DEF SinceWrite, MasterStates
  <2> QED
    BY <2>2, <2>3
<1>5. ASSUME Put(valid) = 2 PROVE SinceWrite = 0 /\ SinceWrite' = 0
  <2>1. mState = "Read_Data" /\ mCount # LcdWords
    BY <1>5, WritesAndReads
  <2>2. mState' = "Read_Data"
    BY <1>1, <2>1 DEF Master, MasterInit, Copy, AssertReadData, CheckWaitRequest,
       ReadData, NewAdd, CheckAdd, CheckFifo, WaitLcdControl
  <2> QED
    BY <2>1, <2>2 DEF SinceWrite
<1> SUFFICES SinceWrite' <= SinceWrite + 1
  BY <1>5
<1>6. CASE mState' \in {"Assert_Read_Data", "Check_WaitRequest", "Read_Data", "New_Add"}
  <2>1. SinceWrite' <= 1
    BY <1>6 DEF SinceWrite
  <2> QED
    BY <1>4, <2>1
<1>7. CASE mState' \in {"Check_Add", "Check_FIFO"}
  <2>1. \/ mState = "New_Add" /\ SinceWrite = 1 /\ SinceWrite' = 2
        \/ mState = "Check_Add" /\ SinceWrite = 2 /\ SinceWrite' = 3
    BY <1>1, <1>7, MasterMoves DEF SinceWrite
  <2> QED
    BY <2>1
<1>8. CASE mState' = "Copy"
  <2>1. SinceWrite' = 4
    BY <1>8 DEF SinceWrite
  <2>2. mState = "Copy" \/ (mState = "Init" /\ cState = "Check_Command")
    BY <1>1, <1>8, MasterMoves DEF Master_Start
  <2>3. SinceWrite = 4 \/ SinceWrite = 3
    BY <2>2 DEF SinceWrite
  <2> QED
    BY <2>1, <2>3
<1>9. CASE mState' = "Init"
  <2>1. CASE mState = "Check_Add"
    <3>1. cState' \notin {"Empty", "Display"}
      BY <1>1, <2>1, ControlMoves DEF HandInv, Master_Ready
    <3>2. SinceWrite = 2 /\ SinceWrite' = 3
      BY <1>9, <2>1, <3>1 DEF SinceWrite
    <3> QED
      BY <3>2
  <2>2. CASE mState = "Init"
    <3>1. SinceWrite >= 3
      BY <1>3, <2>2 DEF SinceWrite
    <3>2. CASE cState' # "Display"
      <4>1. SinceWrite' <= 4
        BY <1>9, <3>2 DEF SinceWrite
      <4> QED
        BY <1>4, <3>1, <4>1
    <3>3. CASE cState' = "Display" /\ cState = "Empty" /\ cTime' = 0
      <4>1. SinceWrite = 4 /\ SinceWrite' = 5
        BY <1>9, <2>2, <3>3 DEF SinceWrite
      <4> QED
        BY <4>1
    <3>4. CASE cState' = "Display" /\ cState = "Display" /\ cTime' = cTime + 1
      <4>1. SinceWrite = 5 + cTime /\ SinceWrite' = 5 + cTime'
        BY <1>9, <2>2, <3>4 DEF SinceWrite
      <4> QED
        BY <1>3, <3>4, <4>1
    <3> QED
      BY <1>1, <3>2, <3>3, <3>4, ControlMoves
  <2> QED
    BY <1>1, <1>9, <2>1, <2>2, MasterMoves
<1>10. CASE mState' = "Wait_LCD_Control"
  <2>1. CASE mState = "Check_FIFO"
    <3>1. cState' \notin {"Empty_16", "Display_16"}
      BY <1>1, <2>1, ControlMoves DEF HandInv, Master_Waiting
    <3>2. SinceWrite = 3 /\ SinceWrite' = 4
      BY <1>10, <2>1, <3>1 DEF SinceWrite
    <3> QED
      BY <3>2
  <2>2. CASE mState = "Wait_LCD_Control"
    <3>1. SinceWrite >= 4
      BY <1>3, <2>2 DEF SinceWrite
    <3>2. CASE cState' \notin {"Empty_16", "Display_16"}
      <4>1. SinceWrite' = 4
        BY <1>10, <3>2 DEF SinceWrite
      <4> QED
        BY <1>4, <3>1, <4>1
    <3>3. CASE cState' = "Empty_16" /\ cState = "Check_Master" /\ cWord' = cWord
      <4>1. cWord = 0
        BY <1>1, <3>3 DEF ControlInv
      <4>2. SinceWrite = 4 /\ SinceWrite' = 5
        BY <1>10, <2>2, <3>3, <4>1 DEF SinceWrite
      <4> QED
        BY <4>2
    <3>4. CASE cState' = "Empty_16" /\ cState = "Display_16" /\ cTime = TaskTime
               /\ cWord' = cWord + 1
      <4>1. cWord' # 0
        BY <1>3, <3>4
      <4>2. SinceWrite' = TaskTime + 4
        BY <1>10, <3>4, <4>1 DEF SinceWrite
      <4>3. SinceWrite >= TaskTime + 4
        BY <1>3, <2>2, <3>4 DEF SinceWrite
      <4> QED
        BY <1>3, <1>4, <4>2, <4>3
    <3>5. CASE cState' = "Display_16" /\ cWord' = cWord /\ cWord # 0
               /\ cState \in {"Empty_16", "Display_16"}
      <4>1. SinceWrite = TaskTime + 4 /\ SinceWrite' = TaskTime + 4
        BY <1>10, <2>2, <3>5 DEF SinceWrite
      <4> QED
        BY <1>3, <4>1
    <3>6. CASE cState' = "Display_16" /\ cWord' = cWord /\ cWord = 0
               /\ cState = "Empty_16" /\ cTime' = 0
      <4>1. SinceWrite = 5 /\ SinceWrite' = 6
        BY <1>10, <2>2, <3>6 DEF SinceWrite
      <4> QED
        BY <4>1
    <3>7. CASE cState' = "Display_16" /\ cWord' = cWord /\ cWord = 0
               /\ cState = "Display_16" /\ cTime' = cTime + 1
      <4>1. SinceWrite = 6 + cTime /\ SinceWrite' = 6 + cTime'
        BY <1>10, <2>2, <3>7 DEF SinceWrite
      <4> QED
        BY <1>3, <3>7, <4>1
    <3> QED
      BY <1>1, <3>2, <3>3, <3>4, <3>5, <3>6, <3>7, ControlMoves
  <2> QED
    BY <1>1, <1>10, <2>1, <2>2, MasterMoves
<1> QED
  BY <1>2, <1>6, <1>7, <1>8, <1>9, <1>10 DEF MasterInv, MasterStates

\* An edge makes the last read older by one cycle, or is a read.
LEMMA SinceReadMoves ==
  ASSUME NEW saved, NEW wait, NEW valid, NEW w, InEdge(saved, wait, valid, w)
  PROVE  /\ Taken = 1 => SinceRead' = 0
         /\ Taken = 0 => SinceRead' <= SinceRead + 1
         /\ SinceRead \in 0..TaskTime + 4 /\ SinceRead' \in 0..TaskTime + 4
<1>1. /\ MasterInv /\ ControlInv /\ HandInv
      /\ saved \in 0..2 /\ wait \in BOOLEAN /\ valid \in BOOLEAN
      /\ LCD_Control /\ Master(saved, wait, valid)
  BY DEF InEdge, FlowInv, EngineInv, LcdEdge
<1>2. MasterInv' /\ ControlInv' /\ HandInv'
  BY EngineStep DEF InEdge, FlowInv, EngineInv
<1>3. /\ cTime \in 0..TaskTime /\ cTime' \in 0..TaskTime /\ TaskTime \in Nat
  BY <1>1, <1>2, LcdConstants DEF ControlInv
<1>4. SinceRead \in 0..TaskTime + 4 /\ SinceRead' \in 0..TaskTime + 4
  <2>1. SinceRead \in 0..TaskTime + 4
    BY <1>3 DEF SinceRead
  <2>2. SinceRead' \in 0..TaskTime + 4
    BY <1>3 DEF SinceRead
  <2> QED
    BY <2>1, <2>2
<1>5. ASSUME Taken = 1 PROVE SinceRead' = 0
  <2>1. \/ cState = "Empty" /\ ~Empty_FIFO
        \/ cState = "Empty_16" /\ cWord # Halves
    BY <1>5, WritesAndReads
  <2>2. cState' \in {"Display", "Display_16"}
    BY <1>1, <1>2, <2>1, Loops
  <2>3. cTime' = 0
    BY <1>1, <2>1, <2>2, ControlMoves
  <2>4. mState' \in {"Init", "Wait_LCD_Control"}
    BY <1>2, <2>2 DEF HandInv
  <2> QED
    BY <2>2, <2>3, <2>4 DEF SinceRead
<1>6. ASSUME Taken = 0 PROVE SinceRead' <= SinceRead + 1
  <2>0. \/ SinceRead >= TaskTime + 3
        \/ mState = "Assert_Read_Data"
        \/ cState \in {"Empty", "Display", "End_Display", "Empty_16", "Display_16"}
    BY <1>3 DEF SinceRead
  <2>1. CASE SinceRead >= TaskTime + 3
    BY <1>3, <1>4, <2>1
  <2>2. CASE mState = "Assert_Read_Data"
    <3>1. mState' = "Check_WaitRequest"
      BY <1>1, <2>2 DEF Master, MasterInit, Copy, AssertReadData, CheckWaitRequest,
         ReadData, NewAdd, CheckAdd, CheckFifo, WaitLcdControl
    <3>2. SinceRead = TaskTime + 2 /\ SinceRead' = TaskTime + 3
      BY <1>1, <1>2, <2>2, <3>1 DEF SinceRead, HandInv
    <3> QED
      BY <1>3, <3>2
  <2>3. CASE cState \in {"Empty", "Display", "End_Display"}
    <3>1. mState = "Init" /\ mState' = "Init"
      BY <1>1, <2>3 DEF HandInv, Master, MasterInit, Copy, AssertReadData, CheckWaitRequest,
         ReadData, NewAdd, CheckAdd, CheckFifo, WaitLcdControl, Master_Start
    <3>2. CASE cState = "Empty"
      <4>1. cState' = "End_Display"
        BY <1>1, <1>2, <1>6, <3>2, WritesAndReads, Loops
      <4>2. SinceRead = TaskTime + 1 /\ SinceRead' = TaskTime + 2
        BY <3>1, <3>2, <4>1 DEF SinceRead
      <4> QED
        BY <1>3, <4>2
    <3>3. CASE cState = "Display" /\ Done_Task
      <4>1. cState' = "Empty" /\ cTime = TaskTime
        BY <1>1, <1>2, <3>3, Loops DEF Done_Task
      <4>2. SinceRead = TaskTime /\ SinceRead' = TaskTime + 1
        BY <3>1, <3>3, <4>1 DEF SinceRead
      <4> QED
        BY <1>3, <4>2
    <3>4. CASE cState = "Display" /\ ~Done_Task
      <4>1. cState' = "Display"
        BY <1>1, <1>2, <3>4, Loops
      <4>2. cTime' = cTime + 1
        BY <1>1, <3>4, <4>1, ControlMoves
      <4>3. SinceRead = cTime /\ SinceRead' = cTime'
        BY <3>1, <3>4, <4>1 DEF SinceRead
      <4> QED
        BY <1>3, <4>2, <4>3
    <3>5. CASE cState = "End_Display"
      <4>1. cState' \in {"End_Display", "Command", "End_Command_Data"}
        BY <1>1, <1>2, <3>5, ControlMoves DEF ControlInv, ControlStates
      <4>2. SinceRead = TaskTime + 2 /\ SinceRead' <= TaskTime + 3
        BY <1>3, <3>1, <3>5, <4>1 DEF SinceRead
      <4> QED
        BY <1>3, <1>4, <4>2
    <3> QED
      BY <2>3, <3>2, <3>3, <3>4, <3>5
  <2>4. CASE cState \in {"Empty_16", "Display_16"}
    <3>1. mState = "Wait_LCD_Control"
      BY <1>1, <2>4 DEF HandInv
    <3>2. CASE cState = "Empty_16"
      <4>1. cWord = Halves
        BY <1>6, <3>2, WritesAndReads
      <4>2. mState' = "Assert_Read_Data"
        BY <1>1, <3>1, <3>2, <4>1 DEF Write_16, Master, MasterInit, Copy, AssertReadData,
           CheckWaitRequest, ReadData, NewAdd, CheckAdd, CheckFifo, WaitLcdControl
      <4>3. SinceRead = TaskTime + 1 /\ SinceRead' = TaskTime + 2
        BY <1>2, <3>1, <3>2, <4>2 DEF SinceRead, HandInv
      <4> QED
        BY <1>3, <4>3
    <3>3. CASE cState = "Display_16" /\ Done_Task
      <4>1. cState' = "Empty_16" /\ cTime = TaskTime
        BY <1>1, <1>2, <3>3, Loops DEF Done_Task
      <4>2. mState' = "Wait_LCD_Control"
        BY <1>2, <4>1 DEF HandInv
      <4>3. SinceRead = TaskTime /\ SinceRead' = TaskTime + 1
        BY <3>1, <3>3, <4>1, <4>2 DEF SinceRead
      <4> QED
        BY <1>3, <4>3
    <3>4. CASE cState = "Display_16" /\ ~Done_Task
      <4>1. cState' = "Display_16"
        BY <1>1, <1>2, <3>4, Loops
      <4>2. cTime' = cTime + 1 /\ mState' = "Wait_LCD_Control"
        BY <1>1, <1>2, <3>4, <4>1, ControlMoves DEF HandInv
      <4>3. SinceRead = cTime /\ SinceRead' = cTime'
        BY <3>1, <3>4, <4>1, <4>2 DEF SinceRead
      <4> QED
        BY <1>3, <4>2, <4>3
    <3> QED
      BY <2>4, <3>2, <3>3, <3>4
  <2> QED
    BY <2>0, <2>1, <2>2, <2>3, <2>4
<1> QED
  BY <1>4, <1>5, <1>6

LEMMA SinceStep ==
  ASSUME NEW saved, NEW wait, NEW valid, NEW w, InEdge(saved, wait, valid, w)
  PROVE  SinceInv'
<1>1. /\ FlowInv /\ EngineInv /\ SinceInv /\ SyncIsShort
      /\ ControlInv /\ HandInv /\ CountInv /\ LCD_Control /\ Fifo(valid)
  BY DEF InEdge, FlowInv, EngineInv, LcdEdge
<1>2. EngineInv' /\ ControlInv'
  BY EngineStep DEF InEdge, FlowInv, EngineInv
<1>3. /\ Level \in 0..Capacity /\ 0 \in 0..SyncDelay
      /\ \A a \in 0..SyncDelay : readerSees[a] \in 0..Capacity /\ writerSees[a] \in 0..Capacity
  BY <1>1, Levels
<1>4. /\ Level' = Level + Put(valid) - Taken
      /\ Put(valid) \in {0, 2} /\ Taken \in {0, 1}
  BY WritesAndReads
<1>5. /\ Put(valid) = 2 => SinceWrite = 0 /\ SinceWrite' = 0
      /\ SinceWrite' <= SinceWrite + 1
      /\ SinceWrite \in Nat
  BY <1>1, SinceWriteMoves, SinceTyped
<1>6. SinceWrite' \in Nat
  <2>1. mState' \in MasterStates /\ cTime' \in Nat /\ TaskTime \in Nat
    BY <1>2, LcdConstants DEF EngineInv, MasterInv, ControlInv
  <2> QED
    BY <2>1 DEF SinceWrite, MasterStates
<1>7. /\ Taken = 1 => SinceRead' = 0
      /\ Taken = 0 => SinceRead' <= SinceRead + 1
      /\ SinceRead \in Nat /\ SinceRead' \in Nat
  BY SinceReadMoves, LcdConstants
<1> HIDE DEF SinceWrite, SinceRead
<1>8. ASSUME NEW a \in 0..SyncDelay, a # 0
      PROVE  /\ a - 1 \in 0..SyncDelay
             /\ readerSees'[a] = readerSees[a - 1] - Taken
             /\ writerSees'[a] = writerSees[a - 1] + Put(valid)
             /\ a - 1 <= SinceWrite => readerSees[a - 1] = Level
             /\ a - 1 >= SinceWrite =>
                  Level - readerSees[a - 1] <= 2 * (a - 1 - SinceWrite)
             /\ a - 1 <= SinceRead => writerSees[a - 1] = Level
  <2>1. a - 1 \in 0..SyncDelay
    BY <1>8, LcdConstants
  <2>2. /\ readerSees'[a] = readerSees[a - 1] - Taken
        /\ writerSees'[a] = writerSees[a - 1] + Put(valid)
    BY <1>1, <1>8 DEF Fifo
  <2> QED
    BY <1>1, <2>1, <2>2 DEF SinceInv
<1>9. readerSees'[0] = Level' /\ writerSees'[0] = Level'
  BY <1>2 DEF EngineInv, ViewInv, Level
<1>10. ASSUME NEW a \in 0..SyncDelay
       PROVE  /\ a <= SinceWrite' => readerSees'[a] = Level'
              /\ a >= SinceWrite' => Level' - readerSees'[a] <= 2 * (a - SinceWrite')
  <2>1. CASE a = 0
    <3>1. Level' \in Int /\ readerSees'[a] = Level'
      BY <1>3, <1>4, <1>9, <2>1, Sizes
    <3>2. Level' - readerSees'[a] = 0
      <4>1. \A n \in Int : n - n = 0
        OBVIOUS
      <4>2. Level' - Level' = 0
        BY <3>1, <4>1
      <4> QED
        BY <3>1, <4>2
    <3>3. a >= SinceWrite' => SinceWrite' = 0
      BY <1>6, <2>1
    <3>4. a >= SinceWrite' => 2 * (a - SinceWrite') = 0
      BY <2>1, <3>3
    <3> QED
      BY <3>1, <3>2, <3>4
  <2>2. CASE a # 0
    <3> DEFINE r == readerSees[a - 1]
    <3>1. r \in Int /\ Level \in Int /\ readerSees'[a] = r - Taken /\ a \in Int
      BY <1>3, <1>8, <2>2, Sizes, LcdConstants
    <3>2. /\ a - 1 <= SinceWrite => r = Level
          /\ a - 1 >= SinceWrite => Level - r <= 2 * (a - 1 - SinceWrite)
      BY <1>8, <2>2
    <3> HIDE DEF r
    <3>3. CASE Put(valid) = 0
      <4>1. Level' - readerSees'[a] = Level - r /\ (r = Level => readerSees'[a] = Level')
        BY <1>4, <3>1, <3>3
      <4> QED
        BY <1>5, <1>6, <3>1, <3>2, <4>1
    <3>4. CASE Put(valid) = 2
      <4>1. Level' - readerSees'[a] = Level - r + 2
        BY <1>4, <3>1, <3>4
      <4>2. SinceWrite = 0 /\ SinceWrite' = 0
        BY <1>5, <3>4
      <4>3. Level - r <= 2 * (a - 1)
        BY <2>2, <3>1, <3>2, <4>2
      <4> QED
        BY <2>2, <3>1, <4>1, <4>2, <4>3
    <3> QED
      BY <1>4, <3>3, <3>4
  <2> QED
    BY <2>1, <2>2
<1>11. ASSUME NEW a \in 0..SyncDelay, a <= SinceRead'
       PROVE  writerSees'[a] = Level'
  <2>1. CASE a = 0
    BY <1>9, <2>1
  <2>2. CASE a # 0
    <3>1. Taken = 0
      BY <1>4, <1>7, <1>11, <2>2, LcdConstants
    <3>2. a - 1 <= SinceRead
      BY <1>7, <1>11, <3>1, LcdConstants
    <3>3. writerSees[a - 1] = Level /\ writerSees'[a] = writerSees[a - 1] + Put(valid)
      BY <1>8, <2>2, <3>2
    <3> QED
      BY <1>3, <1>4, <3>1, <3>3, Sizes
  <2> QED
    BY <2>1, <2>2
<1>12. ASSUME cState' = "Empty" PROVE Level' >= Halves' \/ ReaderSeesAll'
  <2>1. mState = "Init"
    BY <1>1, <1>12, ControlMoves DEF HandInv, Master_Ready
  <2>2. Put(valid) = 0 /\ Taken = 0
    <3>1. cState \in {"Check_Master", "Display"}
      BY <1>1, <1>12, ControlMoves
    <3> QED
      BY <2>1, <3>1, WritesAndReads
  <2>3. Level' = Level /\ Level' \in Int
    BY <1>3, <1>4, <2>2, Sizes
  <2>4. CASE cState = "Check_Master"
    <3>1. /\ Level + shown = FrameHalves
          /\ \E drained \in 0..LcdBursts : shown = Halves * drained
      <4>1. cWord = 0 /\ Reading = 0 /\ Draining /\ shown \in Int
        BY <1>1, <2>1, <2>4, Sizes DEF ControlInv, Reading, Draining, CountInv
      <4>2. PICK drained \in 0..LcdBursts : shown = Halves * drained + cWord
        BY <1>1, <2>4, <4>1 DEF CountInv
      <4>3. Halves * drained \in Int
        BY Times, Sizes
      <4>4. Level + shown + Reading = FrameHalves
        BY <1>1, <4>1 DEF CountInv
      <4> QED
        BY <1>3, <4>1, <4>2, <4>3, <4>4, Sizes
    <3>2. PICK drained \in 0..LcdBursts : shown = Halves * drained
      BY <3>1
    <3> DEFINE held == LcdBursts - drained
    <3>3. held \in Nat /\ Level = Halves * held
      <4>1. held \in Nat /\ LcdBursts = drained + held
        BY LcdConstants
      <4>2. Halves * LcdBursts = Halves * drained + Halves * held
        BY <4>1, Sizes
      <4>3. Halves * drained \in Int /\ Halves * held \in Int /\ Level \in Int
        BY <1>3, <4>1, Times, Sizes
      <4> HIDE DEF held
      <4> QED
        BY <3>1, <3>2, <4>1, <4>2, <4>3, Sizes
    <3> HIDE DEF held
    <3>4. CASE held = 0
      <4>1. Level' = 0
        BY <2>3, <3>3, <3>4, Sizes
      <4>2. \A a \in 0..SyncDelay : readerSees'[a] \in 0..Capacity /\ readerSees'[a] <= Level'
        BY <1>2, LcdConstants DEF EngineInv, ViewInv, Level, Capacity, Halves
      <4> QED
        BY <4>1, <4>2, Sizes DEF ReaderSeesAll
    <3>5. CASE held >= 1
      <4>1. Halves * 1 <= Halves * held
        BY <3>3, <3>5, Times, Sizes
      <4> QED
        BY <2>3, <3>3, <4>1, Sizes DEF Halves
    <3> QED
      BY <3>3, <3>4, <3>5
  <2>5. CASE cState = "Display" /\ cTime = TaskTime
    <3>1. SinceWrite = 5 + TaskTime
      BY <2>1, <2>5 DEF SinceWrite
    <3>2. \A a \in 0..SyncDelay : readerSees[a] = Level
      BY <1>1, <3>1, LcdConstants DEF SinceInv, SyncIsShort
    <3>3. \A a \in 0..SyncDelay : readerSees'[a] = Level'
      <4> TAKE a \in 0..SyncDelay
      <4>1. CASE a = 0
        BY <1>9, <4>1
      <4>2. CASE a # 0
        <5>1. a - 1 \in 0..SyncDelay /\ readerSees'[a] = readerSees[a - 1] - Taken
          BY <1>8, <4>2
        <5> QED
          BY <1>3, <2>2, <2>3, <3>2, <5>1, Sizes
      <4> QED
        BY <4>1, <4>2
    <3> QED
      BY <3>3 DEF ReaderSeesAll
  <2> QED
    BY <1>1, <1>12, <2>4, <2>5, ControlMoves
<1> QED
  BY <1>10, <1>11, <1>12 DEF SinceInv

-----------------------------------------------------------------------------
(* The whole invariant.                                                    *)

LEMMA InitFlow ==
  LcdInit => FlowInv
<1> SUFFICES ASSUME LcdInit PROVE FlowInv
  OBVIOUS
<1>1. /\ mState = "Init" /\ cState = "Init" /\ shown = 0
      /\ \A a \in 0..SyncDelay : readerSees[a] = 0 /\ writerSees[a] = 0
      /\ Level = 0 /\ 0 \in 0..SyncDelay
  BY LcdConstants DEF LcdInit, Level
<1>2. CountInv
  BY <1>1, Sizes DEF CountInv, Fetching, Draining
<1>3. RoomInv
  BY <1>1 DEF RoomInv
<1>4. SinceInv
  <2>1. SinceWrite = 3
    BY <1>1 DEF SinceWrite
  <2> QED
    BY <1>1, <2>1, LcdConstants DEF SinceInv
<1> QED
  BY <1>2, <1>3, <1>4, InitEngine DEF FlowInv

LEMMA FlowStutter ==
  FlowInv /\ UNCHANGED lcdVars => FlowInv'
<1> SUFFICES ASSUME FlowInv, UNCHANGED lcdVars PROVE FlowInv'
  OBVIOUS
<1>1. EngineInv'
  BY EngineStutter DEF FlowInv
<1> USE DEF FlowInv, lcdVars, slaveVars, masterVars, lcdFifoVars, controlVars, driverVars
<1>2. CountInv'
  BY DEF CountInv, Fetching, Draining, Level, Reading, Fetched, Halves, FrameHalves
<1>3. RoomInv'
  BY DEF RoomInv, Level, Reading, Capacity, Halves
<1>4. SinceInv'
  BY DEF SinceInv, SinceWrite, SinceRead, ReaderSeesAll, Level, Halves
<1> QED
  BY <1>1, <1>2, <1>3, <1>4

\* Every reachable state satisfies the invariant, if the FIFO's flags are
\* not too late.
THEOREM FlowHolds ==
  ASSUME SyncIsShort
  PROVE  LcdSpec => []FlowInv
<1>1. LcdInit => FlowInv
  BY InitFlow
<1>2. FlowInv /\ [LcdNext]_lcdVars => FlowInv'
  <2> SUFFICES ASSUME FlowInv, [LcdNext]_lcdVars PROVE FlowInv'
    OBVIOUS
  <2>1. CASE LcdNext
    <3>1. PICK saved \in 0..2, wait \in BOOLEAN, valid \in BOOLEAN, w \in RegisterWrites :
            LcdEdge(saved, wait, valid, w)
      BY <2>1 DEF LcdNext
    <3>2. InEdge(saved, wait, valid, w)
      BY <3>1 DEF InEdge
    <3>3. EngineInv'
      BY <3>1, EngineStep DEF FlowInv
    <3>4. CountInv' /\ RoomInv' /\ SinceInv'
      BY <3>2, CountStep, RoomStep, SinceStep
    <3> QED
      BY <3>3, <3>4 DEF FlowInv
  <2>2. CASE UNCHANGED lcdVars
    BY <2>2, FlowStutter
  <2> QED
    BY <2>1, <2>2
<1> QED
  BY <1>1, <1>2, PTL DEF LcdSpec

\* BurstHasRoom: no word the memory returns is dropped by a full FIFO, for
\* every size of burst, frame and FIFO.
THEOREM BurstsHaveRoom ==
  ASSUME SyncIsShort
  PROVE  LcdSpec => []BurstHasRoom
<1>1. FlowInv => BurstHasRoom
  BY FlowKeepsRoom
<1> QED
  BY <1>1, FlowHolds, PTL

\* PixelIsThere: the panel is never sent a pixel the FIFO did not hold.
THEOREM PixelsAreThere ==
  ASSUME SyncIsShort
  PROVE  LcdSpec => []PixelIsThere
<1>1. FlowInv => PixelIsThere
  BY FlowFeedsPanel
<1> QED
  BY <1>1, FlowHolds, PTL

\* WholeFrame: a pass ends with every pixel of the frame sent and none left.
THEOREM FramesAreWhole ==
  ASSUME SyncIsShort
  PROVE  LcdSpec => []WholeFrame
<1>1. FlowInv => WholeFrame
  BY FlowEndsFrame
<1> QED
  BY <1>1, FlowHolds, PTL

-----------------------------------------------------------------------------
(* Types, and the buffer that is read: for every delay of the FIFO.        *)

RegisterInv ==
  /\ RegCommandData \in {RAMWR, "other"} /\ Command_Data \in {RAMWR, "other"}
  /\ RegStateCommandData \in 0..3 /\ State_Command_Data \in 0..3
  /\ sw \in {"Poll", "WriteCommand", "WriteState", "ResetCommand", "FillMemory", "Over"}
  /\ op \in Requests
  /\ shown \in 0..FrameHalves + 1 /\ strobes \in 0..2

LEMMA RegisterStep ==
  ASSUME RegisterInv, NEW saved, NEW wait, NEW valid, NEW w \in RegisterWrites,
         LcdEdge(saved, wait, valid, w)
  PROVE  RegisterInv'
<1>1. Driver(w) /\ AvalonWrite(w) /\ Communication /\ History(w)
  BY DEF LcdEdge
<1>2. /\ w = Idle \/ w \in [reg : {"CommandData"}, val : {RAMWR, "other"}]
                  \/ w \in [reg : {"State"}, val : 0..3]
  BY DEF RegisterWrites
<1>3. /\ w.reg = "CommandData" => w.val \in {RAMWR, "other"}
      /\ w.reg = "State" => w.val \in 0..3
  BY <1>2 DEF Idle
<1>4. /\ RegCommandData' \in {RAMWR, "other"} /\ RegStateCommandData' \in 0..3
      /\ Command_Data' \in {RAMWR, "other"} /\ State_Command_Data' \in 0..3
  BY <1>1, <1>3 DEF RegisterInv, AvalonWrite, Communication
<1>5. /\ sw' \in {"Poll", "WriteCommand", "WriteState", "ResetCommand", "FillMemory", "Over"}
      /\ op' \in Requests
  BY <1>1 DEF RegisterInv, Driver, DriverRests, DriverPolls, DriverWritesCommand,
     DriverWritesState, CpuRestart, DriverResetsCommand, DriverFillsMemory, driverVars
<1>6. shown' \in 0..FrameHalves + 1 /\ strobes' \in 0..2
  BY <1>1, Sizes DEF RegisterInv, History, UpTo
<1>7. FrameHalves' = FrameHalves
  BY DEF FrameHalves, Halves
<1> QED
  BY <1>4, <1>5, <1>6, <1>7 DEF RegisterInv

LEMMA TypesFollow ==
  EngineInv /\ RegisterInv => LcdTypeOK /\ ReadsInBuffer
<1> SUFFICES ASSUME EngineInv, RegisterInv PROVE LcdTypeOK /\ ReadsInBuffer
  OBVIOUS
<1>1. MasterInv /\ ControlInv /\ ViewInv
  BY DEF EngineInv
<1>2. pending \in 0..LcdWords
  BY <1>1, LcdConstants DEF MasterInv
<1>3. LcdTypeOK
  BY <1>1, <1>2 DEF LcdTypeOK, RegisterInv, MasterInv, ControlInv, ViewInv
<1>4. ASSUME avm_Read
      PROVE  EndAdd = LcdBursts * (BufferUsed + 1) /\ Add \in EndAdd - LcdBursts..EndAdd - 1
  <2>1. mState = "Check_WaitRequest"
    BY <1>1, <1>4 DEF MasterInv
  <2>2. /\ EndAdd = LcdBursts * (BufferUsed + 1)
        /\ Add \in EndAdd - LcdBursts..EndAdd /\ Add # EndAdd
        /\ EndAdd \in 0..3 * LcdBursts
    BY <1>1, <2>1 DEF MasterInv, Fetching
  <2> QED
    BY <2>2, Sizes, LcdConstants
<1> QED
  BY <1>3, <1>4 DEF ReadsInBuffer

LEMMA EngineHolds ==
  LcdSpec => [](EngineInv /\ RegisterInv)
<1>1. LcdInit => EngineInv /\ RegisterInv
  <2>1. LcdInit => RegisterInv
    BY Sizes DEF LcdInit, RegisterInv
  <2> QED
    BY <2>1, InitEngine
<1>2. EngineInv /\ RegisterInv /\ [LcdNext]_lcdVars => (EngineInv /\ RegisterInv)'
  <2> SUFFICES ASSUME EngineInv, RegisterInv, [LcdNext]_lcdVars
               PROVE  EngineInv' /\ RegisterInv'
    OBVIOUS
  <2>1. CASE LcdNext
    <3>1. PICK saved \in 0..2, wait \in BOOLEAN, valid \in BOOLEAN, w \in RegisterWrites :
            LcdEdge(saved, wait, valid, w)
      BY <2>1 DEF LcdNext
    <3> QED
      BY <3>1, EngineStep, RegisterStep
  <2>2. CASE UNCHANGED lcdVars
    <3>1. RegisterInv'
      BY <2>2 DEF RegisterInv, lcdVars, slaveVars, driverVars, FrameHalves, Halves
    <3> QED
      BY <2>2, <3>1, EngineStutter
  <2> QED
    BY <2>1, <2>2
<1> QED
  BY <1>1, <1>2, PTL DEF LcdSpec

\* LcdTypeOK: every register, counter and level of the LCD side stays in its
\* range, whatever the software, the bus and the delay of the FIFO do.
THEOREM LcdTypeCorrect == LcdSpec => []LcdTypeOK
BY EngineHolds, TypesFollow, PTL

\* ReadsInBuffer: the unit reads the buffer it latched and no other memory.
THEOREM ReadsStayInBuffer == LcdSpec => []ReadsInBuffer
BY EngineHolds, TypesFollow, PTL

-----------------------------------------------------------------------------
(* Requests, as long as the program is not restarted.                      *)

\* What the registers hold while the controller works on a request: its
\* state, twice; a 3 is the last request there is.
WorkInv ==
  cState \notin {"Init", "End_Command_Data"} =>
    /\ RegStateCommandData # 0 /\ State_Command_Data = RegStateCommandData
    /\ cState = "Data" <=> RegStateCommandData = 2
    /\ strobes = 0 => cState \in {"Data", "Command"}
    /\ RegStateCommandData # 3 =>
         strobes = IF cState \in {"Data", "Command"} THEN 0 ELSE 1

\* A request that is done is cleared, and its copy after it, before the driver
\* can have written the next.
ClearInv ==
  cState = "End_Command_Data" =>
    /\ strobes = 1 /\ RegStateCommandData # 3
    /\ RegStateCommandData # 0 => State_Command_Data = RegStateCommandData
    /\ State_Command_Data # 0 => sw = "Poll"
    /\ sw # "WriteState"

\* A controller at rest has seen no request yet, or the one it is to start.
RestInv ==
  cState = "Init" =>
    /\ State_Command_Data \in {0, RegStateCommandData}
    /\ strobes = IF RegStateCommandData = 0 THEN 1 ELSE 0

\* Where the driver is in its sequence of accesses.
PlaceInv ==
  /\ sw \in {"Poll", "WriteCommand", "WriteState", "Over"}
  /\ sw \in {"WriteCommand", "WriteState"} => RegStateCommandData = 0
  /\ sw = "WriteState" => RegCommandData = CommandOf(op)
  /\ sw = "Over" <=> RegStateCommandData = 3
  /\ sw = "Over" => RegCommandData = RAMWR /\ Command_Data = RAMWR

RequestInv == WorkInv /\ ClearInv /\ RestInv /\ PlaceInv

Showing == {"Check_Master", "Empty", "Display", "Empty_16", "Display_16"}

\* Where the state register leads the controller.
LEMMA RequestMoves ==
  ASSUME ControlInv, ControlInv', LCD_Control, State_Command_Data \in 0..3
  PROVE  /\ cState = "Init" => cState' = IF State_Command_Data = 0 THEN "Init"
                                         ELSE IF State_Command_Data = 2 THEN "Data"
                                         ELSE "Command"
         /\ cState = "Command" => cState' = IF Done_Task THEN "Check_Command" ELSE "Command"
         /\ cState = "Data" => cState' = IF Done_Task THEN "End_Command_Data" ELSE "Data"
         /\ cState = "Check_Command" =>
              IF Command_Data # RAMWR THEN cState' = "End_Command_Data"
              ELSE cState' \in {"Check_Command", "Check_Master"}
         /\ cState \in Showing => cState' \in Showing \cup {"End_Display"}
         /\ cState = "End_Display" => \/ cState' = "End_Display"
                                      \/ cState' = "Command" /\ State_Command_Data = 3
                                      \/ cState' = "End_Command_Data" /\ State_Command_Data = 1
         /\ cState = "End_Command_Data" =>
              cState' = IF State_Command_Data = 0 THEN "Init" ELSE "End_Command_Data"
<1> USE DEF LCD_Control, CommandTask, CheckCommand, DataTask, CheckMaster,
            Empty, DisplayTask, Empty16, Display16, EndCommandData, Task
<1>1. cState = "Init" => cState' = IF State_Command_Data = 0 THEN "Init"
                                   ELSE IF State_Command_Data = 2 THEN "Data"
                                   ELSE "Command"
  <2> SUFFICES ASSUME cState = "Init"
               PROVE  cState' = IF State_Command_Data = 0 THEN "Init"
                                ELSE IF State_Command_Data = 2 THEN "Data" ELSE "Command"
    OBVIOUS
  <2>1. ControlInit
    BY DEF EndDisplay
  <2>2. State_Command_Data \in {0, 1, 2, 3}
    OBVIOUS
  <2> QED
    BY <2>1, <2>2 DEF ControlInit
<1>2. cState = "Command" => cState' = IF Done_Task THEN "Check_Command" ELSE "Command"
  BY DEF ControlInit, EndDisplay
<1>3. cState = "Data" => cState' = IF Done_Task THEN "End_Command_Data" ELSE "Data"
  BY DEF ControlInit, EndDisplay
<1>4. cState = "Check_Command" => IF Command_Data # RAMWR THEN cState' = "End_Command_Data"
                                  ELSE cState' \in {"Check_Command", "Check_Master"}
  BY DEF ControlInit, EndDisplay
<1>5. cState \in Showing => cState' \in Showing \cup {"End_Display"}
  BY DEF ControlInit, EndDisplay, Showing
<1>6. cState = "End_Display" => \/ cState' = "End_Display"
                                \/ cState' = "Command" /\ State_Command_Data = 3
                                \/ cState' = "End_Command_Data" /\ State_Command_Data = 1
  <2> SUFFICES ASSUME cState = "End_Display"
               PROVE  \/ cState' = "End_Display"
                      \/ cState' = "Command" /\ State_Command_Data = 3
                      \/ cState' = "End_Command_Data" /\ State_Command_Data = 1
    OBVIOUS
  <2>1. EndDisplay
    BY DEF ControlInit
  <2> DEFINE next == CASE State_Command_Data = 1 -> "End_Command_Data"
                       [] State_Command_Data = 3 -> "Command"
                       [] OTHER                  -> "End_Display"
  <2>2. \/ next = "End_Display"
        \/ next = "Command" /\ State_Command_Data = 3
        \/ next = "End_Command_Data" /\ State_Command_Data = 1
    OBVIOUS
  <2>3. Task("End_Display", next)
    BY <2>1 DEF EndDisplay
  <2> HIDE DEF next
  <2> QED
    BY <2>2, <2>3
<1>7. cState = "End_Command_Data" =>
        cState' = IF State_Command_Data = 0 THEN "Init" ELSE "End_Command_Data"
  BY DEF ControlInit, EndDisplay
<1> QED
  BY <1>1, <1>2, <1>3, <1>4, <1>5, <1>6, <1>7

\* What the driver does at an edge, and to the registers.
LEMMA DriverMoves ==
  ASSUME ~CpuRestarts, RegisterInv, PlaceInv, NEW w \in RegisterWrites,
         Driver(w), AvalonWrite(w), History(w)
  PROVE  \/ /\ \/ sw' = sw /\ op' = op
               \/ sw = "Poll" /\ sw' = "WriteCommand" /\ RegStateCommandData = 0
            /\ RegCommandData' = RegCommandData
            /\ RegStateCommandData' = IF Done_Command_Data THEN 0 ELSE RegStateCommandData
            /\ strobes' = IF Done_Task /\ cState \in {"Command", "Data"}
                          THEN UpTo(2, strobes) ELSE strobes
         \/ /\ sw = "WriteCommand" /\ sw' = "WriteState" /\ op' = op
            /\ RegCommandData' = CommandOf(op)
            /\ RegStateCommandData' = IF Done_Command_Data THEN 0 ELSE RegStateCommandData
            /\ strobes' = IF Done_Task /\ cState \in {"Command", "Data"}
                          THEN UpTo(2, strobes) ELSE strobes
         \/ /\ sw = "WriteState"
            /\ sw' = IF StateOf(op) = 3 THEN "Over" ELSE "Poll"
            /\ StateOf(op) \in 1..3
            /\ StateOf(op) = 3 => CommandOf(op) = RAMWR
            /\ RegCommandData' = RegCommandData
            /\ RegStateCommandData' = IF Done_Command_Data THEN 0 ELSE StateOf(op)
            /\ strobes' = 0
<1>1. CASE w = Idle /\ (DriverRests \/ DriverPolls)
  <2>1. /\ RegCommandData' = RegCommandData
        /\ RegStateCommandData' = IF Done_Command_Data THEN 0 ELSE RegStateCommandData
        /\ strobes' = IF Done_Task /\ cState \in {"Command", "Data"}
                      THEN UpTo(2, strobes) ELSE strobes
    BY <1>1 DEF Idle, AvalonWrite, History
  <2>2. \/ sw' = sw /\ op' = op
        \/ sw = "Poll" /\ sw' = "WriteCommand" /\ RegStateCommandData = 0
    BY <1>1 DEF DriverRests, DriverPolls, driverVars
  <2> QED
    BY <2>1, <2>2
<1>2. CASE DriverWritesCommand /\ w = [reg |-> "CommandData", val |-> CommandOf(op)]
  <2>1. w.reg = "CommandData" /\ w.val = CommandOf(op)
    BY <1>2
  <2>2. /\ RegCommandData' = CommandOf(op)
        /\ RegStateCommandData' = IF Done_Command_Data THEN 0 ELSE RegStateCommandData
        /\ strobes' = IF Done_Task /\ cState \in {"Command", "Data"}
                      THEN UpTo(2, strobes) ELSE strobes
    BY <2>1 DEF AvalonWrite, History
  <2> QED
    BY <1>2, <2>2 DEF DriverWritesCommand
<1>3. CASE DriverWritesState /\ w = [reg |-> "State", val |-> StateOf(op)]
  <2>1. w.reg = "State" /\ w.val = StateOf(op)
    BY <1>3
  <2>2. op \in Requests
    BY DEF RegisterInv
  <2>3. /\ StateOf(op) \in 1..3 /\ (StateOf(op) = 3 <=> op = "Continuous")
        /\ op = "Continuous" => CommandOf(op) = RAMWR
    BY <2>2 DEF StateOf, CommandOf, Requests
  <2>4. /\ RegCommandData' = RegCommandData
        /\ RegStateCommandData' = IF Done_Command_Data THEN 0 ELSE StateOf(op)
    BY <2>1 DEF AvalonWrite
  <2>5. strobes' = 0
    BY <2>1, <2>3 DEF History
  <2>6. sw = "WriteState" /\ sw' = IF StateOf(op) = 3 THEN "Over" ELSE "Poll"
    BY <1>3, <2>3 DEF DriverWritesState
  <2> QED
    BY <2>3, <2>4, <2>5, <2>6
<1>4. ~CpuRestart /\ ~DriverResetsCommand /\ ~DriverFillsMemory
  BY DEF CpuRestart, DriverResetsCommand, DriverFillsMemory, PlaceInv
<1> QED
  BY <1>1, <1>2, <1>3, <1>4 DEF Driver

LEMMA RequestStep ==
  ASSUME ~CpuRestarts, EngineInv, RegisterInv, RequestInv,
         NEW saved \in 0..2, NEW wait \in BOOLEAN, NEW valid \in BOOLEAN,
         NEW w \in RegisterWrites, LcdEdge(saved, wait, valid, w)
  PROVE  RequestInv'
<1>1. /\ ControlInv /\ WorkInv /\ ClearInv /\ RestInv /\ PlaceInv
      /\ Driver(w) /\ AvalonWrite(w) /\ Communication /\ History(w) /\ LCD_Control
  BY DEF EngineInv, RequestInv, LcdEdge
<1>2. ControlInv' /\ cState \in ControlStates /\ cState' \in ControlStates
  BY <1>1, ControlStep DEF ControlInv
<1>3. /\ State_Command_Data \in 0..3 /\ RegStateCommandData \in 0..3 /\ strobes \in 0..2
      /\ State_Command_Data' = RegStateCommandData /\ Command_Data' = RegCommandData
  BY <1>1 DEF RegisterInv, Communication
<1>4. sw = "WriteState" => cState \in {"Init"} /\ RegStateCommandData = 0
  BY <1>1, <1>2 DEF WorkInv, ClearInv, PlaceInv
<1>5. Done_Command_Data <=> cState = "End_Command_Data"
  BY DEF Done_Command_Data
<1>6. PlaceInv'
  BY <1>1, <1>3, <1>4, <1>5, DriverMoves DEF PlaceInv, WorkInv, ClearInv, RestInv
<1>7. WorkInv'
  <2> SUFFICES ASSUME cState' \notin {"Init", "End_Command_Data"} PROVE WorkInv'
    BY DEF WorkInv
  <2>1. CASE cState = "Init"
    <3>1. State_Command_Data # 0 /\ RegStateCommandData = State_Command_Data /\ strobes = 0
      BY <1>1, <1>2, <1>3, <2>1, RequestMoves DEF RestInv
    <3>2. sw # "WriteState" /\ RegStateCommandData' = RegStateCommandData /\ strobes' = strobes
      BY <1>1, <1>3, <1>4, <1>5, <2>1, <3>1, DriverMoves
    <3>3. cState' = IF State_Command_Data = 2 THEN "Data" ELSE "Command"
      BY <1>1, <1>2, <1>3, <2>1, <3>1, RequestMoves
    <3> QED
      BY <1>3, <3>1, <3>2, <3>3 DEF WorkInv
  <2>2. CASE cState = "End_Command_Data"
    BY <1>1, <1>2, <1>3, <2>2, RequestMoves
  <2>3. CASE cState \notin {"Init", "End_Command_Data"}
    <3>1. /\ RegStateCommandData # 0 /\ State_Command_Data = RegStateCommandData
          /\ cState = "Data" <=> RegStateCommandData = 2
          /\ strobes = 0 => cState \in {"Data", "Command"}
          /\ RegStateCommandData # 3 =>
               strobes = IF cState \in {"Data", "Command"} THEN 0 ELSE 1
      BY <1>1, <2>3 DEF WorkInv
    <3>2. /\ RegStateCommandData' = RegStateCommandData
          /\ strobes' = IF Done_Task /\ cState \in {"Command", "Data"}
                        THEN UpTo(2, strobes) ELSE strobes
      BY <1>1, <1>4, <1>5, <2>3, DriverMoves
    <3>3. CASE cState = "Data"
      <4>1. cState' = "Data" /\ ~Done_Task
        BY <1>1, <1>2, <1>3, <3>3, RequestMoves
      <4> QED
        BY <1>3, <3>1, <3>2, <3>3, <4>1 DEF WorkInv
    <3>4. CASE cState = "Command"
      <4>1. cState' = IF Done_Task THEN "Check_Command" ELSE "Command"
        BY <1>1, <1>2, <1>3, <3>4, RequestMoves
      <4>2. UpTo(2, strobes) # 0 /\ (strobes = 0 => UpTo(2, strobes) = 1)
        BY <1>3 DEF UpTo
      <4> QED
        BY <1>3, <3>1, <3>2, <3>4, <4>1, <4>2 DEF WorkInv
    <3>5. CASE cState \notin {"Data", "Command"}
      <4>1. \/ cState' \notin {"Data", "Command"}
            \/ cState' = "Command" /\ RegStateCommandData = 3
        BY <1>1, <1>2, <1>3, <2>3, <3>1, <3>5, RequestMoves DEF ControlStates, Showing
      <4> QED
        BY <1>3, <3>1, <3>2, <3>5, <4>1 DEF WorkInv
    <3> QED
      BY <3>3, <3>4, <3>5
  <2> QED
    BY <2>1, <2>2, <2>3
<1>8. ClearInv'
  <2> SUFFICES ASSUME cState' = "End_Command_Data" PROVE ClearInv'
    BY DEF ClearInv
  <2>1. CASE cState = "End_Command_Data"
    <3>1. State_Command_Data # 0 /\ sw = "Poll" /\ strobes = 1
      BY <1>1, <1>2, <1>3, <2>1, RequestMoves DEF ClearInv
    <3>2. RegStateCommandData' = 0 /\ strobes' = strobes
      BY <1>1, <1>5, <2>1, <3>1, DriverMoves
    <3>3. sw' = "Poll" \/ (sw' = "WriteCommand" /\ RegStateCommandData = 0)
      BY <1>1, <3>1, DriverMoves
    <3> QED
      BY <1>3, <3>1, <3>2, <3>3 DEF ClearInv
  <2>2. CASE cState # "End_Command_Data"
    <3>1. cState # "Init"
      BY <1>1, <1>2, <1>3, <2>2, RequestMoves
    <3>2. /\ RegStateCommandData # 0 /\ State_Command_Data = RegStateCommandData
          /\ cState = "Data" <=> RegStateCommandData = 2
          /\ RegStateCommandData # 3 =>
               strobes = IF cState \in {"Data", "Command"} THEN 0 ELSE 1
      BY <1>1, <2>2, <3>1 DEF WorkInv
    <3>3. /\ RegStateCommandData' = RegStateCommandData
          /\ strobes' = IF Done_Task /\ cState \in {"Command", "Data"}
                        THEN UpTo(2, strobes) ELSE strobes
          /\ sw \notin {"WriteCommand", "WriteState"}
      BY <1>1, <1>4, <1>5, <2>2, <3>1, <3>2, DriverMoves DEF PlaceInv
    <3>4. \/ cState = "Data" /\ Done_Task
          \/ cState = "Check_Command" /\ Command_Data # RAMWR
          \/ cState = "End_Display" /\ RegStateCommandData = 1
      BY <1>1, <1>2, <1>3, <2>2, <3>1, <3>2, RequestMoves DEF ControlStates, Showing
    <3>5. RegStateCommandData # 3
      BY <1>1, <3>2, <3>4 DEF PlaceInv
    <3>6. strobes' = 1
      BY <3>2, <3>3, <3>4, <3>5 DEF UpTo
    <3>7. sw = "Poll" /\ sw' = "Poll"
      BY <1>1, <3>2, <3>3, <3>5, DriverMoves DEF PlaceInv
    <3> QED
      BY <1>3, <3>2, <3>3, <3>5, <3>6, <3>7 DEF ClearInv
  <2> QED
    BY <2>1, <2>2
<1>9. RestInv'
  <2> SUFFICES ASSUME cState' = "Init" PROVE RestInv'
    BY DEF RestInv
  <2>1. State_Command_Data = 0 /\ cState \in {"Init", "End_Command_Data"}
    BY <1>1, <1>2, <1>3, ControlMoves, RequestMoves
  <2>2. CASE cState = "Init"
    <3>1. strobes = IF RegStateCommandData = 0 THEN 1 ELSE 0
      BY <1>1, <2>2 DEF RestInv
    <3>2. \/ RegStateCommandData' = RegStateCommandData /\ strobes' = strobes
          \/ /\ RegStateCommandData' = StateOf(op) /\ StateOf(op) \in 1..3
             /\ RegStateCommandData = 0 /\ strobes' = 0
      BY <1>1, <1>4, <1>5, <2>2, DriverMoves
    <3> QED
      BY <1>3, <3>1, <3>2 DEF RestInv
  <2>3. CASE cState = "End_Command_Data"
    <3>1. strobes = 1 /\ RegStateCommandData = 0 /\ sw # "WriteState"
      BY <1>1, <2>1, <2>3 DEF ClearInv
    <3>2. RegStateCommandData' = 0 /\ strobes' = strobes
      BY <1>1, <1>5, <2>3, <3>1, DriverMoves
    <3> QED
      BY <1>3, <3>1, <3>2 DEF RestInv
  <2> QED
    BY <2>1, <2>2, <2>3
<1> QED
  BY <1>6, <1>7, <1>8, <1>9 DEF RequestInv

LEMMA RequestsHold ==
  ASSUME ~CpuRestarts
  PROVE  LcdSpec => []RequestInv
<1>1. LcdInit => RequestInv
  BY DEF LcdInit, RequestInv, WorkInv, ClearInv, RestInv, PlaceInv
<1>2. EngineInv /\ RegisterInv /\ RequestInv /\ [LcdNext]_lcdVars => RequestInv'
  <2> SUFFICES ASSUME EngineInv, RegisterInv, RequestInv, [LcdNext]_lcdVars
               PROVE  RequestInv'
    OBVIOUS
  <2>1. CASE LcdNext
    <3>1. PICK saved \in 0..2, wait \in BOOLEAN, valid \in BOOLEAN, w \in RegisterWrites :
            LcdEdge(saved, wait, valid, w)
      BY <2>1 DEF LcdNext
    <3> QED
      BY <3>1, RequestStep
  <2>2. CASE UNCHANGED lcdVars
    BY <2>2 DEF RequestInv, WorkInv, ClearInv, RestInv, PlaceInv, lcdVars, slaveVars,
       controlVars, driverVars
  <2> QED
    BY <2>1, <2>2
<1> QED
  BY <1>1, <1>2, EngineHolds, PTL DEF LcdSpec

\* DoneIsSent: a request that the controller reports done has been sent to the
\* panel, once.
THEOREM DoneMeansSent ==
  ASSUME ~CpuRestarts
  PROVE  LcdSpec => []DoneIsSent
<1>1. RequestInv => DoneIsSent
  BY DEF RequestInv, ClearInv, DoneIsSent, Done_Command_Data
<1> QED
  BY <1>1, RequestsHold, PTL

\* RequestIsKept: the clear of a request that is done never swallows the next.
THEOREM RequestsAreKept ==
  ASSUME ~CpuRestarts
  PROVE  LcdSpec => []RequestIsKept
<1>1. EngineInv /\ RequestInv => RequestIsKept
  BY DEF EngineInv, ControlInv, RequestInv, WorkInv, ClearInv, RestInv, RequestIsKept
<1> QED
  BY <1>1, RequestsHold, EngineHolds, PTL

=============================================================================
