------------------------------ MODULE LcdEngine ------------------------------
(***************************************************************************)
(* The LCD controller and its driver: Slave_Interface.vhd (registers),     *)
(* Master_Interface.vhd (DMA unit reading a frame buffer), FIFO_intel.vhd  *)
(* (32 bits in, 16 bits out), LCD_Control.vhd (writes to the panel) and    *)
(* LCD_function.c (the Nios functions that poll and write the registers).  *)
(*                                                                         *)
(* One step is one rising edge of clk: the four processes compute their    *)
(* next registers from the registers and wires before the edge.  An        *)
(* address counts bursts of 16 words, so LengthBuffer is LcdBursts and 64  *)
(* is 1; StartAdd is 0.                                                    *)
(*                                                                         *)
(* A definition named Faulty... is a variant of the one below it, with a   *)
(* bug that one of the properties has to notice; nothing else uses it.     *)
(***************************************************************************)
EXTENDS Integers

CONSTANTS
  LcdWords,    \* words per burst (16 in the code)
  LcdBursts,   \* LengthBuffer, in bursts (2400 for 320x240)
  FifoBursts,  \* bursts the FIFO holds (32)
  TaskTime,    \* last value of counter_time in a write to the panel (8)
  SyncDelay,   \* cycles for one side of the dcfifo to see the other's accesses
  CpuRestarts  \* may the Nios program be restarted without a reset of the FPGA?

ASSUME LcdConstants ==
  /\ LcdWords \in Nat \ {0}
  /\ LcdBursts \in Nat \ {0}
  /\ FifoBursts \in Nat \ {0}
  /\ TaskTime \in Nat \ {0}
  /\ SyncDelay \in Nat
  /\ CpuRestarts \in BOOLEAN

VARIABLES
  \* Slave_Interface
  RegCommandData, RegStateCommandData,
  Command_Data, State_Command_Data,  \* the copies the other processes see
  \* Master_Interface
  mState, Add, EndAdd, BufferUsed, avm_Read,
  mCount,                            \* counter_word_reg
  pending,                           \* words the bus still owes the unit
  \* FIFO_intel, counted in 16-bit halves
  readerSees, writerSees,            \* function of the age of the view
  \* LCD_Control
  cState, cTime, cWord,              \* counter_time_reg, counter_word_reg
  \* LCD_function.c
  sw, op,                            \* next access of the driver, its request
  \* history
  shown,                             \* halves of the frame sent to the panel
  strobes                            \* panel writes for the driver's last request

slaveVars   == <<RegCommandData, RegStateCommandData, Command_Data, State_Command_Data>>
masterVars  == <<mState, Add, EndAdd, BufferUsed, avm_Read, mCount>>
lcdFifoVars == <<readerSees, writerSees>>
controlVars == <<cState, cTime, cWord>>
driverVars  == <<sw, op>>
lcdVars     == <<slaveVars, masterVars, pending, lcdFifoVars, controlVars,
                 driverVars, shown, strobes>>

Halves   == 2 * LcdWords                 \* halves per burst
Capacity == FifoBursts * Halves
Level    == readerSees[0]                \* what the FIFO really holds

RAMWR == "2C"                            \* the panel's memory write command
Requests == {"Command", "Data", "Single", "Continuous"}
CommandOf(r) == IF r \in {"Single", "Continuous"} THEN RAMWR ELSE "other"
StateOf(r)   == CASE r = "Data" -> 2 [] r = "Continuous" -> 3 [] OTHER -> 1

LcdInit ==
  /\ RegCommandData = "other" /\ RegStateCommandData = 0
  /\ Command_Data = "other" /\ State_Command_Data = 0
  /\ mState = "Init" /\ Add = 0 /\ EndAdd = 0 /\ BufferUsed = 0
  /\ avm_Read = FALSE /\ mCount = 0
  /\ pending = 0
  /\ readerSees = [age \in 0..SyncDelay |-> 0]
  /\ writerSees = [age \in 0..SyncDelay |-> 0]
  /\ cState = "Init" /\ cTime = 0 /\ cWord = 0
  /\ sw = "Poll" /\ op \in Requests
  /\ shown = 0 /\ strobes = 1           \* no request is outstanding

-----------------------------------------------------------------------------
(* Wires.                                                                  *)

Empty_FIFO == readerSees[SyncDelay] = 0
Full_FIFO  == writerSees[SyncDelay] > Capacity - 2

Master_Ready   == mState = "Init"
Master_Waiting == mState = "Wait_LCD_Control"
Display_Buffer == BufferUsed

Master_Start      == cState = "Check_Command" /\ Command_Data = RAMWR
Write_16          == cState = "Empty_16" /\ cWord = Halves
Read_FIFO         == \/ cState = "Empty" /\ ~Empty_FIFO
                     \/ cState = "Empty_16" /\ cWord # Halves
Done_Command_Data == cState = "End_Command_Data"
Timed             == {"Command", "Data", "Display", "Display_16", "End_Display"}
Done_Task         == cState \in Timed /\ cTime = TaskTime

Write_FIFO(valid) == mState = "Read_Data" /\ valid /\ mCount # LcdWords

-----------------------------------------------------------------------------
(* Slave_Interface: a register write of the driver (w is what it writes to *)
(* a register, or None), the automatic clear, and the delayed copies.      *)

Idle == [reg |-> "None"]

FaultyAvalonWriteNeverClears(w) ==
  /\ RegCommandData' = IF w.reg = "CommandData" THEN w.val ELSE RegCommandData
  /\ RegStateCommandData' = IF w.reg = "State" THEN w.val ELSE RegStateCommandData

AvalonWrite(w) ==
  /\ RegCommandData' = IF w.reg = "CommandData" THEN w.val ELSE RegCommandData
  /\ RegStateCommandData' = IF Done_Command_Data THEN 0
                            ELSE IF w.reg = "State" THEN w.val
                            ELSE RegStateCommandData

Communication ==
  /\ Command_Data' = RegCommandData
  /\ State_Command_Data' = RegStateCommandData

-----------------------------------------------------------------------------
(* Master_Interface.                                                       *)

MasterInit ==
  /\ mState = "Init"
  /\ mState' = IF Master_Start THEN "Copy" ELSE "Init"
  /\ Add' = 0 /\ EndAdd' = 0 /\ mCount' = 0 /\ BufferUsed' = 0
  /\ avm_Read' = FALSE

Copy(saved) ==
  /\ mState = "Copy"
  /\ mState' = IF Empty_FIFO THEN "Assert_Read_Data" ELSE "Copy"
  /\ Add' = LcdBursts * saved
  /\ EndAdd' = LcdBursts * (saved + 1)
  /\ BufferUsed' = saved
  /\ avm_Read' = FALSE
  /\ UNCHANGED mCount

AssertReadData ==
  /\ mState = "Assert_Read_Data"
  /\ mState' = "Check_WaitRequest"
  /\ avm_Read' = TRUE
  /\ UNCHANGED <<Add, EndAdd, BufferUsed, mCount>>

CheckWaitRequest(wait) ==
  /\ mState = "Check_WaitRequest"
  /\ mState' = IF wait THEN mState ELSE "Read_Data"
  /\ avm_Read' = IF wait THEN avm_Read ELSE FALSE
  /\ UNCHANGED <<Add, EndAdd, BufferUsed, mCount>>

ReadData(valid) ==
  /\ mState = "Read_Data"
  /\ mState' = IF mCount = LcdWords THEN "New_Add" ELSE mState
  /\ mCount' = IF ~valid THEN mCount
               ELSE IF mCount = LcdWords THEN 0 ELSE mCount + 1
  /\ UNCHANGED <<Add, EndAdd, BufferUsed, avm_Read>>

NewAdd ==
  /\ mState = "New_Add"
  /\ mState' = "Check_Add"
  /\ Add' = Add + 1
  /\ mCount' = 0
  /\ UNCHANGED <<EndAdd, BufferUsed, avm_Read>>

FaultyCheckAddLate ==
  /\ mState = "Check_Add"
  /\ mState' = IF Add > EndAdd THEN "Init" ELSE "Check_FIFO"
  /\ UNCHANGED <<Add, EndAdd, BufferUsed, avm_Read, mCount>>

CheckAdd ==
  /\ mState = "Check_Add"
  /\ mState' = IF Add = EndAdd THEN "Init" ELSE "Check_FIFO"
  /\ UNCHANGED <<Add, EndAdd, BufferUsed, avm_Read, mCount>>

FaultyCheckFifoBlind ==
  /\ mState = "Check_FIFO"
  /\ mState' = "Assert_Read_Data"
  /\ UNCHANGED <<Add, EndAdd, BufferUsed, avm_Read, mCount>>

CheckFifo ==
  /\ mState = "Check_FIFO"
  /\ mState' = IF Full_FIFO THEN "Wait_LCD_Control" ELSE "Assert_Read_Data"
  /\ UNCHANGED <<Add, EndAdd, BufferUsed, avm_Read, mCount>>

WaitLcdControl ==
  /\ mState = "Wait_LCD_Control"
  /\ mState' = IF Write_16 THEN "Assert_Read_Data" ELSE mState
  /\ UNCHANGED <<Add, EndAdd, BufferUsed, avm_Read, mCount>>

Master(saved, wait, valid) ==
  \/ MasterInit
  \/ Copy(saved)
  \/ AssertReadData
  \/ CheckWaitRequest(wait)
  \/ ReadData(valid)
  \/ NewAdd
  \/ CheckAdd
  \/ CheckFifo
  \/ WaitLcdControl

\* The Avalon bus takes a read at an edge with avm_Read and no WaitRequest,
\* and from the next cycle on returns the words of the burst.
ReadBus(wait, valid) ==
  /\ wait => avm_Read
  /\ valid => pending > 0
  /\ pending' = pending + (IF avm_Read /\ ~wait THEN LcdWords ELSE 0)
                        - (IF valid THEN 1 ELSE 0)

-----------------------------------------------------------------------------
(* FIFO_intel.  Each side sees its own accesses at once and those of the   *)
(* other side SyncDelay cycles late.  A read when empty and a write when   *)
(* full are ignored.                                                       *)

Taken      == IF Read_FIFO /\ ~Empty_FIFO THEN 1 ELSE 0
Put(valid) == IF Write_FIFO(valid) /\ ~Full_FIFO THEN 2 ELSE 0

Fifo(valid) ==
  /\ readerSees' = [age \in 0..SyncDelay |->
       (IF age = 0 THEN Level + Put(valid) ELSE readerSees[age - 1]) - Taken]
  /\ writerSees' = [age \in 0..SyncDelay |->
       (IF age = 0 THEN Level - Taken ELSE writerSees[age - 1]) + Put(valid)]

-----------------------------------------------------------------------------
(* LCD_Control.                                                            *)

ControlInit ==
  /\ cState = "Init"
  /\ cState' = CASE State_Command_Data \in {1, 3} -> "Command"
                 [] State_Command_Data = 2        -> "Data"
                 [] OTHER                         -> "Init"
  /\ cTime' = 0 /\ cWord' = 0

\* The nine cycles of a write to the panel, and where the last one leads.
Task(state, next) ==
  /\ cState = state
  /\ cTime' = IF Done_Task THEN 0 ELSE cTime + 1
  /\ cState' = IF Done_Task THEN next ELSE state

CommandTask == Task("Command", "Check_Command") /\ UNCHANGED cWord
DataTask    == Task("Data", "End_Command_Data") /\ UNCHANGED cWord
DisplayTask == Task("Display", "Empty") /\ UNCHANGED cWord
FaultyDisplay16Uncounted == Task("Display_16", "Empty_16") /\ UNCHANGED cWord

Display16   == /\ Task("Display_16", "Empty_16")
               /\ cWord' = IF Done_Task THEN cWord + 1 ELSE cWord

FaultyEndDisplayRests ==
  /\ Task("End_Display", IF State_Command_Data = 1 THEN "End_Command_Data" ELSE "End_Display")
  /\ UNCHANGED cWord

EndDisplay  == /\ Task("End_Display", CASE State_Command_Data = 1 -> "End_Command_Data"
                                        [] State_Command_Data = 3 -> "Command"
                                        [] OTHER                  -> "End_Display")
               /\ UNCHANGED cWord

CheckCommand ==
  /\ cState = "Check_Command"
  /\ cState' = IF Command_Data # RAMWR THEN "End_Command_Data"
               ELSE IF Master_Ready THEN cState ELSE "Check_Master"
  /\ UNCHANGED <<cTime, cWord>>

FaultyCheckMasterSkipsEmpty ==
  /\ cState = "Check_Master"
  /\ cState' = IF Master_Ready THEN "End_Display"
               ELSE IF Master_Waiting THEN "Empty_16" ELSE cState
  /\ UNCHANGED <<cTime, cWord>>

FaultyCheckMasterDeaf ==
  /\ cState = "Check_Master"
  /\ cState' = IF Master_Ready THEN "Empty" ELSE cState
  /\ UNCHANGED <<cTime, cWord>>

CheckMaster ==
  /\ cState = "Check_Master"
  /\ cState' = IF Master_Ready THEN "Empty"
               ELSE IF Master_Waiting THEN "Empty_16" ELSE cState
  /\ UNCHANGED <<cTime, cWord>>

Empty ==
  /\ cState = "Empty"
  /\ cState' = IF Empty_FIFO THEN "End_Display" ELSE "Display"
  /\ UNCHANGED <<cTime, cWord>>

Empty16 ==
  /\ cState = "Empty_16"
  /\ cState' = IF cWord = Halves THEN "Check_Master" ELSE "Display_16"
  /\ cWord' = IF cWord = Halves THEN 0 ELSE cWord
  /\ UNCHANGED cTime

FaultyEndCommandDataHasty ==
  /\ cState = "End_Command_Data"
  /\ cState' = "Init"
  /\ UNCHANGED <<cTime, cWord>>

EndCommandData ==
  /\ cState = "End_Command_Data"
  /\ cState' = IF State_Command_Data = 0 THEN "Init" ELSE cState
  /\ UNCHANGED <<cTime, cWord>>

LCD_Control ==
  \/ ControlInit
  \/ CommandTask
  \/ CheckCommand
  \/ DataTask
  \/ CheckMaster
  \/ Empty
  \/ DisplayTask
  \/ Empty16
  \/ Display16
  \/ EndDisplay
  \/ EndCommandData

-----------------------------------------------------------------------------
(* LCD_function.c: poll the state register until it is 0, write the        *)
(* command, write the state.  Nothing is polled after LCD_Display.  w is   *)
(* the register write the driver does at this edge.                        *)

DriverRests ==
  UNCHANGED driverVars

FaultyDriverDoesNotPoll ==
  /\ sw = "Poll"
  /\ sw' = "WriteCommand"
  /\ UNCHANGED op

DriverPolls ==
  /\ sw = "Poll" /\ RegStateCommandData = 0
  /\ sw' = "WriteCommand"
  /\ UNCHANGED op

DriverWritesCommand ==
  /\ sw = "WriteCommand"
  /\ sw' = "WriteState"
  /\ UNCHANGED op

DriverWritesState ==
  /\ sw = "WriteState"
  /\ IF op = "Continuous"
     THEN sw' = "Over" /\ UNCHANGED op
     ELSE sw' = "Poll" /\ op' \in Requests

\* LCD_Configuration begins with the two registers set to 0.
CpuRestart ==
  /\ CpuRestarts
  /\ sw' = "ResetCommand" /\ op' \in Requests

DriverResetsCommand ==
  /\ sw = "ResetCommand"
  /\ sw' = "FillMemory"
  /\ UNCHANGED op

\* Fill_Memory_RGBG writes a frame and reads it back, word by word, which takes
\* longer than the panel: the first request finds the controller settled.
Settled == \/ cState = "Init"
           \/ cState = "End_Display" /\ State_Command_Data = 0

DriverFillsMemory ==
  /\ sw = "FillMemory" /\ Settled
  /\ sw' = "Poll"
  /\ UNCHANGED op

Driver(w) ==
  \/ DriverRests /\ w = Idle
  \/ DriverPolls /\ w = Idle
  \/ DriverWritesCommand /\ w = [reg |-> "CommandData", val |-> CommandOf(op)]
  \/ DriverWritesState /\ w = [reg |-> "State", val |-> StateOf(op)]
  \/ CpuRestart /\ w = [reg |-> "State", val |-> 0]
  \/ DriverResetsCommand /\ w = [reg |-> "CommandData", val |-> "other"]
  \/ DriverFillsMemory /\ w = Idle

RegisterWrites ==
  {Idle} \cup [reg : {"CommandData"}, val : {RAMWR, "other"}]
         \cup [reg : {"State"}, val : 0..3]

-----------------------------------------------------------------------------
(* History: the panel's view of the current frame and of the request.      *)

FrameHalves == LcdBursts * Halves

UpTo(max, n) == IF n < max THEN n + 1 ELSE max

History(w) ==
  /\ shown' = IF mState = "Copy" THEN 0
              ELSE IF Done_Task /\ cState \in {"Display", "Display_16"}
              THEN UpTo(FrameHalves + 1, shown)
              ELSE shown
  /\ strobes' = IF w.reg = "State" THEN IF w.val = 0 THEN 1 ELSE 0
                ELSE IF Done_Task /\ cState \in {"Command", "Data"}
                THEN UpTo(2, strobes)
                ELSE strobes

LcdEdge(saved, wait, valid, w) ==
  /\ ReadBus(wait, valid)
  /\ Driver(w)
  /\ AvalonWrite(w) /\ Communication
  /\ Master(saved, wait, valid)
  /\ Fifo(valid)
  /\ LCD_Control
  /\ History(w)

LcdNext ==
  \E saved \in 0..2, wait, valid \in BOOLEAN, w \in RegisterWrites :
    LcdEdge(saved, wait, valid, w)

LcdSpec == LcdInit /\ [][LcdNext]_lcdVars

-----------------------------------------------------------------------------
(* Fairness: the clock runs, the bus accepts a read it has been offered    *)
(* long enough and returns the words it owes.  The driver need not act.    *)

ReadAccepted ==
  /\ avm_Read
  /\ \E saved \in 0..2, valid \in BOOLEAN, w \in RegisterWrites :
       LcdEdge(saved, FALSE, valid, w)

WordReturned ==
  \E saved \in 0..2, wait \in BOOLEAN, w \in RegisterWrites :
    LcdEdge(saved, wait, TRUE, w)

LcdFairSpec ==
  /\ LcdSpec
  /\ WF_lcdVars(LcdNext) /\ WF_lcdVars(ReadAccepted) /\ WF_lcdVars(WordReturned)

-----------------------------------------------------------------------------
(* Properties.                                                             *)

MasterStates == {"Init", "Copy", "Assert_Read_Data", "Check_WaitRequest",
                 "Read_Data", "New_Add", "Check_Add", "Check_FIFO",
                 "Wait_LCD_Control"}
ControlStates == {"Init", "Command", "Data", "Check_Command", "Check_Master",
                  "Empty", "Display", "Empty_16", "Display_16", "End_Display",
                  "End_Command_Data"}

\* Type correctness of the controller and its driver.
LcdTypeOK ==
  /\ RegCommandData \in {RAMWR, "other"} /\ Command_Data \in {RAMWR, "other"}
  /\ RegStateCommandData \in 0..3 /\ State_Command_Data \in 0..3
  /\ mState \in MasterStates
  /\ Add \in 0..3 * LcdBursts /\ EndAdd \in 0..3 * LcdBursts
  /\ BufferUsed \in 0..2
  /\ avm_Read \in BOOLEAN
  /\ mCount \in 0..LcdWords /\ pending \in 0..LcdWords
  /\ readerSees \in [0..SyncDelay -> 0..Capacity]
  /\ writerSees \in [0..SyncDelay -> 0..Capacity]
  /\ cState \in ControlStates
  /\ cTime \in 0..TaskTime /\ cWord \in 0..Halves
  /\ sw \in {"Poll", "WriteCommand", "WriteState", "ResetCommand", "FillMemory", "Over"}
  /\ op \in Requests
  /\ shown \in 0..FrameHalves + 1 /\ strobes \in 0..2

\* No word the memory returns is dropped: whatever part of the FIFO the panel
\* has drained and however late the unit learns of it, there is room for the
\* rest of a burst that has been asked for.
BurstHasRoom ==
  mState \in {"Assert_Read_Data", "Check_WaitRequest", "Read_Data"} =>
    /\ Level + 2 * (LcdWords - mCount) <= Capacity
    /\ (mState = "Read_Data" /\ mCount # LcdWords) => ~Full_FIFO

\* The panel is never sent a pixel the FIFO did not hold: Empty_16 reads 32
\* halves without looking at Empty_FIFO.
PixelIsThere == Read_FIFO => ~Empty_FIFO

\* A pass over the frame ends with every pixel of it sent, none of them left
\* in the FIFO, and the DMA unit back in Init.
WholeFrame ==
  cState = "End_Display" =>
    shown = FrameHalves /\ Level = 0 /\ mState = "Init"

\* The unit reads the buffer it has latched and no other memory.
ReadsInBuffer ==
  avm_Read => /\ EndAdd = LcdBursts * (BufferUsed + 1)
              /\ Add \in EndAdd - LcdBursts..EndAdd - 1

\* When the controller reports a request done, the panel has been sent it,
\* once: the registers' copies, a cycle late, never make it repeat one.
DoneIsSent == Done_Command_Data => strobes = 1

\* "Once the task asked is done, RegStateCommandData is reset"
\* (Slave_Interface.vhd:57), and not before: the clear of one request never
\* swallows the next.
RequestIsKept == strobes = 0 => RegStateCommandData # 0

\* Every single request is carried out, and the driver may send another.
RequestIsDone == RegStateCommandData \in {1, 2} ~> RegStateCommandData = 0

\* After LCD_Display the panel gets frame after frame: passes begin and passes
\* end, again and again.  The DMA unit waiting for the FIFO to drain and the
\* controller waiting for the unit never wait on each other, and the controller
\* does not rest in End_Display (LCD_Control.vhd:115) when a frame is over.
DisplayGoesOn ==
  sw = "Over" ~> []<>(mState = "Copy") /\ []<>(cState = "End_Display")

=============================================================================
