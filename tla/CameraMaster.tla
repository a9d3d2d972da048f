---------------------------- MODULE CameraMaster ----------------------------
(***************************************************************************)
(* The camera's DMA unit: Camera_Master_Interface.vhd with the start bit   *)
(* of Camera_Slave_Interface.vhd, the scfifo in front of it and the Avalon *)
(* bus behind it.  It collects a burst of words from the FIFO, sends it to *)
(* memory, and at the end of a frame announces the buffer it has filled    *)
(* (Buffer_Saved) and picks another that the LCD does not read.            *)
(*                                                                         *)
(* One step is one rising edge of Clk.  Addresses are <<zone, burst>>: the *)
(* memory zone (frame buffer) and the burst in it, so that Length_Frame is *)
(* FrameBursts and the 32 bytes added per burst are 1.  A data word is its *)
(* number in the camera's stream since the last start, modulo a frame; a   *)
(* word the FIFO did not supply is Stale.                                  *)
(*                                                                         *)
(* A definition named Faulty... is a variant of the one below it, with a   *)
(* bug that one of the properties has to notice; the unit never uses it.   *)
(***************************************************************************)
EXTENDS Integers

CONSTANTS
  Burst,          \* words per burst (8 in the code)
  FrameBursts,    \* Length_Frame, in bursts (4800 for 320x240)
  FifoDepth,      \* words the scfifo holds (32)
  LastBeatStalls, \* may the bus hold back the last beat of a burst?
  SoftwareWaits   \* does the software let the unit come to rest before Start?

ASSUME CamConstants ==
  /\ Burst \in Nat /\ Burst >= 2
  /\ FrameBursts \in Nat \ {0}
  /\ FifoDepth \in Nat /\ FifoDepth >= Burst
  /\ LastBeatStalls \in BOOLEAN
  /\ SoftwareWaits \in BOOLEAN

VARIABLES
  Ready,              \* iRegCamStart, the slave's start bit
  State,
  Offset,             \* Offset_Address, in bursts
  Base,               \* Base_Address: the zone it is the first byte of
  Current,            \* Current_Address
  DATA_Array,
  FIFO_Read_Request,
  Indice_FIFO,        \* Indice_Array_FIFO
  Indice_DMA,         \* Indice_Array_DMA
  Zone,               \* Indice_Memory_Zone
  Buffer_Saved,
  AM_Write, AM_Adresse, AM_DataWrite, AM_BurstCount,
  level, head, q,     \* the scfifo: words held, number of the first, output
  beatsLeft, target,  \* the bus: beats it still expects, and their address
  stored              \* the last word the bus took, and where it put it

fsmVars  == <<State, Offset, Base, Current, DATA_Array, FIFO_Read_Request,
              Indice_FIFO, Indice_DMA, Zone, Buffer_Saved,
              AM_Write, AM_Adresse, AM_DataWrite, AM_BurstCount>>
fifoVars == <<level, head, q>>
busVars  == <<beatsLeft, target, stored>>
camVars  == <<Ready, fsmVars, fifoVars, busVars>>

Zones      == 0..2
FrameWords == FrameBursts * Burst
Stale      == FrameWords
Words      == 0..FrameWords
Addresses  == Zones \X (0..FrameBursts)
Last       == Burst - 1

\* The number of the word whose place is the given beat of a frame's burst.
WordOf(burst, beat) == burst * Burst + beat

CamInit ==
  /\ Ready = FALSE
  /\ State = "IDLE_FOR_READY"
  /\ Offset = 0 /\ Base = 0 /\ Current = <<0, 0>>
  /\ DATA_Array = [i \in 0..Last |-> Stale]
  /\ FIFO_Read_Request = FALSE
  /\ Indice_FIFO = 0 /\ Indice_DMA = 0
  /\ Zone = 0
  /\ Buffer_Saved \in Zones          \* the reset branch leaves it alone
  /\ AM_Write = FALSE /\ AM_Adresse = <<0, 0>>
  /\ AM_DataWrite = Stale /\ AM_BurstCount = 0
  /\ level = 0 /\ head = 0 /\ q = Stale
  /\ beatsLeft = 0 /\ target = <<0, 0>>
  /\ stored = [at |-> <<0, 0>>, beat |-> 0, word |-> Stale]

-----------------------------------------------------------------------------
(* IDLE_FOR_READY: end of a burst, of a frame, or a stopped camera.        *)

FaultyNextZoneIgnoresLcd(display, zone) == (zone + 1) % 3

FaultyNextZoneRepeats(display, zone) == IF display = 1 THEN 2 ELSE 1

\* The zone for the next frame, given the one the LCD displays.
NextZone(display, zone) ==
  CASE display = 0 -> IF zone = 1 THEN 2 ELSE 1
    [] display = 1 -> IF zone = 2 THEN 0 ELSE 2
    [] display = 2 -> IF zone = 0 THEN 1 ELSE 0
    [] OTHER       -> 0

EndBurst ==
  /\ State = "IDLE_FOR_READY"
  /\ AM_Write' = FALSE /\ AM_BurstCount' = 0
  /\ UNCHANGED <<DATA_Array, FIFO_Read_Request, AM_Adresse, AM_DataWrite>>

FaultyRearmKeepsIndice ==
  /\ EndBurst /\ Ready
  /\ State' = "IDLE_FOR_DATA"
  /\ Indice_DMA' = 0
  /\ UNCHANGED <<Indice_FIFO, Current>>

Rearm ==
  /\ EndBurst /\ Ready
  /\ State' = "IDLE_FOR_DATA"
  /\ Indice_DMA' = 0 /\ Indice_FIFO' = 0
  /\ UNCHANGED Current

FaultyFrameIsOverLate == Offset > FrameBursts

FaultyFrameIsOverEarly == Offset >= FrameBursts - 1

FrameIsOver == Offset >= FrameBursts

SameFrame ==
  /\ Rearm /\ ~FrameIsOver
  /\ UNCHANGED <<Offset, Base, Zone, Buffer_Saved>>

NewFrame(display) ==
  /\ Rearm /\ FrameIsOver
  /\ Offset' = 0
  /\ Buffer_Saved' = Zone
  /\ Zone' = NextZone(display, Zone)
  /\ Base' = Zone'

Stopped ==
  /\ EndBurst /\ ~Ready
  /\ Current' = <<0, 0>> /\ Offset' = 0 /\ Base' = 0
  /\ UNCHANGED <<State, Indice_FIFO, Indice_DMA, Zone, Buffer_Saved>>

-----------------------------------------------------------------------------
(* Collecting a burst from the FIFO.                                       *)

FaultyAlmostEmptyLow == level < Burst - 1

AlmostEmpty == level < Burst         \* almost_empty_value of the scfifo

IdleForData ==
  /\ State = "IDLE_FOR_DATA"
  /\ Current' = <<Base, Offset>>
  /\ \/ /\ Ready /\ ~AlmostEmpty
        /\ FIFO_Read_Request' = TRUE
        /\ State' = "CLOCK_WAIT_DATA_FIFO"
     \/ /\ Ready /\ AlmostEmpty
        /\ UNCHANGED <<FIFO_Read_Request, State>>
     \/ /\ ~Ready
        /\ State' = "IDLE_FOR_READY"
        /\ UNCHANGED FIFO_Read_Request
  /\ UNCHANGED <<Offset, Base, DATA_Array, Indice_FIFO, Indice_DMA, Zone,
                 Buffer_Saved, AM_Write, AM_Adresse, AM_DataWrite, AM_BurstCount>>

ClockWaitDataFifo ==
  /\ State = "CLOCK_WAIT_DATA_FIFO"
  /\ State' = "Collect_Data_FIFO"
  /\ UNCHANGED <<Offset, Base, Current, DATA_Array, FIFO_Read_Request,
                 Indice_FIFO, Indice_DMA, Zone, Buffer_Saved,
                 AM_Write, AM_Adresse, AM_DataWrite, AM_BurstCount>>

FaultyCollectDataFifoReadsOn ==
  /\ State = "Collect_Data_FIFO"
  /\ DATA_Array' = [DATA_Array EXCEPT ![Indice_FIFO] = q]
  /\ Indice_FIFO' = Indice_FIFO + 1
  /\ State' = IF Indice_FIFO = Last THEN "DMA_Send_Init" ELSE State
  /\ FIFO_Read_Request' = (Indice_FIFO # Last)
  /\ UNCHANGED <<Offset, Base, Current, Indice_DMA, Zone, Buffer_Saved,
                 AM_Write, AM_Adresse, AM_DataWrite, AM_BurstCount>>

\* The request is dropped one word early: the FIFO answers a cycle late.
CollectDataFifo ==
  /\ State = "Collect_Data_FIFO"
  /\ DATA_Array' = [DATA_Array EXCEPT ![Indice_FIFO] = q]
  /\ Indice_FIFO' = Indice_FIFO + 1
  /\ State' = IF Indice_FIFO = Last THEN "DMA_Send_Init" ELSE State
  /\ FIFO_Read_Request' = IF Indice_FIFO = Last - 1 THEN FALSE ELSE FIFO_Read_Request
  /\ UNCHANGED <<Offset, Base, Current, Indice_DMA, Zone, Buffer_Saved,
                 AM_Write, AM_Adresse, AM_DataWrite, AM_BurstCount>>

-----------------------------------------------------------------------------
(* Sending it.                                                             *)

DmaSendInit ==
  /\ State = "DMA_Send_Init"
  /\ AM_Write' = TRUE
  /\ AM_Adresse' = Current
  /\ AM_BurstCount' = Burst
  /\ AM_DataWrite' = DATA_Array[0]
  /\ State' = "DMA_Send_Loop"
  /\ UNCHANGED <<Offset, Base, Current, DATA_Array, FIFO_Read_Request,
                 Indice_FIFO, Indice_DMA, Zone, Buffer_Saved>>

FaultyDmaSendLoopShort(wait) ==
  /\ State = "DMA_Send_Loop"
  /\ IF wait
     THEN UNCHANGED <<AM_DataWrite, Indice_DMA, Offset, State>>
     ELSE /\ AM_DataWrite' = DATA_Array[Indice_DMA + 1]
          /\ IF Indice_DMA < Last - 2
             THEN /\ Indice_DMA' = Indice_DMA + 1
                  /\ UNCHANGED <<Offset, State>>
             ELSE /\ Offset' = Offset + 1
                  /\ State' = "IDLE_FOR_READY"
                  /\ UNCHANGED Indice_DMA
  /\ UNCHANGED <<Base, Current, DATA_Array, FIFO_Read_Request, Indice_FIFO,
                 Zone, Buffer_Saved, AM_Write, AM_Adresse, AM_BurstCount>>

FaultyDmaSendLoopStays(wait) ==
  /\ State = "DMA_Send_Loop"
  /\ AM_DataWrite' = IF wait THEN AM_DataWrite ELSE DATA_Array[Indice_DMA + 1]
  /\ Indice_DMA' = IF wait \/ Indice_DMA = Last - 1 THEN Indice_DMA ELSE Indice_DMA + 1
  /\ State' = IF wait \/ Indice_DMA' # Indice_DMA THEN State ELSE "IDLE_FOR_READY"
  /\ UNCHANGED <<Offset, Base, Current, DATA_Array, FIFO_Read_Request, Indice_FIFO,
                 Zone, Buffer_Saved, AM_Write, AM_Adresse, AM_BurstCount>>

\* The last word is put on the bus by the edge that leaves for IDLE_FOR_READY,
\* whose own edge takes it off again.
DmaSendLoop(wait) ==
  /\ State = "DMA_Send_Loop"
  /\ IF wait
     THEN UNCHANGED <<AM_DataWrite, Indice_DMA, Offset, State>>
     ELSE /\ AM_DataWrite' = DATA_Array[Indice_DMA + 1]
          /\ IF Indice_DMA < Last - 1
             THEN /\ Indice_DMA' = Indice_DMA + 1
                  /\ UNCHANGED <<Offset, State>>
             ELSE /\ Offset' = Offset + 1
                  /\ State' = "IDLE_FOR_READY"
                  /\ UNCHANGED Indice_DMA
  /\ UNCHANGED <<Base, Current, DATA_Array, FIFO_Read_Request, Indice_FIFO,
                 Zone, Buffer_Saved, AM_Write, AM_Adresse, AM_BurstCount>>

AvalonBus(display, wait) ==
  \/ NewFrame(display)
  \/ SameFrame
  \/ Stopped
  \/ IdleForData
  \/ ClockWaitDataFifo
  \/ CollectDataFifo
  \/ DmaSendInit
  \/ DmaSendLoop(wait)

-----------------------------------------------------------------------------
(* The environment.                                                        *)

\* Camera_Acquisition_Module_Start and _Stop write the start bit.
WriteStart(start) ==
  /\ (start /\ ~Ready /\ SoftwareWaits) => State = "IDLE_FOR_READY"
  /\ Ready' = start

\* The number of the word after word n.
NextWord(n) == IF n = FrameWords - 1 THEN 0 ELSE n + 1

\* The scfifo.  It is cleared as long as the camera is stopped, when no word
\* comes; it ignores a read when empty and a write when full.
ScFifo(push) ==
  LET popping == FIFO_Read_Request /\ level > 0
      pushing == push /\ level < FifoDepth
  IN  /\ push => Ready
      /\ IF ~Ready \/ ~Ready'
         THEN level' = 0 /\ head' = 0 /\ q' = Stale
         ELSE /\ level' = level + (IF pushing THEN 1 ELSE 0)
                                - (IF popping THEN 1 ELSE 0)
              /\ head' = IF popping THEN NextWord(head) ELSE head
              /\ q' = IF popping THEN head ELSE q

\* The Avalon fabric.  A beat is taken at an edge with AM_Write and without
\* AM_WaitRequest; the first of a burst brings its address and length.
Takes(wait) == AM_Write /\ ~wait

MayStall == AM_Write /\ (beatsLeft # 1 \/ LastBeatStalls)

Fabric(wait) ==
  /\ wait => MayStall
  /\ IF ~Takes(wait) THEN UNCHANGED busVars
     ELSE IF beatsLeft = 0
     THEN /\ beatsLeft' = AM_BurstCount - 1
          /\ target' = AM_Adresse
          /\ stored' = [at |-> AM_Adresse, beat |-> 0, word |-> AM_DataWrite]
     ELSE /\ beatsLeft' = beatsLeft - 1
          /\ UNCHANGED target
          /\ stored' = [at |-> target, beat |-> Burst - beatsLeft,
                        word |-> AM_DataWrite]

CamEdge(display, start, push, wait) ==
  /\ Fabric(wait)
  /\ WriteStart(start)
  /\ ScFifo(push)
  /\ AvalonBus(display, wait)

CamNext ==
  \E display \in Zones, start, push, wait \in BOOLEAN :
    CamEdge(display, start, push, wait)

CamSpec == CamInit /\ [][CamNext]_camVars

-----------------------------------------------------------------------------
(* Fairness: the clock runs; the bus accepts a beat it has been offered    *)
(* long enough; a running camera delivers words.                           *)

BeatTaken == State = "DMA_Send_Loop"
             /\ \E display \in Zones, start, push \in BOOLEAN :
                  CamEdge(display, start, push, FALSE)

WordArrives == AlmostEmpty
               /\ \E display \in Zones, start, wait \in BOOLEAN :
                    CamEdge(display, start, TRUE, wait)

CamFairSpec ==
  /\ CamSpec
  /\ WF_camVars(CamNext) /\ WF_camVars(BeatTaken) /\ WF_camVars(WordArrives)

-----------------------------------------------------------------------------
(* Properties.                                                             *)

CamStates == {"IDLE_FOR_READY", "IDLE_FOR_DATA", "CLOCK_WAIT_DATA_FIFO",
              "Collect_Data_FIFO", "DMA_Send_Init", "DMA_Send_Loop"}

PlaceTypeOK ==
  /\ State \in CamStates
  /\ Offset \in 0..FrameBursts
  /\ Base \in Zones /\ Zone \in Zones /\ Buffer_Saved \in Zones
  /\ Current \in Addresses /\ AM_Adresse \in Addresses

DataTypeOK ==
  /\ DATA_Array \in [0..Last -> Words] /\ AM_DataWrite \in Words
  /\ Indice_FIFO \in 0..Burst /\ Indice_DMA \in 0..Last

RequestTypeOK ==
  /\ FIFO_Read_Request \in BOOLEAN
  /\ AM_Write \in BOOLEAN /\ AM_BurstCount \in {0, Burst}

FsmTypeOK == PlaceTypeOK /\ DataTypeOK /\ RequestTypeOK

FifoTypeOK == level \in 0..FifoDepth /\ head \in 0..FrameWords - 1 /\ q \in Words

BusTypeOK ==
  /\ beatsLeft \in 0..Last
  /\ target \in Addresses
  /\ stored \in [at : Addresses, beat : 0..Last, word : Words]

\* Type correctness of the unit, its FIFO and the bus.
CamTypeOK == Ready \in BOOLEAN /\ FsmTypeOK /\ FifoTypeOK /\ BusTypeOK

\* Every word of the camera is stored at the place of a frame it belongs to:
\* nothing is skipped, repeated or shifted between the FIFO and the memory,
\* across bursts, frames, stalls and restarts.  A word that is not the
\* camera's can only come from a burst during which the camera was stopped.
WordsInPlace == stored.word \in {Stale, WordOf(stored.at[2], stored.beat)}

\* The unit never reads an empty FIFO while the camera runs: the almost-empty
\* threshold promises the whole burst that the unit then collects blindly.
NoUnderflow ==
  (FIFO_Read_Request /\ Ready) => level > 0

\* A burst is over for the bus when the unit announces the next: the bus took
\* as many beats as AM_BurstCount said.
BurstIsWhole == State = "DMA_Send_Init" => beatsLeft = 0

\* When a frame is announced its last word has just reached the memory, in
\* the zone the unit was writing.
FrameIsStored ==
  [][(\E d \in Zones : NewFrame(d))
       => /\ stored'.at = <<Base, FrameBursts - 1>>
          /\ stored'.beat = Last]_camVars

\* "output the previous value of Indice" (line 75): the announced buffer is
\* the one the unit has just written.
SavedIsWritten ==
  [][(\E d \in Zones : NewFrame(d)) => Buffer_Saved' = Base]_camVars

\* A camera that stays on completes frame after frame: frames end and the
\* offset is back at their beginning, again and again.
FramesComplete ==
  <>[]Ready => []<>(FrameIsOver /\ State = "IDLE_FOR_READY") /\ []<>(Offset = 0)

-----------------------------------------------------------------------------
(* The inductive invariant behind BurstIsWhole, NoUnderflow, FrameIsStored *)
(* and WordsInPlace, for a software that waits and a bus that never holds  *)
(* back the last beat.                                                     *)

Collecting == State = "Collect_Data_FIFO"
Sending    == State = "DMA_Send_Loop"
LastBeat   == State = "IDLE_FOR_READY" /\ AM_Write   \* it is on the bus now

\* Where the unit is in a burst, and the burst in the frame.
PaceInv ==
  /\ State \in {"IDLE_FOR_DATA", "CLOCK_WAIT_DATA_FIFO"} => Indice_FIFO = 0
  /\ Collecting => Indice_FIFO <= Last
  /\ State \in CamStates \ {"IDLE_FOR_READY", "DMA_Send_Loop"} => Indice_DMA = 0
  /\ Sending => Indice_DMA < Last
  /\ State # "IDLE_FOR_READY" => Offset < FrameBursts
  /\ AM_Write => AM_BurstCount = Burst /\ (Sending \/ LastBeat)
  /\ Sending => AM_Write
  /\ FrameIsOver => LastBeat

\* The FIFO is read during exactly Burst cycles, and holds what is left of
\* the burst.
Reads == \/ State = "CLOCK_WAIT_DATA_FIFO"
         \/ Collecting /\ Indice_FIFO < Last

FifoInv ==
  /\ FIFO_Read_Request => Reads
  /\ Reads => FIFO_Read_Request
  /\ (Ready /\ State = "CLOCK_WAIT_DATA_FIFO") => level >= Burst
  /\ (Ready /\ Collecting) => level >= Last - Indice_FIFO

\* The bus and the unit agree on the beats that are left.
BusInv ==
  beatsLeft = IF Sending /\ Indice_DMA > 0 THEN Burst - Indice_DMA
              ELSE IF LastBeat THEN 1 ELSE 0

\* The address on the bus is the one of the burst being counted.
AddressInv ==
  /\ State \in CamStates \ {"IDLE_FOR_READY", "IDLE_FOR_DATA"} =>
       Current = <<Base, Offset>>
  /\ Sending => AM_Adresse = <<Base, Offset>>
  /\ (Sending /\ Indice_DMA > 0) => target = <<Base, Offset>>
  /\ LastBeat => Offset > 0 /\ target = <<Base, Offset - 1>>

\* The words read from the FIFO since the frame began, those of the burst in
\* hand included.
WordsRead ==
  CASE Collecting /\ Indice_FIFO < Last -> WordOf(Offset, Indice_FIFO + 1)
    [] Collecting /\ Indice_FIFO = Last -> WordOf(Offset, Burst)
    [] State = "DMA_Send_Init" \/ Sending -> WordOf(Offset, Burst)
    [] OTHER -> WordOf(Offset, 0)

InHand(i) == \/ Collecting /\ i < Indice_FIFO
             \/ State = "DMA_Send_Init"
             \/ Sending

\* The FIFO's next word is the one after those read.
StreamInv == Ready => head = IF WordsRead = FrameWords THEN 0 ELSE WordsRead

\* Each word in the unit is the one its place in the burst says.
WordsInv ==
  /\ Collecting => q \in {Stale, WordOf(Offset, Indice_FIFO)}
  /\ \A i \in 0..Last : InHand(i) => DATA_Array[i] \in {Stale, WordOf(Offset, i)}
  /\ Sending => AM_DataWrite \in {Stale, WordOf(Offset, Indice_DMA)}
  /\ LastBeat => AM_DataWrite \in {Stale, WordOf(Offset - 1, Last)}

\* The unit, the FIFO and the bus keep step.
InStep == PaceInv /\ FifoInv /\ BusInv /\ AddressInv
          /\ StreamInv /\ WordsInv /\ WordsInPlace

=============================================================================
