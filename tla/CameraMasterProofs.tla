------------------------- MODULE CameraMasterProofs -------------------------
(***************************************************************************)
(* Proofs about the camera's DMA unit, for every burst and frame length    *)
(* and every depth of the FIFO.                                            *)
(***************************************************************************)
EXTENDS CameraMaster, TLAPS

\* Every zone the unit picks differs from the one it announces and from the
\* one the LCD displays (lines 76 to 106 of Camera_Master_Interface.vhd).
LEMMA NextZoneIsFree ==
  ASSUME NEW display \in Zones, NEW zone \in Zones
  PROVE  NextZone(display, zone) \in Zones \ {display, zone}
BY DEF NextZone, Zones

\* The registers, the FIFO and the bus keep their types.
LEMMA FifoTypeStep ==
  ASSUME Ready \in BOOLEAN, FIFO_Read_Request \in BOOLEAN, FifoTypeOK,
         NEW push \in BOOLEAN, ScFifo(push)
  PROVE  FifoTypeOK'
<1> USE CamConstants
<1>1. FrameWords \in Nat \ {0}
  BY DEF FrameWords
<1>2. CASE ~Ready \/ ~Ready'
  BY <1>1, <1>2 DEF FifoTypeOK, ScFifo, Words, Stale
<1>3. CASE Ready /\ Ready'
  BY <1>1, <1>3 DEF FifoTypeOK, ScFifo, Words, NextWord
<1>4. QED
  BY <1>2, <1>3

\* A beat taken by the bus leaves its count, address and last word typed.
LEMMA BusTypeStep ==
  ASSUME FsmTypeOK, BusTypeOK, PaceInv, NEW wait \in BOOLEAN, Fabric(wait)
  PROVE  BusTypeOK'
<1> USE CamConstants
<1>1. CASE ~Takes(wait)
  BY <1>1 DEF Fabric, busVars, BusTypeOK
<1>2. CASE Takes(wait) /\ beatsLeft = 0
  BY <1>2 DEF Fabric, Takes, BusTypeOK, FsmTypeOK, PlaceTypeOK, DataTypeOK, RequestTypeOK, PaceInv, Last
<1>3. CASE Takes(wait) /\ beatsLeft # 0
  BY <1>3 DEF Fabric, BusTypeOK, FsmTypeOK, PlaceTypeOK, DataTypeOK, Last
<1>4. QED
  BY <1>1, <1>2, <1>3

\* Every step of the unit keeps its registers typed, and their pace.
LEMMA PaceStep ==
  ASSUME Ready \in BOOLEAN, FsmTypeOK, q \in Words, PaceInv,
         NEW display \in Zones, NEW wait \in BOOLEAN, AvalonBus(display, wait)
  PROVE  FsmTypeOK' /\ PaceInv'
<1> USE CamConstants
        DEF FsmTypeOK, Last, Collecting, Sending, LastBeat, FrameIsOver
<1>1. CASE NewFrame(display)
  <2>0. Zone' \in Zones
    BY <1>1, NextZoneIsFree DEF NewFrame, PlaceTypeOK
  <2>1. PlaceTypeOK'
    BY <1>1, <2>0 DEF NewFrame, Rearm, EndBurst, PlaceTypeOK, CamStates
  <2>2. DataTypeOK'
    BY <1>1 DEF NewFrame, Rearm, EndBurst, DataTypeOK
  <2>3. RequestTypeOK'
    BY <1>1 DEF NewFrame, Rearm, EndBurst, RequestTypeOK
  <2>4. PaceInv'
    BY <1>1 DEF NewFrame, Rearm, EndBurst, PaceInv, PlaceTypeOK, DataTypeOK, CamStates
  <2>5. QED
    BY <2>1, <2>2, <2>3, <2>4
<1>2. CASE SameFrame
  <2>1. PlaceTypeOK'
    BY <1>2 DEF SameFrame, Rearm, EndBurst, PlaceTypeOK, CamStates
  <2>2. DataTypeOK'
    BY <1>2 DEF SameFrame, Rearm, EndBurst, DataTypeOK
  <2>3. RequestTypeOK'
    BY <1>2 DEF SameFrame, Rearm, EndBurst, RequestTypeOK
  <2>4. PaceInv'
    BY <1>2 DEF SameFrame, Rearm, EndBurst, PaceInv, PlaceTypeOK, DataTypeOK, CamStates
  <2>5. QED
    BY <2>1, <2>2, <2>3, <2>4
<1>3. CASE Stopped
  <2>1. PlaceTypeOK'
    BY <1>3 DEF Stopped, EndBurst, PlaceTypeOK, CamStates, Zones, Addresses
  <2>2. DataTypeOK'
    BY <1>3 DEF Stopped, EndBurst, DataTypeOK
  <2>3. RequestTypeOK'
    BY <1>3 DEF Stopped, EndBurst, RequestTypeOK
  <2>4. PaceInv'
    BY <1>3 DEF Stopped, EndBurst, PaceInv, PlaceTypeOK, DataTypeOK, CamStates
  <2>5. QED
    BY <2>1, <2>2, <2>3, <2>4
<1>4. CASE IdleForData
  <2>1. PlaceTypeOK'
    BY <1>4 DEF IdleForData, PlaceTypeOK, CamStates, Addresses
  <2>2. DataTypeOK'
    BY <1>4 DEF IdleForData, DataTypeOK
  <2>3. RequestTypeOK'
    BY <1>4 DEF IdleForData, RequestTypeOK
  <2>4. PaceInv'
    BY <1>4 DEF IdleForData, PaceInv, PlaceTypeOK, DataTypeOK, CamStates
  <2>5. QED
    BY <2>1, <2>2, <2>3, <2>4
<1>5. CASE ClockWaitDataFifo
  <2>1. PlaceTypeOK'
    BY <1>5 DEF ClockWaitDataFifo, PlaceTypeOK, CamStates
  <2>2. DataTypeOK'
    BY <1>5 DEF ClockWaitDataFifo, DataTypeOK
  <2>3. RequestTypeOK'
    BY <1>5 DEF ClockWaitDataFifo, RequestTypeOK
  <2>4. PaceInv'
    BY <1>5 DEF ClockWaitDataFifo, PaceInv, PlaceTypeOK, DataTypeOK, CamStates
  <2>5. QED
    BY <2>1, <2>2, <2>3, <2>4
<1>6. CASE CollectDataFifo
  <2>0. Indice_FIFO \in 0..Last /\ Offset < FrameBursts
    BY <1>6 DEF CollectDataFifo, PlaceTypeOK, DataTypeOK, PaceInv
  <2>1. PlaceTypeOK'
    BY <1>6, <2>0 DEF CollectDataFifo, PlaceTypeOK, CamStates
  <2>2. DataTypeOK'
    BY <1>6, <2>0 DEF CollectDataFifo, DataTypeOK
  <2>3. RequestTypeOK'
    BY <1>6 DEF CollectDataFifo, RequestTypeOK
  <2>4. PaceInv'
    BY <1>6, <2>0 DEF CollectDataFifo, PaceInv, PlaceTypeOK, DataTypeOK, CamStates
  <2>5. QED
    BY <2>1, <2>2, <2>3, <2>4
<1>7. CASE DmaSendInit
  <2>1. PlaceTypeOK'
    BY <1>7 DEF DmaSendInit, PlaceTypeOK, CamStates
  <2>2. DataTypeOK'
    BY <1>7 DEF DmaSendInit, DataTypeOK
  <2>3. RequestTypeOK'
    BY <1>7 DEF DmaSendInit, RequestTypeOK
  <2>4. PaceInv'
    BY <1>7 DEF DmaSendInit, PaceInv, PlaceTypeOK, DataTypeOK, CamStates
  <2>5. QED
    BY <2>1, <2>2, <2>3, <2>4
<1>8. CASE DmaSendLoop(wait)
  <2>0. Indice_DMA \in 0..Last - 1 /\ Offset < FrameBursts
    BY <1>8 DEF DmaSendLoop, PlaceTypeOK, DataTypeOK, PaceInv
  <2>1. PlaceTypeOK'
    BY <1>8, <2>0 DEF DmaSendLoop, PlaceTypeOK, CamStates
  <2>2. DataTypeOK'
    BY <1>8, <2>0 DEF DmaSendLoop, DataTypeOK
  <2>3. RequestTypeOK'
    BY <1>8 DEF DmaSendLoop, RequestTypeOK
  <2>4. PaceInv'
    BY <1>8, <2>0 DEF DmaSendLoop, PaceInv, PlaceTypeOK, DataTypeOK, CamStates
  <2>5. QED
    BY <2>1, <2>2, <2>3, <2>4
<1>9. QED
  BY <1>1, <1>2, <1>3, <1>4, <1>5, <1>6, <1>7, <1>8 DEF AvalonBus

-----------------------------------------------------------------------------

\* What an edge of the clock is made of, for the steps below.
Typed == CamTypeOK /\ PaceInv

\* The reset values are typed and at the start of a burst.
LEMMA TypedInit == CamInit => Typed
<1> USE CamConstants
<1>1. FrameWords \in Nat \ {0}
  BY DEF FrameWords
<1>2. CamInit => FsmTypeOK
  <2>1. CamInit => PlaceTypeOK
    BY DEF CamInit, PlaceTypeOK, CamStates, Zones, Addresses
  <2>2. CamInit => DataTypeOK
    BY <1>1 DEF CamInit, DataTypeOK, Words, Stale, Last
  <2>3. CamInit => RequestTypeOK
    BY DEF CamInit, RequestTypeOK
  <2>4. QED
    BY <2>1, <2>2, <2>3 DEF FsmTypeOK
<1>3. CamInit => FifoTypeOK /\ BusTypeOK /\ Ready \in BOOLEAN
  <2>1. CamInit => FifoTypeOK
    BY <1>1 DEF CamInit, FifoTypeOK, Words, Stale
  <2>2. CamInit => BusTypeOK
    <3>1. Stale \in Words /\ <<0, 0>> \in Addresses /\ 0 \in 0..Last
      BY <1>1 DEF Words, Stale, Addresses, Zones, Last
    <3>2. QED
      BY <3>1 DEF CamInit, BusTypeOK
  <2>3. QED
    BY <2>1, <2>2 DEF CamInit
<1>4. CamInit => PaceInv
  BY DEF CamInit, PaceInv, Collecting, Sending, LastBeat, FrameIsOver
<1>5. QED
  BY <1>2, <1>3, <1>4 DEF Typed, CamTypeOK

\* So every clock edge keeps unit, FIFO and bus typed.
LEMMA TypedStep ==
  ASSUME Typed, NEW display \in Zones, NEW start \in BOOLEAN,
         NEW push \in BOOLEAN, NEW wait \in BOOLEAN,
         CamEdge(display, start, push, wait)
  PROVE  Typed'
<1>1. Ready' \in BOOLEAN
  BY DEF CamEdge, WriteStart
<1>2. FsmTypeOK' /\ PaceInv'
  BY PaceStep DEF Typed, CamTypeOK, FifoTypeOK, CamEdge
<1>3. FifoTypeOK'
  BY FifoTypeStep DEF Typed, CamTypeOK, FsmTypeOK, RequestTypeOK, CamEdge
<1>4. BusTypeOK'
  BY BusTypeStep DEF Typed, CamTypeOK, CamEdge
<1>5. QED
  BY <1>1, <1>2, <1>3, <1>4 DEF Typed, CamTypeOK

\* Typed depends on the state variables only.
LEMMA TypedStutter == Typed /\ UNCHANGED camVars => Typed'
BY DEF Typed, CamTypeOK, FsmTypeOK, PlaceTypeOK, DataTypeOK, RequestTypeOK,
       FifoTypeOK, BusTypeOK, PaceInv, Collecting, Sending, LastBeat, FrameIsOver,
       camVars, fsmVars, fifoVars, busVars

\* The unit is typed and keeps its pace, whatever the bus and the software do.
THEOREM CamIsTyped == CamSpec => []Typed
<1>1. CamInit => Typed
  BY TypedInit
<1>2. Typed /\ [CamNext]_camVars => Typed'
  BY TypedStep, TypedStutter DEF CamNext
<1>3. QED
  BY <1>1, <1>2, PTL DEF CamSpec

\* Registers, FIFO and bus always hold values of their types: no index leaves
\* DATA_Array, no address the frame (Camera_Master_Interface.vhd).
THEOREM CamTypeCorrect == CamSpec => []CamTypeOK
<1>1. Typed => CamTypeOK
  BY DEF Typed
<1>2. QED
  BY <1>1, CamIsTyped, PTL

-----------------------------------------------------------------------------

\* A software that lets the unit rest before it starts it again leaves the
\* FIFO as many words as the burst still needs.
LEMMA FifoStep ==
  ASSUME SoftwareWaits, Typed, FifoInv, NEW display \in Zones,
         NEW start \in BOOLEAN, NEW push \in BOOLEAN, NEW wait \in BOOLEAN,
         CamEdge(display, start, push, wait)
  PROVE  FifoInv'
<1> USE DEF Collecting, Reads
<1>1. AvalonBus(display, wait) /\ WriteStart(start) /\ ScFifo(push)
  BY DEF CamEdge
<1>2. Burst \in Nat /\ Last = Burst - 1 /\ Burst >= 2 /\ level \in Nat
  BY CamConstants DEF Last, Typed, CamTypeOK, FifoTypeOK
<1>3. Indice_FIFO \in Nat /\ (State = "CLOCK_WAIT_DATA_FIFO" => Indice_FIFO = 0)
  BY CamConstants DEF Typed, CamTypeOK, FsmTypeOK, DataTypeOK, PaceInv
<1>4. Ready /\ Ready' /\ FIFO_Read_Request => level' >= level - 1
  BY <1>1, <1>2, CamConstants DEF ScFifo
<1>5. Ready /\ Ready' /\ ~FIFO_Read_Request => level' >= level
  BY <1>1, <1>2, CamConstants DEF ScFifo
<1>6. Ready' => Ready \/ State = "IDLE_FOR_READY"
  BY <1>1 DEF WriteStart
<1>7. level' \in Nat
  BY TypedStep, CamConstants DEF Typed, CamTypeOK, FifoTypeOK
<1>8. CASE NewFrame(display) \/ SameFrame \/ Stopped
  BY <1>8 DEF NewFrame, SameFrame, Stopped, Rearm, EndBurst, FifoInv
<1>9. CASE IdleForData
  <2>1. ~FIFO_Read_Request /\ State = "IDLE_FOR_DATA"
    BY <1>9 DEF IdleForData, FifoInv
  <2>2. CASE FIFO_Read_Request' = TRUE /\ State' = "CLOCK_WAIT_DATA_FIFO" /\ ~AlmostEmpty /\ Ready
    BY <1>2, <1>5, <1>7, <2>1, <2>2 DEF AlmostEmpty, FifoInv
  <2>3. CASE State' \in {"IDLE_FOR_DATA", "IDLE_FOR_READY"} /\ UNCHANGED FIFO_Read_Request
    BY <2>1, <2>3 DEF FifoInv
  <2>4. QED
    BY <1>9, <2>1, <2>2, <2>3 DEF IdleForData
<1>10. CASE ClockWaitDataFifo
  <2>1. FIFO_Read_Request' /\ FIFO_Read_Request /\ Indice_FIFO' = 0
        /\ State = "CLOCK_WAIT_DATA_FIFO" /\ State' = "Collect_Data_FIFO"
    BY <1>3, <1>10 DEF ClockWaitDataFifo, FifoInv
  <2>2. Ready' => level' >= Last - Indice_FIFO'
    BY <1>2, <1>4, <1>6, <1>7, <2>1 DEF FifoInv
  <2>3. QED
    BY <1>2, <2>1, <2>2 DEF FifoInv
<1>11. CASE CollectDataFifo
  <2>1. State = "Collect_Data_FIFO" /\ Indice_FIFO' = Indice_FIFO + 1 /\ Indice_FIFO <= Last
    BY <1>11 DEF CollectDataFifo, Typed, PaceInv
  <2>2. CASE Indice_FIFO = Last
    BY <1>2, <1>11, <2>1, <2>2 DEF CollectDataFifo, FifoInv
  <2>3. CASE Indice_FIFO < Last
    <3>1. State' = "Collect_Data_FIFO" /\ FIFO_Read_Request
      BY <1>2, <1>3, <1>11, <2>1, <2>3 DEF CollectDataFifo, FifoInv
    <3>2. Ready' => level' >= Last - Indice_FIFO'
      BY <1>2, <1>3, <1>4, <1>6, <1>7, <2>1, <3>1 DEF FifoInv
    <3>3. FIFO_Read_Request' <=> Indice_FIFO' < Last
      BY <1>2, <1>3, <1>11, <2>1, <2>3, <3>1 DEF CollectDataFifo
    <3>4. QED
      BY <3>1, <3>2, <3>3 DEF FifoInv
  <2>4. QED
    BY <1>2, <1>3, <2>1, <2>2, <2>3
<1>12. CASE DmaSendInit \/ DmaSendLoop(wait)
  BY <1>12 DEF DmaSendInit, DmaSendLoop, FifoInv
<1>13. QED
  BY <1>1, <1>8, <1>9, <1>10, <1>11, <1>12 DEF AvalonBus

\* The almost-empty threshold promises the whole burst that the unit collects
\* without looking at the FIFO again (lines 116 to 133).
THEOREM ReadsAreFed ==
  ASSUME SoftwareWaits
  PROVE  CamSpec => []NoUnderflow
<1>1. CamInit => FifoInv
  BY DEF CamInit, FifoInv, Reads, Collecting
<1>2. Typed /\ FifoInv /\ [CamNext]_camVars => FifoInv'
  <2>1. CASE UNCHANGED camVars
    BY <2>1 DEF FifoInv, Reads, Collecting, camVars, fsmVars, fifoVars
  <2>2. CASE CamNext
    BY <2>2, FifoStep DEF CamNext
  <2>3. QED
    BY <2>1, <2>2
<1>3. Typed /\ FifoInv => NoUnderflow
  BY CamConstants DEF Typed, CamTypeOK, FsmTypeOK, DataTypeOK, FifoTypeOK, FifoInv, Reads,
     Collecting, Last, NoUnderflow
<1>4. QED
  BY <1>1, <1>2, <1>3, CamIsTyped, PTL DEF CamSpec

-----------------------------------------------------------------------------

\* On a bus that takes the last beat at once, the unit and the bus agree on
\* the beats that are left and on where they go.
LEMMA BusStep ==
  ASSUME ~LastBeatStalls, Typed, BusInv, AddressInv, NEW display \in Zones,
         NEW start \in BOOLEAN, NEW push \in BOOLEAN, NEW wait \in BOOLEAN,
         CamEdge(display, start, push, wait)
  PROVE  BusInv' /\ AddressInv'
<1> USE DEF Sending, LastBeat, CamStates
<1>1. AvalonBus(display, wait) /\ Fabric(wait)
  BY DEF CamEdge
<1>2. Burst \in Nat /\ Last = Burst - 1 /\ Burst >= 2
  BY CamConstants DEF Last
<1>3. State \in CamStates /\ Offset \in 0..FrameBursts /\ Base \in Zones
  BY DEF Typed, CamTypeOK, FsmTypeOK, PlaceTypeOK
<1>4. Indice_DMA \in 0..Last /\ beatsLeft \in 0..Last /\ AM_Write \in BOOLEAN
  BY DEF Typed, CamTypeOK, FsmTypeOK, DataTypeOK, RequestTypeOK, BusTypeOK
<1>5. FrameBursts \in Nat
  BY CamConstants
<1>6. CASE State = "IDLE_FOR_READY"
  <2>1. State' \in {"IDLE_FOR_READY", "IDLE_FOR_DATA"} /\ AM_Write' = FALSE
    BY <1>1, <1>6 DEF AvalonBus, NewFrame, SameFrame, Stopped, Rearm, EndBurst,
       IdleForData, ClockWaitDataFifo, CollectDataFifo, DmaSendInit, DmaSendLoop
  <2>2. CASE AM_Write
    <3>1. beatsLeft = 1
      BY <1>6, <2>2 DEF BusInv
    <3>2. ~wait
      BY <1>1, <3>1 DEF Fabric, MayStall
    <3>3. beatsLeft' = 0
      BY <1>1, <2>2, <3>1, <3>2 DEF Fabric, Takes
    <3>4. QED
      BY <2>1, <3>3 DEF BusInv, AddressInv
  <2>3. CASE ~AM_Write
    <3>1. beatsLeft' = 0
      BY <1>1, <1>6, <2>3 DEF BusInv, Fabric, Takes, busVars
    <3>2. QED
      BY <2>1, <3>1 DEF BusInv, AddressInv
  <2>4. QED
    BY <2>2, <2>3
<1>7. CASE State \in {"IDLE_FOR_DATA", "CLOCK_WAIT_DATA_FIFO", "Collect_Data_FIFO"}
  <2>1. ~AM_Write /\ beatsLeft = 0
    BY <1>7 DEF Typed, PaceInv, BusInv
  <2>2. beatsLeft' = 0 /\ AM_Write' = AM_Write
    BY <1>1, <1>7, <2>1 DEF Fabric, Takes, busVars, AvalonBus, NewFrame, SameFrame, Stopped,
       Rearm, EndBurst, IdleForData, ClockWaitDataFifo, CollectDataFifo, DmaSendInit, DmaSendLoop
  <2>3. State' \in CamStates \ {"DMA_Send_Loop"}
    BY <1>1, <1>7 DEF AvalonBus, NewFrame, SameFrame, Stopped, Rearm, EndBurst,
       IdleForData, ClockWaitDataFifo, CollectDataFifo, DmaSendInit, DmaSendLoop
  <2>4. State' \in CamStates \ {"IDLE_FOR_READY", "IDLE_FOR_DATA"} =>
          Current' = <<Base', Offset'>>
    BY <1>1, <1>7, <2>3 DEF AddressInv, AvalonBus, NewFrame, SameFrame, Stopped,
       Rearm, EndBurst, IdleForData, ClockWaitDataFifo, CollectDataFifo, DmaSendInit, DmaSendLoop
  <2>5. QED
    BY <2>1, <2>2, <2>3, <2>4 DEF BusInv, AddressInv
<1>8. CASE DmaSendInit
  <2>1. ~AM_Write /\ beatsLeft = 0 /\ Indice_DMA = 0 /\ Current = <<Base, Offset>>
    BY <1>8 DEF DmaSendInit, Typed, PaceInv, BusInv, AddressInv
  <2>2. beatsLeft' = 0 /\ Indice_DMA' = 0 /\ State' = "DMA_Send_Loop"
    BY <1>1, <1>8, <2>1 DEF DmaSendInit, Fabric, Takes, busVars
  <2>3. Current' = <<Base', Offset'>> /\ AM_Adresse' = <<Base', Offset'>>
    BY <1>8, <2>1 DEF DmaSendInit
  <2>4. QED
    BY <2>2, <2>3 DEF BusInv, AddressInv
<1>9. CASE DmaSendLoop(wait) /\ wait
  <2>1. UNCHANGED <<State, Offset, Base, Current, Indice_DMA, AM_Write, AM_Adresse>>
    BY <1>9 DEF DmaSendLoop
  <2>2. UNCHANGED <<beatsLeft, target>>
    BY <1>1, <1>9 DEF Fabric, Takes, busVars
  <2>3. QED
    BY <2>1, <2>2 DEF BusInv, AddressInv
<1>10. CASE DmaSendLoop(wait) /\ ~wait
  <2>1. State = "DMA_Send_Loop" /\ AM_Write /\ Indice_DMA < Last /\ AM_BurstCount = Burst
        /\ Current = <<Base, Offset>> /\ AM_Adresse = <<Base, Offset>>
    BY <1>10 DEF DmaSendLoop, Typed, PaceInv, AddressInv
  <2>2. beatsLeft' = Last - Indice_DMA
    <3>1. CASE Indice_DMA = 0
      BY <1>1, <1>2, <1>10, <2>1, <3>1 DEF Fabric, Takes, BusInv
    <3>2. CASE Indice_DMA > 0
      <4>1. beatsLeft = Burst - Indice_DMA /\ beatsLeft # 0
        BY <1>2, <1>4, <2>1, <3>2 DEF BusInv
      <4>2. QED
        BY <1>1, <1>2, <1>4, <1>10, <2>1, <4>1 DEF Fabric, Takes
    <3>3. QED
      BY <1>4, <3>1, <3>2
  <2>3. target' = <<Base, Offset>>
    <3>1. CASE Indice_DMA = 0
      BY <1>1, <1>2, <1>10, <2>1, <3>1 DEF Fabric, Takes, BusInv
    <3>2. CASE Indice_DMA > 0
      <4>1. beatsLeft # 0 /\ target = <<Base, Offset>>
        BY <1>2, <1>4, <2>1, <3>2 DEF BusInv, AddressInv
      <4>2. QED
        BY <1>1, <1>10, <2>1, <4>1 DEF Fabric, Takes
    <3>3. QED
      BY <1>4, <3>1, <3>2
  <2>4. UNCHANGED <<Base, Current, AM_Adresse, AM_Write>>
    BY <1>10 DEF DmaSendLoop
  <2>5. CASE Indice_DMA < Last - 1
    <3>1. Indice_DMA' = Indice_DMA + 1 /\ State' = "DMA_Send_Loop" /\ Offset' = Offset
      BY <1>10, <2>5 DEF DmaSendLoop
    <3>2. BusInv'
      BY <1>2, <1>4, <2>2, <3>1 DEF BusInv
    <3>3. AddressInv'
      BY <2>1, <2>3, <2>4, <3>1 DEF AddressInv
    <3>4. QED
      BY <3>2, <3>3
  <2>6. CASE Indice_DMA = Last - 1
    <3>1. State' = "IDLE_FOR_READY" /\ Offset' = Offset + 1 /\ AM_Write'
      BY <1>10, <2>1, <2>4, <2>6 DEF DmaSendLoop
    <3>2. BusInv'
      BY <1>2, <1>4, <2>2, <2>6, <3>1 DEF BusInv
    <3>3. Offset' > 0 /\ Offset' - 1 = Offset
      BY <1>3, <1>5, <3>1
    <3>4. AddressInv'
      BY <2>3, <2>4, <3>1, <3>3 DEF AddressInv
    <3>5. QED
      BY <3>2, <3>4
  <2>7. QED
    BY <1>2, <1>4, <2>1, <2>5, <2>6
<1>11. CASE State = "DMA_Send_Init"
  BY <1>1, <1>8, <1>11 DEF AvalonBus, NewFrame, SameFrame, Stopped, Rearm, EndBurst,
     IdleForData, ClockWaitDataFifo, CollectDataFifo, DmaSendLoop
<1>12. CASE State = "DMA_Send_Loop"
  BY <1>1, <1>9, <1>10, <1>12 DEF AvalonBus, NewFrame, SameFrame, Stopped, Rearm, EndBurst,
     IdleForData, ClockWaitDataFifo, CollectDataFifo, DmaSendInit
<1>13. QED
  BY <1>3, <1>6, <1>7, <1>11, <1>12

\* After reset no beat is due and no address is claimed.
LEMMA BusInvInit == CamInit => BusInv /\ AddressInv
BY DEF CamInit, BusInv, AddressInv, Sending, LastBeat

\* BusStep, stuttering included: the agreement is an invariant of the edges.
LEMMA BusInvStep ==
  ASSUME ~LastBeatStalls
  PROVE  Typed /\ BusInv /\ AddressInv /\ [CamNext]_camVars => BusInv' /\ AddressInv'
<1>1. CASE UNCHANGED camVars
  BY <1>1 DEF BusInv, AddressInv, Sending, LastBeat, camVars, fsmVars, busVars
<1>2. CASE CamNext
  BY <1>2, BusStep DEF CamNext
<1>3. QED
  BY <1>1, <1>2

\* The bus has taken every beat of a burst before the next is announced, if
\* the last beat cannot be held back (lines 134 to 151 and line 67).
THEOREM BurstsAreWhole ==
  ASSUME ~LastBeatStalls
  PROVE  CamSpec => []BurstIsWhole
<1>1. BusInv => BurstIsWhole
  BY DEF BusInv, BurstIsWhole, Sending, LastBeat
<1>2. QED
  BY <1>1, BusInvInit, BusInvStep, CamIsTyped, PTL DEF CamSpec

\* A frame is announced at the edge that stores its last word: the LCD that
\* reads the announced buffer finds the whole frame (lines 73 to 75).
THEOREM FramesAreStored ==
  ASSUME ~LastBeatStalls
  PROVE  CamSpec => FrameIsStored
<1>1. ASSUME Typed, BusInv, AddressInv, CamNext, NEW d \in Zones, NewFrame(d)
      PROVE  stored'.at = <<Base, FrameBursts - 1>> /\ stored'.beat = Last
  <2>1. PICK wait \in BOOLEAN : Fabric(wait)
    BY <1>1 DEF CamNext, CamEdge
  <2>2. State = "IDLE_FOR_READY" /\ AM_Write /\ Offset = FrameBursts
    BY <1>1, CamConstants DEF NewFrame, Rearm, EndBurst, FrameIsOver, LastBeat, Typed,
       CamTypeOK, FsmTypeOK, PlaceTypeOK, PaceInv
  <2>3. beatsLeft = 1 /\ target = <<Base, FrameBursts - 1>>
    BY <1>1, <2>2 DEF BusInv, AddressInv, Sending, LastBeat
  <2>4. ~wait
    BY <2>1, <2>3 DEF Fabric, MayStall
  <2>5. stored' = [at |-> target, beat |-> Burst - 1, word |-> AM_DataWrite]
    BY <2>1, <2>2, <2>3, <2>4 DEF Fabric, Takes
  <2>6. QED
    BY <2>3, <2>5 DEF Last
<1>2. Typed /\ BusInv /\ AddressInv /\ [CamNext]_camVars =>
        [(\E d \in Zones : NewFrame(d))
           => /\ stored'.at = <<Base, FrameBursts - 1>>
              /\ stored'.beat = Last]_camVars
  BY <1>1
<1>3. QED
  BY <1>2, BusInvInit, BusInvStep, CamIsTyped, PTL DEF CamSpec, FrameIsStored

-----------------------------------------------------------------------------

\* The words of a frame, in the order of its bursts.
LEMMA WordOrder ==
  ASSUME NEW b \in 0..FrameBursts, NEW i \in 0..Burst
  PROVE  /\ WordOf(b, i) \in Nat
         /\ WordOf(b, i + 1) = WordOf(b, i) + 1
         /\ WordOf(b + 1, 0) = WordOf(b, Burst)
         /\ WordOf(0, 0) = 0
         /\ WordOf(FrameBursts, 0) = FrameWords
BY CamConstants DEF WordOf, FrameWords

\* The place of a beat within a frame is below the frame's length.
LEMMA WordBound ==
  ASSUME NEW b \in 0..FrameBursts - 1, NEW i \in 0..Last
  PROVE  WordOf(b, i) < FrameWords
<1>1. (b + 1) * Burst <= FrameBursts * Burst
  BY CamConstants
<1>2. QED
  BY <1>1, CamConstants DEF WordOf, FrameWords, Last

\* The FIFO's next word follows those the unit has read (StreamInv).
LEMMA StreamStep ==
  ASSUME SoftwareWaits, Typed, FifoInv, NEW display \in Zones,
         NEW start \in BOOLEAN, NEW push \in BOOLEAN, NEW wait \in BOOLEAN,
         CamEdge(display, start, push, wait), StreamInv
  PROVE  StreamInv' /\ (Collecting' => q' \in {Stale, WordOf(Offset', Indice_FIFO')})
<1> USE DEF Collecting, Sending
<1>1. AvalonBus(display, wait) /\ WriteStart(start) /\ ScFifo(push)
  BY DEF CamEdge
<1>2. Burst \in Nat /\ Last = Burst - 1 /\ Burst >= 2 /\ FrameBursts \in Nat \ {0}
      /\ FrameWords \in Nat \ {0}
  BY CamConstants DEF Last, FrameWords
<1>3. State \in CamStates /\ Offset \in 0..FrameBursts /\ Indice_FIFO \in 0..Burst
      /\ level \in Nat
  BY DEF Typed, CamTypeOK, FsmTypeOK, PlaceTypeOK, DataTypeOK, FifoTypeOK
<1>4. CASE ~Ready'
  BY <1>1, <1>4 DEF ScFifo, StreamInv
<1>5. CASE ~Ready /\ Ready'
  <2>1. State = "IDLE_FOR_READY" /\ head' = 0 /\ q' = Stale
    BY <1>1, <1>5 DEF WriteStart, ScFifo
  <2>2. State' = "IDLE_FOR_READY" /\ Offset' = 0
    BY <1>1, <1>5, <2>1 DEF AvalonBus, NewFrame, SameFrame, Stopped, Rearm, EndBurst,
       IdleForData, ClockWaitDataFifo, CollectDataFifo, DmaSendInit, DmaSendLoop
  <2>3. WordsRead' = WordOf(0, 0)
    BY <2>2 DEF WordsRead
  <2>4. WordOf(0, 0) = 0
    BY WordOrder, <1>2
  <2>5. QED
    BY <1>2, <2>1, <2>3, <2>4 DEF StreamInv
<1>6. CASE Ready /\ Ready' /\ Reads
  <2>1. FIFO_Read_Request /\ level > 0
    BY <1>2, <1>3, <1>6 DEF FifoInv, Reads, Typed, PaceInv
  <2>2. head' = NextWord(head) /\ q' = head
    BY <1>1, <1>6, <2>1 DEF ScFifo
  <2>3. Offset \in 0..FrameBursts - 1
    BY <1>2, <1>3, <1>6 DEF Reads, Typed, PaceInv
  <2>4. PICK i \in 0..Last : WordsRead = WordOf(Offset, i)
                             /\ WordsRead' = WordOf(Offset, i + 1)
                             /\ Offset' = Offset
                             /\ (Collecting' => Indice_FIFO' = i)
    <3>1. CASE State = "CLOCK_WAIT_DATA_FIFO"
      <4>1. ClockWaitDataFifo /\ Indice_FIFO = 0
        BY <1>1, <3>1 DEF Typed, PaceInv, AvalonBus, NewFrame, SameFrame, Stopped, Rearm,
           EndBurst, IdleForData, CollectDataFifo, DmaSendInit, DmaSendLoop
      <4>2. State' = "Collect_Data_FIFO" /\ Indice_FIFO' = 0 /\ Offset' = Offset
        BY <4>1 DEF ClockWaitDataFifo
      <4>3. WordsRead = WordOf(Offset, 0)
        BY <3>1 DEF WordsRead
      <4>4. WordsRead' = WordOf(Offset, 1)
        BY <1>2, <4>2 DEF WordsRead
      <4>5. QED
        BY <1>2, <4>2, <4>3, <4>4
    <3>2. CASE Collecting /\ Indice_FIFO < Last
      <4>1. CollectDataFifo
        BY <1>1, <3>2 DEF AvalonBus, NewFrame, SameFrame, Stopped, Rearm,
           EndBurst, IdleForData, ClockWaitDataFifo, DmaSendInit, DmaSendLoop
      <4>2. State' = "Collect_Data_FIFO" /\ Indice_FIFO' = Indice_FIFO + 1 /\ Offset' = Offset
        BY <1>2, <1>3, <3>2, <4>1 DEF CollectDataFifo
      <4>3. WordsRead = WordOf(Offset, Indice_FIFO + 1)
        BY <1>2, <1>3, <3>2 DEF WordsRead
      <4>4. WordsRead' = WordOf(Offset, Indice_FIFO + 2)
        <5>1. CASE Indice_FIFO' < Last
          BY <1>3, <4>2, <5>1 DEF WordsRead
        <5>2. CASE Indice_FIFO' = Last
          <6>1. Burst = Indice_FIFO + 2
            BY <1>2, <1>3, <4>2, <5>2
          <6>2. QED
            BY <4>2, <5>2, <6>1, <1>2 DEF WordsRead
        <5>3. QED
          BY <1>2, <1>3, <3>2, <4>2, <5>1, <5>2
      <4>5. Indice_FIFO + 1 \in 0..Last /\ (Indice_FIFO + 1) + 1 = Indice_FIFO + 2
        BY <1>2, <1>3, <3>2
      <4>6. QED
        BY <4>2, <4>3, <4>4, <4>5
    <3>3. QED
      BY <1>6, <3>1, <3>2 DEF Reads
  <2>5. WordsRead < FrameWords /\ WordsRead \in Nat /\ WordsRead' = WordsRead + 1
    BY <1>2, <2>3, <2>4, WordOrder, WordBound
  <2>6. head = WordsRead
    BY <1>2, <1>6, <2>5 DEF StreamInv
  <2>7. StreamInv'
    BY <1>2, <2>2, <2>5, <2>6 DEF StreamInv, NextWord
  <2>8. QED
    BY <2>2, <2>4, <2>6, <2>7
<1>7. CASE Ready /\ Ready' /\ ~Reads
  <2>1. ~FIFO_Read_Request
    BY <1>7 DEF FifoInv
  <2>2. head' = head
    BY <1>1, <1>7, <2>1 DEF ScFifo
  <2>3. CASE NewFrame(display)
    <3>1. State = "IDLE_FOR_READY" /\ Offset = FrameBursts /\ Offset' = 0
          /\ State' = "IDLE_FOR_DATA"
      BY <1>2, <1>3, <2>3 DEF NewFrame, Rearm, EndBurst, FrameIsOver
    <3>2. WordsRead = WordOf(FrameBursts, 0) /\ WordsRead' = WordOf(0, 0)
      BY <3>1 DEF WordsRead
    <3>3. WordOf(FrameBursts, 0) = FrameWords /\ WordOf(0, 0) = 0
      BY WordOrder, <1>2
    <3>4. QED
      BY <1>2, <1>7, <2>2, <3>1, <3>2, <3>3 DEF StreamInv
  <2>4. CASE SameFrame \/ IdleForData
    <3>1. State \in {"IDLE_FOR_READY", "IDLE_FOR_DATA"} /\ Offset' = Offset
          /\ State' \in {"IDLE_FOR_DATA", "CLOCK_WAIT_DATA_FIFO", "IDLE_FOR_READY"}
      BY <2>4 DEF SameFrame, IdleForData, Rearm, EndBurst
    <3>2. WordsRead' = WordsRead
      BY <3>1 DEF WordsRead
    <3>3. QED
      BY <1>7, <2>2, <3>1, <3>2 DEF StreamInv
  <2>5. CASE CollectDataFifo
    <3>1. Collecting /\ Indice_FIFO = Last
      BY <1>2, <1>3, <1>7, <2>5 DEF Reads, CollectDataFifo, Typed, PaceInv
    <3>2. State' = "DMA_Send_Init" /\ Offset' = Offset
      BY <2>5, <3>1 DEF CollectDataFifo
    <3>3. WordsRead = WordOf(Offset, Burst) /\ WordsRead' = WordOf(Offset, Burst)
      BY <1>2, <3>1, <3>2 DEF WordsRead
    <3>4. QED
      BY <1>7, <2>2, <3>2, <3>3 DEF StreamInv
  <2>6. CASE DmaSendInit
    <3>1. State = "DMA_Send_Init" /\ State' = "DMA_Send_Loop" /\ Offset' = Offset
      BY <2>6 DEF DmaSendInit
    <3>2. WordsRead' = WordsRead
      BY <3>1 DEF WordsRead
    <3>3. QED
      BY <1>7, <2>2, <3>1, <3>2 DEF StreamInv
  <2>7. CASE DmaSendLoop(wait)
    <3>1. State = "DMA_Send_Loop" /\ (\/ State' = "DMA_Send_Loop" /\ Offset' = Offset
                                      \/ State' = "IDLE_FOR_READY" /\ Offset' = Offset + 1)
      BY <2>7 DEF DmaSendLoop
    <3>2. WordsRead = WordOf(Offset, Burst)
      BY <3>1 DEF WordsRead
    <3>3. WordOf(Offset + 1, 0) = WordOf(Offset, Burst)
      BY <1>2, <1>3, WordOrder
    <3>4. WordsRead' = WordsRead
      BY <3>1, <3>2, <3>3 DEF WordsRead
    <3>5. QED
      BY <1>7, <2>2, <3>1, <3>4 DEF StreamInv
  <2>8. ~Stopped /\ ~ClockWaitDataFifo
    BY <1>7 DEF Stopped, ClockWaitDataFifo, Reads
  <2>9. QED
    BY <1>1, <2>3, <2>4, <2>5, <2>6, <2>7, <2>8 DEF AvalonBus
<1>8. QED
  <2>1. ~Ready' => q' = Stale
    BY <1>1 DEF ScFifo
  <2>2. Ready \in BOOLEAN /\ Ready' \in BOOLEAN
    BY <1>1 DEF WriteStart, Typed, CamTypeOK
  <2>3. QED
    BY <1>4, <1>5, <1>6, <1>7, <2>1, <2>2

\* Each word stays the one its place in the burst says (WordsInv).
LEMMA WordsStep ==
  ASSUME Typed, WordsInv, NEW display \in Zones, NEW wait \in BOOLEAN,
         AvalonBus(display, wait),
         Collecting' => q' \in {Stale, WordOf(Offset', Indice_FIFO')}
  PROVE  WordsInv'
<1> USE DEF Collecting, Sending, LastBeat, InHand
<1>1. Burst \in Nat /\ Last = Burst - 1 /\ Burst >= 2 /\ Last' = Last
  BY CamConstants DEF Last
<1>2. /\ State \in CamStates /\ Offset \in Nat /\ Indice_FIFO \in 0..Burst
      /\ Indice_DMA \in 0..Last /\ DATA_Array \in [0..Last -> Words]
  BY CamConstants DEF Typed, CamTypeOK, FsmTypeOK, PlaceTypeOK, DataTypeOK
<1>3. CASE NewFrame(display) \/ SameFrame \/ Stopped \/ IdleForData \/ ClockWaitDataFifo
  <2>1. State' \notin {"DMA_Send_Init", "DMA_Send_Loop"}
        /\ (State' = "Collect_Data_FIFO" => ClockWaitDataFifo)
    BY <1>3 DEF NewFrame, SameFrame, Stopped, Rearm, EndBurst, IdleForData, ClockWaitDataFifo
  <2>2. State' = "Collect_Data_FIFO" => Indice_FIFO' = 0
    BY <2>1 DEF ClockWaitDataFifo, Typed, PaceInv
  <2>3. ~LastBeat'
    <3>1. CASE NewFrame(display) \/ SameFrame \/ Stopped
      BY <3>1 DEF NewFrame, SameFrame, Stopped, Rearm, EndBurst
    <3>2. CASE IdleForData \/ ClockWaitDataFifo
      BY <3>2 DEF IdleForData, ClockWaitDataFifo, Typed, PaceInv
    <3>3. QED
      BY <1>3, <3>1, <3>2
  <2>4. \A i \in 0..Last : ~InHand(i)'
    BY <1>1, <2>1, <2>2
  <2>5. QED
    BY <1>1, <2>1, <2>3, <2>4 DEF WordsInv
<1>4. CASE CollectDataFifo
  <2>1. /\ State = "Collect_Data_FIFO" /\ Indice_FIFO \in 0..Last /\ Offset' = Offset
        /\ DATA_Array' = [DATA_Array EXCEPT ![Indice_FIFO] = q]
        /\ Indice_FIFO' = Indice_FIFO + 1
        /\ State' = IF Indice_FIFO = Last THEN "DMA_Send_Init" ELSE "Collect_Data_FIFO"
    BY <1>1, <1>2, <1>4 DEF CollectDataFifo, Typed, PaceInv
  <2>2. ASSUME NEW i \in 0..Last, InHand(i)'
        PROVE  DATA_Array'[i] \in {Stale, WordOf(Offset', i)}
    <3>1. CASE i = Indice_FIFO
      BY <1>2, <2>1, <3>1 DEF WordsInv
    <3>2. CASE i # Indice_FIFO
      <4>1. i < Indice_FIFO
        BY <1>1, <1>2, <2>1, <2>2, <3>2
      <4>2. DATA_Array'[i] = DATA_Array[i]
        BY <1>2, <2>1, <3>2
      <4>3. QED
        BY <2>1, <4>1, <4>2 DEF WordsInv
    <3>3. QED
      BY <3>1, <3>2
  <2>3. ~Sending' /\ ~LastBeat' /\ Stale' = Stale
    BY <2>1 DEF Stale, FrameWords
  <2>4. QED
    BY <1>1, <2>2, <2>3 DEF WordsInv
<1>5. CASE DmaSendInit
  <2>1. /\ State = "DMA_Send_Init" /\ State' = "DMA_Send_Loop" /\ UNCHANGED <<Offset, DATA_Array>>
        /\ Indice_DMA' = 0 /\ AM_DataWrite' = DATA_Array[0]
    BY <1>5 DEF DmaSendInit, Typed, PaceInv, CamStates
  <2>2. \A i \in 0..Last : DATA_Array[i] \in {Stale, WordOf(Offset, i)}
    BY <2>1 DEF WordsInv
  <2>3. 0 \in 0..Last
    BY <1>1
  <2>4. QED
    BY <1>1, <2>1, <2>2, <2>3 DEF WordsInv
<1>6. CASE DmaSendLoop(wait)
  <2>1. /\ State = "DMA_Send_Loop" /\ Indice_DMA \in 0..Last - 1
        /\ UNCHANGED <<DATA_Array, AM_Write>>
    BY <1>1, <1>2, <1>6 DEF DmaSendLoop, Typed, PaceInv
  <2>2. \A i \in 0..Last : DATA_Array[i] \in {Stale, WordOf(Offset, i)}
    BY <2>1 DEF WordsInv
  <2>3. CASE wait
    BY <1>1, <1>6, <2>1, <2>2, <2>3 DEF DmaSendLoop, WordsInv
  <2>4. CASE ~wait
    <3>1. AM_DataWrite' = DATA_Array[Indice_DMA + 1] /\ Indice_DMA + 1 \in 0..Last
      BY <1>1, <1>6, <2>1, <2>4 DEF DmaSendLoop
    <3>2. AM_DataWrite' \in {Stale, WordOf(Offset, Indice_DMA + 1)}
      BY <2>2, <3>1
    <3>3. CASE Indice_DMA < Last - 1
      <4>1. State' = "DMA_Send_Loop" /\ Indice_DMA' = Indice_DMA + 1 /\ Offset' = Offset
        BY <1>6, <2>4, <3>3 DEF DmaSendLoop
      <4>2. QED
        BY <1>1, <2>1, <2>2, <3>2, <4>1 DEF WordsInv
    <3>4. CASE Indice_DMA = Last - 1
      <4>1. State' = "IDLE_FOR_READY" /\ Offset' = Offset + 1
        BY <1>6, <2>4, <3>4 DEF DmaSendLoop
      <4>2. Indice_DMA + 1 = Last /\ Offset' - 1 = Offset
        BY <1>1, <1>2, <3>4, <4>1
      <4>3. QED
        BY <1>1, <3>2, <4>1, <4>2 DEF WordsInv
    <3>5. QED
      BY <1>1, <2>1, <3>3, <3>4
  <2>5. QED
    BY <2>3, <2>4
<1>7. QED
  BY <1>3, <1>4, <1>5, <1>6 DEF AvalonBus

\* A word the bus takes goes to the place that is its number's.
LEMMA PlaceStep ==
  ASSUME Typed, BusInv, AddressInv, WordsInv, WordsInPlace,
         NEW wait \in BOOLEAN, Fabric(wait)
  PROVE  WordsInPlace'
<1> USE DEF Sending, LastBeat
<1>1. Burst \in Nat /\ Last = Burst - 1 /\ Burst >= 2
  BY CamConstants DEF Last
<1>2. Indice_DMA \in 0..Last /\ beatsLeft \in 0..Last
  BY DEF Typed, CamTypeOK, FsmTypeOK, DataTypeOK, BusTypeOK
<1>3. Stale' = Stale
  BY DEF Stale, FrameWords
<1>4. CASE ~Takes(wait)
  BY <1>4 DEF Fabric, busVars, WordsInPlace
<1>5. CASE Takes(wait) /\ Sending /\ Indice_DMA = 0
  <2>1. beatsLeft = 0 /\ AM_Adresse = <<Base, Offset>>
    BY <1>1, <1>5 DEF BusInv, AddressInv
  <2>2. stored' = [at |-> <<Base, Offset>>, beat |-> 0, word |-> AM_DataWrite]
    BY <1>5, <2>1 DEF Fabric
  <2>3. QED
    BY <1>3, <1>5, <2>2 DEF WordsInPlace, WordsInv
<1>6. CASE Takes(wait) /\ Sending /\ Indice_DMA > 0
  <2>1. beatsLeft = Burst - Indice_DMA /\ target = <<Base, Offset>>
    BY <1>6 DEF BusInv, AddressInv
  <2>2. beatsLeft # 0 /\ Burst - beatsLeft = Indice_DMA
    BY <1>1, <1>2, <2>1
  <2>3. stored' = [at |-> <<Base, Offset>>, beat |-> Indice_DMA, word |-> AM_DataWrite]
    BY <1>6, <2>1, <2>2 DEF Fabric
  <2>4. QED
    BY <1>3, <1>6, <2>3 DEF WordsInPlace, WordsInv
<1>7. CASE Takes(wait) /\ LastBeat
  <2>1. beatsLeft = 1 /\ target = <<Base, Offset - 1>> /\ Burst - 1 = Last
    BY <1>1, <1>7 DEF BusInv, AddressInv
  <2>2. stored' = [at |-> <<Base, Offset - 1>>, beat |-> Last, word |-> AM_DataWrite]
    BY <1>7, <2>1 DEF Fabric
  <2>3. QED
    BY <1>3, <1>7, <2>2 DEF WordsInPlace, WordsInv
<1>8. QED
  BY <1>2, <1>4, <1>5, <1>6, <1>7 DEF Typed, PaceInv, Takes

\* The unit, the FIFO and the bus keep step, from start to stop and again.
LEMMA InStepInit == CamInit => InStep
<1>1. CamInit => FifoInv /\ PaceInv
  BY TypedInit DEF Typed, CamInit, FifoInv, Reads, Collecting
<1>2. CamInit => StreamInv /\ WordsInv
  BY DEF CamInit, StreamInv, WordsInv, InHand, Collecting, Sending, LastBeat
<1>3. CamInit => WordsInPlace
  BY DEF CamInit, WordsInPlace
<1>4. QED
  BY <1>1, <1>2, <1>3, BusInvInit DEF InStep

\* The inductive step: each part of InStep is kept by an edge of the whole.
LEMMA InStepStep ==
  ASSUME SoftwareWaits, ~LastBeatStalls
  PROVE  Typed /\ InStep /\ [CamNext]_camVars => Typed' /\ InStep'
<1>1. ASSUME Typed, InStep, NEW display \in Zones, NEW start \in BOOLEAN,
             NEW push \in BOOLEAN, NEW wait \in BOOLEAN,
             CamEdge(display, start, push, wait)
      PROVE  Typed' /\ InStep'
  <2>1. Typed' /\ PaceInv'
    BY <1>1, TypedStep DEF Typed
  <2>2. FifoInv' /\ BusInv' /\ AddressInv'
    BY <1>1, FifoStep, BusStep DEF InStep
  <2>3. StreamInv' /\ (Collecting' => q' \in {Stale, WordOf(Offset', Indice_FIFO')})
    BY <1>1, StreamStep DEF InStep
  <2>4. WordsInv'
    BY <1>1, <2>3, WordsStep DEF InStep, CamEdge
  <2>5. WordsInPlace'
    BY <1>1, PlaceStep DEF InStep, CamEdge
  <2>6. QED
    BY <2>1, <2>2, <2>3, <2>4, <2>5 DEF InStep
<1>2. Typed /\ InStep /\ UNCHANGED camVars => Typed' /\ InStep'
  <2>1. Typed /\ UNCHANGED camVars => Typed' /\ PaceInv'
    BY TypedStutter DEF Typed
  <2>2. FifoInv /\ BusInv /\ AddressInv /\ UNCHANGED camVars
          => FifoInv' /\ BusInv' /\ AddressInv'
    BY DEF FifoInv, BusInv, AddressInv, Reads, Collecting, Sending, LastBeat,
           camVars, fsmVars, fifoVars, busVars
  <2>3. StreamInv /\ UNCHANGED camVars => StreamInv'
    BY DEF StreamInv, WordsRead, Collecting, Sending, camVars, fsmVars, fifoVars
  <2>4. WordsInv /\ UNCHANGED camVars => WordsInv'
    BY DEF WordsInv, InHand, Collecting, Sending, LastBeat, camVars, fsmVars, fifoVars
  <2>5. WordsInPlace /\ UNCHANGED camVars => WordsInPlace'
    BY DEF WordsInPlace, camVars, busVars
  <2>6. QED
    BY <2>1, <2>2, <2>3, <2>4, <2>5 DEF InStep
<1>3. QED
  BY <1>1, <1>2 DEF CamNext

\* The unit, its FIFO, the bus and the memory stay in step: the invariant from
\* which the places of the words follow.
THEOREM UnitStaysInStep ==
  ASSUME SoftwareWaits, ~LastBeatStalls
  PROVE  CamSpec => []InStep
<1>1. CamInit => Typed /\ InStep
  BY TypedInit, InStepInit
<1>2. QED
  BY <1>1, InStepStep, PTL DEF CamSpec

\* Every word of the camera is stored where its number says, with none skipped,
\* repeated or shifted, across bursts, frames, stalls, stops and restarts.
THEOREM WordsStayInPlace ==
  ASSUME SoftwareWaits, ~LastBeatStalls
  PROVE  CamSpec => []WordsInPlace
<1>1. InStep => WordsInPlace
  BY DEF InStep
<1>2. QED
  BY <1>1, UnitStaysInStep, PTL

=============================================================================
