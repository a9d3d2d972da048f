# Verification of the camera-to-LCD pipeline

The repository is a system on chip (DE0-Nano-SoC, Cyclone V) that takes images
from a TRDB-D5M camera, stores them in DDR memory and shows them on an LT24
panel.  Two hand-written DMA units do the work, one behind the camera and one in
front of the panel; they rotate three frame buffers through two two-bit wires,
`Buffer_Saved` and `Display_Buffer`.  A Nios II program sets both up and
otherwise only polls registers.

Around them are the acquisition module and the clock crossing that make words of
the sensor's pixels, an I2C controller and its C driver that set the camera up,
and a frame generator with its C driver that can stand in for the camera.

This directory models all of these, with their FIFOs, buses, registers and the
software that writes them, as TLA+ modules; it checks them with TLC on small
instances and proves the main results with TLAPS for all sizes.

## 1. Inventory

| component | state it keeps | operations | talks to |
|---|---|---|---|
| Camera DMA unit, `Camera_Master_Interface.vhd` | `State`, addresses and offset, 8-word `DATA_Array`, memory zone, `Buffer_Saved`, bus outputs | one FSM, six states: collect a burst, send it, close the frame | word FIFO, Avalon write bus, LCD unit |
| Camera registers, `Camera_Slave_Interface.vhd` and `Camera_function.c` | start bit, address, length | register write, read | camera DMA unit, FIFO clear |
| Word FIFO, `FIFO_Master_Interface_Avalon_Bus.vhd` | 32 words | write, read, clear; `almost_empty` | camera DMA unit |
| Acquisition, `Camera_Acquisition_module.vhd` | FSM, line and pixel counters, line store | edges of FVAL/LVAL, Bayer pairing | camera pins, crossing FIFO |
| Clock crossing, `Top_Level.vhd` | dual-clock FIFO, two flags of `Transfert_Fifo` | write, read, pass a word on | acquisition, word FIFO |
| LCD DMA unit, `LCD/Master_Interface.vhd` | FSM of nine states, addresses, word counter | latch a buffer, read bursts, end the pass | Avalon read bus, LCD FIFO, controller |
| LCD FIFO, `FIFO_intel.vhd` | 512 words in, 1024 halves out | write, read; full and empty seen late | both its neighbours |
| Panel controller, `LCD_Control.vhd` | FSM of eleven states, time and word counters | send a command, a datum, a frame | LCD FIFO, LCD unit, panel pins |
| LCD registers, `Slave_Interface.vhd` | command, state, their copies | register write, automatic clear | driver, controller |
| LCD driver, `LCD_function.c` | its place in a request | poll, write the command, write the state, configure | LCD registers, memory |
| I2C controller, `i2c_core.vhd`, `i2c_interface.vhd`, `i2c_clkgen.vhd` | FSM of thirty states, bit counter, command bits | start, write, read, stop | driver, two wires |
| I2C driver, `i2c.c`, `function_i2c.c` | its place in a transfer | write or read bytes of a register, poll | controller |
| CMOS generator, `cmos_sensor_output_generator.vhd` | FSM of six states, counters, six registers | start, stop, a pixel per clock | stands in for the camera |
| Generator driver, `cmos_sensor_output_generator.c` | its place in a call | init, configure, start, stop | generator |
| `main.c`, `Memory_Access.c` | none | straight-line calls | all of the above |
| BSP, PLL, HPS hand-off, scripts | - | - | vendored or generated |

What makes them hard:

* **Interleaving.** Both units run on one clock and see each other's registers
  as they were before the edge.  The camera chooses its next zone at the edge at
  which the LCD may be latching one (`Camera_Master_Interface.vhd:76`,
  `Master_Interface.vhd:158`).
* **Late views.** The FIFO answers a read one cycle late, `dcfifo` shows each
  side the other's accesses a few cycles late, the LCD registers are copied once
  before the controller sees them.
* **Decisions taken once and used long.** One look at `almost_empty` starts the
  blind collection of eight words; one look at `Full_FIFO` starts a burst of
  sixteen; `Empty_16` sends 32 pixels without looking at all.
* **Waiting on each other.** LCD unit and controller hand the FIFO back and
  forth through one-cycle pulses.
* **Two clocks.** The sensor's clock and the FPGA's meet in one FIFO; the stop bit
  takes the first away altogether, because it resets the PLL behind it
  (`Top_Level.vhd:147`).
* **Handshakes of flags.** A command of the I2C driver goes through three flags,
  each seen one edge late; the generator ignores a command in the wrong state.
* **Stops and restarts.** The camera is stopped in the middle of a burst, of a line
  or of a frame; the Nios program is restarted under a running display or a
  transfer.

What makes each correct:

* camera unit: the n-th word of the camera's frame is the n-th word of the
  buffer; bursts have the length announced; a frame is announced when it is all
  there; frames keep coming;
* handshake: neither unit works in the other's buffer, except as stated below;
* LCD unit and controller: no pixel lost, invented, left behind or read from
  elsewhere; requests sent once and kept; display never stuck;
* acquisition and crossing: each word holds the next two blocks of the frame,
  lines paired with the right lines, nothing lost or doubled, and a start does
  not begin in the middle of a frame;
* I2C: a call puts exactly its conditions and bytes on the wires, returns what
  happened, and leaves the bus free;
* generator: no counter misses the value it stops on, a stop is heard in every
  state, a configure that reports success has been done.

`PROJECT.json` lists the hazards line by line.

## 2. Modules

```
CameraMaster ----+                    TripleBuffer (abstract)
                 +--> VideoPipeline --- TB == INSTANCE TripleBuffer WITH ...
LcdEngine -------+         |
   |                 MCVideoPipeline
   +--> LcdEngineProofs
CameraMasterProofs --> VideoPipelineProofs          TripleBufferProofs

CmosGenerator --+
Acquisition ----+--> Capture --> MCCapture
ClockCrossing --+       +--> CaptureProofs --------+
      |                                            +--> CapturePathProofs
      +--> ClockCrossingProofs --------------------+
      +--- Channel == INSTANCE WordChannel WITH ... (abstract)

I2c --> MCI2c
 +--> I2cProofs
 +--- T == INSTANCE I2cTransfer WITH ... (abstract)
```

Data flow from left to right through `Capture` (sensor to words), `CameraMaster`
(words to memory) and `LcdEngine` (memory to panel).  In `CameraMaster`,
`LcdEngine`, `VideoPipeline` and `I2c` one step is one rising clock
edge: the processes of a unit are conjoined, each reading the registers before
the edge, and what is not on the chip (bus, camera, software) is chosen by `\E`.

**CameraMaster.** `AvalonBus` has a disjunct for each state of the FSM;
`IDLE_FOR_READY` has three (`NewFrame`, `SameFrame`, `Stopped`).  `NextZone` is
the nested choice of lines 76 to 106.  `ScFifo` is the word FIFO with the clear
that `Top_Level` ties to the start bit; `Fabric` is the Avalon slave, which
counts the beats it was promised; `WriteStart` is the start bit.  An address is
`<<zone, burst>>`.  A word is its number in the camera's stream since the last
start, modulo a frame, so that its right place can be told from the word itself;
a word the FIFO did not supply is `Stale`.  `stored` remembers the last word the
memory took.

**LcdEngine.** `Master`, `LCD_Control`, `AvalonWrite`/`Communication` and `Fifo`
are the four entities, `Driver` the software.  Pixels are counted, not carried.
`readerSees[a]` is the FIFO's fill level as the reader would see it if writes
needed `a` cycles to reach it: `readerSees[0]` is the true level and
`readerSees[SyncDelay]` what `Empty_FIFO` is computed from; `writerSees` the same
for `Full_FIFO`.  `shown` and `strobes` are history: halves of the frame sent,
and writes to the panel for the last request.  In `Driver`, polling, writing the
command and writing the state are separate steps; `CpuRestart` is a restart of the
program without a reset of the FPGA, whose `LCD_Configuration` first clears both
registers and then writes a frame of memory and reads it back word by word
(`Fill_Memory_RGBG`), which takes longer than the panel needs for the rest of its
frame (22 cycles for each word): that is why `DriverFillsMemory` waits for a
settled controller.

**TripleBuffer.** What the units promise each other, without bursts, FIFOs or
buses: `Publish`, `Restart`, `Latch`, `Release`, for any set of buffers.

**VideoPipeline.** Both units, cross-wired as in the top level.  `writing` is
`Base`, `claimed` is `Zone`, `saved` is `Buffer_Saved`, and the LCD `reading`
`BufferUsed` from the edge that leaves `Copy` to the one that re-enters `Init`.

**CmosGenerator.** `MM_WRITE` is the register process, `STATE_LOGIC` has a
disjunct for each state.  The four blank counters are one, since each is set to 1
on entry to its own state and looked at nowhere else.  `Driver` makes the accesses
of a call one at a time (`configure` is a stop, then for each register a check of
its bounds, a read of the status and the write); `Programs` are the sequences of
calls.  Two accesses are never at neighbouring edges, as a Nios II access takes
longer.  The generator is not instantiated in the delivered system
(`Frame_Generator` is 0 in `Configuration.h`); here it is the source that gives
acquisition every kind of frame and every moment to stop, in the place of the D5M.

**Acquisition.** `Camera_Acq` has a disjunct for each branch of the falling-edge
process, `FIFO_Store_Line` is the line store at the rising edge before it.  A pixel
stands for itself, so that a block of the output says which sensor pixels it was
made of; of line and pixel number only the parity matters and is kept.

**ClockCrossing.** `WriteEdge` and `ReadEdge` are the two clocks of the dual-clock
FIFO; as in `LcdEngine`, each side's view of the level is an array over the age of
what it has not yet seen.  `ReadEdge` also has `Transfert_Fifo` and the start bit,
which clears the FIFO while it is off.

**WordChannel.** The abstract channel: pixels go in one by one, come out in pairs,
each once and in order, until a clear.  The mapping puts the word that has been read
but not yet written (`Pending`) in front of the FIFO's cells.

**Capture.** The three together.  A step is one period of the camera's clock
(`PixelClock`: rising edge, then falling edge) or one edge of the FPGA's
(`FpgaClock`).  They interleave freely, except that no more than `MaxRatio` periods
of the first fall between two edges of the second: both are 50 MHz in the delivered
configuration (the sensor's input clock is `FPGA_CLK1_50`).  A stop resets the PLL;
the acquisition then sees one last period or none.  Three history variables say
what the words of a stream can be: `stream` is "aligned" if the acquisition took up a
frame at its first blank after the last start and the source has not been stopped
since, `count` is the number of words since then, `metStop` whether the last stop was
seen in a frame.

**I2c.** `i2c_core`, `i2c_clkgen` and `data_in_sync` are the processes of the
controller; `i_scl_out`, `i_sda_out` and `n_state` the three columns of its table of
states.  A call of the driver is a sequence of commands (`i2c_write_array`,
`i2c_read_array`; `i2c_write` and `i2c_read` are those with one byte), each of which
goes through `Wait`, `Write` (data, then control), `Poll` and `Check` or `Fetch`.
`Device` is external: a device that follows the I2C protocol on the two wires, takes
its own address, may refuse any byte, and stores or sends the two bytes of a register.
`CpuRestart` restarts the program during a write.

**I2cTransfer.** What a call promises: its `Script` of start and stop conditions and
bytes crosses the wires item by item, up to the first refusal, and the return code
tells how far (`Verdict`).

Definitions named `Faulty...` are variants of the definition that follows them,
each with one plausible bug; the modules never use them.  They are there so that
it can be shown, by substituting them, that each property notices something.

## 3. Runs

| run | instance | shows |
|---|---|---|
| `CameraMaster.cfg` | burst 3, 2 bursts per frame, FIFO of 4 | types, `WordsInPlace`, `NoUnderflow`, `BurstIsWhole`, the inductive invariant `InStep`, `FrameIsStored`, and that frames keep coming (`FramesComplete`) |
| `CameraMasterStall.cfg` | the same, last beat may stall | `BurstIsWhole` is violated |
| `CameraMasterRestart.cfg` | the same, without that | `SavedIsWritten` is violated |
| `LcdFrames.cfg` | bursts of 2 words, 3 per frame, FIFO of 2 bursts, program restarts | `BurstHasRoom`, `PixelIsThere`, `WholeFrame`, `ReadsInBuffer` |
| `LcdRequests.cfg` | the same, no restart | `DoneIsSent`, `RequestIsKept`, and liveness: `RequestIsDone`, `DisplayGoesOn` |
| `LcdRestart.cfg` | with restart | `RequestIsKept` is violated |
| `VideoPipeline.cfg` | smallest sizes for both units, continuous display | the pipeline implements `TripleBuffer` (`ImplementsTripleBuffer`), and what follows for the registers: `TearNeedsRace`, `RotationIsKept`, `TearEndsWithFrame` |
| `VideoPipelineRace.cfg` | the same | `StoredThenRead` is violated |
| `Capture.cfg` | two programs for the source, FIFO of 3, two starts | `WordsInOrder`, `NothingLost`, `ImplementsChannel`, `StopResynchronises`; of the generator `CountersStop`, `ConfigureIsDone`, `StopIsHeard`; and that words keep coming (`WordsKeepComing`) |
| `CaptureColours.cfg` | the same | `ColoursInPlace` is violated |
| `I2c.cfg` | bytes of three bits, one register, two contents | the wires carry what `I2cTransfer` says (`ImplementsTransfer`), `WiresMoveApart`, `SuccessIsDone`, `SuccessFreesBus`, and every call returns (`CallReturns`) |
| `I2cRelease.cfg` | the same | `ErrorFreesBus` is violated |

**Bounds.** Every counter is bounded by the hardware's own registers; no state
constraint is used.  The sizes are chosen so that each branch is taken:

* a burst of 3 has a first, a middle and a last beat, which the FSM treats
  differently; two bursts per frame give a burst that ends a frame and one that
  does not; a FIFO of 4 can be below, at and above the threshold, and full;
* three bursts per LCD frame and a FIFO of two make the unit wait for room
  (`Wait_LCD_Control`) and end a pass with a FIFO that is not empty;
* `SyncDelay` is 2: an access is seen neither at once nor in the next cycle.
  What could go wrong with late views needs them to be late by one cycle or more;
* the panel's nine cycles per write are `TaskTime + 1` = 2: a task needs a
  cycle in which it is under way and one in which it ends;
* `MCVideoPipeline` fixes `op` and `Buffer_Saved` (registers power up as 0) to
  start where `main.c` has arrived: a display that runs and a camera that may be
  started and stopped at will.

* `Capture`: frames of 8 by 2 and of 2 by 4 are lines of several blocks and several
  pairs of lines; a `lineLine` of 0 is out of bounds and so makes a configure fail in
  the middle; the second program reconfigures and stops a source that runs.  A line
  store of 4 holds exactly the longest line.  `MaxStarts` = 2 bounds the starts of the
  camera: a start after a stop at every moment of a frame.  With `SyncDelay` 1, a FIFO
  of 3 is the least that loses nothing at equal clocks; the real one (delay 4, depth 8)
  needs 6.  At twice the FPGA's clock it would need 9: the 95 MHz of the sensor's PLL,
  which `function_i2c.c:90` has commented out, would lose pixels;
* `I2c`: a byte of three bits has a first, a middle and a last one; `Divisor` 1 makes
  a phase of two edges, in which clocked and unclocked states differ.  Sizes 0, 1 and 2
  are all the cases of the loops.

The bus may stall any beat it may legally stall, for as long as it likes; words
come at any rate; the software acts at any time.

**Fairness.** Safety runs assume none.  `CamFairSpec`: the clock runs, an
offered beat is eventually taken (Avalon slaves do not stall for ever), a running
camera eventually delivers a word when the FIFO is short.  `LcdFairSpec`: the
clock runs, an offered read is eventually accepted and its words returned.  These
are statements about parts outside the units.  Nothing is assumed of the software:
the driver need never act, and `FramesComplete` and `DisplayGoesOn` are conditional
on a camera that stays on and on a display that has been asked for.
`DisplayGoesOn` asks for beginnings and for ends of passes without end (`Copy` of the
DMA unit, `End_Display` of the controller): either alone would also hold of a display
that stands still after its first frame.  `FramesComplete` asks for ends of frames and
for offsets of 0 alike.

`CaptureFairSpec`: both clocks run, and a PLL that
is given time again and again locks.  `I2cFairSpec`: the clock runs, and software that
can go on with a call does (the driver is a loop without blocking calls); beginning a
call, and the device's answers, are free.

**Two constants are assumptions about the surroundings.**  `SoftwareWaits`: the
start bit is set only when the unit is at rest, as `delay(5000)` between stop and
start does (`Camera_function.c:93`).  `LastBeatStalls`: whether the interconnect
may hold back the last beat of a burst.  The first finding shows that correctness
depends on it.

## 4. Findings

1. **The last beat of a burst** (`Camera_Master_Interface.vhd:67`).  The write
   request is taken off one edge after the last word is put on the bus, whatever
   `AM_WaitRequest` says.  If the slave holds back that beat it is lost, and all
   that follows is one place late.  The unit's test bench stalls the middle of a
   burst only.
2. **Restart of the camera** (`Camera_Master_Interface.vhd:112`).  A stop resets
   the base address but not the zone index, so the first frame after the next
   start is written to zone 0 and announced as the zone of before.
3. **Restart of the program** (`LCD_Control.vhd:113`).  Registers reset during a
   display leave the controller in `End_Display`; it takes the first request of
   the new program for the end of the old one and reports it done, unsent.
4. **The race for a buffer** (`Camera_Master_Interface.vhd:76`).  When the LCD
   latches at the very edge at which the camera switches, both may end up in one
   buffer for a frame.  `TearNeedsRace` says that nothing else causes it while the
   camera runs and the buffers rotate, `TearEndsWithFrame` that it lasts at most
   until the camera's frame ends.

5. **The stop request after a refused byte** (`i2c.c:133`).  The driver ends a failed
   transfer with the stop bit alone; the controller leaves `Idle` only for a read or a
   write, so no stop condition is made and the clock line stays low until the next
   call.  Calls that succeed do free the bus (`SuccessFreesBus`).
6. **Green for blue** (`Camera_Acquisition_module.vhd:141`).  In odd lines the even
   pixel is blue and the odd one green, by the module's own comments; the output adds
   the blue one to the green of the line above and calls the green one blue.

## 5. Proofs

All theorems hold for every value of the constants that the named assumptions of
the modules allow (`CamConstants`, `LcdConstants`, `BufferConstants`,
`CrossingConstants`, `AcquisitionConstants`, `GeneratorConstants`,
`CaptureConstants`, `I2cConstants`).  Where a theorem needs more, it says so in its
own `ASSUME`; these further assumptions are listed at the end of this section, each
with the values of the delivered system.

**Camera unit** (`CameraMasterProofs`)

* `CamTypeCorrect`: `CamTypeOK`, with nothing assumed of bus or software.  Types
  alone are not inductive: that `Offset`, the array indices and the bus count stay
  in range needs `PaceInv` (where the unit is in a burst and in a frame), and the
  two together, `Typed`, are (`CamIsTyped`).
* `ReadsAreFed` (`NoUnderflow`), from `SoftwareWaits`: `FifoInv` says that the
  FIFO is read in exactly the cycles that collect a burst and holds what is left
  of it.
* `BurstsAreWhole` (`BurstIsWhole`) and `FramesAreStored` (`FrameIsStored`), from
  `~LastBeatStalls`: `BusInv` ties the bus's count of beats to the unit's index,
  `AddressInv` the address on the bus to `Base` and `Offset`.
* `WordsStayInPlace` (`WordsInPlace`), from both: `StreamInv` says that the word
  at the head of the FIFO is the one after the last one collected, `WordsInv` that
  each word in the array, in the output register and on the bus is the one its
  place calls for.  All parts together are `InStep` (`UnitStaysInStep`), which the
  camera run also checks.

**Handshake** (`TripleBufferProofs`, `VideoPipelineProofs`)

* `TearsNeedARace`, `RotationLasts`, `TearsEnd` of `TripleBuffer`, for any set of
  buffers.
* `PipelineRefines` (`ImplementsTripleBuffer`): Initial states and steps map.  The
  argument needs very little of the units: that their zones are zones
  (`HandshakeOK`), that `NextZone` avoids both the announced and the displayed zone
  (`NextZoneIsFree`), and which of their states touch the four registers.
  `PipelineTearsNeedARace`, `PipelineRotationLasts` and `PipelineTearsEnd` carry
  the properties of the abstract protocol over.

**Panel** (`LcdEngineProofs`)

* `BurstsHaveRoom` (`BurstHasRoom`), `PixelsAreThere` (`PixelIsThere`) and
  `FramesAreWhole` (`WholeFrame`), from `SyncIsShort`, all from one invariant,
  `FlowInv`.  `MasterInv` and `ControlInv` are the two state machines alone,
  `ViewInv` says that the late views enclose the true level
  (`readerSees[SyncDelay] <= Level <= writerSees[SyncDelay]`), `HandInv` which side
  has its turn, `CountInv` that every half that was fetched is in the FIFO, on its way
  or shown, `RoomInv` that what has been asked for has room.  None of these shows that
  a decision on a late view is right: `Empty_16` sends 32 pixels without looking, and
  `Empty` ends a frame when it sees nothing.  `SinceInv` does.  `SinceWrite` and
  `SinceRead` give, state by state, the number of edges since the last access of the
  other side, and a view that is not older than that is exact; one that is older is off
  by at most two halves for each edge.
* `LcdTypeCorrect` (`LcdTypeOK`) and `ReadsStayInBuffer` (`ReadsInBuffer`) need no
  assumption: `EngineInv` and `RegisterInv` do not depend on the delay.
* `DoneMeansSent` (`DoneIsSent`) and `RequestsAreKept` (`RequestIsKept`), from
  `~CpuRestarts`: `RequestInv` says where in the controller a request is for each
  place of the driver (`WorkInv`, `ClearInv`, `RestInv`, `PlaceInv`).  The third
  finding is the violation of `RequestIsKept` with restarts.

**I2C** (`I2cProofs`)

* `WiresStayApart` (`WiresMoveApart`), from `BytesGiven` and `DivisorGiven`: `SDA` and
  `SCL` never change at one edge, whatever software and device do. The controller
  computes the next levels of its pins from its state and holds them for a phase, the
  device moves `SDA` when `SCL` falls, and the pins are one state behind.
  `HandoverInv` ties the flags of a command to the states, which gives `HeldInv` (what
  the pins hold in each state) and `WireInv` (what the device holds).
* `I2cTypeCorrect` (`I2cTypeOK`), `SuccessesFreeBus` (`SuccessFreesBus`) and
  `SuccessesAreDone` (`SuccessIsDone`), which need `ReadsGiven` and `ReadsGoOn` too.
  Nothing in the controller knows where the device is, and nothing in the device where
  the controller is: what they agree on has to be stated bit by bit.  The invariant has
  three layers.
  `Based` is what each of the parts keeps on its own: types, the handover of a command,
  the levels of the pins, what the clock leaves time for (`PhaseInv`), and that the bits
  of the command register are those of the driver's command (`CommandInv`).
  `PlaceInv` says where the device is.  During a command (`WorkInv`) it has the bits of
  the byte up to `i_ctr`, one more after the clock pulse of that bit (`Pulse`), and in
  the acknowledge bit it is the one that answers or the one that listens.  Between two
  commands (`RestInv`) it waits for just what the driver sends next (`ReadyFor`).
  `EdgeInv` is the level of `SDA` while `SCL` is high, without which a bit could be a
  start or stop condition.
  `HistoryInv` says what crossed the wires: `CountInv` how many items there are in each
  state, `ScriptInv` that each is the one the script has there, `RefusalInv` that only
  the byte of the command under way can have been refused and that `i_ack_out` says so,
  `TakenInv` which bits of a byte the controller has sampled, `StoreInv` and `ValueInv`
  what device and driver hold of the data, `FreeInv` that a stop condition leaves the
  bus free.
* `TransferImplemented` (`ImplementsTransfer`), from the same invariants: an edge with a
  command under way lets one item cross or none (`BusyTransfers`); an edge without one
  is a step of the driver alone (`RestMoves`), which begins a call, gives it up, or
  returns.  `SuccessReturns` and `FailureReturns` show that the code returned is the
  `Verdict` on what crossed: the driver reports `ENODEV` for the commands with a start
  condition, and these are those whose byte follows a start condition on the wires
  (`ItemBefore`).

**Sensor to words** (`ClockCrossingProofs`, `CaptureProofs`, `CapturePathProofs`)

* `CrossingDelivers` (`ImplementsChannel`), for every depth, delay and interleaving of
  the clocks.  After an edge the two flags of `Transfert_Fifo` are both up exactly if
  that edge popped a word: one repeats the request it had, the other that it did not
  find the FIFO empty.  What is left to prove is that a reader that finds the FIFO not
  empty finds two pixels: `CrossingInv` says that its late view never counts more than
  there are, whatever the age of the view.
  `CrossingTyped` types the crossing on the way.
* `CountersNeverMiss` (`CountersStop`), `StopsAreHeard` (`StopIsHeard`) and
  `ConfiguresAreDone` (`ConfigureIsDone`), for every program of driver calls.  None is
  inductive alone.  `GeneratorInv` has four parts: `UnitInv` (registers within what
  the states allow), `DriverInv` (where a call can be), `HandshakeInv` (what one edge
  may leave between a command and its effect) and `ConfigureInv` (the registers that
  the present configure has already written hold their values, as long as it has not
  failed).  The step is proved for the generator and carried to `CaptureSpec`, whose
  other steps leave the generator alone.

* `CaptureTyped` (`CaptureTypeOK`) and `CaptureDelivers` (`ImplementsChannel`): the
  whole path, with generator, acquisition, both clocks and stops, is a crossing
  (`CaptureCrosses`: `CaptureSpec => CrossingSpec`), and so implements the channel.
* `StopsResynchronise` (`StopResynchronises`): `ResyncInv` says what a stop that was
  met in a frame leaves behind, until the acquisition has seen the next blank.
* `NothingIsLost` (`NothingLost`), from `ReaderKeepsUp` and `FifoSuffices`.  `PaceInv`:
  after a pixel the acquisition needs another period, so the writer makes one in two
  periods at most, while the reader takes two in an edge.  `ReaderInv` bounds the level
  by the pixels that the reader has not seen and those it is just taking, `WriterInv`
  bounds what the writer sees by the level and what was taken since.
* `WordsAreInOrder` (`WordsInOrder`), from these two and `StoreSuffices`: from a start
  that met a frame at its first blank on, the n-th word is the n-th pair of blocks of the
  frame, for every even width and height that makes whole words.  `AlignedInv` says so
  of the blocks that are still on the way: `PlaceOf` gives, for each place of the source
  in its frame, the state of the acquisition and the contents of the line store
  (`StoredLine` in a first line of a pair, `PairedLine` in the second, `BetweenThem`,
  `InFront` and `BetweenFrames` in the blanks), and `Ordered` says that the words
  delivered and the pixels in flight are the blocks up to that place, without a gap.
  `BlocksFollow` is the arithmetic: the next block in this order is the one the source's
  place makes.  `BoundInv`, `FollowsInv` and `FreshInv` say that a line fits in the
  store, that pixels are taken inside a frame only, and that a fresh stream starts with
  nothing in flight.

**Assumptions.**

| assumption | says | delivered system |
|---|---|---|
| `SoftwareWaits` | the start bit is set when the unit is at rest | `delay(5000)`, `Camera_function.c:93` |
| `~LastBeatStalls` | the bus does not hold back the last beat | not known: first finding |
| `SyncIsShort` | `SyncDelay` is at most `LcdWords + 3` and `TaskTime + 4` | bounds 19 and 12; both pipelines of the FIFO have 4 stages (`FIFO_intel.vhd:103`) |
| `~CpuRestarts` | the program is not restarted under a display | third finding |
| `BytesGiven` | the bytes of a call and the address are bytes | `uint8_t` |
| `ReadsGiven` | the two addresses differ; a read asks for one or two bytes | `device & 0xFE` and `device \| 0x01`; `i2c_read`, and `i2c_read_array` with two bytes, `function_i2c.c:23` |
| `ReadsGoOn` | the program is not restarted in a read | not known: hazard at `i2c.c:291` |
| `DivisorGiven` | `Divisor >= 1` | 50 MHz / (4 * 100 kHz) = 125, `i2c.c:93` |
| `BlocksAreGiven` | `Blocks` holds the blocks of the source's pixels | a typing of the constant |
| `ReaderKeepsUp` | `MaxRatio <= 4` | 1: both clocks are 50 MHz |
| `FifoSuffices` | `(SyncDelay + 2) * MaxRatio + SyncDelay + 1 < 2 * Depth` | 11 < 16 |
| `StoreSuffices` | `Maximum <= 2 * LineStore` | 1920 <= 2048, `cmos_sensor_output_generator_hw.tcl:58` |

They are not generous.  With `LcdWords` 1 and `TaskTime` 1, TLC finds `BurstHasRoom`
violated at a `SyncDelay` of 6, the bound being 4.  With a `Divisor` of 0 it finds `WiresMoveApart`
violated: both pins then change at one edge.  `FifoSuffices` is exact wherever TLC
was tried (`MaxRatio`, `SyncDelay`, least `Depth`: 1, 1, 3; 1, 2, 4; 2, 1, 5), and with
a `LineStore` of 3 in place of 4 `WordsInOrder` is violated.

**Only model-checked.**  Liveness (`FramesComplete`, `RequestIsDone`, `DisplayGoesOn`,
`WordsKeepComing`, `CallReturns`) is beyond this prover.  Every other property of a run
that passes is proved.

## 6. Not modelled, and the plan

Left out for good: pin levels and set-up times of the panel's bus, colour values,
the memory test and the dump of an image to the host, which are straight-line debug
code, pin assignments and scripts.  The bus fabric, the memory, the I2C device and,
for `CameraMaster`, the stream of words are modelled only by what the units rely on.
Of the I2C controller the write of the divisor register (here a constant), the interrupt
and the `BSY` bit are left out: no function that transfers anything uses them.

Of the C code in the repository nearly all is vendored or generated: the DDR
calibration sequencer of the HPS hand-off (twice), the Nios II board support package
and its HAL.  None of it is this project's logic and none is modelled, so that the
modelled C functions (`i2c.c`, `function_i2c.c`, `cmos_sensor_output_generator.c`,
`LCD_function.c`, `Camera_function.c`) are a small share of the C lines.  The logic of
the system is in its VHDL, of which every hand-written entity is modelled.

Known limits, each with its hazard in `PROJECT.json`: words lost in front of a full
word FIFO (nothing says how long the bus may stall); a stop that the acquisition does
not see because its clock is gone; frames of odd height; a read transfer that a restart
of the program interrupts, after which the device still drives `SDA`.  `WordsInOrder`
speaks of the words from a start on that met a frame at its first blank, with an even
width and height and a number of pixels that makes whole words.

Next: `Capture` and `CameraMaster` joined at the word FIFO, for the loss in front of it.
