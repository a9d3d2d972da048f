-------------------------------- MODULE I2c ---------------------------------
(***************************************************************************)
(* The I2C controller (i2c_core.vhd, i2c_interface.vhd, i2c_clkgen.vhd),   *)
(* its driver (i2c.c) and the device on the two wires.                     *)
(*                                                                         *)
(* One step is one rising edge of clk; the processes compute their         *)
(* registers from the registers and wires before the edge.  The software   *)
(* makes at most one access per edge and may wait any number of them.  A   *)
(* byte is its bits, the most significant first, as they cross the wire.   *)
(*                                                                         *)
(* A definition named Faulty... is a variant of the one below it, with a   *)
(* bug that one of the properties has to notice; nothing else uses it.     *)
(***************************************************************************)
EXTENDS Integers, Sequences

CONSTANTS
  Bits,                  \* bits of a byte (8)
  Divisor,               \* i_clkdiv_reg: a pulse of sclk every Divisor + 1 edges
  AddrW, AddrR,          \* device & 0xFE, device | 0x01
  Indexes, Words,        \* registers of the device, what they may hold
  WriteSizes, ReadSizes, \* numbers of data bytes of a call
  CpuRestarts            \* calls ("write", "read") a restart may interrupt

Bit   == {0, 1}
Byte  == [1..Bits -> Bit]

ASSUME I2cConstants ==
  /\ Bits \in Nat \ {0}
  /\ Divisor \in Nat
  /\ CpuRestarts \subseteq {"write", "read"}

VARIABLES
  \* i2c_core
  p_state, i_ctr, i_dout, i_ack_out,
  scl_out, sda_out, data_out, ack_out, cmd_done,
  \* i2c_interface
  scl_in, sda_in, write_reg, read_reg, start_reg, stop_reg, ack_reg,
  i_data_in, cmd_done_ack,
  \* i2c_clkgen
  clk_ctr, sclk,
  \* i2c.c
  pc, call, step, value, outcome,
  \* the device: what it is doing, its registers, its hold on SDA, and the
  \* wires as it saw them last
  dev, memory, dev_sda, scl_was, sda_was,
  \* history: the items that crossed the wires in this call
  wire

coreVars   == <<p_state, i_ctr, i_dout, i_ack_out,
                scl_out, sda_out, data_out, ack_out, cmd_done>>
ifVars     == <<scl_in, sda_in, write_reg, read_reg, start_reg, stop_reg,
                ack_reg, i_data_in, cmd_done_ack>>
clkVars    == <<clk_ctr, sclk>>
driverVars == <<pc, call, step, value, outcome>>
devVars    == <<dev, memory, dev_sda, scl_was, sda_was>>
i2cVars    == <<coreVars, ifVars, clkVars, driverVars, devVars, wire>>

T == INSTANCE I2cTransfer WITH
       Byte <- Byte, call <- call, wire <- wire, memory <- memory,
       outcome <- outcome,
       value <- IF outcome = "SUCCESS" THEN value ELSE <<>>

Scl == scl_out
Sda == IF sda_out = 0 \/ dev_sda = 0 THEN 0 ELSE 1   \* open collector
TIP == write_reg = 1 \/ read_reg = 1                 \* transfer in progress

-----------------------------------------------------------------------------
(* i2c_core: the outputs and the successor of each state.                  *)

Unclocked == {"Reset", "Idle", "Done", "DoneAck", "Rd_C", "Rd_F", "Wr_E", "RdAck_C"}
Writing   == {"Wr_A", "Wr_B", "Wr_C", "Wr_D", "Wr_E"}
AckOut    == {"WrAck_A", "WrAck_B", "WrAck_C", "WrAck_D"}
States    == Unclocked \cup Writing \cup AckOut
               \cup {"Start_A", "Start_B", "Start_C", "Start_D",
                     "Rd_A", "Rd_B", "Rd_D", "Rd_E",
                     "RdAck_A", "RdAck_B", "RdAck_D", "RdAck_E",
                     "Stop_A", "Stop_B", "Stop_C"}

i_scl_out ==
  CASE p_state \in {"Idle", "Start_A", "Done", "DoneAck"} -> scl_in
    [] p_state \in {"Start_D", "Rd_A", "Rd_E", "Rd_F", "WrAck_A", "WrAck_D",
                    "Wr_A", "Wr_D", "Wr_E", "RdAck_A", "RdAck_E", "Stop_A"} -> 0
    [] OTHER -> 1

FaultySdaReleasedAtOnce ==
  CASE p_state \in {"Idle", "Done", "DoneAck"} -> sda_in
    [] p_state \in {"Start_C", "Start_D", "Stop_A", "Stop_B"} -> 0
    [] p_state \in Writing \ {"Wr_D"} -> i_data_in[i_ctr + 1]
    [] p_state \in AckOut -> ack_reg
    [] OTHER -> 1

i_sda_out ==
  CASE p_state \in {"Idle", "Done", "DoneAck"} -> sda_in
    [] p_state \in {"Start_C", "Start_D", "Stop_A", "Stop_B"} -> 0
    [] p_state \in Writing -> i_data_in[i_ctr + 1]
    [] p_state \in AckOut -> ack_reg
    [] OTHER -> 1

\* States with a single successor.
Then ==
  [Reset |-> "Idle",
   Start_A |-> "Start_B", Start_B |-> "Start_C", Start_C |-> "Start_D",
   Rd_A |-> "Rd_B", Rd_B |-> "Rd_C", Rd_C |-> "Rd_D", Rd_D |-> "Rd_E", Rd_F |-> "Rd_A",
   WrAck_A |-> "WrAck_B", WrAck_B |-> "WrAck_C", WrAck_C |-> "WrAck_D",
   Wr_A |-> "Wr_B", Wr_B |-> "Wr_C", Wr_C |-> "Wr_D", Wr_E |-> "Wr_A",
   RdAck_A |-> "RdAck_B", RdAck_B |-> "RdAck_C", RdAck_C |-> "RdAck_D",
   RdAck_D |-> "RdAck_E",
   Stop_A |-> "Stop_B", Stop_B |-> "Stop_C", Stop_C |-> "Done",
   Done |-> "DoneAck"]

Transfer(otherwise) ==
  CASE write_reg = 1 -> "Wr_A" [] read_reg = 1 -> "Rd_A" [] OTHER -> otherwise

FaultyLastBit == i_ctr = Bits

LastBit == i_ctr = Bits - 1

n_state ==
  CASE p_state \in DOMAIN Then -> Then[p_state]
    [] p_state = "Idle" -> IF TIP /\ start_reg = 1 THEN "Start_A" ELSE Transfer("Idle")
    [] p_state = "Start_D" -> Transfer("Start_D")
    [] p_state = "Rd_E" -> IF LastBit THEN "WrAck_A" ELSE "Rd_F"
    [] p_state = "Wr_D" -> IF LastBit THEN "RdAck_A" ELSE "Wr_E"
    [] p_state \in {"WrAck_D", "RdAck_E"} -> IF stop_reg = 1 THEN "Stop_A" ELSE "Done"
    [] p_state = "DoneAck" -> IF cmd_done_ack = 1 THEN "Idle" ELSE "DoneAck"

i2c_core ==
  /\ p_state' = IF sclk = 1 \/ p_state \in Unclocked THEN n_state ELSE p_state
  /\ i_ctr' = CASE p_state = "Idle"             -> 0
                [] p_state \in {"Rd_F", "Wr_E"} -> (i_ctr + 1) % Bits
                [] OTHER                        -> i_ctr
  /\ i_dout' = IF p_state = "Rd_C" THEN [i_dout EXCEPT ![i_ctr + 1] = sda_in] ELSE i_dout
  /\ i_ack_out' = IF p_state = "RdAck_C" THEN sda_in ELSE i_ack_out
  /\ scl_out' = i_scl_out
  /\ sda_out' = i_sda_out
  /\ data_out' = i_dout
  /\ ack_out' = i_ack_out
  /\ cmd_done' = IF p_state \in {"Done", "DoneAck"} THEN 1 ELSE 0

i2c_clkgen ==
  /\ clk_ctr' = IF clk_ctr >= Divisor THEN 0 ELSE clk_ctr + 1
  /\ sclk' = IF clk_ctr >= Divisor THEN 1 ELSE 0

-----------------------------------------------------------------------------
(* i2c_interface.  An access of the software is a record: the register it  *)
(* writes and what it writes, or none.                                     *)

NoAccess       == [reg |-> "none"]
WriteData(b)   == [reg |-> "data", byte |-> b]
WriteControl(c) == [reg |-> "control", ctl |-> c]

data_in_sync(access) ==
  /\ scl_in' = Scl
  /\ sda_in' = Sda
  /\ i_data_in' = IF ~TIP /\ access.reg = "data" THEN access.byte ELSE i_data_in
  /\ ack_reg' = IF ~TIP /\ access.reg = "control" THEN access.ctl.ack ELSE ack_reg
  /\ LET new == CASE ~TIP /\ access.reg = "control" -> access.ctl
                  [] TIP /\ cmd_done = 1 -> [wr |-> 0, rd |-> 0, sta |-> 0, stp |-> 0]
                  [] OTHER -> [wr |-> write_reg, rd |-> read_reg,
                               sta |-> start_reg, stp |-> stop_reg]
     IN  /\ write_reg' = new.wr
         /\ read_reg'  = new.rd
         /\ start_reg' = new.sta
         /\ stop_reg'  = new.stp
  /\ cmd_done_ack' = IF TIP /\ cmd_done = 1 THEN 1 ELSE 0

-----------------------------------------------------------------------------
(* i2c.c.  A call is a sequence of commands, each one an invocation of     *)
(* set_data_control or get_data_set_control.                               *)

Wr(b, sta, stp) == [byte |-> b,
                    ctl  |-> [wr |-> 1, rd |-> 0, sta |-> sta, stp |-> stp, ack |-> 0]]
Rd(last)        == [ctl  |-> [wr |-> 0, rd |-> 1, sta |-> 0, stp |-> last, ack |-> last]]
StopAlone       == [wr |-> 0, rd |-> 0, sta |-> 0, stp |-> 1, ack |-> 0]

One(condition) == IF condition THEN 1 ELSE 0

FaultyWriteArrayNeverStops(c) ==
  <<Wr(AddrW, 1, 0), Wr(c.index, 0, 0)>> \o [i \in 1..c.size |-> Wr(c.word[i], 0, 0)]

i2c_write_array(c) ==
  <<Wr(AddrW, 1, 0), Wr(c.index, 0, 0)>>
    \o [i \in 1..c.size |-> Wr(c.word[i], 0, One(i = c.size))]

i2c_read_array(c) ==
  <<Wr(AddrW, 1, 0), Wr(c.index, 0, 0), Wr(AddrR, 1, 0)>>
    \o [i \in 1..c.size |-> Rd(One(i = c.size))]

Commands == IF call.dir = "write" THEN i2c_write_array(call) ELSE i2c_read_array(call)
Command  == Commands[step]

\* The software does not touch the controller at this edge.
Think(next) ==
  /\ pc' = next
  /\ UNCHANGED <<call, step, value, outcome>>

\* A call begins; the first wait_end_of_transfer has found the controller free.
BeginCall(c) ==
  /\ pc = "Idle" /\ ~TIP
  /\ pc' = "Data"
  /\ call' = c /\ step' = 1 /\ value' = <<>> /\ outcome' = "pending"

FinishCall(result) ==
  /\ pc' = "Idle"
  /\ outcome' = result
  /\ UNCHANGED <<call, step>>

FaultyNextCommand ==
  IF step > Len(Commands)
  THEN FinishCall("SUCCESS")
  ELSE /\ pc' = "Wait" /\ step' = step + 1
       /\ UNCHANGED <<call, outcome>>

NextCommand ==
  IF step = Len(Commands)
  THEN FinishCall("SUCCESS")
  ELSE /\ pc' = "Wait" /\ step' = step + 1
       /\ UNCHANGED <<call, outcome>>

\* wait_end_of_transfer, before and after a command.
Wait ==
  /\ pc = "Wait" /\ ~TIP
  /\ Think(IF Command.ctl.wr = 1 THEN "Data" ELSE "Control")

FaultyPollReadsOnce ==
  /\ pc = "Poll"
  /\ Think(IF Command.ctl.wr = 1 THEN "Check" ELSE "Fetch")

Poll ==
  /\ pc = "Poll" /\ ~TIP
  /\ Think(IF Command.ctl.wr = 1 THEN "Check" ELSE "Fetch")

ErrorAt(k) == IF Commands[k].ctl.sta = 1 THEN "ENODEV" ELSE "EBADACK"

FaultyCheckIgnoresData ==
  /\ pc = "Check"
  /\ IF ack_out = 1 /\ step <= 2 THEN Think("Abort") ELSE NextCommand /\ UNCHANGED value

\* The status is read for its last acknowledge bit.
Check ==
  /\ pc = "Check"
  /\ IF ack_out = 1 THEN Think("Abort") ELSE NextCommand /\ UNCHANGED value

Fetch ==
  /\ pc = "Fetch"
  /\ value' = Append(value, data_out)
  /\ NextCommand

Access ==
  CASE pc = "Data"    -> WriteData(Command.byte)
    [] pc = "Control" -> WriteControl(Command.ctl)
    [] pc = "Abort"   -> WriteControl(StopAlone)
    [] OTHER          -> NoAccess

\* A write to a register of the controller.
Write ==
  CASE pc = "Data"    -> Think("Control")
    [] pc = "Control" -> Think("Poll")
    [] pc = "Abort"   -> FinishCall(ErrorAt(step)) /\ UNCHANGED value
    [] OTHER          -> FALSE

\* The program starts again; the controller is not reset.
CpuRestart ==
  /\ pc # "Idle" /\ call.dir \in CpuRestarts
  /\ pc' = "Idle" /\ value' = <<>> /\ outcome' = "abandoned"
  /\ UNCHANGED <<call, step>>

-----------------------------------------------------------------------------
(* The device.  It takes a bit when SCL rises and acts when SCL falls,     *)
(* one clock edge after the wires changed.                                 *)

Rises  == scl_was = 0 /\ Scl = 1
Falls  == scl_was = 1 /\ Scl = 0
Starts == scl_was = 1 /\ Scl = 1 /\ sda_was = 1 /\ Sda = 0
Stops  == scl_was = 1 /\ Scl = 1 /\ sda_was = 0 /\ Sda = 1

Full(d)    == Len(d.bits) = Bits
Turn(d, m) == [d EXCEPT !.mode = m, !.bits = <<>>]
Take(d)    == [d EXCEPT !.bits = Append(@, Sda)]

\* The next bit of a register that is sent; its bytes are sent in turn.
NextBit(d) == memory[d.index][((d.nth - 1) % 2) + 1][Len(d.bits) + 1]
Sending(d) == dev' = d /\ dev_sda' = NextBit(d)

\* A byte was taken and acknowledged: an address, an index, or data.
AfterByte(d) ==
  CASE d.nth = 1 /\ d.bits = AddrR -> Sending([Turn(d, "send") EXCEPT !.nth = 1])
    [] d.nth = 2 /\ d.bits \in Indexes ->
         dev' = [Turn(d, "recv") EXCEPT !.nth = 3, !.index = d.bits] /\ dev_sda' = 1
    [] OTHER ->
         /\ dev' = [Turn(d, "recv") EXCEPT !.nth = d.nth + 1, !.first = d.bits]
         /\ dev_sda' = 1

\* The device is free to acknowledge or to refuse a byte; it refuses an
\* address that is not its own.
Answer(d) ==
  \E m \in {"accept", "refuse"} :
    /\ d.nth = 1 /\ d.bits \notin {AddrW, AddrR} => m = "refuse"
    /\ dev' = [d EXCEPT !.mode = m]
    /\ dev_sda' = IF m = "accept" THEN 0 ELSE 1

FallingEdge ==
  CASE dev.mode = "recv" /\ Full(dev)  -> Answer(dev)
    [] dev.mode = "accept"             -> AfterByte(dev)
    [] dev.mode = "refuse"             -> dev' = Turn(dev, "off") /\ dev_sda' = 1
    [] dev.mode = "send" /\ ~Full(dev) -> Sending(dev)
    [] dev.mode = "send" /\ Full(dev)  -> dev' = [dev EXCEPT !.mode = "asked"] /\ dev_sda' = 1
    [] dev.mode = "more" -> Sending([Turn(dev, "send") EXCEPT !.nth = dev.nth + 1])
    [] OTHER -> UNCHANGED <<dev, dev_sda>>

RisingEdge ==
  /\ dev' = CASE dev.mode \in {"recv", "send"} /\ ~Full(dev) -> Take(dev)
              [] dev.mode = "asked" -> IF Sda = 0 THEN [dev EXCEPT !.mode = "more"]
                                                  ELSE Turn(dev, "off")
              [] OTHER -> dev
  /\ UNCHANGED dev_sda

Stored == Rises /\ dev.mode = "accept" /\ dev.nth = 4

\* What an edge adds to the history: a condition, or the end of a byte.
Observed ==
  CASE Starts -> <<T!START>>
    [] Stops  -> <<T!STOP>>
    [] Rises /\ dev.mode \in {"accept", "refuse"} ->
         <<[kind |-> "sent", byte |-> dev.bits, ack |-> Sda = 0]>>
    [] Rises /\ dev.mode = "asked" ->
         <<[kind |-> "got", byte |-> dev.bits, ack |-> Sda = 0]>>
    [] OTHER -> <<>>

Device ==
  /\ scl_was' = Scl /\ sda_was' = Sda
  /\ memory' = IF Stored THEN [memory EXCEPT ![dev.index] = <<dev.first, dev.bits>>]
                         ELSE memory
  /\ CASE Starts -> dev' = [Turn(dev, "recv") EXCEPT !.nth = 1] /\ dev_sda' = 1
       [] Stops  -> dev' = Turn(dev, "off") /\ dev_sda' = 1
       [] Rises  -> RisingEdge
       [] Falls  -> FallingEdge
       [] OTHER  -> UNCHANGED <<dev, dev_sda>>

-----------------------------------------------------------------------------
Zeros == [i \in 1..Bits |-> 0]

I2cInit ==
  /\ p_state = "Reset" /\ i_ctr = 0 /\ i_dout = Zeros /\ i_ack_out = 0
  /\ scl_out = 1 /\ sda_out = 1 /\ data_out = Zeros /\ ack_out = 0 /\ cmd_done = 0
  /\ scl_in = 1 /\ sda_in = 1
  /\ write_reg = 0 /\ read_reg = 0 /\ start_reg = 0 /\ stop_reg = 0 /\ ack_reg = 0
  /\ i_data_in = Zeros /\ cmd_done_ack = 0
  /\ clk_ctr = 0 /\ sclk = 1
  /\ pc = "Idle" /\ call \in T!Calls /\ step = 1 /\ value = <<>> /\ outcome = "none"
  /\ \E i \in Indexes : dev = [mode |-> "off", bits |-> <<>>, nth |-> 1,
                               index |-> i, first |-> Zeros]
  /\ memory \in [Indexes -> Words] /\ dev_sda = 1 /\ scl_was = 1 /\ sda_was = 1
  /\ wire = <<>>

Clocked(access) ==
  /\ i2c_core /\ i2c_clkgen /\ data_in_sync(access) /\ Device

\* The software goes on with a call, begins one, or lets the clock run.
Proceed ==
  /\ \/ (Wait \/ Poll \/ Check \/ Fetch) /\ Clocked(NoAccess)
     \/ Write /\ Clocked(Access)
  /\ wire' = wire \o Observed

Invoke == \E c \in T!Calls : BeginCall(c) /\ Clocked(NoAccess) /\ wire' = Observed

Tick    == UNCHANGED driverVars /\ Clocked(NoAccess) /\ wire' = wire \o Observed
Restart == CpuRestart /\ Clocked(NoAccess) /\ wire' = wire \o Observed

I2cNext == Proceed \/ Invoke \/ Tick \/ Restart

I2cSpec == I2cInit /\ [][I2cNext]_i2cVars

\* The clock runs, and software that can go on with a call does.
I2cFairSpec == I2cSpec /\ WF_i2cVars(I2cNext) /\ WF_i2cVars(Proceed)

-----------------------------------------------------------------------------
(* Properties.                                                             *)

\* Every register has its type; the bit counter and the history stay small.
I2cTypeOK ==
  /\ p_state \in States /\ i_ctr \in 0..Bits - 1
  /\ {i_dout, data_out, i_data_in} \subseteq Byte
  /\ {i_ack_out, ack_out, scl_out, sda_out, cmd_done, scl_in, sda_in, write_reg,
      read_reg, start_reg, stop_reg, ack_reg, cmd_done_ack, sclk, dev_sda,
      scl_was, sda_was} \subseteq Bit
  /\ clk_ctr \in 0..Divisor
  /\ pc \in {"Idle", "Wait", "Data", "Control", "Poll", "Check", "Fetch", "Abort"}
  /\ call \in T!Calls /\ step \in 1..Len(Commands)
  /\ outcome \in {"none", "pending", "abandoned", "SUCCESS", "ENODEV", "EBADACK"}
  /\ memory \in [Indexes -> Words]
  /\ Len(wire) <= Len(T!Script(call))

\* The wires carry exactly the items of the call, in order, each once, up to
\* the first refusal, and the call returns what happened: the controller's
\* four-phase bits, the command handshake (i2c_interface.vhd:300-315) and the
\* polling of i2c.c together make what I2cTransfer promises.
ImplementsTransfer == T!TransferSpec

\* SDA and SCL never move at the same edge, so no bit can be mistaken for a
\* start or stop condition, nor the other way round (the phases A to E).
WiresMoveApart == [][Scl' # Scl => Sda' = Sda]_i2cVars

\* A call that returned success left the bus free; with no data byte there is
\* no stop condition, and the bus stays taken (i2c.c:231).
SuccessFreesBus ==
  pc = "Idle" /\ outcome = "SUCCESS" /\ call.size > 0 =>
    Scl = 1 /\ Sda = 1 /\ dev.mode = "off"

\* A call that returned success did what it says: the written word is in the
\* device, the bytes returned are the device's (trdb_d5m_write, trdb_d5m_read).
SuccessIsDone == T!SuccessIsDone

\* A call that failed leaves the bus free, at once or later, unless the next
\* one comes before: the driver ends it with "GENERATE_STOP_SEQUENCE" (i2c.c:133
\* and its like).
ErrorFreesBus ==
  outcome \in {"ENODEV", "EBADACK"} ~> Scl = 1 \/ outcome \notin {"ENODEV", "EBADACK"}

\* Every call returns, whatever the device answers.
CallReturns == outcome = "pending" ~> outcome # "pending"

=============================================================================
