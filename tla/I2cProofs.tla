----------------------------- MODULE I2cProofs ------------------------------
(***************************************************************************)
(* The I2C controller, its driver and the device: what TLAPS proves.       *)
(*                                                                         *)
(* The types of the registers hold for every number of bits and for any    *)
(* device.  That the two wires never move at one edge takes three more     *)
(* invariants: how a command is handed over and acknowledged, on which     *)
(* commands the clock is still held low between two of them, and where in  *)
(* its rise and fall the clock is in each state of the controller.         *)
(*                                                                         *)
(* That a call does what it says takes two layers on top of these, which   *)
(* Based collects: PlaceInv, where in a byte the device is for each place  *)
(* of the controller and the driver, and HistoryInv, which part of the     *)
(* script has crossed the wires by then and what was taken of it.  From    *)
(* the two follow the invariants of the runs and, edge by edge, that the   *)
(* three together implement the transfer.                                  *)
(***************************************************************************)
EXTENDS I2c, SequenceTheorems, TLAPS

\* What the driver is called with: addresses, indexes and contents are bytes,
\* a register has two of them, and a write has no more than that.
BytesGiven ==
  /\ AddrW \in Byte /\ AddrR \in Byte /\ Indexes \subseteq Byte
  /\ Words \subseteq [1..2 -> Byte]
  /\ WriteSizes \subseteq 0..2 /\ ReadSizes \subseteq Nat

\* i2c_init writes a divisor of 125 for the 50 MHz of the design (i2c.c:93).
DivisorGiven == Divisor >= 1

Polling  == {"Poll", "Idle"}
RdAcks   == {"RdAck_A", "RdAck_B", "RdAck_C", "RdAck_D", "RdAck_E"}
Readings == {"Rd_A", "Rd_B", "Rd_C", "Rd_D", "Rd_E", "Rd_F"}
Stopping == {"Stop_A", "Stop_B", "Stop_C"}

\* A command is under way from its write until the controller has said that
\* it is done; the driver goes on only when the controller is idle again.
HandoverInv ==
  /\ ~(write_reg = 1 /\ read_reg = 1)
  /\ pc \notin Polling => p_state = "Idle" /\ ~TIP
  /\ p_state \notin {"Reset", "Idle", "DoneAck"} => TIP
  /\ p_state \notin {"Idle", "DoneAck"} => cmd_done = 0
  /\ p_state = "DoneAck" => cmd_done = 1 /\ (TIP <=> cmd_done_ack = 0)
  /\ p_state = "Idle" /\ cmd_done = 1 => ~TIP
  /\ p_state = "Reset" => ~TIP /\ pc = "Idle"
  /\ cmd_done_ack = 1 => p_state = "DoneAck"
  /\ p_state \in Writing \cup RdAcks => write_reg = 1
  /\ p_state \in Readings \cup AckOut => read_reg = 1
  /\ p_state \in Stopping => stop_reg = 1

\* The driver is where it should be in the list of commands.
DriverInv ==
  /\ pc \in {"Idle", "Wait", "Data", "Control", "Poll", "Check", "Fetch", "Abort"}
  /\ call \in T!Calls /\ step \in 1..Len(Commands)
  /\ pc = "Data" => Command.ctl.wr = 1
  /\ pc = "Poll" /\ TIP =>
       /\ write_reg = Command.ctl.wr /\ read_reg = Command.ctl.rd
       /\ start_reg = Command.ctl.sta /\ stop_reg = Command.ctl.stp
       /\ ack_reg = Command.ctl.ack

\* Between two commands the clock stays low, except after a stop condition;
\* the command after that one has a start condition of its own.
HeldInv ==
  /\ p_state = "Idle" /\ TIP /\ start_reg = 0 => scl_out = 0
  /\ pc = "Poll" /\ Command.ctl.stp = 0 /\ ~(p_state = "Idle" /\ TIP)
       /\ p_state \in {"Idle", "Done", "DoneAck"} => scl_out = 0
  /\ pc \in {"Check", "Fetch"} /\ Command.ctl.stp = 0 => scl_out = 0
  /\ pc \in {"Wait", "Data", "Control"} /\ Command.ctl.sta = 0 => scl_out = 0

\* The states by what the clock does in them.
Latched == {"Reset", "Idle", "Start_A", "Done", "DoneAck"}
Low     == {"Wr_A", "Rd_A", "RdAck_A", "WrAck_A", "Stop_A", "Wr_E", "Rd_F"}
Rising  == {"Start_B", "Wr_B", "Rd_B", "RdAck_B", "WrAck_B", "Stop_B"}
High    == {"Wr_C", "Rd_C", "Rd_D", "RdAck_C", "RdAck_D", "WrAck_C", "Start_C", "Stop_C"}
Falling == {"Wr_D", "Rd_E", "RdAck_E", "WrAck_D", "Start_D"}

\* States of a bit, as opposed to those of a start or stop condition.
BitStates == Writing \cup RdAcks \cup Readings \cup AckOut

\* Where the clock is in each state: it rises or falls at the first edge
\* after the state is entered and is settled when the state is left, SDA has
\* taken its level before, and no bit looks like a condition to the device.
WireInv ==
  /\ scl_in = scl_was /\ sda_in = sda_was
  /\ sclk = 1 => clk_ctr = 0
  /\ p_state \in Latched => scl_out = scl_in
  /\ p_state = "Reset" => scl_out = 1
  /\ p_state \in Low => scl_out = 0 /\ scl_in = 0
  /\ p_state \in Rising => scl_out = 1 \/ scl_in = 0
  /\ p_state \in High => scl_out = 1
  /\ p_state \in Falling => scl_out = 0 \/ sclk = 0
  /\ p_state \in (Rising \cup High \cup Falling) \ {"Start_C", "Stop_C"} => sda_out = i_sda_out
  /\ p_state \in BitStates => ~Starts /\ ~Stops

\* The registers of the controller and of its interface.
RegisterInv ==
  /\ p_state \in States /\ i_ctr \in 0..Bits - 1
  /\ i_dout \in Byte /\ data_out \in Byte /\ i_data_in \in Byte
  /\ i_ack_out \in Bit /\ ack_out \in Bit /\ scl_out \in Bit /\ sda_out \in Bit
  /\ cmd_done \in Bit /\ scl_in \in Bit /\ sda_in \in Bit /\ write_reg \in Bit
  /\ read_reg \in Bit /\ start_reg \in Bit /\ stop_reg \in Bit /\ ack_reg \in Bit
  /\ cmd_done_ack \in Bit /\ sclk \in Bit /\ scl_was \in Bit /\ sda_was \in Bit
  /\ clk_ctr \in 0..Divisor

\* The device: how many bits of a byte it has taken or sent, and its registers.
Modes == {"off", "recv", "accept", "refuse", "send", "asked", "more"}

DeviceTyped(d) ==
  /\ d \in [mode : Modes, bits : Seq(Bit), nth : Nat \ {0}, index : Indexes, first : Byte]
  /\ Len(d.bits) <= Bits
  /\ d.mode \in {"accept", "refuse", "asked", "more"} => Len(d.bits) = Bits

DeviceInv ==
  /\ DeviceTyped(dev) /\ dev_sda \in Bit
  /\ memory \in [Indexes -> [1..2 -> Byte]]

-----------------------------------------------------------------------------
(* The commands of a call.                                                 *)

Control == [wr : Bit, rd : Bit, sta : Bit, stp : Bit, ack : Bit]
Entries == [byte : Byte, ctl : Control] \cup [ctl : Control]

\* What is true of every list of commands: one direction each, a start
\* condition in the first, and a stop condition at most in the last.
WellFormed(list) ==
  /\ list \in Seq(Entries) /\ Len(list) \in Nat \ {0}
  /\ list[1].ctl.sta = 1 /\ list[1].ctl.wr = 1
  /\ \A k \in 1..Len(list) :
       /\ list[k].ctl \in Control
       /\ list[k].ctl.wr = 1 <=> list[k].ctl.rd = 0
       /\ list[k].ctl.wr = 1 => list[k].byte \in Byte
       /\ k # Len(list) => list[k].ctl.stp = 0

\* The entries of the two lists, and what a call is made of.
WriteEntries(c, list) ==
  /\ c.size \in 0..2 /\ c.word \in [1..2 -> Byte] /\ c.index \in Indexes
  /\ list \in Seq(Entries) /\ Len(list) = 2 + c.size
  /\ list[1] = Wr(AddrW, 1, 0) /\ list[2] = Wr(c.index, 0, 0)
  /\ \A k \in 1..2 + c.size : k \notin {1, 2} =>
       list[k] = Wr(c.word[k - 2], 0, One(k - 2 = c.size)) /\ c.word[k - 2] \in Byte

ReadEntries(c, list) ==
  /\ c.size \in Nat /\ c.index \in Indexes
  /\ list \in Seq(Entries) /\ Len(list) = 3 + c.size
  /\ list[1] = Wr(AddrW, 1, 0) /\ list[2] = Wr(c.index, 0, 0) /\ list[3] = Wr(AddrR, 1, 0)
  /\ \A k \in 1..3 + c.size : k \notin {1, 2, 3} => list[k] = Rd(One(k - 3 = c.size))

LEMMA WriteArray ==
  ASSUME BytesGiven, NEW c, c \in T!Calls, c.dir = "write"
  PROVE  WriteEntries(c, i2c_write_array(c))
<1>1. c.size \in 0..2 /\ c.size \in Nat /\ c.word \in [1..2 -> Byte] /\ c.index \in Byte
      /\ c.index \in Indexes
  <2>1. c.size \in WriteSizes /\ c.word \in Words /\ c.index \in Indexes
    BY DEF T!Calls
  <2>2. c.word \in [1..2 -> Byte] /\ c.index \in Byte
    BY <2>1, Zenon DEF BytesGiven
  <2>3. c.size \in 0..2
    BY <2>1, Zenon DEF BytesGiven
  <2>4. QED
    BY <2>1, <2>2, <2>3
<1> DEFINE A == <<Wr(AddrW, 1, 0), Wr(c.index, 0, 0)>>
           B == [i \in 1..c.size |-> Wr(c.word[i], 0, One(i = c.size))]
<1>2. \A b \in Byte, s \in Bit, t \in Bit : Wr(b, s, t) \in Entries
  BY DEF Wr, Entries, Control, Bit
<1>3. A \in Seq(Entries) /\ Len(A) = 2 /\ A[1] = Wr(AddrW, 1, 0) /\ A[2] = Wr(c.index, 0, 0)
  BY <1>1, <1>2 DEF BytesGiven, Bit
<1>4. \A i \in 1..c.size : c.word[i] \in Byte /\ One(i = c.size) \in Bit
  BY <1>1 DEF One, Bit
<1>5. \A i \in 1..c.size : B[i] = Wr(c.word[i], 0, One(i = c.size)) /\ B[i] \in Entries
  BY <1>2, <1>4 DEF Bit
<1>6. B \in Seq(Entries) /\ Len(B) = c.size
  <2>1. B \in [1..c.size -> Entries]
    BY <1>5
  <2> HIDE DEF B
  <2>2. QED
    BY <1>1, <2>1
<1> HIDE DEF A, B
<1>7. /\ A \o B \in Seq(Entries) /\ Len(A \o B) = 2 + c.size
      /\ \A k \in 1..2 + c.size : (A \o B)[k] = IF k <= 2 THEN A[k] ELSE B[k - 2]
  <2>1. /\ A \o B \in Seq(Entries) /\ Len(A \o B) = Len(A) + Len(B)
        /\ \A k \in 1..Len(A) + Len(B) :
             (A \o B)[k] = IF k <= Len(A) THEN A[k] ELSE B[k - Len(A)]
    BY <1>3, <1>6, ConcatProperties
  <2>2. QED
    BY <1>3, <1>6, <2>1
<1>8. (A \o B)[1] = Wr(AddrW, 1, 0) /\ (A \o B)[2] = Wr(c.index, 0, 0)
  BY <1>1, <1>3, <1>7
<1>9. \A k \in 1..2 + c.size : k \notin {1, 2} =>
        /\ (A \o B)[k] = Wr(c.word[k - 2], 0, One(k - 2 = c.size))
        /\ c.word[k - 2] \in Byte
  <2>1. \A k \in 1..2 + c.size : k \notin {1, 2} => k - 2 \in 1..c.size /\ ~(k <= 2)
    BY <1>1
  <2>2. QED
    BY <1>4, <1>5, <1>7, <2>1
<1>10. i2c_write_array(c) = A \o B
  BY DEF i2c_write_array, A, B
<1>11. WriteEntries(c, A \o B)
  BY <1>1, <1>7, <1>8, <1>9 DEF WriteEntries
<1>12. QED
  BY <1>10, <1>11, Zenon

LEMMA WriteList ==
  ASSUME BytesGiven, NEW c, c \in T!Calls, c.dir = "write"
  PROVE  WellFormed(i2c_write_array(c))
<1> DEFINE L == i2c_write_array(c)
<1>1. WriteEntries(c, L)
  BY WriteArray
<1> HIDE DEF L
<1>2. \A b, s, t : Wr(b, s, t).byte = b /\ Wr(b, s, t).ctl.wr = 1 /\ Wr(b, s, t).ctl.rd = 0
                    /\ Wr(b, s, t).ctl.sta = s /\ Wr(b, s, t).ctl.stp = t
  BY DEF Wr
<1>3. \A b \in Byte, s \in Bit, t \in Bit : Wr(b, s, t).ctl \in Control
  BY DEF Wr, Control, Bit
<1>4. \A k \in 1..Len(L) :
        \E b \in Byte, s \in Bit, t \in Bit : L[k] = Wr(b, s, t) /\ (k # Len(L) => t = 0)
  <2>1. TAKE k \in 1..Len(L)
  <2>2. c.index \in Byte /\ AddrW \in Byte
    BY <1>1 DEF WriteEntries, BytesGiven
  <2>3. CASE k \in {1, 2}
    BY <1>1, <2>2, <2>3 DEF WriteEntries, Bit
  <2>4. CASE k \notin {1, 2}
    <3>1. One(k - 2 = c.size) \in Bit /\ (k # Len(L) => One(k - 2 = c.size) = 0)
      BY <1>1 DEF WriteEntries, One, Bit
    <3>2. QED
      BY <1>1, <2>4, <3>1 DEF WriteEntries, Bit
  <2>5. QED
    BY <2>3, <2>4
<1>5. L \in Seq(Entries) /\ Len(L) \in Nat \ {0} /\ L[1].ctl.sta = 1 /\ L[1].ctl.wr = 1
  BY <1>1, <1>2 DEF WriteEntries
<1>6. \A k \in 1..Len(L) :
        /\ L[k].ctl \in Control
        /\ L[k].ctl.wr = 1 /\ L[k].ctl.rd = 0
        /\ L[k].byte \in Byte
        /\ k # Len(L) => L[k].ctl.stp = 0
  <2>1. TAKE k \in 1..Len(L)
  <2>2. PICK b \in Byte, s \in Bit, t \in Bit : L[k] = Wr(b, s, t) /\ (k # Len(L) => t = 0)
    BY <1>4
  <2>3. QED
    BY <1>2, <1>3, <2>2
<1>7. WellFormed(L)
  BY <1>5, <1>6 DEF WellFormed
<1>8. QED
  BY <1>7 DEF L

LEMMA ReadArray ==
  ASSUME BytesGiven, NEW c, c \in T!Calls, c.dir = "read"
  PROVE  ReadEntries(c, i2c_read_array(c))
<1>1. c.size \in Nat /\ c.index \in Byte /\ c.index \in Indexes
  BY DEF T!Calls, BytesGiven
<1> DEFINE A == <<Wr(AddrW, 1, 0), Wr(c.index, 0, 0), Wr(AddrR, 1, 0)>>
           B == [i \in 1..c.size |-> Rd(One(i = c.size))]
<1>2. \A b \in Byte, s \in Bit, t \in Bit : Wr(b, s, t) \in Entries /\ Rd(s) \in Entries
  BY DEF Wr, Rd, Entries, Control, Bit
<1>3. A \in Seq(Entries) /\ Len(A) = 3 /\ A[1] = Wr(AddrW, 1, 0) /\ A[2] = Wr(c.index, 0, 0)
      /\ A[3] = Wr(AddrR, 1, 0)
  BY <1>1, <1>2 DEF BytesGiven, Bit
<1>4. \A i \in 1..c.size : One(i = c.size) \in Bit
  BY DEF One, Bit
<1>5. \A i \in 1..c.size : B[i] = Rd(One(i = c.size)) /\ B[i] \in Entries
  <2>1. AddrW \in Byte
    BY DEF BytesGiven
  <2>2. QED
    BY <1>2, <1>4, <2>1
<1>6. B \in Seq(Entries) /\ Len(B) = c.size
  BY <1>1, <1>5
<1> HIDE DEF A, B
<1>7. /\ A \o B \in Seq(Entries) /\ Len(A \o B) = 3 + c.size
      /\ \A k \in 1..3 + c.size : (A \o B)[k] = IF k <= 3 THEN A[k] ELSE B[k - 3]
  <2>1. /\ A \o B \in Seq(Entries) /\ Len(A \o B) = Len(A) + Len(B)
        /\ \A k \in 1..Len(A) + Len(B) :
             (A \o B)[k] = IF k <= Len(A) THEN A[k] ELSE B[k - Len(A)]
    BY <1>3, <1>6, ConcatProperties
  <2>2. QED
    BY <1>3, <1>6, <2>1
<1>8. (A \o B)[1] = Wr(AddrW, 1, 0) /\ (A \o B)[2] = Wr(c.index, 0, 0)
      /\ (A \o B)[3] = Wr(AddrR, 1, 0)
  BY <1>1, <1>3, <1>7
<1>9. \A k \in 1..3 + c.size : k \notin {1, 2, 3} => (A \o B)[k] = Rd(One(k - 3 = c.size))
  <2>1. \A k \in 1..3 + c.size : k \notin {1, 2, 3} => k - 3 \in 1..c.size /\ ~(k <= 3)
    BY <1>1
  <2>2. QED
    BY <1>5, <1>7, <2>1
<1>10. i2c_read_array(c) = A \o B
  BY DEF i2c_read_array, A, B
<1>11. ReadEntries(c, A \o B)
  BY <1>1, <1>7, <1>8, <1>9 DEF ReadEntries
<1>12. QED
  BY <1>10, <1>11, Zenon

LEMMA ReadList ==
  ASSUME BytesGiven, NEW c, c \in T!Calls, c.dir = "read"
  PROVE  WellFormed(i2c_read_array(c))
<1> DEFINE L == i2c_read_array(c)
<1>1. ReadEntries(c, L)
  BY ReadArray
<1> HIDE DEF L
<1>2. \A b, s, t : Wr(b, s, t).byte = b /\ Wr(b, s, t).ctl.wr = 1 /\ Wr(b, s, t).ctl.rd = 0
                    /\ Wr(b, s, t).ctl.sta = s /\ Wr(b, s, t).ctl.stp = t
  BY DEF Wr
<1>3. \A s : Rd(s).ctl.wr = 0 /\ Rd(s).ctl.rd = 1 /\ Rd(s).ctl.stp = s
  BY DEF Rd
<1>4. /\ \A b \in Byte, s \in Bit, t \in Bit : Wr(b, s, t).ctl \in Control
      /\ \A s \in Bit : Rd(s).ctl \in Control
  BY DEF Wr, Rd, Control, Bit
<1>5. \A k \in 1..Len(L) :
        \/ \E b \in Byte, s \in Bit : L[k] = Wr(b, s, 0)
        \/ \E t \in Bit : L[k] = Rd(t) /\ (k # Len(L) => t = 0)
  <2>1. TAKE k \in 1..Len(L)
  <2>2. c.index \in Byte /\ AddrW \in Byte /\ AddrR \in Byte
    BY <1>1 DEF ReadEntries, BytesGiven
  <2>3. CASE k \in {1, 2, 3}
    BY <1>1, <2>2, <2>3 DEF ReadEntries, Bit
  <2>4. CASE k \notin {1, 2, 3}
    <3>1. One(k - 3 = c.size) \in Bit /\ (k # Len(L) => One(k - 3 = c.size) = 0)
      BY <1>1 DEF ReadEntries, One, Bit
    <3>2. QED
      BY <1>1, <2>4, <3>1 DEF ReadEntries, Bit
  <2>5. QED
    BY <2>3, <2>4
<1>6. L \in Seq(Entries) /\ Len(L) \in Nat \ {0} /\ L[1].ctl.sta = 1 /\ L[1].ctl.wr = 1
  BY <1>1, <1>2 DEF ReadEntries
<1>7. 0 \in Bit
  BY DEF Bit
<1>8. \A k \in 1..Len(L) :
        /\ L[k].ctl \in Control
        /\ L[k].ctl.wr = 1 <=> L[k].ctl.rd = 0
        /\ L[k].ctl.wr = 1 => L[k].byte \in Byte
        /\ k # Len(L) => L[k].ctl.stp = 0
  <2>1. TAKE k \in 1..Len(L)
  <2>2. CASE \E b \in Byte, s \in Bit : L[k] = Wr(b, s, 0)
    BY <1>2, <1>4, <1>7, <2>2
  <2>3. CASE \E t \in Bit : L[k] = Rd(t) /\ (k # Len(L) => t = 0)
    BY <1>3, <1>4, <2>3
  <2>4. QED
    BY <1>5, <2>2, <2>3
<1>9. WellFormed(L)
  BY <1>6, <1>8 DEF WellFormed
<1>10. QED
  BY <1>9 DEF L

LEMMA CommandList ==
  ASSUME BytesGiven, call \in T!Calls
  PROVE  WellFormed(Commands)
<1>1. call.dir \in {"write", "read"}
  BY DEF T!Calls
<1>2. QED
  BY <1>1, WriteList, ReadList DEF Commands

-----------------------------------------------------------------------------
(* One edge of the clock.                                                  *)

\* What the software may do at an edge, and the access that goes with it.
Software(access) ==
  \/ access = NoAccess /\ (Wait \/ Poll \/ Check \/ Fetch \/ CpuRestart)
  \/ access = NoAccess /\ UNCHANGED driverVars
  \/ access = NoAccess /\ \E c \in T!Calls : BeginCall(c)
  \/ access = Access /\ Write

LEMMA Edge ==
  ASSUME I2cNext
  PROVE  \E access : Clocked(access) /\ Software(access)
<1>1. CASE Proceed
  BY <1>1 DEF Proceed, Software
<1>2. CASE Invoke
  BY <1>2 DEF Invoke, Software
<1>3. CASE Tick
  BY <1>3 DEF Tick, Software
<1>4. CASE Restart
  BY <1>4 DEF Restart, Software
<1>5. QED
  BY <1>1, <1>2, <1>3, <1>4 DEF I2cNext

\* The successor of each state.
LEMMA Successors ==
  ASSUME p_state \in States
  PROVE  /\ p_state = "Reset" => n_state = "Idle"
         /\ p_state = "Idle" => n_state = IF TIP /\ start_reg = 1 THEN "Start_A"
                                          ELSE Transfer("Idle")
         /\ p_state = "Start_A" => n_state = "Start_B"
         /\ p_state = "Start_B" => n_state = "Start_C"
         /\ p_state = "Start_C" => n_state = "Start_D"
         /\ p_state = "Start_D" => n_state = Transfer("Start_D")
         /\ p_state = "Wr_A" => n_state = "Wr_B"
         /\ p_state = "Wr_B" => n_state = "Wr_C"
         /\ p_state = "Wr_C" => n_state = "Wr_D"
         /\ p_state = "Wr_D" => n_state = IF LastBit THEN "RdAck_A" ELSE "Wr_E"
         /\ p_state = "Wr_E" => n_state = "Wr_A"
         /\ p_state = "RdAck_A" => n_state = "RdAck_B"
         /\ p_state = "RdAck_B" => n_state = "RdAck_C"
         /\ p_state = "RdAck_C" => n_state = "RdAck_D"
         /\ p_state = "RdAck_D" => n_state = "RdAck_E"
         /\ p_state = "Rd_A" => n_state = "Rd_B"
         /\ p_state = "Rd_B" => n_state = "Rd_C"
         /\ p_state = "Rd_C" => n_state = "Rd_D"
         /\ p_state = "Rd_D" => n_state = "Rd_E"
         /\ p_state = "Rd_E" => n_state = IF LastBit THEN "WrAck_A" ELSE "Rd_F"
         /\ p_state = "Rd_F" => n_state = "Rd_A"
         /\ p_state = "WrAck_A" => n_state = "WrAck_B"
         /\ p_state = "WrAck_B" => n_state = "WrAck_C"
         /\ p_state = "WrAck_C" => n_state = "WrAck_D"
         /\ p_state \in {"WrAck_D", "RdAck_E"} =>
              n_state = IF stop_reg = 1 THEN "Stop_A" ELSE "Done"
         /\ p_state = "Stop_A" => n_state = "Stop_B"
         /\ p_state = "Stop_B" => n_state = "Stop_C"
         /\ p_state = "Stop_C" => n_state = "Done"
         /\ p_state = "Done" => n_state = "DoneAck"
         /\ p_state = "DoneAck" => n_state = IF cmd_done_ack = 1 THEN "Idle" ELSE "DoneAck"
BY DEF n_state, Then, States, Unclocked, Writing, AckOut

\* Where the driver goes at an edge.
Move(access) ==
  \/ /\ access = NoAccess /\ UNCHANGED <<call, step, value, outcome>>
     /\ \/ pc' = pc
        \/ pc = "Wait" /\ ~TIP /\ pc' = IF Command.ctl.wr = 1 THEN "Data" ELSE "Control"
        \/ pc = "Poll" /\ ~TIP /\ pc' = IF Command.ctl.wr = 1 THEN "Check" ELSE "Fetch"
        \/ pc = "Check" /\ ack_out = 1 /\ pc' = "Abort"
  \/ /\ access = NoAccess /\ pc # "Idle" /\ pc' = "Idle" /\ call.dir \in CpuRestarts
     /\ outcome' = "abandoned" /\ value' = <<>> /\ UNCHANGED <<call, step>>
  \/ /\ access = NoAccess
     /\ \/ pc = "Check" /\ ack_out # 1 /\ value' = value
        \/ pc = "Fetch" /\ value' = Append(value, data_out)
     /\ call' = call
     /\ \/ step = Len(Commands) /\ pc' = "Idle" /\ step' = step /\ outcome' = "SUCCESS"
        \/ step # Len(Commands) /\ pc' = "Wait" /\ step' = step + 1 /\ outcome' = outcome
  \/ /\ access = NoAccess /\ pc = "Idle" /\ ~TIP /\ pc' = "Data"
     /\ call' \in T!Calls /\ step' = 1 /\ outcome' = "pending" /\ value' = <<>>
  \/ /\ access = WriteData(Command.byte) /\ pc = "Data" /\ pc' = "Control"
     /\ UNCHANGED <<call, step, value, outcome>>
  \/ /\ access = WriteControl(Command.ctl) /\ pc = "Control" /\ pc' = "Poll"
     /\ UNCHANGED <<call, step, value, outcome>>
  \/ /\ access = WriteControl(StopAlone) /\ pc = "Abort" /\ pc' = "Idle"
     /\ outcome' = ErrorAt(step) /\ UNCHANGED <<call, step, value>>

LEMMA DriverMoves ==
  ASSUME NEW access, Software(access)
  PROVE  Move(access)
<1>1. CASE access = NoAccess /\ (Wait \/ Poll \/ Check \/ Fetch \/ CpuRestart)
  BY <1>1 DEF Wait, Poll, Check, Fetch, CpuRestart, Think, NextCommand, FinishCall, Move
<1>2. CASE access = NoAccess /\ UNCHANGED driverVars
  BY <1>2 DEF driverVars, Move
<1>3. CASE access = NoAccess /\ \E c \in T!Calls : BeginCall(c)
  BY <1>3 DEF BeginCall, Move
<1>4. CASE access = Access /\ Write
  BY <1>4 DEF Access, Write, Think, FinishCall, Move
<1>5. QED
  BY <1>1, <1>2, <1>3, <1>4 DEF Software

\* The registers of an access.
LEMMA Accesses ==
  /\ NoAccess.reg = "none"
  /\ \A b : WriteData(b).reg = "data" /\ WriteData(b).byte = b
  /\ \A c : WriteControl(c).reg = "control" /\ WriteControl(c).ctl = c
BY DEF NoAccess, WriteData, WriteControl

\* What the interface does with an access.
LEMMA Interface ==
  ASSUME NEW access, data_in_sync(access)
  PROVE  /\ TIP \/ access.reg # "data" => i_data_in' = i_data_in
         /\ ~TIP /\ access.reg = "data" => i_data_in' = access.byte
         /\ TIP \/ access.reg # "control" => ack_reg' = ack_reg
         /\ ~TIP /\ access.reg = "control" =>
              /\ write_reg' = access.ctl.wr /\ read_reg' = access.ctl.rd
              /\ start_reg' = access.ctl.sta /\ stop_reg' = access.ctl.stp
              /\ ack_reg' = access.ctl.ack
         /\ TIP /\ cmd_done = 1 =>
              /\ write_reg' = 0 /\ read_reg' = 0 /\ start_reg' = 0 /\ stop_reg' = 0
         /\ (TIP /\ cmd_done # 1) \/ (~TIP /\ access.reg # "control") =>
              UNCHANGED <<write_reg, read_reg, start_reg, stop_reg>>
         /\ cmd_done_ack' = IF TIP /\ cmd_done = 1 THEN 1 ELSE 0
         /\ scl_in' = Scl /\ sda_in' = Sda
BY DEF data_in_sync

LEMMA RegisterStep ==
  ASSUME BytesGiven, RegisterInv, DriverInv, NEW access, Clocked(access), Software(access)
  PROVE  RegisterInv'
<1>1. i2c_core /\ i2c_clkgen /\ data_in_sync(access) /\ Device
  BY DEF Clocked
<1>2. WellFormed(Commands) /\ Move(access)
  BY CommandList, DriverMoves DEF DriverInv
<1>3. /\ access.reg = "data" => access.byte \in Byte
      /\ access.reg = "control" => access.ctl \in Control
  <2>1. StopAlone \in Control
    BY DEF StopAlone, Control, Bit
  <2>2. Command.ctl \in Control /\ (Command.ctl.wr = 1 => Command.byte \in Byte)
    BY <1>2 DEF WellFormed, DriverInv, Command
  <2>3. QED
    BY <1>2, <2>1, <2>2, Accesses DEF Move, DriverInv
<1>4. p_state' \in States
  <2>1. n_state \in States
    BY Successors DEF RegisterInv, States, Unclocked, Writing, AckOut, Transfer
  <2>2. QED
    BY <1>1, <2>1 DEF i2c_core, RegisterInv
<1>5. i_ctr' \in 0..Bits - 1
  <2>1. (i_ctr + 1) % Bits \in 0..Bits - 1
    BY I2cConstants DEF RegisterInv
  <2>2. QED
    BY <1>1, <2>1, I2cConstants DEF i2c_core, RegisterInv
<1>6. i_dout' \in Byte /\ data_out' \in Byte
  BY <1>1, I2cConstants DEF i2c_core, RegisterInv, Byte
<1>7. i_data_in' \in Byte
  BY <1>1, <1>3, Interface DEF RegisterInv
<1>8. /\ i_ack_out' \in Bit /\ ack_out' \in Bit /\ cmd_done' \in Bit /\ scl_out' \in Bit
  BY <1>1 DEF i2c_core, RegisterInv, Bit, i_scl_out
<1>9. sda_out' \in Bit
  <2>1. i_data_in[i_ctr + 1] \in Bit
    BY I2cConstants DEF RegisterInv, Byte
  <2>2. QED
    BY <1>1, <2>1 DEF i2c_core, RegisterInv, Bit, i_sda_out
<1>10. /\ scl_in' \in Bit /\ sda_in' \in Bit /\ scl_was' \in Bit /\ sda_was' \in Bit
  BY <1>1, Interface DEF Device, RegisterInv, Bit, Scl, Sda
<1>11. /\ write_reg' \in Bit /\ read_reg' \in Bit /\ start_reg' \in Bit /\ stop_reg' \in Bit
       /\ ack_reg' \in Bit /\ cmd_done_ack' \in Bit
  BY <1>1, <1>3, Interface DEF RegisterInv, Control, Bit
<1>12. sclk' \in Bit /\ clk_ctr' \in 0..Divisor
  BY <1>1, I2cConstants DEF i2c_clkgen, RegisterInv, Bit
<1>13. QED
  BY <1>4, <1>5, <1>6, <1>7, <1>8, <1>9, <1>10, <1>11, <1>12 DEF RegisterInv

-----------------------------------------------------------------------------
(* How a command is handed over, and the clock between two commands.       *)

LEMMA HandoverStep ==
  ASSUME BytesGiven, RegisterInv, HandoverInv, DriverInv,
         NEW access, Clocked(access), Software(access)
  PROVE  HandoverInv'
<1>1. i2c_core /\ data_in_sync(access)
  BY DEF Clocked
<1>2. Move(access)
  BY DriverMoves
<1>3. access.reg = "control" =>
        /\ pc \notin Polling /\ access.ctl \in Control
        /\ access.ctl.wr = 0 \/ access.ctl.rd = 0
  <2>1. StopAlone \in Control /\ StopAlone.wr = 0
    BY DEF StopAlone, Control, Bit
  <2>2. Command.ctl \in Control /\ (Command.ctl.wr = 1 <=> Command.ctl.rd = 0)
    BY CommandList DEF WellFormed, DriverInv, Command
  <2>3. QED
    BY <1>2, <2>1, <2>2, Accesses DEF Move, DriverInv, Polling, Control, Bit
<1>4. pc' \notin Polling => (pc \notin Polling \/ ~TIP) /\ access.reg # "control"
  BY <1>2, Accesses DEF Move, Polling
<1>5. TIP => access.reg # "control"
  BY <1>3 DEF HandoverInv
<1>6. /\ cmd_done' = (IF p_state \in {"Done", "DoneAck"} THEN 1 ELSE 0)
      /\ p_state' = (IF sclk = 1 \/ p_state \in Unclocked THEN n_state ELSE p_state)
  BY <1>1 DEF i2c_core
<1>7. TIP /\ cmd_done # 1 => TIP' /\ UNCHANGED <<write_reg, read_reg, stop_reg>>
  BY <1>1, Interface DEF TIP
<1>8. TIP /\ cmd_done = 1 => ~TIP'
  BY <1>1, Interface DEF TIP
<1>9. TIP' => TIP \/ access.reg = "control"
  BY <1>1, Interface DEF TIP
<1>10. ~(write_reg' = 1 /\ read_reg' = 1)
  BY <1>1, <1>3, Interface DEF HandoverInv, TIP
<1>11. cmd_done_ack' = IF TIP /\ cmd_done = 1 THEN 1 ELSE 0
  BY <1>1, Interface
<1>12. /\ p_state' = "DoneAck" => p_state \in {"Done", "DoneAck"}
       /\ p_state' = "Done" => p_state \in {"WrAck_D", "RdAck_E", "Stop_C", "Done"}
       /\ p_state' = "Idle" => p_state \in {"Reset", "Idle"} \/ cmd_done_ack = 1
       /\ p_state' # "Reset"
       /\ p_state = "Done" => p_state' = "DoneAck"
       /\ p_state = "DoneAck" => p_state' = IF cmd_done_ack = 1 THEN "Idle" ELSE "DoneAck"
       /\ p_state = "Reset" \/ (p_state = "Idle" /\ ~TIP) => p_state' = "Idle"
       /\ p_state \in {"Reset", "Idle"} => p_state' \in {"Idle", "Start_A", "Wr_A", "Rd_A"}
  BY <1>6, Successors
     DEF RegisterInv, States, Unclocked, Writing, AckOut, Transfer, HandoverInv, TIP
<1>13. /\ p_state' \in Writing \cup RdAcks =>
            p_state \in Writing \cup RdAcks \/ (TIP /\ write_reg = 1)
       /\ p_state' \in Readings \cup AckOut =>
            p_state \in Readings \cup AckOut \/ (TIP /\ read_reg = 1)
       /\ p_state' \in Stopping => p_state \in Stopping \/ stop_reg = 1
  BY <1>6, Successors
     DEF RegisterInv, States, Unclocked, Writing, AckOut, RdAcks, Readings, Stopping,
         Transfer, TIP, HandoverInv
<1>14. p_state' \notin {"Reset", "Idle", "DoneAck"} => TIP /\ cmd_done # 1
  BY <1>12 DEF HandoverInv
<1>15. p_state' = "DoneAck" => cmd_done' = 1 /\ (TIP' <=> cmd_done_ack' = 0)
  <2> SUFFICES ASSUME p_state' = "DoneAck" PROVE cmd_done' = 1 /\ (TIP' <=> cmd_done_ack' = 0)
    OBVIOUS
  <2>1. p_state = "Done" \/ (p_state = "DoneAck" /\ cmd_done_ack # 1)
    BY <1>12
  <2>2. TIP /\ cmd_done' = 1
    BY <1>6, <2>1 DEF HandoverInv, RegisterInv, Bit
  <2>3. QED
    BY <1>7, <1>8, <1>11, <2>2
<1>16. p_state' = "Idle" /\ cmd_done' = 1 => ~TIP'
  BY <1>3, <1>6, <1>9, <1>12 DEF HandoverInv
<1>17. cmd_done_ack' = 1 => p_state' = "DoneAck"
  BY <1>6, <1>11, <1>12, Successors DEF HandoverInv, RegisterInv, Unclocked
<1>18. pc' \notin Polling => p_state' = "Idle" /\ ~TIP'
  BY <1>4, <1>9, <1>12 DEF HandoverInv, RegisterInv, Bit
<1>19. p_state' \notin {"Idle", "DoneAck"} => cmd_done' = 0
  BY <1>6, <1>12, Successors DEF HandoverInv, RegisterInv, Unclocked
<1>20. /\ p_state' \in Writing \cup RdAcks => write_reg' = 1
       /\ p_state' \in Readings \cup AckOut => read_reg' = 1
       /\ p_state' \in Stopping => stop_reg' = 1
  BY <1>7, <1>13, <1>14
     DEF HandoverInv, Writing, AckOut, RdAcks, Readings, Stopping
<1>21. QED
  BY <1>7, <1>10, <1>12, <1>14, <1>15, <1>16, <1>17, <1>18, <1>19, <1>20 DEF HandoverInv

LEMMA DriverStep ==
  ASSUME BytesGiven, HandoverInv, DriverInv, NEW access, data_in_sync(access), Software(access)
  PROVE  DriverInv'
<1>1. Move(access)
  BY DriverMoves
<1>2. WellFormed(Commands)
  BY CommandList DEF DriverInv
<1>3. pc' \in {"Idle", "Wait", "Data", "Control", "Poll", "Check", "Fetch", "Abort"}
  BY <1>1 DEF Move, DriverInv
<1>4. call' \in T!Calls
  BY <1>1 DEF Move, DriverInv
<1>5. WellFormed(Commands')
  <2>1. \A c \in T!Calls : c.dir \in {"write", "read"}
    BY DEF T!Calls
  <2>2. Commands' = IF call'.dir = "write" THEN i2c_write_array(call')
                                           ELSE i2c_read_array(call')
    BY DEF Commands
  <2>3. QED
    BY <1>4, <2>1, <2>2, WriteList, ReadList
<1>6. call' = call => Commands' = Commands
  BY DEF Commands
<1>7. call' = call /\ step' = step => Command' = Command
  BY <1>6 DEF Command
<1>8. step' \in 1..Len(Commands')
  BY <1>1, <1>2, <1>5, <1>6 DEF Move, DriverInv, WellFormed
<1>9. pc' = "Data" => Command'.ctl.wr = 1
  <2>1. CASE call' \in T!Calls /\ step' = 1
    <3>1. Command' = Commands'[1]
      BY <2>1 DEF Command
    <3>2. QED
      BY <1>5, <3>1 DEF WellFormed
  <2>2. QED
    BY <1>1, <1>7, <2>1 DEF Move, DriverInv
<1>10. pc' = "Poll" /\ TIP' =>
         /\ write_reg' = Command'.ctl.wr /\ read_reg' = Command'.ctl.rd
         /\ start_reg' = Command'.ctl.sta /\ stop_reg' = Command'.ctl.stp
         /\ ack_reg' = Command'.ctl.ack
  <2> SUFFICES ASSUME pc' = "Poll", TIP'
               PROVE  /\ write_reg' = Command'.ctl.wr /\ read_reg' = Command'.ctl.rd
                      /\ start_reg' = Command'.ctl.sta /\ stop_reg' = Command'.ctl.stp
                      /\ ack_reg' = Command'.ctl.ack
    OBVIOUS
  <2>1. \/ pc = "Poll" /\ access = NoAccess /\ UNCHANGED <<call, step>>
        \/ pc = "Control" /\ access = WriteControl(Command.ctl) /\ UNCHANGED <<call, step>>
    BY <1>1 DEF Move
  <2>2. CASE pc = "Poll" /\ access = NoAccess
    <3>1. access.reg = "none"
      BY <2>2, Accesses
    <3>2. TIP /\ cmd_done # 1
      BY <3>1, Interface DEF TIP
    <3>3. UNCHANGED <<write_reg, read_reg, start_reg, stop_reg, ack_reg>>
      BY <3>1, <3>2, Interface
    <3>4. QED
      BY <1>7, <2>1, <2>2, <3>2, <3>3 DEF DriverInv
  <2>3. CASE pc = "Control" /\ access = WriteControl(Command.ctl)
    <3>1. access.reg = "control" /\ access.ctl = Command.ctl /\ ~TIP
      BY <2>3, Accesses DEF HandoverInv, Polling
    <3>2. QED
      BY <1>7, <2>1, <2>3, <3>1, Interface
  <2>4. QED
    BY <2>1, <2>2, <2>3
<1>11. QED
  BY <1>3, <1>4, <1>8, <1>9, <1>10 DEF DriverInv

\* What a state of each kind does to the two wires.
LEMMA Outputs ==
  ASSUME p_state \in States
  PROVE  /\ p_state \in Latched \ {"Reset"} => i_scl_out = scl_in
         /\ p_state \in Low \cup Falling => i_scl_out = 0
         /\ p_state \in Rising \cup High \cup {"Reset"} => i_scl_out = 1
         /\ p_state \in Latched \cup Low \cup Rising \cup High \cup Falling
BY DEF i_scl_out, States, Unclocked, Writing, AckOut, Latched, Low, Rising, High, Falling

LEMMA HeldStep ==
  ASSUME BytesGiven, RegisterInv, HandoverInv, DriverInv, HeldInv, WireInv,
         NEW access, Clocked(access), Software(access)
  PROVE  HeldInv'
<1>1. i2c_core /\ data_in_sync(access) /\ Move(access)
  BY DriverMoves DEF Clocked
<1>2. WellFormed(Commands)
  BY CommandList DEF DriverInv
<1>3. p_state \in {"Idle", "Done", "DoneAck"} => scl_out' = scl_out
  BY <1>1, Outputs DEF i2c_core, WireInv, Latched, RegisterInv
<1>4. /\ p_state' = (IF sclk = 1 \/ p_state \in Unclocked THEN n_state ELSE p_state)
      /\ scl_out' = i_scl_out
  BY <1>1 DEF i2c_core
<1>5. /\ p_state' = "Done" => p_state \in {"WrAck_D", "RdAck_E", "Stop_C", "Done"}
      /\ p_state' = "DoneAck" => p_state \in {"Done", "DoneAck"}
      /\ p_state' = "Idle" => p_state = "Reset" \/ (p_state = "Idle" /\ ~TIP) \/ cmd_done_ack = 1
  BY <1>4, Successors
     DEF RegisterInv, States, Unclocked, Writing, AckOut, Transfer, HandoverInv, TIP
<1>6. /\ call' = call => Commands' = Commands
      /\ call' = call /\ step' = step => Command' = Command
  BY DEF Commands, Command
<1>7. /\ access.reg = "control" => pc \notin Polling
      /\ cmd_done_ack = 1 => p_state = "DoneAck" /\ ~TIP
  BY <1>1, Accesses DEF Move, Polling, HandoverInv
<1>8. pc = "Poll" /\ TIP /\ Command.ctl.stp = 0 => stop_reg = 0
  BY DEF DriverInv
\* A transfer that is not begun with a start condition finds the clock low.
<1>9. p_state' = "Idle" /\ TIP' /\ start_reg' = 0 => scl_out' = 0
  <2> SUFFICES ASSUME p_state' = "Idle", TIP', start_reg' = 0 PROVE scl_out' = 0
    OBVIOUS
  <2>1. p_state \in {"Reset", "Idle", "DoneAck"} /\ ~TIP
    BY <1>5, <1>7 DEF HandoverInv
  <2>2. access.reg = "control"
    BY <1>1, <2>1, Interface DEF TIP
  <2>3. pc \notin Polling /\ p_state = "Idle"
    BY <1>7, <2>2 DEF HandoverInv
  <2>4. \/ pc = "Control" /\ access.ctl = Command.ctl
        \/ access.ctl = StopAlone
    BY <1>1, <2>2, Accesses DEF Move
  <2>5. pc = "Control" /\ access.ctl = Command.ctl /\ Command.ctl.sta = 0
    BY <1>1, <2>1, <2>2, <2>4, Interface DEF TIP, StopAlone
  <2>6. QED
    BY <1>3, <2>3, <2>5 DEF HeldInv
<1>10. pc' = "Poll" /\ Command'.ctl.stp = 0 /\ ~(p_state' = "Idle" /\ TIP')
         /\ p_state' \in {"Idle", "Done", "DoneAck"} => scl_out' = 0
  <2> SUFFICES ASSUME pc' = "Poll", Command'.ctl.stp = 0, ~(p_state' = "Idle" /\ TIP'),
                      p_state' \in {"Idle", "Done", "DoneAck"}
               PROVE  scl_out' = 0
    OBVIOUS
  <2>1. \/ pc = "Poll" /\ access = NoAccess /\ UNCHANGED <<call, step>>
        \/ pc = "Control" /\ access = WriteControl(Command.ctl) /\ UNCHANGED <<call, step>>
    BY <1>1 DEF Move
  <2>2. pc # "Control"
    <3> SUFFICES ASSUME pc = "Control" PROVE FALSE
      OBVIOUS
    <3>1. p_state = "Idle" /\ ~TIP /\ access.reg = "control" /\ access.ctl = Command.ctl
      BY <2>1, Accesses DEF HandoverInv, Polling
    <3>2. p_state' = "Idle"
      BY <1>4, <3>1, Successors DEF RegisterInv, Transfer, TIP
    <3>3. Command.ctl.wr = 1 \/ Command.ctl.rd = 1
      BY <1>2 DEF WellFormed, DriverInv, Command, Control, Bit
    <3>4. QED
      BY <1>1, <3>1, <3>2, <3>3, Interface DEF TIP
  <2>3. Command.ctl.stp = 0 /\ pc = "Poll"
    BY <1>6, <2>1, <2>2
  <2>4. CASE p_state \in {"Idle", "Done", "DoneAck"}
    <3>1. ~(p_state = "Idle" /\ TIP)
      BY <1>5, <1>4, <2>4, Successors DEF RegisterInv, Unclocked, Transfer, TIP, HandoverInv
    <3>2. QED
      BY <1>3, <2>3, <2>4, <3>1 DEF HeldInv
  <2>5. CASE p_state \in {"WrAck_D", "RdAck_E"}
    BY <1>4, <2>5, Outputs DEF RegisterInv, Falling
  <2>6. p_state # "Reset"
    BY <2>3 DEF HandoverInv
  <2>7. p_state # "Stop_C"
    BY <1>8, <2>3 DEF HandoverInv, Stopping
  <2>8. QED
    BY <1>5, <1>7, <2>4, <2>5, <2>6, <2>7
\* The driver leaves its polling when the controller is idle again.
<1>11. ~TIP /\ pc = "Poll" => p_state \in {"Idle", "DoneAck"}
  BY DEF HandoverInv
<1>12. pc' \in {"Check", "Fetch"} /\ Command'.ctl.stp = 0 => scl_out' = 0
  <2> SUFFICES ASSUME pc' \in {"Check", "Fetch"}, Command'.ctl.stp = 0 PROVE scl_out' = 0
    OBVIOUS
  <2>1. (pc \in {"Check", "Fetch"} \/ (pc = "Poll" /\ ~TIP)) /\ UNCHANGED <<call, step>>
    BY <1>1 DEF Move
  <2>2. p_state \in {"Idle", "DoneAck"} /\ ~TIP
    BY <1>11, <2>1 DEF HandoverInv, Polling
  <2>3. QED
    BY <1>3, <1>6, <2>1, <2>2 DEF HeldInv
<1>13. pc' \in {"Wait", "Data", "Control"} /\ Command'.ctl.sta = 0 => scl_out' = 0
  <2> SUFFICES ASSUME pc' \in {"Wait", "Data", "Control"}, Command'.ctl.sta = 0
               PROVE  scl_out' = 0
    OBVIOUS
  <2>1. CASE pc \in {"Wait", "Data", "Control"} /\ UNCHANGED <<call, step>>
    <3>1. p_state = "Idle"
      BY <2>1 DEF HandoverInv, Polling
    <3>2. QED
      BY <1>3, <1>6, <2>1, <3>1 DEF HeldInv
  <2>2. CASE pc \in {"Check", "Fetch"} /\ step # Len(Commands)
    <3>1. p_state = "Idle" /\ Command.ctl.stp = 0
      BY <1>2, <2>2 DEF HandoverInv, Polling, WellFormed, Command, DriverInv
    <3>2. QED
      BY <1>3, <2>2, <3>1 DEF HeldInv
  <2>3. CASE call' \in T!Calls /\ step' = 1
    <3>1. WellFormed(Commands')
      <4>1. \A c \in T!Calls : c.dir \in {"write", "read"}
        BY DEF T!Calls
      <4>2. QED
        BY <2>3, <4>1, WriteList, ReadList DEF Commands
    <3>2. Command' = Commands'[1]
      BY <2>3 DEF Command
    <3>3. QED
      BY <3>1, <3>2 DEF WellFormed
  <2>4. QED
    BY <1>1, <2>1, <2>2, <2>3 DEF Move
<1>14. QED
  BY <1>9, <1>10, <1>12, <1>13 DEF HeldInv

-----------------------------------------------------------------------------
(* The two wires.                                                          *)

\* The device moves SDA on a condition or when the clock has fallen.
LEMMA DeviceHolds ==
  ASSUME RegisterInv, Device, ~Starts, ~Stops, scl_out = 1 \/ scl_was = 0
  PROVE  dev_sda' = dev_sda
<1>1. ~Falls
  BY DEF Falls, Scl
<1>2. QED
  BY <1>1 DEF Device, RisingEdge

LEMMA Levels ==
  /\ p_state \in {"Start_C", "Start_D", "Stop_A", "Stop_B"} => i_sda_out = 0
  /\ p_state \in Writing => i_sda_out = i_data_in[i_ctr + 1]
  /\ p_state \in AckOut => i_sda_out = ack_reg
  /\ p_state \in RdAcks \cup Readings \cup {"Start_A", "Start_B", "Stop_C"} => i_sda_out = 1
BY DEF i_sda_out, Writing, AckOut, RdAcks, Readings

\* A bit keeps its level on SDA from the state before its clock pulse on.
LEMMA LevelKept ==
  ASSUME RegisterInv, HandoverInv, NEW access, Clocked(access),
         p_state' \in (Rising \cup High \cup Falling) \ {"Start_C", "Stop_C"}
  PROVE  i_sda_out' = i_sda_out
<1>1. i2c_core /\ data_in_sync(access)
  BY DEF Clocked
<1>2. p_state' = (IF sclk = 1 \/ p_state \in Unclocked THEN n_state ELSE p_state)
  BY <1>1 DEF i2c_core
<1> DEFINE Sets == {"Wr_A", "Wr_B", "Wr_C", "Wr_D"}
<1>3. \/ p_state \in Sets /\ p_state' \in Sets
      \/ p_state \in AckOut /\ p_state' \in AckOut
      \/ p_state \in RdAcks \cup Readings \cup {"Start_A", "Start_B"}
           /\ p_state' \in RdAcks \cup Readings \cup {"Start_B"}
      \/ p_state \in {"Start_C", "Start_D", "Stop_A", "Stop_B"}
           /\ p_state' \in {"Start_D", "Stop_B"}
  BY <1>2, Successors
     DEF RegisterInv, Rising, High, Falling, States, Unclocked, Writing, AckOut, RdAcks,
         Readings, Transfer
<1>4. CASE p_state \in Sets /\ p_state' \in Sets
  <2>1. i_ctr' = i_ctr
    BY <1>1, <1>4 DEF i2c_core
  <2>2. write_reg = 1
    BY <1>4 DEF HandoverInv, Writing
  <2>3. i_data_in' = i_data_in
    BY <1>1, <2>2, Interface DEF TIP
  <2>4. i_sda_out = i_data_in[i_ctr + 1]
    BY <1>4, Levels DEF Writing
  <2>5. i_sda_out' = i_data_in'[i_ctr' + 1]
    BY <1>4 DEF i_sda_out, Writing, AckOut
  <2>6. QED
    BY <2>1, <2>3, <2>4, <2>5
<1>5. CASE p_state \in AckOut /\ p_state' \in AckOut
  <2>1. read_reg = 1
    BY <1>5 DEF HandoverInv
  <2>2. ack_reg' = ack_reg
    BY <1>1, <2>1, Interface DEF TIP
  <2>3. i_sda_out = ack_reg /\ i_sda_out' = ack_reg'
    BY <1>5 DEF i_sda_out, Writing, AckOut
  <2>4. QED
    BY <2>2, <2>3
<1>6. CASE /\ p_state \in RdAcks \cup Readings \cup {"Start_A", "Start_B"}
           /\ p_state' \in RdAcks \cup Readings \cup {"Start_B"}
  BY <1>6 DEF i_sda_out, Writing, AckOut, RdAcks, Readings
<1>7. CASE /\ p_state \in {"Start_C", "Start_D", "Stop_A", "Stop_B"}
           /\ p_state' \in {"Start_D", "Stop_B"}
  BY <1>7 DEF i_sda_out, Writing, AckOut
<1>8. QED
  BY <1>3, <1>4, <1>5, <1>6, <1>7

LEMMA WireStep ==
  ASSUME DivisorGiven, RegisterInv, HandoverInv, HeldInv, WireInv, NEW access, Clocked(access)
  PROVE  WireInv'
<1>1. i2c_core /\ i2c_clkgen /\ data_in_sync(access) /\ Device
  BY DEF Clocked
<1>2. /\ p_state' = (IF sclk = 1 \/ p_state \in Unclocked THEN n_state ELSE p_state)
      /\ scl_out' = i_scl_out /\ sda_out' = i_sda_out
  BY <1>1 DEF i2c_core
<1>3. /\ scl_in' = scl_out /\ sda_in' = Sda /\ scl_was' = scl_out /\ sda_was' = Sda
  BY <1>1, Interface DEF Device, Scl
<1>4. /\ sclk' = 1 => clk_ctr' = 0
      /\ sclk = 1 => sclk' = 0
  <2>1. sclk = 1 => ~(clk_ctr >= Divisor)
    BY I2cConstants DEF WireInv, DivisorGiven
  <2>2. QED
    BY <1>1, <2>1 DEF i2c_clkgen
<1>5. /\ p_state' \in Latched => \/ p_state \in Latched
                                 \/ p_state \in Falling /\ sclk = 1
                                 \/ p_state = "Stop_C"
      /\ p_state' \in Low => \/ p_state \in Low
                             \/ p_state \in Falling /\ sclk = 1
                             \/ p_state = "Idle" /\ TIP /\ start_reg # 1
      /\ p_state' \in Rising => p_state \in Low \cup Rising \cup {"Start_A"}
      /\ p_state' \in High => p_state \in Rising \cup High
      /\ p_state' \in Falling => (p_state \in High /\ sclk = 1) \/ p_state \in Falling
      /\ p_state' # "Reset"
      /\ p_state' \in BitStates => p_state \in BitStates \cup {"Idle", "Start_D"}
  BY <1>2, Successors
     DEF RegisterInv, States, Unclocked, Writing, AckOut, RdAcks, Readings, BitStates,
         Latched, Low, Rising, High, Falling, Transfer, TIP
<1>6. p_state' \in Latched => scl_out' = scl_in'
  BY <1>2, <1>3, <1>5, Outputs DEF WireInv, RegisterInv, Bit, Latched, High
<1>7. p_state' \in Low => scl_out' = 0 /\ scl_in' = 0
  BY <1>2, <1>3, <1>5, Outputs DEF WireInv, HeldInv, RegisterInv, Bit, Latched
<1>8. p_state' \in Rising => scl_out' = 1 \/ scl_in' = 0
  BY <1>2, <1>3, <1>5, Outputs DEF WireInv, RegisterInv, Bit, Latched
<1>9. p_state' \in High => scl_out' = 1
  BY <1>2, <1>3, <1>5, Outputs DEF RegisterInv
<1>10. p_state' \in Falling => scl_out' = 0 \/ sclk' = 0
  BY <1>2, <1>4, <1>5, Outputs DEF RegisterInv
<1>11. p_state' \in (Rising \cup High \cup Falling) \ {"Start_C", "Stop_C"} =>
         sda_out' = i_sda_out'
  BY <1>2, LevelKept
<1>12. p_state' \in BitStates => ~Starts' /\ ~Stops'
  <2> SUFFICES ASSUME p_state' \in BitStates, scl_out = 1, scl_out' = 1
               PROVE  Sda' = sda_was'
    BY <1>3 DEF Starts, Stops, Scl
  <2>1. p_state \in Rising \cup High /\ p_state \in BitStates /\ p_state \notin {"Start_C", "Stop_C"}
    <3>1. p_state \notin Falling
      BY <1>2, Outputs DEF RegisterInv
    <3>2. p_state \notin Low
      BY DEF WireInv
    <3>3. p_state # "Idle"
      <4> SUFFICES ASSUME p_state = "Idle" PROVE FALSE
        OBVIOUS
      <4>1. TIP /\ start_reg # 1
        BY <1>2, Successors
           DEF RegisterInv, Unclocked, Transfer, TIP, BitStates, Writing, RdAcks, Readings, AckOut
      <4>2. start_reg = 0
        BY <4>1 DEF RegisterInv, Bit
      <4>3. QED
        BY <4>1, <4>2 DEF HeldInv
    <3>4. p_state \in BitStates
      BY <1>5, <3>1, <3>3 DEF Falling
    <3>5. QED
      BY <3>1, <3>2, <3>4, Outputs
         DEF RegisterInv, Latched, BitStates, Writing, RdAcks, Readings, AckOut
  <2>2. sda_out' = sda_out
    BY <1>2, <2>1 DEF WireInv
  <2>3. dev_sda' = dev_sda
    BY <1>1, <2>1, DeviceHolds DEF WireInv
  <2>4. QED
    BY <1>3, <2>2, <2>3 DEF Sda
<1>13. QED
  BY <1>3, <1>4, <1>5, <1>6, <1>7, <1>8, <1>9, <1>10, <1>11, <1>12 DEF WireInv

\* One edge moves one wire at most: in the states that move the clock, SDA
\* has its level and the device has seen what came before.
LEMMA OneWireMoves ==
  ASSUME RegisterInv, HandoverInv, WireInv, NEW access, Clocked(access), Scl' # Scl
  PROVE  Sda' = Sda
<1>1. i2c_core /\ Device
  BY DEF Clocked
<1>2. scl_out' = i_scl_out /\ sda_out' = i_sda_out /\ scl_out' # scl_out
  BY <1>1 DEF i2c_core, Scl
<1>3. p_state \in Rising \cup Falling
  BY <1>2, Outputs DEF RegisterInv, WireInv, Latched
<1>4. p_state \notin {"Start_C", "Stop_C"}
  BY <1>3 DEF Rising, Falling
<1>5. sda_out' = sda_out
  BY <1>2, <1>3, <1>4 DEF WireInv
<1>6. CASE p_state \in Rising
  <2>1. scl_out = 0 /\ scl_was = 0
    BY <1>2, <1>6, Outputs DEF RegisterInv, WireInv, Bit
  <2>2. ~Starts /\ ~Stops
    BY <2>1 DEF Starts, Stops
  <2>3. dev_sda' = dev_sda
    BY <1>1, <2>1, <2>2, DeviceHolds
  <2>4. QED
    BY <1>5, <2>3 DEF Sda
<1>7. CASE p_state = "Start_D"
  BY <1>5, <1>7, Levels DEF WireInv, Falling, Sda
<1>8. CASE p_state \in Falling \ {"Start_D"}
  <2>1. scl_out = 1
    BY <1>2, <1>8, Outputs DEF RegisterInv, Bit
  <2>2. ~Starts /\ ~Stops
    BY <1>8 DEF WireInv, Falling, BitStates, Writing, RdAcks, Readings, AckOut
  <2>3. dev_sda' = dev_sda
    BY <1>1, <2>1, <2>2, DeviceHolds
  <2>4. QED
    BY <1>5, <2>3 DEF Sda
<1>9. QED
  BY <1>3, <1>6, <1>7, <1>8

-----------------------------------------------------------------------------
(* The theorem about the wires.                                            *)

I2cInv == RegisterInv /\ HandoverInv /\ DriverInv

LEMMA I2cInvHolds ==
  ASSUME BytesGiven
  PROVE  I2cSpec => []I2cInv
<1>1. I2cInit => I2cInv
  <2> SUFFICES ASSUME I2cInit PROVE I2cInv
    OBVIOUS
  <2>1. Zeros \in Byte
    BY DEF Zeros, Byte, Bit
  <2>2. RegisterInv
    BY <2>1, I2cConstants DEF I2cInit, RegisterInv, States, Unclocked, Bit
  <2>3. HandoverInv
    BY DEF I2cInit, HandoverInv, Polling, TIP, Writing, RdAcks, Readings, AckOut, Stopping
  <2>4. DriverInv
    <3>1. call \in T!Calls /\ step = 1 /\ pc = "Idle"
      BY DEF I2cInit
    <3>2. Len(Commands) \in Nat \ {0}
      BY <3>1, CommandList DEF WellFormed
    <3>3. QED
      BY <3>1, <3>2 DEF DriverInv
  <2>5. QED
    BY <2>2, <2>3, <2>4 DEF I2cInv
<1>2. I2cInv /\ [I2cNext]_i2cVars => I2cInv'
  <2> SUFFICES ASSUME I2cInv, [I2cNext]_i2cVars PROVE I2cInv'
    OBVIOUS
  <2>1. CASE I2cNext
    <3>1. PICK access : Clocked(access) /\ Software(access)
      BY <2>1, Edge
    <3>2. data_in_sync(access)
      BY <3>1 DEF Clocked
    <3>3. QED
      BY <3>1, <3>2, RegisterStep, HandoverStep, DriverStep DEF I2cInv
  <2>2. CASE UNCHANGED i2cVars
    <3>1. RegisterInv' /\ HandoverInv'
      BY <2>2 DEF I2cInv, RegisterInv, HandoverInv, TIP, i2cVars, coreVars, ifVars, clkVars,
                  driverVars, devVars
    <3>2. DriverInv'
      BY <2>2 DEF I2cInv, DriverInv, Command, Commands, TIP, i2cVars, coreVars, ifVars,
                  driverVars
    <3>3. QED
      BY <3>1, <3>2 DEF I2cInv
  <2>3. QED
    BY <2>1, <2>2
<1>3. QED
  BY <1>1, <1>2, PTL DEF I2cSpec

LineInv == HeldInv /\ WireInv

LEMMA LineInvHolds ==
  ASSUME BytesGiven, DivisorGiven
  PROVE  I2cSpec => []LineInv
<1>1. I2cInit => LineInv
  <2> SUFFICES ASSUME I2cInit PROVE LineInv
    OBVIOUS
  <2>1. HeldInv
    BY DEF I2cInit, HeldInv, TIP
  <2>2. WireInv
    BY DEF I2cInit, WireInv, Latched, Low, Rising, High, Falling, BitStates, Writing, RdAcks,
           Readings, AckOut
  <2>3. QED
    BY <2>1, <2>2 DEF LineInv
<1>2. I2cInv /\ LineInv /\ [I2cNext]_i2cVars => LineInv'
  <2> SUFFICES ASSUME I2cInv, LineInv, [I2cNext]_i2cVars
               PROVE  LineInv'
    OBVIOUS
  <2>1. CASE I2cNext
    <3>1. PICK access : Clocked(access) /\ Software(access)
      BY <2>1, Edge
    <3>2. QED
      BY <3>1, HeldStep, WireStep DEF I2cInv, LineInv
  <2>2. CASE UNCHANGED i2cVars
    <3>1. HeldInv'
      BY <2>2 DEF LineInv, HeldInv, Command, Commands, TIP, i2cVars, coreVars, ifVars,
                  driverVars
    <3>2. i_sda_out' = i_sda_out /\ Starts' = Starts /\ Stops' = Stops
      BY <2>2 DEF i_sda_out, Starts, Stops, Scl, Sda, i2cVars, coreVars, ifVars, devVars
    <3>3. WireInv'
      BY <2>2, <3>2 DEF LineInv, WireInv, i2cVars, coreVars, ifVars, clkVars, devVars
    <3>4. QED
      BY <3>1, <3>3 DEF LineInv
  <2>3. QED
    BY <2>1, <2>2
<1>3. QED
  BY <1>1, <1>2, I2cInvHolds, PTL DEF I2cSpec

\* SCL and SDA never move at one edge, so that no bit is a start or a stop
\* condition and no condition is missed: for every size of a byte, every
\* divisor from 1 on, any device, and a program that may start again in the
\* middle of any call.  With a divisor of 0 it does not hold.
THEOREM WiresStayApart ==
  ASSUME BytesGiven, DivisorGiven
  PROVE  I2cSpec => WiresMoveApart
<1>1. I2cInv /\ LineInv /\ [I2cNext]_i2cVars => [Scl' # Scl => Sda' = Sda]_i2cVars
  <2> SUFFICES ASSUME I2cInv, LineInv, I2cNext, Scl' # Scl PROVE Sda' = Sda
    OBVIOUS
  <2>1. PICK access : Clocked(access) /\ Software(access)
    BY Edge
  <2>2. QED
    BY <2>1, OneWireMoves DEF I2cInv, LineInv
<1>2. QED
  BY <1>1, I2cInvHolds, LineInvHolds, PTL DEF I2cSpec, WiresMoveApart

-----------------------------------------------------------------------------
(* The device keeps its types, whatever the wires do.                      *)

\* A state of the device, and how it changes: by a mode, a bit, or a turn to
\* another byte.
State(m, b, n, i, f) == [mode |-> m, bits |-> b, nth |-> n, index |-> i, first |-> f]

LEMMA TwoUpdates ==
  ASSUME NEW d, NEW x, NEW y
  PROVE  /\ [d EXCEPT !.mode = x, !.bits = y] = [[d EXCEPT !.mode = x] EXCEPT !.bits = y]
         /\ [d EXCEPT !.nth = x, !.index = y] = [[d EXCEPT !.nth = x] EXCEPT !.index = y]
         /\ [d EXCEPT !.nth = x, !.first = y] = [[d EXCEPT !.nth = x] EXCEPT !.first = y]
<1>1. [d EXCEPT !.mode = x, !.bits = y] = [[d EXCEPT !.mode = x] EXCEPT !.bits = y]
  OBVIOUS
<1>2. [d EXCEPT !.nth = x, !.index = y] = [[d EXCEPT !.nth = x] EXCEPT !.index = y]
  OBVIOUS
<1>3. [d EXCEPT !.nth = x, !.first = y] = [[d EXCEPT !.nth = x] EXCEPT !.first = y]
  OBVIOUS
<1>4. QED
  BY <1>1, <1>2, <1>3

LEMMA Changes ==
  ASSUME NEW d, DeviceTyped(d), NEW m, NEW n
  PROVE  /\ [d EXCEPT !.mode = m] = State(m, d.bits, d.nth, d.index, d.first)
         /\ Take(d) = State(d.mode, Append(d.bits, Sda), d.nth, d.index, d.first)
         /\ Turn(d, m) = State(m, <<>>, d.nth, d.index, d.first)
         /\ [Turn(d, m) EXCEPT !.nth = n] = State(m, <<>>, n, d.index, d.first)
<1>1. d = State(d.mode, d.bits, d.nth, d.index, d.first)
  BY DEF DeviceTyped, State
<1>2. [d EXCEPT !.mode = m] = State(m, d.bits, d.nth, d.index, d.first)
  BY <1>1 DEF State
<1>3. Take(d) = State(d.mode, Append(d.bits, Sda), d.nth, d.index, d.first)
  BY <1>1 DEF State, Take
<1>4. Turn(d, m) = State(m, <<>>, d.nth, d.index, d.first)
  <2>1. Turn(d, m) = [[d EXCEPT !.mode = m] EXCEPT !.bits = <<>>]
    BY TwoUpdates, Zenon DEF Turn
  <2>2. QED
    BY <1>2, <2>1 DEF State
<1>5. [Turn(d, m) EXCEPT !.nth = n] = State(m, <<>>, n, d.index, d.first)
  BY <1>4 DEF State
<1>6. QED
  BY <1>2, <1>3, <1>4, <1>5

LEMMA TurnsWithIndex ==
  ASSUME NEW d, DeviceTyped(d), NEW m, NEW n, NEW i
  PROVE  [Turn(d, m) EXCEPT !.nth = n, !.index = i] = State(m, <<>>, n, i, d.first)
<1> DEFINE u == [Turn(d, m) EXCEPT !.nth = n]
<1>1. [Turn(d, m) EXCEPT !.nth = n, !.index = i] = [u EXCEPT !.index = i]
  BY TwoUpdates, Zenon
<1>2. u = State(m, <<>>, n, d.index, d.first)
  BY Changes
<1> HIDE DEF u
<1>3. [u EXCEPT !.index = i] = State(m, <<>>, n, i, d.first)
  BY <1>2 DEF State
<1>4. QED
  BY <1>1, <1>3, Zenon

LEMMA TurnsWithFirst ==
  ASSUME NEW d, DeviceTyped(d), NEW m, NEW n, NEW f
  PROVE  [Turn(d, m) EXCEPT !.nth = n, !.first = f] = State(m, <<>>, n, d.index, f)
<1> DEFINE u == [Turn(d, m) EXCEPT !.nth = n]
<1>1. [Turn(d, m) EXCEPT !.nth = n, !.first = f] = [u EXCEPT !.first = f]
  BY TwoUpdates, Zenon
<1>2. u = State(m, <<>>, n, d.index, d.first)
  BY Changes
<1> HIDE DEF u
<1>3. [u EXCEPT !.first = f] = State(m, <<>>, n, d.index, f)
  BY <1>2 DEF State
<1>4. QED
  BY <1>1, <1>3, Zenon

LEMMA Parts ==
  \A m, b, n, i, f :
    /\ State(m, b, n, i, f).mode = m /\ State(m, b, n, i, f).bits = b
    /\ State(m, b, n, i, f).nth = n /\ State(m, b, n, i, f).index = i
    /\ State(m, b, n, i, f).first = f
BY DEF State

LEMMA StateTyped ==
  ASSUME NEW m \in Modes, NEW b \in Seq(Bit), NEW n \in Nat \ {0}, NEW i \in Indexes,
         NEW f \in Byte, Len(b) <= Bits,
         m \in {"accept", "refuse", "asked", "more"} => Len(b) = Bits
  PROVE  DeviceTyped(State(m, b, n, i, f))
BY DEF State, DeviceTyped

\* A byte is complete when its bits are.
LEMMA FullByte ==
  ASSUME NEW s \in Seq(Bit), Len(s) = Bits
  PROVE  s \in Byte
BY I2cConstants DEF Byte

LEMMA NoBits == <<>> \in Seq(Bit) /\ Len(<<>>) = 0 /\ 0 <= Bits /\ 0 # Bits
BY I2cConstants

LEMMA SendsABit ==
  ASSUME DeviceInv, NEW d, DeviceTyped(d), Len(d.bits) # Bits
  PROVE  NextBit(d) \in Bit
<1>1. d.bits \in Seq(Bit) /\ d.nth \in Nat \ {0} /\ d.index \in Indexes /\ Len(d.bits) <= Bits
  BY DEF DeviceTyped
<1>2. Len(d.bits) \in Nat
  BY <1>1, LenProperties
<1>3. Len(d.bits) + 1 \in 1..Bits
  BY <1>1, <1>2, I2cConstants
<1>4. ((d.nth - 1) % 2) + 1 \in 1..2
  BY <1>1
<1>5. memory[d.index][((d.nth - 1) % 2) + 1] \in Byte
  BY <1>1, <1>4 DEF DeviceInv
<1>6. QED
  BY <1>3, <1>5 DEF NextBit, Byte

LEMMA FallTyped ==
  ASSUME BytesGiven, DeviceInv, FallingEdge
  PROVE  DeviceTyped(dev') /\ dev_sda' \in Bit
<1>1. /\ dev.mode \in Modes /\ dev.bits \in Seq(Bit) /\ Len(dev.bits) <= Bits
      /\ dev.nth \in Nat \ {0} /\ dev.index \in Indexes /\ dev.first \in Byte
      /\ DeviceTyped(dev) /\ dev_sda \in Bit
      /\ dev.mode \in {"accept", "refuse", "asked", "more"} => Len(dev.bits) = Bits
  BY DEF DeviceInv, DeviceTyped
<1>2. 0 \in Bit /\ 1 \in Bit /\ 1 \in Nat \ {0} /\ 3 \in Nat \ {0} /\ dev.nth + 1 \in Nat \ {0}
  BY <1>1 DEF Bit
\* A device that sends the first bit of a byte.
<1>3. ASSUME NEW n \in Nat \ {0}, Sending([Turn(dev, "send") EXCEPT !.nth = n])
      PROVE  DeviceTyped(dev') /\ dev_sda' \in Bit
  <2>1. [Turn(dev, "send") EXCEPT !.nth = n] = State("send", <<>>, n, dev.index, dev.first)
    BY <1>1, Changes
  <2>2. DeviceTyped(State("send", <<>>, n, dev.index, dev.first))
    BY <1>1, StateTyped, NoBits DEF Modes
  <2>3. Len(State("send", <<>>, n, dev.index, dev.first).bits) # Bits
    BY Parts, NoBits
  <2>4. QED
    BY <1>3, <2>1, <2>2, <2>3, SendsABit DEF Sending
<1>4. CASE dev.mode = "recv" /\ Full(dev)
  <2>1. PICK m \in {"accept", "refuse"} :
          dev' = [dev EXCEPT !.mode = m] /\ dev_sda' = IF m = "accept" THEN 0 ELSE 1
    BY <1>4 DEF FallingEdge, Answer
  <2>2. dev' = State(m, dev.bits, dev.nth, dev.index, dev.first)
    BY <1>1, <2>1, Changes
  <2>3. QED
    BY <1>1, <1>2, <1>4, <2>1, <2>2, StateTyped DEF Full, Modes
<1>5. CASE dev.mode = "accept"
  <2>1. dev.bits \in Byte
    BY <1>1, <1>5, FullByte
  <2>2. CASE dev.nth = 1 /\ dev.bits = AddrR
    BY <1>2, <1>3, <1>5, <2>2 DEF FallingEdge, AfterByte
  <2>3. CASE ~(dev.nth = 1 /\ dev.bits = AddrR) /\ dev.nth = 2 /\ dev.bits \in Indexes
    <3>1. dev' = [Turn(dev, "recv") EXCEPT !.nth = 3, !.index = dev.bits] /\ dev_sda' = 1
      BY <1>5, <2>3 DEF FallingEdge, AfterByte
    <3>2. \A n, i : [Turn(dev, "recv") EXCEPT !.nth = n, !.index = i]
                       = State("recv", <<>>, n, i, dev.first)
      BY <1>1, TurnsWithIndex, Zenon
    <3>3. dev' = State("recv", <<>>, 3, dev.bits, dev.first)
      BY <3>1, <3>2, Zenon
    <3>4. DeviceTyped(State("recv", <<>>, 3, dev.bits, dev.first))
      BY <1>1, <1>2, <2>3, StateTyped, NoBits DEF Modes
    <3>5. QED
      BY <1>2, <3>1, <3>3, <3>4
  <2>4. CASE ~(dev.nth = 1 /\ dev.bits = AddrR) /\ ~(dev.nth = 2 /\ dev.bits \in Indexes)
    <3>1. dev' = [Turn(dev, "recv") EXCEPT !.nth = dev.nth + 1, !.first = dev.bits]
          /\ dev_sda' = 1
      BY <1>5, <2>4 DEF FallingEdge, AfterByte
    <3>2. \A n, f : [Turn(dev, "recv") EXCEPT !.nth = n, !.first = f]
                       = State("recv", <<>>, n, dev.index, f)
      BY <1>1, TurnsWithFirst, Zenon
    <3>3. dev' = State("recv", <<>>, dev.nth + 1, dev.index, dev.bits)
      BY <3>1, <3>2, Zenon
    <3>4. DeviceTyped(State("recv", <<>>, dev.nth + 1, dev.index, dev.bits))
      BY <1>1, <1>2, <2>1, StateTyped, NoBits DEF Modes
    <3>5. QED
      BY <1>2, <3>1, <3>3, <3>4
  <2>5. QED
    BY <2>2, <2>3, <2>4
<1>6. CASE dev.mode = "refuse"
  <2>1. dev' = Turn(dev, "off") /\ dev_sda' = 1
    BY <1>6 DEF FallingEdge
  <2>2. dev' = State("off", <<>>, dev.nth, dev.index, dev.first)
    BY <1>1, <2>1, Changes
  <2>3. DeviceTyped(State("off", <<>>, dev.nth, dev.index, dev.first))
    BY <1>1, StateTyped, NoBits DEF Modes
  <2>4. QED
    BY <1>2, <2>1, <2>2, <2>3
<1>7. CASE dev.mode = "send" /\ ~Full(dev)
  BY <1>1, <1>7, SendsABit DEF FallingEdge, Sending, Full
<1>8. CASE dev.mode = "send" /\ Full(dev)
  <2>1. dev' = [dev EXCEPT !.mode = "asked"] /\ dev_sda' = 1
    BY <1>8 DEF FallingEdge
  <2>2. dev' = State("asked", dev.bits, dev.nth, dev.index, dev.first)
    BY <1>1, <2>1, Changes
  <2>3. QED
    BY <1>1, <1>2, <1>8, <2>1, <2>2, StateTyped DEF Full, Modes
<1>9. CASE dev.mode = "more"
  BY <1>2, <1>3, <1>9 DEF FallingEdge
<1>10. CASE (dev.mode = "recv" /\ ~Full(dev)) \/ dev.mode \in {"off", "asked"}
  <2>1. UNCHANGED <<dev, dev_sda>>
    BY <1>10 DEF FallingEdge
  <2>2. QED
    BY <1>1, <2>1
<1>11. QED
  BY <1>1, <1>4, <1>5, <1>6, <1>7, <1>8, <1>9, <1>10 DEF Modes

LEMMA RiseTyped ==
  ASSUME DeviceInv, RisingEdge
  PROVE  DeviceTyped(dev') /\ dev_sda' \in Bit
<1>1. /\ dev.mode \in Modes /\ dev.bits \in Seq(Bit) /\ Len(dev.bits) <= Bits
      /\ dev.nth \in Nat \ {0} /\ dev.index \in Indexes /\ dev.first \in Byte
      /\ DeviceTyped(dev) /\ dev_sda \in Bit
      /\ dev.mode \in {"accept", "refuse", "asked", "more"} => Len(dev.bits) = Bits
  BY DEF DeviceInv, DeviceTyped
<1>2. dev_sda' = dev_sda
  BY DEF RisingEdge
<1>3. CASE dev.mode \in {"recv", "send"} /\ ~Full(dev)
  <2>1. dev' = State(dev.mode, Append(dev.bits, Sda), dev.nth, dev.index, dev.first)
    BY <1>1, <1>3, Changes DEF RisingEdge
  <2>2. Sda \in Bit
    BY DEF Sda, Bit
  <2>3. /\ Append(dev.bits, Sda) \in Seq(Bit)
        /\ Len(Append(dev.bits, Sda)) = Len(dev.bits) + 1
    BY <1>1, <2>2, AppendProperties
  <2>4. Len(dev.bits) + 1 <= Bits
    BY <1>1, <1>3, LenProperties, I2cConstants DEF Full
  <2>5. DeviceTyped(State(dev.mode, Append(dev.bits, Sda), dev.nth, dev.index, dev.first))
    BY <1>1, <1>3, <2>3, <2>4, StateTyped
  <2>6. QED
    BY <1>1, <1>2, <2>1, <2>5
<1>4. CASE dev.mode = "asked"
  <2>1. \/ dev' = [dev EXCEPT !.mode = "more"]
        \/ dev' = Turn(dev, "off")
    BY <1>4 DEF RisingEdge
  <2>2. \/ dev' = State("more", dev.bits, dev.nth, dev.index, dev.first)
        \/ dev' = State("off", <<>>, dev.nth, dev.index, dev.first)
    BY <1>1, <2>1, Changes
  <2>3. /\ DeviceTyped(State("more", dev.bits, dev.nth, dev.index, dev.first))
        /\ DeviceTyped(State("off", <<>>, dev.nth, dev.index, dev.first))
    BY <1>1, <1>4, StateTyped, NoBits DEF Modes
  <2>4. QED
    BY <1>1, <1>2, <2>2, <2>3
<1>5. CASE ~(dev.mode \in {"recv", "send"} /\ ~Full(dev)) /\ dev.mode # "asked"
  BY <1>1, <1>2, <1>5 DEF RisingEdge
<1>6. QED
  BY <1>3, <1>4, <1>5

\* What the device sees at an edge is one thing at most.
LEMMA DeviceCases ==
  ASSUME Device
  PROVE  /\ Starts => dev' = [Turn(dev, "recv") EXCEPT !.nth = 1] /\ dev_sda' = 1
         /\ Stops => dev' = Turn(dev, "off") /\ dev_sda' = 1
         /\ Rises => RisingEdge
         /\ Falls => FallingEdge
         /\ ~Starts /\ ~Stops /\ ~Rises /\ ~Falls => UNCHANGED <<dev, dev_sda>>
<1>1. /\ Starts => ~Stops /\ ~Rises /\ ~Falls
      /\ Stops => ~Rises /\ ~Falls
      /\ Rises => ~Falls
  BY DEF Starts, Stops, Rises, Falls
<1>2. CASE Starts
  BY <1>1, <1>2 DEF Device
<1>3. CASE Stops
  BY <1>1, <1>3 DEF Device
<1>4. CASE Rises
  BY <1>1, <1>4 DEF Device
<1>5. CASE Falls
  BY <1>1, <1>5 DEF Device
<1>6. CASE ~Starts /\ ~Stops /\ ~Rises /\ ~Falls
  BY <1>6 DEF Device
<1>7. QED
  BY <1>2, <1>3, <1>4, <1>5, <1>6

LEMMA DeviceStep ==
  ASSUME BytesGiven, DeviceInv, Device
  PROVE  DeviceInv'
<1>1. DeviceTyped(dev) /\ dev_sda \in Bit /\ memory \in [Indexes -> [1..2 -> Byte]]
  BY DEF DeviceInv
<1>2. memory' \in [Indexes -> [1..2 -> Byte]]
  <2>1. CASE Stored
    <3>1. dev.bits \in Byte /\ dev.first \in Byte
      BY <1>1, <2>1, FullByte DEF Stored, DeviceTyped
    <3>2. <<dev.first, dev.bits>> \in [1..2 -> Byte]
      BY <3>1
    <3>3. memory' = [memory EXCEPT ![dev.index] = <<dev.first, dev.bits>>]
      BY <2>1 DEF Device
    <3>4. QED
      BY <1>1, <3>2, <3>3
  <2>2. CASE ~Stored
    BY <1>1, <2>2 DEF Device
  <2>3. QED
    BY <2>1, <2>2
<1>3. DeviceTyped(dev') /\ dev_sda' \in Bit
  <2>1. 1 \in Bit /\ 1 \in Nat \ {0}
    BY DEF Bit
  <2>2. /\ dev.nth \in Nat \ {0} /\ dev.index \in Indexes /\ dev.first \in Byte
    BY <1>1 DEF DeviceTyped
  <2>3. CASE Starts
    <3>1. dev' = [Turn(dev, "recv") EXCEPT !.nth = 1] /\ dev_sda' = 1
      BY <2>3, DeviceCases
    <3>2. dev' = State("recv", <<>>, 1, dev.index, dev.first)
      BY <1>1, <3>1, Changes
    <3>3. DeviceTyped(State("recv", <<>>, 1, dev.index, dev.first))
      BY <2>1, <2>2, StateTyped, NoBits DEF Modes
    <3>4. QED
      BY <2>1, <3>1, <3>2, <3>3
  <2>4. CASE ~Starts /\ Stops
    <3>1. dev' = Turn(dev, "off") /\ dev_sda' = 1
      BY <2>4, DeviceCases
    <3>2. dev' = State("off", <<>>, dev.nth, dev.index, dev.first)
      BY <1>1, <3>1, Changes
    <3>3. DeviceTyped(State("off", <<>>, dev.nth, dev.index, dev.first))
      BY <2>1, <2>2, StateTyped, NoBits DEF Modes
    <3>4. QED
      BY <2>1, <3>1, <3>2, <3>3
  <2>5. CASE ~Starts /\ ~Stops /\ Rises
    BY <2>5, RiseTyped, DeviceCases
  <2>6. CASE ~Starts /\ ~Stops /\ ~Rises /\ Falls
    BY <2>6, FallTyped, DeviceCases
  <2>7. CASE ~Starts /\ ~Stops /\ ~Rises /\ ~Falls
    BY <1>1, <2>7, DeviceCases
  <2>8. QED
    BY <2>3, <2>4, <2>5, <2>6, <2>7
<1>4. QED
  BY <1>2, <1>3 DEF DeviceInv

LEMMA DeviceInvHolds ==
  ASSUME BytesGiven
  PROVE  I2cSpec => []DeviceInv
<1>1. I2cInit => DeviceInv
  <2> SUFFICES ASSUME I2cInit PROVE DeviceInv
    OBVIOUS
  <2>1. memory \in [Indexes -> [1..2 -> Byte]]
    BY DEF I2cInit, BytesGiven
  <2>2. PICK i \in Indexes : dev = State("off", <<>>, 1, i, Zeros)
    BY DEF I2cInit, State
  <2>3. Zeros \in Byte
    BY DEF Zeros, Byte, Bit
  <2>4. DeviceTyped(State("off", <<>>, 1, i, Zeros))
    <3>1. 1 \in Nat \ {0} /\ "off" \in Modes
      BY DEF Modes
    <3>2. "off" \notin {"accept", "refuse", "asked", "more"}
      OBVIOUS
    <3>3. QED
      BY <2>3, <3>1, <3>2, StateTyped, NoBits
  <2>5. QED
    BY <2>1, <2>2, <2>4 DEF DeviceInv, I2cInit, Bit
<1>2. DeviceInv /\ [I2cNext]_i2cVars => DeviceInv'
  <2> SUFFICES ASSUME DeviceInv, [I2cNext]_i2cVars PROVE DeviceInv'
    OBVIOUS
  <2>1. CASE I2cNext
    <3>1. PICK access : Clocked(access) /\ Software(access)
      BY <2>1, Edge
    <3>2. Device
      BY <3>1 DEF Clocked
    <3>3. QED
      BY <3>2, DeviceStep
  <2>2. CASE UNCHANGED i2cVars
    BY <2>2 DEF DeviceInv, i2cVars, devVars
  <2>3. QED
    BY <2>1, <2>2
<1>3. QED
  BY <1>1, <1>2, PTL DEF I2cSpec

-----------------------------------------------------------------------------
(* What crosses the wires.  A command of a call puts a start condition, a  *)
(* byte and a stop condition on them, or some of these; the invariant says *)
(* where the device is, and how much of the history has been written, in   *)
(* each state of the controller.                                           *)

\* A device has two addresses, and a call reads one or both bytes of a
\* register (i2c.c:179, 187; function_i2c.c:23).
ReadsGiven == AddrW # AddrR /\ ReadSizes \subseteq 1..2

\* The program is not restarted in a read: the device would go on sending.
ReadsGoOn == "read" \notin CpuRestarts

Starting == {"Start_A", "Start_B", "Start_C", "Start_D"}

\* Where the clock pulse of a bit is, and the bits of the byte so far.
Pulse ==
  IF scl_was = 1 THEN "high"
  ELSE IF p_state \in Falling \cup {"Wr_E", "Rd_F"} THEN "after"
  ELSE "before"

\* What the clock of the controller leaves time for.
PhaseInv ==
  /\ p_state \in Rising /\ scl_out = 0 => sclk = 0
  /\ p_state \in High => scl_was = 1
  /\ p_state \in Falling => scl_was = 1 \/ scl_out = 0
  /\ p_state = "Start_C" /\ sda_out = 1 => sclk = 0
  /\ p_state = "Stop_C" /\ sda_out = 0 => sclk = 0
  /\ p_state \in Starting => start_reg = 1 /\ i_ctr = 0
  /\ p_state \in {"Wr_E", "Rd_F"} => i_ctr # Bits - 1

\* What the software reads is what the controller has taken.
CopyInv ==
  /\ p_state # "RdAck_D" => ack_out = i_ack_out
  /\ p_state # "Rd_D" => data_out = i_dout

\* The command under way is the one the driver is at, and its call is
\* pending or was abandoned.
CommandInv ==
  /\ TIP => /\ write_reg = Command.ctl.wr /\ read_reg = Command.ctl.rd
            /\ start_reg = Command.ctl.sta /\ stop_reg = Command.ctl.stp
            /\ ack_reg = Command.ctl.ack
  /\ (TIP \/ pc = "Control") /\ Command.ctl.wr = 1 => i_data_in = Command.byte
  /\ pc = "Check" => Command.ctl.wr = 1
  /\ pc = "Fetch" => Command.ctl.rd = 1
  /\ pc = "Abort" => Command.ctl.wr = 1
  /\ outcome \in {"none", "pending", "abandoned", "SUCCESS", "ENODEV", "EBADACK"}
  /\ pc = "Idle" <=> outcome # "pending"
  /\ pc = "Idle" /\ TIP => outcome = "abandoned"
  /\ outcome = "abandoned" => call.dir = "write"

LEMMA PhaseStep ==
  ASSUME DivisorGiven, RegisterInv, HandoverInv, WireInv, PhaseInv,
         NEW access, Clocked(access)
  PROVE  PhaseInv'
<1>1. i2c_core /\ i2c_clkgen /\ data_in_sync(access) /\ Device
  BY DEF Clocked
<1>2. /\ p_state' = (IF sclk = 1 \/ p_state \in Unclocked THEN n_state ELSE p_state)
      /\ scl_out' = i_scl_out /\ sda_out' = i_sda_out /\ scl_was' = scl_out
      /\ i_ctr' = CASE p_state = "Idle"             -> 0
                    [] p_state \in {"Rd_F", "Wr_E"} -> (i_ctr + 1) % Bits
                    [] OTHER                        -> i_ctr
  BY <1>1 DEF i2c_core, Device, Scl
<1>3. sclk = 1 => sclk' = 0
  <2>1. sclk = 1 => ~(clk_ctr >= Divisor)
    BY I2cConstants DEF WireInv, DivisorGiven
  <2>2. QED
    BY <1>1, <2>1 DEF i2c_clkgen
<1>4. /\ p_state' \in Rising => \/ p_state \in Rising
                                \/ sclk = 1
      /\ p_state' \in High => (p_state \in Rising /\ sclk = 1) \/ p_state \in High
      /\ p_state' = "Start_C" => p_state = "Start_C" \/ sclk = 1
      /\ p_state' = "Stop_C" => p_state = "Stop_C" \/ sclk = 1
      /\ p_state' \in Starting => p_state \in Starting \/ (p_state = "Idle" /\ TIP /\ start_reg = 1)
      /\ p_state' = "Wr_E" => p_state = "Wr_D" /\ ~LastBit
      /\ p_state' = "Rd_F" => p_state = "Rd_E" /\ ~LastBit
  BY <1>2, Successors
     DEF RegisterInv, States, Unclocked, Writing, AckOut, Rising, High, Starting, Transfer, TIP
<1>5. p_state' \in Rising /\ scl_out' = 0 => sclk' = 0
  BY <1>2, <1>3, <1>4, Outputs DEF RegisterInv
<1>6. p_state' \in High => scl_was' = 1
  BY <1>2, <1>4 DEF PhaseInv, RegisterInv, Bit, WireInv
<1>7. p_state' = "Start_C" /\ sda_out' = 1 => sclk' = 0
  BY <1>2, <1>3, <1>4, Levels
<1>8. p_state' = "Stop_C" /\ sda_out' = 0 => sclk' = 0
  BY <1>2, <1>3, <1>4, Levels
<1>9. p_state' \in Starting => start_reg' = 1 /\ i_ctr' = 0
  <2> SUFFICES ASSUME p_state' \in Starting PROVE start_reg' = 1 /\ i_ctr' = 0
    OBVIOUS
  <2>1. p_state \in Starting \cup {"Idle"} /\ start_reg = 1 /\ TIP
    BY <1>4 DEF PhaseInv, HandoverInv, Starting
  <2>2. cmd_done # 1
    BY <2>1 DEF HandoverInv, Starting
  <2>3. start_reg' = start_reg
    BY <1>1, <2>1, <2>2, Interface
  <2>4. QED
    BY <1>2, <2>1, <2>3 DEF PhaseInv, Starting
<1>10. p_state' \in {"Wr_E", "Rd_F"} => i_ctr' # Bits - 1
  BY <1>2, <1>4 DEF LastBit
<1>11. p_state' \in Falling => scl_was' = 1 \/ scl_out' = 0
  <2>1. p_state' \in Falling => p_state \in High \cup Falling
    BY <1>2, Successors
       DEF RegisterInv, States, Unclocked, Writing, AckOut, High, Falling, Transfer
  <2>2. QED
    BY <1>2, <2>1, Outputs DEF RegisterInv, WireInv
<1>12. QED
  BY <1>5, <1>6, <1>7, <1>8, <1>9, <1>10, <1>11 DEF PhaseInv

LEMMA CopyStep ==
  ASSUME RegisterInv, CopyInv, i2c_core
  PROVE  CopyInv'
<1>1. /\ p_state' = (IF sclk = 1 \/ p_state \in Unclocked THEN n_state ELSE p_state)
      /\ data_out' = i_dout /\ ack_out' = i_ack_out
      /\ p_state # "RdAck_C" => i_ack_out' = i_ack_out
      /\ p_state # "Rd_C" => i_dout' = i_dout
  BY DEF i2c_core
<1>2. /\ p_state = "RdAck_C" => p_state' = "RdAck_D"
      /\ p_state = "Rd_C" => p_state' = "Rd_D"
  BY <1>1, Successors DEF RegisterInv, Unclocked
<1>3. QED
  BY <1>1, <1>2 DEF CopyInv

\* While a command is under way the driver waits, unless it is restarted.
LEMMA Busy ==
  ASSUME HandoverInv, NEW access, data_in_sync(access), Move(access), TIP
  PROVE  /\ access = NoAccess /\ pc \in Polling
         /\ UNCHANGED <<call, step, i_data_in, ack_reg>>
         /\ Commands' = Commands /\ Command' = Command
         /\ cmd_done # 1 => TIP' /\ UNCHANGED <<write_reg, read_reg, start_reg, stop_reg>>
         /\ cmd_done = 1 => ~TIP'
         /\ \/ pc' = pc /\ UNCHANGED <<outcome, value>>
            \/ /\ pc = "Poll" /\ pc' = "Idle" /\ call.dir \in CpuRestarts
               /\ outcome' = "abandoned" /\ value' = <<>>
<1>1. pc \in Polling
  BY DEF HandoverInv
<1>2. /\ access = NoAccess /\ UNCHANGED <<call, step>>
      /\ \/ pc' = pc /\ UNCHANGED <<outcome, value>>
         \/ /\ pc = "Poll" /\ pc' = "Idle" /\ call.dir \in CpuRestarts
            /\ outcome' = "abandoned" /\ value' = <<>>
  BY <1>1 DEF Move, Polling
<1>3. Commands' = Commands
  BY <1>2 DEF Commands
<1>4. Command' = Command
  BY <1>2, <1>3 DEF Command
<1>5. access.reg = "none"
  BY <1>2, Accesses
<1>6. i_data_in' = i_data_in /\ ack_reg' = ack_reg
  BY <1>5, Interface
<1>7. cmd_done # 1 => TIP' /\ UNCHANGED <<write_reg, read_reg, start_reg, stop_reg>>
  BY Interface DEF TIP
<1>8. cmd_done = 1 => ~TIP'
  BY Interface DEF TIP
<1>9. QED
  BY <1>1, <1>2, <1>3, <1>4, <1>6, <1>7, <1>8

\* A command begins when the driver writes the control register, and only then.
LEMMA Free ==
  ASSUME RegisterInv, HandoverInv, NEW access, Clocked(access), Move(access), ~TIP
  PROVE  /\ p_state \in {"Reset", "Idle", "DoneAck"} /\ p_state' \in {"Idle", "DoneAck"}
         /\ TIP' => /\ pc = "Control" /\ pc' = "Poll" /\ p_state' = "Idle"
                    /\ UNCHANGED <<call, step, outcome, value, i_data_in>>
                    /\ write_reg' = Command.ctl.wr /\ read_reg' = Command.ctl.rd
                    /\ start_reg' = Command.ctl.sta /\ stop_reg' = Command.ctl.stp
                    /\ ack_reg' = Command.ctl.ack
         /\ pc # "Data" => i_data_in' = i_data_in
         /\ pc = "Data" => access.reg # "data" \/ i_data_in' = Command.byte
         /\ UNCHANGED <<i_ack_out, i_dout>>
<1>1. i2c_core /\ data_in_sync(access)
  BY DEF Clocked
<1>2. /\ p_state \in {"Reset", "Idle", "DoneAck"}
      /\ pc = "Control" => p_state = "Idle"
  BY DEF HandoverInv, Polling
<1>3. /\ p_state' = (IF sclk = 1 \/ p_state \in Unclocked THEN n_state ELSE p_state)
      /\ p_state \notin {"Rd_C", "RdAck_C"} => UNCHANGED <<i_ack_out, i_dout>>
  BY <1>1 DEF i2c_core
<1>4. /\ p_state' \in {"Idle", "DoneAck"}
      /\ p_state = "Idle" => p_state' = "Idle"
  BY <1>2, <1>3, Successors DEF RegisterInv, Unclocked, States, Transfer, TIP
<1>5. TIP' => access.reg = "control" /\ (access.ctl.wr = 1 \/ access.ctl.rd = 1)
  BY <1>1, Interface DEF TIP
<1>6. TIP' => /\ pc = "Control" /\ pc' = "Poll" /\ access = WriteControl(Command.ctl)
              /\ UNCHANGED <<call, step, outcome, value>>
  BY <1>5, Accesses DEF Move, StopAlone
<1>7. access = WriteControl(Command.ctl) =>
        /\ write_reg' = Command.ctl.wr /\ read_reg' = Command.ctl.rd
        /\ start_reg' = Command.ctl.sta /\ stop_reg' = Command.ctl.stp
        /\ ack_reg' = Command.ctl.ack /\ i_data_in' = i_data_in
  BY <1>1, Accesses, Interface
<1>8. pc # "Data" => i_data_in' = i_data_in
  <2>1. pc # "Data" => access.reg # "data"
    BY Accesses DEF Move
  <2>2. QED
    BY <1>1, <2>1, Interface
<1>9. pc = "Data" => access.reg # "data" \/ i_data_in' = Command.byte
  <2>1. pc = "Data" /\ access.reg = "data" => access.byte = Command.byte
    BY Accesses DEF Move
  <2>2. QED
    BY <1>1, <2>1, Interface
<1>10. QED
  BY <1>2, <1>3, <1>4, <1>6, <1>7, <1>8, <1>9

LEMMA CommandStep ==
  ASSUME BytesGiven, ReadsGoOn, RegisterInv, HandoverInv, DriverInv, CommandInv,
         NEW access, Clocked(access), Software(access)
  PROVE  CommandInv'
<1>1. Move(access) /\ data_in_sync(access)
  BY DriverMoves DEF Clocked
<1>2. \A d \in CpuRestarts : d = "write"
  BY I2cConstants DEF ReadsGoOn
<1>3. Command.ctl.wr = 1 <=> Command.ctl.rd = 0
  BY CommandList DEF WellFormed, DriverInv, Command
<1>4. Command.ctl.wr \in Bit /\ Command.ctl.rd \in Bit
  BY CommandList DEF WellFormed, DriverInv, Command, Control
<1>5. call' = call => Commands' = Commands
  BY DEF Commands
<1>6. call' = call /\ step' = step => Command' = Command
  BY <1>5 DEF Command
<1>7. TIP' => /\ write_reg' = Command'.ctl.wr /\ read_reg' = Command'.ctl.rd
              /\ start_reg' = Command'.ctl.sta /\ stop_reg' = Command'.ctl.stp
              /\ ack_reg' = Command'.ctl.ack
  <2>1. CASE TIP
    BY <1>1, <2>1, Busy DEF CommandInv
  <2>2. CASE ~TIP
    BY <1>1, <1>6, <2>2, Free
  <2>3. QED
    BY <2>1, <2>2
<1>8. (TIP' \/ pc' = "Control") /\ Command'.ctl.wr = 1 => i_data_in' = Command'.byte
  <2>1. CASE TIP
    BY <1>1, <2>1, Busy DEF CommandInv, Polling
  <2>2. CASE ~TIP
    <3>1. TIP' => pc = "Control" /\ Command' = Command /\ i_data_in' = i_data_in
      BY <1>1, <1>6, <2>2, Free
    <3>2. pc' = "Control" => /\ Command' = Command
                             /\ \/ pc = "Control"
                                \/ pc = "Wait" /\ Command.ctl.wr # 1
                                \/ pc = "Data" /\ access.reg = "data"
                                \/ pc = "Data" /\ pc' = "Data"
      BY <1>1, <1>6, Accesses DEF Move
    <3>3. pc = "Control" => i_data_in' = i_data_in
      BY <1>1, <2>2, Free
    <3>4. pc = "Data" /\ access.reg = "data" => i_data_in' = Command.byte
      BY <1>1, <2>2, Free
    <3>5. QED
      BY <3>1, <3>2, <3>3, <3>4 DEF CommandInv
  <2>3. QED
    BY <2>1, <2>2
<1>9. /\ pc' = "Check" => Command'.ctl.wr = 1
      /\ pc' = "Fetch" => Command'.ctl.rd = 1
      /\ pc' = "Abort" => Command'.ctl.wr = 1
  BY <1>1, <1>3, <1>4, <1>6 DEF Move, CommandInv, Bit
<1>10. ErrorAt(step) \in {"ENODEV", "EBADACK"}
  BY DEF ErrorAt
<1>11. /\ outcome' \in {"none", "pending", "abandoned", "SUCCESS", "ENODEV", "EBADACK"}
       /\ pc' = "Idle" <=> outcome' # "pending"
       /\ outcome' = "abandoned" => call'.dir = "write"
  BY <1>1, <1>2, <1>10 DEF Move, CommandInv
<1>12. pc' = "Idle" /\ TIP' => outcome' = "abandoned"
  <2>1. CASE TIP
    BY <1>1, <2>1, Busy DEF CommandInv
  <2>2. CASE ~TIP
    BY <1>1, <2>2, Free
  <2>3. QED
    BY <2>1, <2>2
<1>13. QED
  BY <1>7, <1>8, <1>9, <1>11, <1>12 DEF CommandInv

-----------------------------------------------------------------------------
(* The script of a call, and the place of each command in it.              *)

Items == {T!START, T!STOP} \cup {T!Sent(b) : b \in Byte} \cup {T!Got(i) : i \in Nat}

WriteItems(c, script) ==
  /\ script \in Seq(Items) /\ Len(script) = 3 + c.size + One(c.size > 0)
  /\ script[1] = T!START /\ script[2] = T!Sent(AddrW) /\ script[3] = T!Sent(c.index)
  /\ \A i \in 1..c.size : script[3 + i] = T!Sent(c.word[i])
  /\ c.size > 0 => script[4 + c.size] = T!STOP

ReadItems(c, script) ==
  /\ script \in Seq(Items) /\ Len(script) = 6 + c.size
  /\ script[1] = T!START /\ script[2] = T!Sent(AddrW) /\ script[3] = T!Sent(c.index)
  /\ script[4] = T!START /\ script[5] = T!Sent(AddrR)
  /\ \A i \in 1..c.size : script[5 + i] = T!Got(i)
  /\ script[6 + c.size] = T!STOP

LEMMA WriteScript ==
  ASSUME BytesGiven, NEW c, c \in T!Calls, c.dir = "write"
  PROVE  WriteItems(c, T!Script(c))
<1>1. c.size \in 0..2 /\ c.word \in [1..2 -> Byte] /\ c.index \in Byte /\ AddrW \in Byte
  BY WriteArray DEF WriteEntries, BytesGiven
<1> DEFINE A == <<T!START, T!Sent(AddrW), T!Sent(c.index)>>
           B == [i \in 1..c.size |-> T!Sent(c.word[i])]
           E == IF c.size > 0 THEN <<T!STOP>> ELSE <<>>
<1>2. T!START \in Items /\ T!STOP \in Items /\ \A b \in Byte : T!Sent(b) \in Items
  BY DEF Items
<1>3. A \in Seq(Items) /\ Len(A) = 3 /\ A[1] = T!START /\ A[2] = T!Sent(AddrW)
      /\ A[3] = T!Sent(c.index)
  BY <1>1, <1>2
<1>4. B \in Seq(Items) /\ Len(B) = c.size /\ \A i \in 1..c.size : B[i] = T!Sent(c.word[i])
  <2>1. \A i \in 1..c.size : c.word[i] \in Byte
    BY <1>1
  <2>2. B \in [1..c.size -> Items]
    BY <1>2, <2>1
  <2>3. c.size \in Nat
    BY <1>1
  <2>4. \A i \in 1..c.size : B[i] = T!Sent(c.word[i])
    OBVIOUS
  <2> HIDE DEF B
  <2>5. QED
    BY <2>2, <2>3, <2>4
<1>5. E \in Seq(Items) /\ Len(E) = One(c.size > 0) /\ (c.size > 0 => E[1] = T!STOP)
  BY <1>1, <1>2 DEF One
<1>6. T!Script(c) = A \o B \o E
  BY DEF T!Script, T!Data
<1> HIDE DEF A, B, E
<1>7. /\ A \o B \in Seq(Items) /\ Len(A \o B) = 3 + c.size
      /\ \A k \in 1..3 + c.size : (A \o B)[k] = IF k <= 3 THEN A[k] ELSE B[k - 3]
  <2>1. /\ A \o B \in Seq(Items) /\ Len(A \o B) = Len(A) + Len(B)
        /\ \A k \in 1..Len(A) + Len(B) :
             (A \o B)[k] = IF k <= Len(A) THEN A[k] ELSE B[k - Len(A)]
    BY <1>3, <1>4, ConcatProperties
  <2>2. QED
    BY <1>1, <1>3, <1>4, <2>1
<1>8. PICK n \in Nat : n = c.size /\ One(c.size > 0) = IF n > 0 THEN 1 ELSE 0
  BY <1>1 DEF One
<1>9. /\ A \o B \o E \in Seq(Items) /\ Len(A \o B \o E) = 3 + n + One(c.size > 0)
      /\ \A k \in 1..3 + n + One(c.size > 0) :
           (A \o B \o E)[k] = IF k <= 3 + n THEN (A \o B)[k] ELSE E[k - (3 + n)]
  <2> DEFINE F == A \o B
  <2>1. F \in Seq(Items) /\ Len(F) = 3 + n
    BY <1>7, <1>8
  <2> HIDE DEF F
  <2>2. /\ F \o E \in Seq(Items) /\ Len(F \o E) = Len(F) + Len(E)
        /\ \A k \in 1..Len(F) + Len(E) :
             (F \o E)[k] = IF k <= Len(F) THEN F[k] ELSE E[k - Len(F)]
    BY <1>5, <2>1, ConcatProperties
  <2>3. QED
    BY <1>5, <2>1, <2>2 DEF F
<1>10. (A \o B \o E)[1] = A[1] /\ (A \o B \o E)[2] = A[2] /\ (A \o B \o E)[3] = A[3]
  BY <1>7, <1>8, <1>9
<1>11. \A i \in 1..n : (A \o B \o E)[3 + i] = B[i]
  <2>1. TAKE i \in 1..n
  <2>2. 3 + i \in 1..3 + n /\ 3 + i \in 1..3 + n + One(c.size > 0) /\ ~(3 + i <= 3)
        /\ 3 + i - 3 = i
    BY <1>8
  <2>3. QED
    BY <1>7, <1>8, <1>9, <2>2
<1>12. n > 0 => (A \o B \o E)[4 + n] = E[1]
  <2>1. n > 0 => /\ 4 + n \in 1..3 + n + One(c.size > 0) /\ ~(4 + n <= 3 + n)
                 /\ 4 + n - (3 + n) = 1
    BY <1>8
  <2>2. QED
    BY <1>9, <2>1
<1>13. WriteItems(c, A \o B \o E)
  BY <1>3, <1>4, <1>5, <1>8, <1>9, <1>10, <1>11, <1>12 DEF WriteItems
<1>14. QED
  BY <1>6, <1>13, Zenon

LEMMA ReadScript ==
  ASSUME BytesGiven, NEW c, c \in T!Calls, c.dir = "read", c.size > 0
  PROVE  ReadItems(c, T!Script(c))
<1>1. c.size \in Nat /\ c.index \in Byte /\ AddrW \in Byte /\ AddrR \in Byte
  BY ReadArray DEF ReadEntries, BytesGiven
<1> DEFINE A == <<T!START, T!Sent(AddrW), T!Sent(c.index)>>
           R == <<T!START, T!Sent(AddrR)>>
           G == [i \in 1..c.size |-> T!Got(i)]
           E == <<T!STOP>>
<1>2. /\ T!START \in Items /\ T!STOP \in Items /\ \A b \in Byte : T!Sent(b) \in Items
      /\ \A i \in Nat : T!Got(i) \in Items
  BY DEF Items
<1>3. A \in Seq(Items) /\ Len(A) = 3 /\ A[1] = T!START /\ A[2] = T!Sent(AddrW)
      /\ A[3] = T!Sent(c.index)
  BY <1>1, <1>2
<1>4. R \in Seq(Items) /\ Len(R) = 2 /\ R[1] = T!START /\ R[2] = T!Sent(AddrR)
  BY <1>1, <1>2
<1>5. G \in Seq(Items) /\ Len(G) = c.size /\ \A i \in 1..c.size : G[i] = T!Got(i)
  <2>1. G \in [1..c.size -> Items]
    BY <1>1, <1>2
  <2>2. \A i \in 1..c.size : G[i] = T!Got(i)
    OBVIOUS
  <2> HIDE DEF G
  <2>3. QED
    BY <1>1, <2>1, <2>2
<1>6. E \in Seq(Items) /\ Len(E) = 1 /\ E[1] = T!STOP
  BY <1>2
<1>7. T!Script(c) = A \o (R \o G) \o E
  BY DEF T!Script, T!Data
<1> HIDE DEF A, R, G, E
<1>8. PICK n \in Nat : n = c.size
  BY <1>1
<1>9. /\ R \o G \in Seq(Items) /\ Len(R \o G) = 2 + n
      /\ \A k \in 1..2 + n : (R \o G)[k] = IF k <= 2 THEN R[k] ELSE G[k - 2]
  <2>1. /\ R \o G \in Seq(Items) /\ Len(R \o G) = Len(R) + Len(G)
        /\ \A k \in 1..Len(R) + Len(G) :
             (R \o G)[k] = IF k <= Len(R) THEN R[k] ELSE G[k - Len(R)]
    BY <1>4, <1>5, ConcatProperties
  <2>2. QED
    BY <1>4, <1>5, <1>8, <2>1
<1> DEFINE D == R \o G
<1> HIDE DEF D
<1>10. /\ A \o D \in Seq(Items) /\ Len(A \o D) = 5 + n
       /\ \A k \in 1..5 + n : (A \o D)[k] = IF k <= 3 THEN A[k] ELSE D[k - 3]
  <2>1. D \in Seq(Items) /\ Len(D) = 2 + n
    BY <1>9 DEF D
  <2>2. /\ A \o D \in Seq(Items) /\ Len(A \o D) = Len(A) + Len(D)
        /\ \A k \in 1..Len(A) + Len(D) :
             (A \o D)[k] = IF k <= Len(A) THEN A[k] ELSE D[k - Len(A)]
    BY <1>3, <2>1, ConcatProperties
  <2>3. QED
    BY <1>3, <2>1, <2>2
<1>11. /\ A \o D \o E \in Seq(Items) /\ Len(A \o D \o E) = 6 + n
       /\ \A k \in 1..6 + n : (A \o D \o E)[k] = IF k <= 5 + n THEN (A \o D)[k] ELSE E[k - (5 + n)]
  <2> DEFINE F == A \o D
  <2>1. F \in Seq(Items) /\ Len(F) = 5 + n
    BY <1>10
  <2> HIDE DEF F
  <2>2. /\ F \o E \in Seq(Items) /\ Len(F \o E) = Len(F) + Len(E)
        /\ \A k \in 1..Len(F) + Len(E) :
             (F \o E)[k] = IF k <= Len(F) THEN F[k] ELSE E[k - Len(F)]
    BY <1>6, <2>1, ConcatProperties
  <2>3. QED
    BY <1>6, <2>1, <2>2 DEF F
<1>12. /\ (A \o D \o E)[1] = A[1] /\ (A \o D \o E)[2] = A[2] /\ (A \o D \o E)[3] = A[3]
       /\ (A \o D \o E)[4] = D[1] /\ (A \o D \o E)[5] = D[2]
  BY <1>10, <1>11
<1>13. /\ D[1] = R[1] /\ D[2] = R[2]
       /\ \A i \in 1..n : D[2 + i] = G[i]
  BY <1>9 DEF D
<1>14. \A i \in 1..n : (A \o D \o E)[5 + i] = G[i]
  <2>1. TAKE i \in 1..n
  <2>2. 5 + i \in 1..5 + n /\ 5 + i \in 1..6 + n /\ ~(5 + i <= 3) /\ 5 + i - 3 = 2 + i
    OBVIOUS
  <2>3. QED
    BY <1>10, <1>11, <1>13, <2>2
<1>15. (A \o D \o E)[6 + n] = E[1]
  BY <1>11
<1>16. ReadItems(c, A \o D \o E)
  BY <1>3, <1>4, <1>5, <1>6, <1>8, <1>11, <1>12, <1>13, <1>14, <1>15 DEF ReadItems
<1>17. QED
  BY <1>7, <1>16, Zenon DEF D

\* The commands of a call, the items before the s-th, and the number of its
\* byte since the last start condition.
List(c) == IF c.dir = "write" THEN i2c_write_array(c) ELSE i2c_read_array(c)

Before(c, s) == IF s = 1 THEN 0 ELSE IF c.dir = "read" /\ s >= 4 THEN s + 1 ELSE s

Nth(c, s) ==
  IF c.dir = "write" \/ s <= 2 THEN s ELSE IF s = 3 THEN 1 ELSE s - 3

Writes(e, b, sta, stp) ==
  e.byte = b /\ e.ctl.wr = 1 /\ e.ctl.rd = 0 /\ e.ctl.sta = sta /\ e.ctl.stp = stp
    /\ e.ctl.ack = 0
Reads(e, last) ==
  e.ctl.wr = 0 /\ e.ctl.rd = 1 /\ e.ctl.sta = 0 /\ e.ctl.stp = last /\ e.ctl.ack = last

\* What the s-th command is: an address, an index, or a data byte.
Kind(c, s) ==
  LET e == List(c)[s]
      n == Len(List(c))
  IN  /\ c.index \in Indexes /\ s \in 1..5 /\ s <= n
      /\ \/ c.dir = "write" /\ c.size \in 0..2 /\ n = 2 + c.size /\ c.word \in [1..2 -> Byte]
         \/ c.dir = "read" /\ c.size \in 1..2 /\ n = 3 + c.size
      /\ \/ s = 1 /\ Writes(e, AddrW, 1, 0)
         \/ s = 2 /\ Writes(e, c.index, 0, 0)
         \/ c.dir = "write" /\ s \in 3..4 /\ Writes(e, c.word[s - 2], 0, One(s = n))
         \/ c.dir = "read" /\ s = 3 /\ Writes(e, AddrR, 1, 0)
         \/ c.dir = "read" /\ s \in 4..5 /\ Reads(e, One(s = n))

\* What it puts on the wires.
Place(c, s) ==
  LET e == List(c)[s]
      S == T!Script(c)
      b == Before(c, s)
  IN  /\ b \in Nat /\ Len(S) \in Nat
      /\ e.ctl.sta \in Bit /\ e.ctl.stp \in Bit
      /\ e.ctl.sta = 1 => S[b + 1] = T!START
      /\ e.ctl.wr = 1 => S[b + e.ctl.sta + 1] = T!Sent(e.byte)
      /\ e.ctl.rd = 1 => S[b + 1] = T!Got(s - 3)
      /\ e.ctl.stp = 1 => S[b + e.ctl.sta + 2] = T!STOP
      /\ b + e.ctl.sta + 1 + e.ctl.stp <= Len(S)
      /\ s = Len(List(c)) => Len(S) = b + e.ctl.sta + 1 + e.ctl.stp
      /\ s # Len(List(c)) => e.ctl.stp = 0 /\ Before(c, s + 1) = b + e.ctl.sta + 1

LEMMA KindOf ==
  ASSUME BytesGiven, ReadsGiven, NEW c, c \in T!Calls, NEW s \in 1..Len(List(c))
  PROVE  Kind(c, s)
<1> DEFINE L == List(c)
<1>1. c.dir \in {"write", "read"} /\ (c.dir = "read" => c.size \in 1..2)
  BY DEF T!Calls, ReadsGiven
<1>2. \A b, t, u : Writes(Wr(b, t, u), b, t, u) /\ Reads(Rd(t), t)
  BY DEF Writes, Reads, Wr, Rd
<1>3. CASE c.dir = "write"
  <2>1. WriteEntries(c, L)
    BY <1>3, WriteArray DEF List
  <2> HIDE DEF L
  <2>2. s \in 1..4 /\ s \in 1..2 + c.size /\ Len(L) = 2 + c.size /\ c.size \in 0..2
    BY <2>1 DEF WriteEntries, L
  <2>3. s = 1 => Writes(L[s], AddrW, 1, 0)
    BY <1>2, <2>1 DEF WriteEntries
  <2>4. s = 2 => Writes(L[s], c.index, 0, 0)
    BY <1>2, <2>1 DEF WriteEntries
  <2>5. s \in 3..4 => Writes(L[s], c.word[s - 2], 0, One(s = Len(L)))
    <3>1. s \in 3..4 => L[s] = Wr(c.word[s - 2], 0, One(s - 2 = c.size))
      BY <2>1, <2>2 DEF WriteEntries
    <3>2. (s - 2 = c.size) <=> (s = Len(L))
      BY <2>2
    <3>3. One(s - 2 = c.size) = One(s = Len(L))
      BY <3>2 DEF One
    <3>4. QED
      BY <1>2, <3>1, <3>3
  <2>6. c.index \in Indexes /\ c.word \in [1..2 -> Byte]
    BY <2>1 DEF WriteEntries
  <2>7. s \in 1..5 /\ s <= Len(L) /\ (s = 1 \/ s = 2 \/ s \in 3..4)
    BY <2>2
  <2>8. QED
    BY <1>3, <2>2, <2>3, <2>4, <2>5, <2>6, <2>7 DEF Kind, L
<1>4. CASE c.dir = "read"
  <2>1. ReadEntries(c, L)
    BY <1>4, ReadArray DEF List
  <2> HIDE DEF L
  <2>2. s \in 1..5 /\ s \in 1..3 + c.size /\ Len(L) = 3 + c.size /\ c.size \in 1..2
    BY <1>1, <1>4, <2>1 DEF ReadEntries, L
  <2>3. s = 1 => Writes(L[s], AddrW, 1, 0)
    BY <1>2, <2>1 DEF ReadEntries
  <2>4. s = 2 => Writes(L[s], c.index, 0, 0)
    BY <1>2, <2>1 DEF ReadEntries
  <2>5. s = 3 => Writes(L[s], AddrR, 1, 0)
    BY <1>2, <2>1 DEF ReadEntries
  <2>6. s \in 4..5 => Reads(L[s], One(s = Len(L)))
    <3>1. s \in 4..5 => L[s] = Rd(One(s - 3 = c.size))
      BY <2>1, <2>2 DEF ReadEntries
    <3>2. (s - 3 = c.size) <=> (s = Len(L))
      BY <2>2
    <3>3. One(s - 3 = c.size) = One(s = Len(L))
      BY <3>2 DEF One
    <3>4. QED
      BY <1>2, <3>1, <3>3
  <2>7. c.index \in Indexes
    BY <2>1 DEF ReadEntries
  <2>8. s <= Len(L) /\ (s = 1 \/ s = 2 \/ s = 3 \/ s \in 4..5)
    BY <2>2
  <2>9. QED
    BY <1>4, <2>2, <2>3, <2>4, <2>5, <2>6, <2>7, <2>8 DEF Kind, L
<1>5. QED
  BY <1>1, <1>3, <1>4

LEMMA PlaceOf ==
  ASSUME BytesGiven, ReadsGiven, NEW c, c \in T!Calls, NEW s \in 1..Len(List(c))
  PROVE  Place(c, s)
<1> DEFINE L == List(c)
           S == T!Script(c)
<1>1. Kind(c, s)
  BY KindOf
<1> HIDE DEF L, S
<1>2. CASE c.dir = "write"
  <2>1. WriteItems(c, S)
    BY <1>2, WriteScript DEF S
  <2>2. /\ c.size \in 0..2 /\ Len(L) = 2 + c.size /\ s \in 1..4 /\ s <= Len(L)
        /\ \/ s = 1 /\ Writes(L[s], AddrW, 1, 0)
           \/ s = 2 /\ Writes(L[s], c.index, 0, 0)
           \/ s \in 3..4 /\ Writes(L[s], c.word[s - 2], 0, One(s = Len(L)))
    BY <1>1, <1>2 DEF Kind, L
  <2>3. Len(S) = 3 + c.size + (IF c.size > 0 THEN 1 ELSE 0)
    BY <2>1 DEF WriteItems, One
  <2>4. Before(c, s) = (IF s = 1 THEN 0 ELSE s) /\ Before(c, s + 1) = s + 1
    BY <1>2, <2>2 DEF Before
  <2>5. CASE s = 1
    <3>1. Before(c, s) = 0 /\ Before(c, s + 1) = 2 /\ s # Len(L) /\ 3 <= Len(S) /\ Len(S) \in Nat
      BY <2>2, <2>3, <2>4, <2>5
    <3>2. Writes(L[s], AddrW, 1, 0)
      BY <2>2, <2>5
    <3>3. S[0 + 1] = T!START /\ S[0 + 1 + 1] = T!Sent(AddrW)
      BY <2>1 DEF WriteItems
    <3>4. QED
      BY <3>1, <3>2, <3>3 DEF Writes, Place, L, S, Bit
  <2>6. CASE s = 2
    BY <2>1, <2>2, <2>3, <2>4, <2>6 DEF WriteItems, Writes, Place, L, S, Bit
  <2>7. CASE s \in 3..4
    <3>1. Writes(L[s], c.word[s - 2], 0, One(s = Len(L))) /\ s - 2 \in 1..c.size
      BY <2>2, <2>7
    <3>2. S[3 + (s - 2)] = T!Sent(c.word[s - 2]) /\ 3 + (s - 2) = s + 1
      BY <2>1, <2>7, <3>1 DEF WriteItems
    <3>3. s = Len(L) => S[s + 2] = T!STOP
      <4>1. s = Len(L) => s + 2 = 4 + c.size /\ c.size > 0
        BY <2>2, <2>7
      <4>2. QED
        BY <2>1, <4>1 DEF WriteItems
    <3>4. One(s = Len(L)) = IF s = Len(L) THEN 1 ELSE 0
      BY DEF One
    <3>5. c.size > 0
      BY <2>2, <2>7
    <3>6. QED
      BY <2>2, <2>3, <2>4, <2>7, <3>1, <3>2, <3>3, <3>4, <3>5 DEF Writes, Place, L, S, Bit
  <2>8. QED
    BY <2>2, <2>5, <2>6, <2>7
<1>3. CASE c.dir = "read"
  <2>1. c.size \in 1..2 /\ Len(L) = 3 + c.size /\ s \in 1..5 /\ s <= Len(L)
    BY <1>1, <1>3 DEF Kind, L
  <2>2. \/ s = 1 /\ Writes(L[s], AddrW, 1, 0)
        \/ s = 2 /\ Writes(L[s], c.index, 0, 0)
        \/ s = 3 /\ Writes(L[s], AddrR, 1, 0)
        \/ s \in 4..5 /\ Reads(L[s], One(s = Len(L)))
    BY <1>1, <1>3 DEF Kind, L
  <2>3. ReadItems(c, S)
    BY <1>3, <2>1, ReadScript DEF S
  <2>4. /\ Before(c, s) = (IF s = 1 THEN 0 ELSE IF s >= 4 THEN s + 1 ELSE s)
        /\ Before(c, s + 1) = IF s >= 3 THEN s + 2 ELSE s + 1
    BY <1>3, <2>1 DEF Before
  <2>5. CASE s = 1
    <3>1. /\ Before(c, s) = 0 /\ Before(c, s + 1) = 2 /\ s # Len(L)
          /\ 3 <= Len(S) /\ Len(S) \in Nat
      BY <2>1, <2>3, <2>4, <2>5 DEF ReadItems
    <3>2. Writes(L[s], AddrW, 1, 0)
      BY <2>2, <2>5
    <3>3. S[0 + 1] = T!START /\ S[0 + 1 + 1] = T!Sent(AddrW)
      BY <2>3 DEF ReadItems
    <3>4. QED
      BY <3>1, <3>2, <3>3 DEF Writes, Place, L, S, Bit
  <2>6. CASE s = 2
    <3>1. /\ Before(c, s) = 2 /\ Before(c, s + 1) = 3 /\ s # Len(L)
          /\ 4 <= Len(S) /\ Len(S) \in Nat
      BY <2>1, <2>3, <2>4, <2>6 DEF ReadItems
    <3>2. Writes(L[s], c.index, 0, 0)
      BY <2>2, <2>6
    <3>3. S[2 + 0 + 1] = T!Sent(c.index)
      BY <2>3 DEF ReadItems
    <3>4. QED
      BY <3>1, <3>2, <3>3 DEF Writes, Place, L, S, Bit
  <2>7. CASE s = 3
    BY <2>1, <2>2, <2>3, <2>4, <2>7 DEF ReadItems, Writes, Place, L, S, Bit
  <2>8. CASE s \in 4..5
    <3>1. Reads(L[s], One(s = Len(L))) /\ s - 3 \in 1..c.size
      BY <2>1, <2>2, <2>8
    <3>2. S[5 + (s - 3)] = T!Got(s - 3) /\ 5 + (s - 3) = s + 2
      BY <2>3, <2>8, <3>1 DEF ReadItems
    <3>3. s = Len(L) => S[s + 3] = T!STOP
      <4>1. s = Len(L) => s + 3 = 6 + c.size
        BY <2>1
      <4>2. QED
        BY <2>3, <4>1 DEF ReadItems
    <3>4. One(s = Len(L)) = IF s = Len(L) THEN 1 ELSE 0
      BY DEF One
    <3>5. Len(S) = 6 + c.size
      BY <2>3 DEF ReadItems
    <3>6. /\ Before(c, s) = s + 1 /\ Before(c, s + 1) = s + 2
          /\ L[s].ctl.sta = 0 /\ L[s].ctl.wr = 0 /\ L[s].ctl.rd = 1
          /\ L[s].ctl.stp = IF s = Len(L) THEN 1 ELSE 0
      BY <2>1, <2>4, <2>8, <3>1, <3>4 DEF Reads
    <3>7. S[s + 1 + 1] = T!Got(s - 3) /\ (s = Len(L) => S[s + 1 + 0 + 2] = T!STOP)
      BY <2>8, <3>2, <3>3
    <3>8. s + 1 + 0 + 1 + L[s].ctl.stp <= Len(S) /\ s + 1 \in Nat
          /\ (s = Len(L) => Len(S) = s + 1 + 0 + 1 + 1)
          /\ s + 2 = s + 1 + 0 + 1 /\ Len(S) \in Nat
      BY <2>1, <2>8, <3>5, <3>6
    <3>9. QED
      BY <3>6, <3>7, <3>8 DEF Place, L, S, Bit
  <2>9. QED
    BY <2>1, <2>5, <2>6, <2>7, <2>8
<1>4. QED
  BY <1>1, <1>2, <1>3 DEF Kind

-----------------------------------------------------------------------------
(* What the device does at each event.                                     *)

Becomes(m, b, n, i, f, x) == dev' = State(m, b, n, i, f) /\ dev_sda' = x

LEMMA SeesNothing ==
  ASSUME Device, ~Starts, ~Stops, ~Rises, ~Falls
  PROVE  UNCHANGED <<dev, dev_sda, memory>> /\ Observed = <<>>
<1>1. UNCHANGED <<dev, dev_sda>>
  BY DeviceCases
<1>2. memory' = memory
  BY DEF Device, Stored
<1>3. Observed = <<>>
  BY DEF Observed
<1>4. QED
  BY <1>1, <1>2, <1>3

LEMMA SeesStart ==
  ASSUME DeviceInv, Device, Starts
  PROVE  /\ Becomes("recv", <<>>, 1, dev.index, dev.first, 1)
         /\ memory' = memory /\ Observed = <<T!START>>
<1>1. dev' = [Turn(dev, "recv") EXCEPT !.nth = 1] /\ dev_sda' = 1
  BY DeviceCases
<1>2. dev' = State("recv", <<>>, 1, dev.index, dev.first)
  BY <1>1, Changes DEF DeviceInv
<1>3. memory' = memory
  BY DEF Device, Stored, Starts, Rises
<1>4. ~Stops /\ ~Rises
  BY DEF Starts, Stops, Rises
<1>5. Observed = <<T!START>>
  BY <1>4 DEF Observed
<1>6. QED
  BY <1>1, <1>2, <1>3, <1>5 DEF Becomes

LEMMA SeesStop ==
  ASSUME DeviceInv, Device, Stops
  PROVE  /\ Becomes("off", <<>>, dev.nth, dev.index, dev.first, 1)
         /\ memory' = memory /\ Observed = <<T!STOP>>
<1>1. dev' = Turn(dev, "off") /\ dev_sda' = 1
  BY DeviceCases
<1>2. dev' = State("off", <<>>, dev.nth, dev.index, dev.first)
  BY <1>1, Changes DEF DeviceInv
<1>3. memory' = memory
  BY DEF Device, Stored, Stops, Rises
<1>4. ~Starts /\ ~Rises
  BY DEF Starts, Stops, Rises
<1>5. Observed = <<T!STOP>>
  BY <1>4 DEF Observed
<1>6. QED
  BY <1>1, <1>2, <1>3, <1>5 DEF Becomes

LEMMA SeesRise ==
  ASSUME DeviceInv, Device, Rises
  PROVE  /\ dev_sda' = dev_sda
         /\ dev.mode \in {"recv", "send"} /\ Len(dev.bits) # Bits =>
              /\ Becomes(dev.mode, Append(dev.bits, Sda), dev.nth, dev.index, dev.first, dev_sda)
              /\ memory' = memory /\ Observed = <<>>
         /\ dev.mode \in {"recv", "send"} /\ Len(dev.bits) = Bits =>
              UNCHANGED <<dev, memory>> /\ Observed = <<>>
         /\ dev.mode \in {"off", "more"} => UNCHANGED <<dev, memory>> /\ Observed = <<>>
         /\ dev.mode = "asked" =>
              /\ Sda = 0 => Becomes("more", dev.bits, dev.nth, dev.index, dev.first, dev_sda)
              /\ Sda # 0 => Becomes("off", <<>>, dev.nth, dev.index, dev.first, dev_sda)
              /\ memory' = memory
              /\ Observed = <<[kind |-> "got", byte |-> dev.bits, ack |-> Sda = 0]>>
         /\ dev.mode \in {"accept", "refuse"} =>
              /\ dev' = dev
              /\ Observed = <<[kind |-> "sent", byte |-> dev.bits, ack |-> Sda = 0]>>
         /\ dev.mode = "refuse" => memory' = memory
         /\ dev.mode = "accept" =>
              memory' = IF dev.nth = 4 THEN [memory EXCEPT ![dev.index] = <<dev.first, dev.bits>>]
                                       ELSE memory
<1>1. RisingEdge /\ DeviceTyped(dev)
  BY DeviceCases DEF DeviceInv
<1>2. dev_sda' = dev_sda
  BY <1>1 DEF RisingEdge
<1>3. memory' = IF dev.mode = "accept" /\ dev.nth = 4
                THEN [memory EXCEPT ![dev.index] = <<dev.first, dev.bits>>] ELSE memory
  BY DEF Device, Stored
<1>4. ~Starts /\ ~Stops
  BY DEF Rises, Starts, Stops
<1>5. dev.mode \in {"recv", "send"} /\ Len(dev.bits) # Bits =>
        dev' = State(dev.mode, Append(dev.bits, Sda), dev.nth, dev.index, dev.first)
  BY <1>1, Changes DEF RisingEdge, Full
<1>6. dev.mode = "asked" =>
        /\ Sda = 0 => dev' = State("more", dev.bits, dev.nth, dev.index, dev.first)
        /\ Sda # 0 => dev' = State("off", <<>>, dev.nth, dev.index, dev.first)
  BY <1>1, Changes DEF RisingEdge
<1>7. (dev.mode \in {"recv", "send"} /\ Len(dev.bits) = Bits)
        \/ dev.mode \in {"off", "more", "accept", "refuse"} => dev' = dev
  BY <1>1 DEF RisingEdge, Full
<1>8. /\ dev.mode \in {"recv", "send", "off", "more"} => Observed = <<>>
      /\ dev.mode \in {"accept", "refuse"} =>
           Observed = <<[kind |-> "sent", byte |-> dev.bits, ack |-> Sda = 0]>>
      /\ dev.mode = "asked" =>
           Observed = <<[kind |-> "got", byte |-> dev.bits, ack |-> Sda = 0]>>
  BY <1>4 DEF Observed
<1>9. QED
  BY <1>2, <1>3, <1>5, <1>6, <1>7, <1>8 DEF Becomes

LEMMA SeesFall ==
  ASSUME DeviceInv, Device, Falls
  PROVE  /\ memory' = memory /\ Observed = <<>>
         /\ dev.mode \in {"off", "asked"} => UNCHANGED <<dev, dev_sda>>
         /\ dev.mode = "recv" /\ Len(dev.bits) # Bits => UNCHANGED <<dev, dev_sda>>
         /\ dev.mode = "recv" /\ Len(dev.bits) = Bits =>
              \/ Becomes("accept", dev.bits, dev.nth, dev.index, dev.first, 0)
              \/ Becomes("refuse", dev.bits, dev.nth, dev.index, dev.first, 1)
         /\ dev.mode = "refuse" => Becomes("off", <<>>, dev.nth, dev.index, dev.first, 1)
         /\ dev.mode = "send" /\ Len(dev.bits) = Bits =>
              Becomes("asked", dev.bits, dev.nth, dev.index, dev.first, 1)
         /\ dev.mode = "send" /\ Len(dev.bits) # Bits => dev' = dev /\ dev_sda' = NextBit(dev)
         /\ dev.mode = "more" =>
              Becomes("send", <<>>, dev.nth + 1, dev.index, dev.first,
                      memory[dev.index][(dev.nth % 2) + 1][1])
         /\ dev.mode = "accept" =>
              /\ dev.nth = 1 /\ dev.bits = AddrR =>
                   Becomes("send", <<>>, 1, dev.index, dev.first,
                           memory[dev.index][1][1])
              /\ dev.nth = 2 /\ dev.bits \in Indexes =>
                   Becomes("recv", <<>>, 3, dev.bits, dev.first, 1)
              /\ ~(dev.nth = 1 /\ dev.bits = AddrR) /\ ~(dev.nth = 2 /\ dev.bits \in Indexes) =>
                   Becomes("recv", <<>>, dev.nth + 1, dev.index, dev.bits, 1)
<1>1. FallingEdge /\ DeviceTyped(dev)
  BY DeviceCases DEF DeviceInv
<1>2. memory' = memory
  BY DEF Device, Stored, Falls, Rises
<1>3. Observed = <<>>
  BY DEF Observed, Falls, Rises, Starts, Stops
<1>4. /\ dev.mode \in {"off", "asked"} => UNCHANGED <<dev, dev_sda>>
      /\ dev.mode = "recv" /\ Len(dev.bits) # Bits => UNCHANGED <<dev, dev_sda>>
  BY <1>1 DEF FallingEdge, Full
<1>5. dev.mode = "recv" /\ Len(dev.bits) = Bits =>
        \/ Becomes("accept", dev.bits, dev.nth, dev.index, dev.first, 0)
        \/ Becomes("refuse", dev.bits, dev.nth, dev.index, dev.first, 1)
  <2> SUFFICES ASSUME dev.mode = "recv", Len(dev.bits) = Bits
               PROVE  \/ Becomes("accept", dev.bits, dev.nth, dev.index, dev.first, 0)
                      \/ Becomes("refuse", dev.bits, dev.nth, dev.index, dev.first, 1)
    OBVIOUS
  <2>1. Answer(dev)
    BY <1>1 DEF FallingEdge, Full
  <2>2. PICK m \in {"accept", "refuse"} :
          dev' = [dev EXCEPT !.mode = m] /\ dev_sda' = IF m = "accept" THEN 0 ELSE 1
    BY <2>1 DEF Answer
  <2>3. dev' = State(m, dev.bits, dev.nth, dev.index, dev.first)
    BY <1>1, <2>2, Changes
  <2>4. QED
    BY <2>2, <2>3 DEF Becomes
<1>6. dev.mode = "refuse" => Becomes("off", <<>>, dev.nth, dev.index, dev.first, 1)
  <2> SUFFICES ASSUME dev.mode = "refuse"
               PROVE  Becomes("off", <<>>, dev.nth, dev.index, dev.first, 1)
    OBVIOUS
  <2>1. dev' = Turn(dev, "off") /\ dev_sda' = 1
    BY <1>1 DEF FallingEdge
  <2>2. QED
    BY <1>1, <2>1, Changes DEF Becomes
<1>7. dev.mode = "send" /\ Len(dev.bits) = Bits =>
        Becomes("asked", dev.bits, dev.nth, dev.index, dev.first, 1)
  <2> SUFFICES ASSUME dev.mode = "send", Len(dev.bits) = Bits
               PROVE  Becomes("asked", dev.bits, dev.nth, dev.index, dev.first, 1)
    OBVIOUS
  <2>1. dev' = [dev EXCEPT !.mode = "asked"] /\ dev_sda' = 1
    BY <1>1 DEF FallingEdge, Full
  <2>2. QED
    BY <1>1, <2>1, Changes DEF Becomes
<1>8. dev.mode = "send" /\ Len(dev.bits) # Bits => dev' = dev /\ dev_sda' = NextBit(dev)
  BY <1>1 DEF FallingEdge, Full, Sending
<1>9. ASSUME NEW n, Sending([Turn(dev, "send") EXCEPT !.nth = n])
      PROVE  Becomes("send", <<>>, n, dev.index, dev.first,
                     memory[dev.index][((n - 1) % 2) + 1][0 + 1])
  <2>1. [Turn(dev, "send") EXCEPT !.nth = n] = State("send", <<>>, n, dev.index, dev.first)
    BY <1>1, Changes
  <2>2. dev' = State("send", <<>>, n, dev.index, dev.first)
        /\ dev_sda' = NextBit(State("send", <<>>, n, dev.index, dev.first))
    BY <1>9, <2>1 DEF Sending
  <2>3. NextBit(State("send", <<>>, n, dev.index, dev.first))
          = memory[dev.index][((n - 1) % 2) + 1][Len(<<>>) + 1]
    BY DEF NextBit, State
  <2>4. Len(<<>>) = 0
    OBVIOUS
  <2>5. QED
    BY <2>2, <2>3, <2>4, Zenon DEF Becomes
<1>10. dev.mode = "more" =>
         Becomes("send", <<>>, dev.nth + 1, dev.index, dev.first,
                 memory[dev.index][(dev.nth % 2) + 1][1])
  <2> SUFFICES ASSUME dev.mode = "more"
               PROVE  Becomes("send", <<>>, dev.nth + 1, dev.index, dev.first,
                              memory[dev.index][(dev.nth % 2) + 1][1])
    OBVIOUS
  <2>1. Sending([Turn(dev, "send") EXCEPT !.nth = dev.nth + 1])
    BY <1>1 DEF FallingEdge
  <2>2. PICK n : n = dev.nth + 1
    OBVIOUS
  <2>3. Sending([Turn(dev, "send") EXCEPT !.nth = n])
    BY <2>1, <2>2, Zenon
  <2>4. Becomes("send", <<>>, n, dev.index, dev.first,
                memory[dev.index][((n - 1) % 2) + 1][0 + 1])
    BY <1>9, <2>3, Zenon
  <2>5. n - 1 = dev.nth /\ 0 + 1 = 1
    BY <1>1, <2>2 DEF DeviceTyped
  <2>6. QED
    BY <2>2, <2>4, <2>5 DEF Becomes
<1>11. dev.mode = "accept" /\ dev.nth = 1 /\ dev.bits = AddrR =>
         Becomes("send", <<>>, 1, dev.index, dev.first,
                 memory[dev.index][1][1])
  <2> SUFFICES ASSUME dev.mode = "accept", dev.nth = 1, dev.bits = AddrR
               PROVE  Becomes("send", <<>>, 1, dev.index, dev.first,
                              memory[dev.index][1][1])
    OBVIOUS
  <2>1. Sending([Turn(dev, "send") EXCEPT !.nth = 1])
    BY <1>1 DEF FallingEdge, AfterByte
  <2>2. Becomes("send", <<>>, 1, dev.index, dev.first,
                memory[dev.index][((1 - 1) % 2) + 1][0 + 1])
    BY <1>9, <2>1, Zenon
  <2>3. ((1 - 1) % 2) + 1 = 1 /\ 0 + 1 = 1
    OBVIOUS
  <2>4. QED
    BY <2>2, <2>3 DEF Becomes
<1>12. dev.mode = "accept" /\ dev.nth = 2 /\ dev.bits \in Indexes =>
         Becomes("recv", <<>>, 3, dev.bits, dev.first, 1)
  <2> SUFFICES ASSUME dev.mode = "accept", dev.nth = 2, dev.bits \in Indexes
               PROVE  Becomes("recv", <<>>, 3, dev.bits, dev.first, 1)
    OBVIOUS
  <2>1. dev' = [Turn(dev, "recv") EXCEPT !.nth = 3, !.index = dev.bits] /\ dev_sda' = 1
    BY <1>1 DEF FallingEdge, AfterByte
  <2>2. \A n, i : [Turn(dev, "recv") EXCEPT !.nth = n, !.index = i]
                     = State("recv", <<>>, n, i, dev.first)
    BY <1>1, TurnsWithIndex, Zenon
  <2>3. QED
    BY <2>1, <2>2, Zenon DEF Becomes
<1>13. dev.mode = "accept" /\ ~(dev.nth = 1 /\ dev.bits = AddrR)
         /\ ~(dev.nth = 2 /\ dev.bits \in Indexes) =>
         Becomes("recv", <<>>, dev.nth + 1, dev.index, dev.bits, 1)
  <2> SUFFICES ASSUME dev.mode = "accept", ~(dev.nth = 1 /\ dev.bits = AddrR),
                      ~(dev.nth = 2 /\ dev.bits \in Indexes)
               PROVE  Becomes("recv", <<>>, dev.nth + 1, dev.index, dev.bits, 1)
    OBVIOUS
  <2>1. dev' = [Turn(dev, "recv") EXCEPT !.nth = dev.nth + 1, !.first = dev.bits]
        /\ dev_sda' = 1
    BY <1>1 DEF FallingEdge, AfterByte
  <2>2. \A n, f : [Turn(dev, "recv") EXCEPT !.nth = n, !.first = f]
                     = State("recv", <<>>, n, dev.index, f)
    BY <1>1, TurnsWithFirst, Zenon
  <2>3. QED
    BY <2>1, <2>2, Zenon DEF Becomes
<1>14. QED
  BY <1>2, <1>3, <1>4, <1>5, <1>6, <1>7, <1>8, <1>10, <1>11, <1>12, <1>13, Zenon

-----------------------------------------------------------------------------
(* The clock pulse of a bit.                                               *)

\* A state of a family of bits is followed by one of the same family ...
Stays ==
  \/ p_state \in Writing /\ p_state' \in Writing
  \/ p_state \in RdAcks /\ p_state' \in RdAcks
  \/ p_state \in Readings /\ p_state' \in Readings
  \/ p_state \in AckOut /\ p_state' \in AckOut

\* ... or, after the last bit, by the acknowledgement or by the end.
Leaves ==
  \/ p_state \in Writing /\ i_ctr = Bits - 1 /\ p_state' = "RdAck_A" /\ Pulse' = "before"
  \/ p_state \in Readings /\ i_ctr = Bits - 1 /\ p_state' = "WrAck_A" /\ Pulse' = "before"
  \/ /\ p_state \in RdAcks \cup AckOut
     /\ p_state' = IF stop_reg = 1 THEN "Stop_A" ELSE "Done"

Pulses ==
  \/ /\ Pulse = "before" /\ Pulse' = "before" /\ Stays /\ i_ctr' = i_ctr
     /\ ~Rises /\ ~Falls
  \/ /\ Pulse = "before" /\ Pulse' = "high" /\ Stays /\ i_ctr' = i_ctr
     /\ Rises /\ ~Falls /\ sda_out = i_sda_out
  \/ /\ Pulse = "high" /\ Pulse' = "high" /\ Stays /\ i_ctr' = i_ctr
     /\ ~Rises /\ ~Falls
  \/ /\ Pulse = "high" /\ ~Rises /\ Falls /\ i_ctr' = i_ctr
     /\ (Stays /\ Pulse' = "after") \/ Leaves
  \/ /\ Pulse = "after" /\ ~Rises /\ ~Falls /\ i_ctr' = i_ctr
     /\ (Stays /\ Pulse' = "after") \/ Leaves
  \/ /\ Pulse = "after" /\ ~Rises /\ ~Falls /\ Stays /\ Pulse' = "before"
     /\ i_ctr # Bits - 1 /\ i_ctr' = i_ctr + 1 /\ p_state' \in {"Wr_A", "Rd_A"}

LEMMA PulseStep ==
  ASSUME RegisterInv, HandoverInv, WireInv, PhaseInv, NEW access, Clocked(access),
         p_state \in BitStates
  PROVE  Pulses /\ ~Starts /\ ~Stops
<1>1. i2c_core /\ Device
  BY DEF Clocked
<1>2. /\ p_state' = (IF sclk = 1 \/ p_state \in Unclocked THEN n_state ELSE p_state)
      /\ scl_was' = scl_out /\ scl_was \in Bit /\ scl_out \in Bit
      /\ p_state \notin {"Wr_E", "Rd_F"} => i_ctr' = i_ctr
      /\ p_state \in {"Wr_E", "Rd_F"} => i_ctr' = (i_ctr + 1) % Bits /\ i_ctr # Bits - 1
  BY <1>1 DEF i2c_core, Device, Scl, RegisterInv, PhaseInv, BitStates, Writing, RdAcks,
              Readings, AckOut
<1>3. p_state \in {"Wr_E", "Rd_F"} => i_ctr' = i_ctr + 1
  <2>1. PICK k \in 0..Bits - 1 : k = i_ctr
    BY DEF RegisterInv
  <2>2. k # Bits - 1 => (k + 1) % Bits = k + 1
    BY I2cConstants
  <2>3. QED
    BY <1>2, <2>1, <2>2
<1>4. /\ Rises <=> scl_was = 0 /\ scl_out = 1
      /\ Falls <=> scl_was = 1 /\ scl_out = 0
  BY DEF Rises, Falls, Scl
<1>5. ~Starts /\ ~Stops
  BY DEF WireInv
<1>6. p_state \in Low \cup Rising \cup High \cup Falling
  BY DEF BitStates, Writing, RdAcks, Readings, AckOut, Low, Rising, High, Falling
<1>7. CASE p_state \in Low
  <2>1. scl_was = 0 /\ scl_out = 0
    BY <1>7 DEF WireInv
  <2>2. p_state \in {"Wr_A", "Rd_A", "RdAck_A", "WrAck_A"} => Pulses
    <3>1. p_state' = p_state \/ p_state' = n_state
      BY <1>2
    <3>2. QED
      BY <1>2, <1>4, <2>1, <3>1, Successors
         DEF Pulses, Stays, Pulse, Falling, RegisterInv, Writing, RdAcks, Readings, AckOut
  <2>3. p_state \in {"Wr_E", "Rd_F"} => Pulses
    <3>1. p_state = "Wr_E" => p_state' = "Wr_A"
      BY <1>2, Successors DEF RegisterInv, Unclocked
    <3>2. p_state = "Rd_F" => p_state' = "Rd_A"
      BY <1>2, Successors DEF RegisterInv, Unclocked
    <3>3. QED
      BY <1>2, <1>3, <1>4, <2>1, <3>1, <3>2
         DEF Pulses, Stays, Pulse, Falling, Writing, RdAcks, Readings, AckOut
  <2>4. p_state # "Stop_A"
    BY DEF BitStates, Writing, RdAcks, Readings, AckOut
  <2>5. QED
    BY <1>5, <1>7, <2>2, <2>3, <2>4 DEF Low
<1>8. CASE p_state \in Rising \cup High
  <2>1. p_state \in {"Wr_B", "Rd_B", "RdAck_B", "WrAck_B", "Wr_C", "Rd_C", "Rd_D", "RdAck_C",
                     "RdAck_D", "WrAck_C"}
    BY <1>8 DEF BitStates, Writing, RdAcks, Readings, AckOut, Rising, High
  <2>2. sda_out = i_sda_out
    BY <1>8, <2>1 DEF WireInv
  <2>3. /\ p_state \in Rising /\ scl_out = 0 => scl_was = 0 /\ sclk = 0
        /\ p_state \in High => scl_out = 1 /\ scl_was = 1
    BY DEF WireInv, PhaseInv
  <2>4. /\ Stays /\ p_state' \notin {"Wr_E", "Rd_F"}
        /\ p_state \in Rising => p_state' = p_state \/ (sclk = 1 /\ p_state' \in High)
        /\ p_state \in High => p_state' \in High \cup Falling
    BY <1>2, <2>1, Successors
       DEF RegisterInv, Stays, Writing, RdAcks, Readings, AckOut, Rising, High, Falling,
           Unclocked
  <2>5. i_ctr' = i_ctr
    BY <1>2, <2>1
  <2>6. CASE scl_was = 1
    <3>1. scl_out = 1
      BY <1>2, <1>8, <2>3, <2>6 DEF Bit
    <3>2. Pulse = "high" /\ Pulse' = "high" /\ ~Rises /\ ~Falls
      BY <1>2, <1>4, <2>6, <3>1 DEF Pulse
    <3>3. QED
      BY <1>5, <2>4, <2>5, <3>2 DEF Pulses
  <2>7. CASE scl_was = 0 /\ scl_out = 1
    <3>1. Pulse = "before" /\ Pulse' = "high" /\ Rises /\ ~Falls
      BY <1>2, <1>4, <2>1, <2>7 DEF Pulse, Falling
    <3>2. QED
      BY <1>5, <2>2, <2>4, <2>5, <3>1 DEF Pulses
  <2>8. CASE scl_was = 0 /\ scl_out = 0
    <3>1. p_state' = p_state
      BY <1>8, <2>3, <2>4, <2>8
    <3>2. Pulse = "before" /\ Pulse' = "before" /\ ~Rises /\ ~Falls
      BY <1>2, <1>4, <2>1, <2>8, <3>1 DEF Pulse, Falling
    <3>3. QED
      BY <1>5, <2>4, <2>5, <3>2 DEF Pulses
  <2>9. QED
    BY <1>2, <2>6, <2>7, <2>8 DEF Bit
<1>9. CASE p_state \in Falling
  <2>1. p_state \in {"Wr_D", "Rd_E", "RdAck_E", "WrAck_D"}
    BY <1>9 DEF BitStates, Writing, RdAcks, Readings, AckOut, Falling
  <2>2. (scl_was = 1 \/ scl_out = 0) /\ (scl_out = 0 \/ sclk = 0)
    BY <1>9 DEF WireInv, PhaseInv
  <2>3. i_ctr' = i_ctr
    BY <1>2, <2>1
  <2>4. \/ p_state' = p_state
        \/ sclk = 1 /\ p_state' = n_state
    BY <1>2, <2>1 DEF Unclocked
  <2>5. CASE scl_out = 1
    <3>1. p_state' = p_state /\ scl_was = 1
      BY <2>2, <2>4, <2>5
    <3>2. Stays
      BY <2>1, <3>1 DEF Stays, Writing, RdAcks, Readings, AckOut
    <3>3. Pulse = "high" /\ Pulse' = "high" /\ ~Rises /\ ~Falls
      BY <1>2, <1>4, <2>5, <3>1 DEF Pulse
    <3>4. QED
      BY <1>5, <2>3, <3>2, <3>3 DEF Pulses
  <2>6. CASE scl_out = 0
    <3>1. \/ Stays /\ Pulse' = "after"
          \/ Leaves
      <4>1. CASE p_state' = p_state
        BY <1>2, <2>1, <2>6, <4>1 DEF Stays, Pulse, Falling, Writing, RdAcks, Readings, AckOut
      <4>2. CASE p_state' = n_state
        <5>1. p_state = "Wr_D" => IF i_ctr = Bits - 1 THEN p_state' = "RdAck_A" ELSE p_state' = "Wr_E"
          BY <4>2, Successors DEF RegisterInv, LastBit
        <5>2. p_state = "Rd_E" => IF i_ctr = Bits - 1 THEN p_state' = "WrAck_A" ELSE p_state' = "Rd_F"
          BY <4>2, Successors DEF RegisterInv, LastBit
        <5>3. p_state \in {"WrAck_D", "RdAck_E"} =>
                p_state' = IF stop_reg = 1 THEN "Stop_A" ELSE "Done"
          BY <4>2, Successors DEF RegisterInv
        <5>4. scl_was' = 0
          BY <1>2, <2>6
        <5>5. QED
          BY <2>1, <5>1, <5>2, <5>3, <5>4
             DEF Stays, Leaves, Pulse, Falling, Writing, RdAcks, Readings, AckOut
      <4>3. QED
        BY <2>4, <4>1, <4>2
    <3>2. CASE scl_was = 1
      <4>1. Pulse = "high" /\ ~Rises /\ Falls
        BY <1>4, <2>6, <3>2 DEF Pulse
      <4>2. QED
        BY <1>5, <2>3, <3>1, <4>1 DEF Pulses
    <3>3. CASE scl_was = 0
      <4>1. Pulse = "after" /\ ~Rises /\ ~Falls
        BY <1>4, <1>9, <2>6, <3>3 DEF Pulse
      <4>2. QED
        BY <1>5, <2>3, <3>1, <4>1 DEF Pulses
    <3>4. QED
      BY <1>2, <3>2, <3>3 DEF Bit
  <2>7. QED
    BY <1>2, <2>5, <2>6 DEF Bit
<1>10. QED
  BY <1>6, <1>7, <1>8, <1>9

-----------------------------------------------------------------------------
(* Where the device is in each state of the controller.                    *)

Off   == dev.mode = "off" /\ dev_sda = 1
Quiet == dev.mode \in {"off", "recv"} /\ dev_sda = 1

\* What the device has of the call when the s-th command begins.
Knows(s) ==
  /\ s >= 3 => dev.index = call.index
  /\ call.dir = "write" /\ s = 4 => dev.first = call.word[1]

Listens(s) ==
  dev.mode = "recv" /\ dev.nth = Nth(call, s) /\ dev.bits = <<>> /\ dev_sda = 1

Speaks(s) ==
  /\ dev.mode = "send" /\ dev.nth = Nth(call, s) /\ dev.bits = <<>>
  /\ dev_sda = memory[call.index][s - 3][1]

\* The device is where the s-th command needs it to be.
ReadyFor(s) ==
  /\ Knows(s)
  /\ Commands[s].ctl.sta = 1 => Quiet
  /\ Commands[s].ctl.sta = 0 /\ Commands[s].ctl.wr = 1 => Listens(s)
  /\ Commands[s].ctl.rd = 1 => Speaks(s)

\* It has taken n bits of the byte, or has it all and answers.
Receives(n) ==
  /\ dev.mode = "recv" /\ dev.nth = Nth(call, step) /\ dev_sda = 1
  /\ Len(dev.bits) = n /\ \A j \in 1..n : dev.bits[j] = i_data_in[j]

Answers ==
  /\ dev.mode \in {"accept", "refuse"} /\ dev.nth = Nth(call, step)
  /\ dev.bits = i_data_in
  /\ dev.mode = "accept" => dev_sda = 0
  /\ dev.mode = "refuse" => dev_sda = 1

\* The byte a read is to return; n bits of it were sent and the next one is
\* on SDA, or it asks whether there shall be another byte.
TheByte == memory[call.index][step - 3]

Sends(n, next) ==
  /\ dev.mode = "send" /\ dev.nth = Nth(call, step) /\ dev_sda = TheByte[next]
  /\ Len(dev.bits) = n /\ \A j \in 1..n : dev.bits[j] = TheByte[j]

Asks == dev.mode = "asked" /\ dev.nth = Nth(call, step) /\ dev.bits = TheByte /\ dev_sda = 1

Told ==
  /\ ack_reg = 0 => dev.mode = "more" /\ dev.nth = Nth(call, step) /\ dev_sda = 1
  /\ ack_reg # 0 => Off

\* The byte of a command is over, and the command with it if it does not stop.
Failed == Command.ctl.wr = 1 /\ i_ack_out = 1
Rested ==
  /\ Failed => Off
  /\ ~Failed /\ step # Len(Commands) => ReadyFor(step + 1)
  /\ ~Failed /\ step = Len(Commands) => Quiet
Over ==
  /\ Command.ctl.stp = 1 => Off
  /\ Command.ctl.stp = 0 => Rested

\* The same, state by state of the controller.
AtStart  == Knows(step) /\ Quiet
AtStartC == Knows(step) /\ (sda_was = 1 => Quiet) /\ (sda_was = 0 => Listens(step))
AtStartD == Knows(step) /\ Listens(step)
AtWrite ==
  /\ Knows(step)
  /\ Pulse = "before" => Receives(i_ctr)
  /\ Pulse = "high" => Receives(i_ctr + 1)
  /\ Pulse = "after" /\ i_ctr # Bits - 1 => Receives(i_ctr + 1)
  /\ Pulse = "after" /\ i_ctr = Bits - 1 => Answers
AtRdAck ==
  /\ Pulse \in {"before", "high"} => Knows(step) /\ Answers
  /\ Pulse = "high" /\ p_state \in {"RdAck_D", "RdAck_E"} =>
       (i_ack_out = 1 <=> dev.mode = "refuse")
  /\ Pulse = "after" => Rested
AtRead ==
  /\ Knows(step)
  /\ Pulse = "before" => Sends(i_ctr, i_ctr + 1)
  /\ Pulse = "high" => Sends(i_ctr + 1, i_ctr + 1)
  /\ Pulse = "after" /\ i_ctr # Bits - 1 => Sends(i_ctr + 1, i_ctr + 2)
  /\ Pulse = "after" /\ i_ctr = Bits - 1 => Asks
AtWrAck ==
  /\ Pulse = "before" => Knows(step) /\ Asks
  /\ Pulse = "high" => Knows(step) /\ Told
  /\ Pulse = "after" => Rested
AtStopC == Quiet /\ (sda_was = 1 => Off)

Located ==
  /\ p_state = "Idle" => ReadyFor(step)
  /\ p_state \in {"Start_A", "Start_B"} => AtStart
  /\ p_state = "Start_C" => AtStartC
  /\ p_state = "Start_D" => AtStartD
  /\ p_state \in Writing => AtWrite
  /\ p_state \in RdAcks => AtRdAck
  /\ p_state \in Readings => AtRead
  /\ p_state \in AckOut => AtWrAck
  /\ p_state \in {"Stop_A", "Stop_B"} => Quiet
  /\ p_state = "Stop_C" => AtStopC
  /\ p_state \in {"Done", "DoneAck"} => Over

WorkInv == TIP => Located

\* Between two commands, by where the driver is.
RestInv ==
  /\ ~TIP /\ pc \in {"Wait", "Data", "Control"} => ReadyFor(step)
  /\ ~TIP /\ pc \in {"Poll", "Check", "Fetch", "Abort"} => Over
  /\ pc = "Abort" => Failed
  /\ ~TIP /\ pc = "Idle" => Quiet

\* SDA when SCL is high and no bit is under way.
EdgeInv ==
  /\ p_state \in Latched /\ scl_out = 1 => sda_out = 1 /\ sda_was = 1 /\ dev_sda = 1
  /\ p_state = "Start_B" /\ scl_out = 1 => sda_was = 1
  /\ p_state = "Start_C" => sda_was = 1 \/ sda_out = 0
  /\ p_state = "Start_D" => sda_was = 0
  /\ p_state = "Stop_B" /\ scl_out = 1 => sda_was = 0
  /\ p_state = "Stop_C" => sda_was = 0 \/ sda_out = 1

-----------------------------------------------------------------------------
(* How the device gets from place to place.                                *)

Based ==
  /\ RegisterInv /\ HandoverInv /\ DriverInv /\ HeldInv /\ WireInv
  /\ DeviceInv /\ PhaseInv /\ CopyInv /\ CommandInv

LEMMA Here ==
  ASSUME BytesGiven, ReadsGiven, Based
  PROVE  /\ Commands = List(call) /\ Command = List(call)[step]
         /\ step \in 1..Len(List(call)) /\ Len(List(call)) \in Nat
         /\ Kind(call, step) /\ Place(call, step)
         /\ step # Len(List(call)) => Kind(call, step + 1) /\ Place(call, step + 1)
<1>1. Commands = List(call) /\ Command = List(call)[step]
  BY DEF Commands, Command, List
<1>2. call \in T!Calls /\ step \in 1..Len(List(call))
  BY <1>1 DEF Based, DriverInv
<1>3. Kind(call, step) /\ Place(call, step)
  BY <1>2, KindOf, PlaceOf
<1>4. Len(List(call)) \in Nat
  BY <1>1, <1>2, CommandList DEF WellFormed
<1>5. step # Len(List(call)) => step + 1 \in 1..Len(List(call))
  BY <1>2, <1>4
<1>6. step # Len(List(call)) => Kind(call, step + 1) /\ Place(call, step + 1)
  BY <1>2, <1>5, KindOf, PlaceOf
<1>7. QED
  BY <1>1, <1>2, <1>3, <1>4, <1>6

\* An edge in the middle of a command.
LEMMA Working ==
  ASSUME Based, NEW access, Clocked(access), Move(access),
         p_state \notin {"Reset", "Idle", "DoneAck"}
  PROVE  /\ TIP /\ TIP'
         /\ UNCHANGED <<call, step, i_data_in, ack_reg, write_reg, read_reg, start_reg, stop_reg>>
         /\ Commands' = Commands /\ Command' = Command
         /\ write_reg = Command.ctl.wr /\ read_reg = Command.ctl.rd
         /\ start_reg = Command.ctl.sta /\ stop_reg = Command.ctl.stp
         /\ ack_reg = Command.ctl.ack
         /\ Command.ctl.wr = 1 => i_data_in = Command.byte
<1>1. TIP /\ cmd_done # 1
  BY DEF Based, HandoverInv
<1>2. data_in_sync(access) /\ HandoverInv
  BY DEF Clocked, Based
<1>3. QED
  BY <1>1, <1>2, Busy DEF Based, CommandInv

LEMMA WriteWork ==
  ASSUME BytesGiven, ReadsGiven, Based, AtWrite, NEW access, Clocked(access), Move(access),
         p_state \in Writing
  PROVE  \/ p_state' \in Writing /\ AtWrite'
         \/ p_state' = "RdAck_A" /\ AtRdAck'
<1>1. UNCHANGED <<call, step, i_data_in>>
  BY Working DEF Writing
<1>2. Pulses /\ ~Starts /\ ~Stops
  BY PulseStep DEF Based, BitStates
<1>3. Device /\ DeviceInv
  BY DEF Clocked, Based
<1>4. /\ dev.bits \in Seq(Bit) /\ dev_sda \in Bit /\ i_data_in \in [1..Bits -> Bit]
      /\ i_ctr \in 0..Bits - 1 /\ Bits \in Nat \ {0} /\ sda_out \in Bit
  BY I2cConstants DEF Based, DeviceInv, DeviceTyped, RegisterInv, Byte
<1>5. PICK k \in 0..Bits - 1 : k = i_ctr
  BY <1>4
<1>6. /\ Stays <=> p_state' \in Writing
      /\ Leaves <=> i_ctr = Bits - 1 /\ p_state' = "RdAck_A" /\ Pulse' = "before"
  BY DEF Stays, Leaves, Writing, RdAcks, Readings, AckOut
<1>7. CASE ~Rises /\ ~Falls
  <2>1. dev' = dev /\ dev_sda' = dev_sda
    BY <1>2, <1>3, <1>7, SeesNothing
  <2>2. Knows(step)' /\ (Answers => Answers')
    BY <1>1, <2>1 DEF AtWrite, Knows, Answers
  <2>3. \A n : Receives(n) => Receives(n)'
    BY <1>1, <2>1 DEF Receives
  <2>4. CASE Pulse' = Pulse /\ Stays /\ i_ctr' = i_ctr
    <3>1. AtWrite'
      BY <2>2, <2>3, <2>4 DEF AtWrite
    <3>2. QED
      BY <1>6, <2>4, <3>1
  <2>5. CASE Pulse = "after" /\ Leaves
    <3>1. AtRdAck'
      BY <1>6, <2>2, <2>5 DEF AtWrite, AtRdAck
    <3>2. QED
      BY <1>6, <2>5, <3>1
  <2>6. CASE /\ Pulse = "after" /\ Stays /\ Pulse' = "before"
             /\ i_ctr # Bits - 1 /\ i_ctr' = i_ctr + 1
    <3>1. AtWrite'
      BY <2>2, <2>3, <2>6 DEF AtWrite
    <3>2. QED
      BY <1>6, <2>6, <3>1
  <2>7. QED
    BY <1>2, <1>7, <2>4, <2>5, <2>6 DEF Pulses
<1>8. CASE Rises
  <2>1. Pulse = "before" /\ Pulse' = "high" /\ Stays /\ i_ctr' = i_ctr /\ sda_out = i_sda_out
    BY <1>2, <1>8 DEF Pulses
  <2>2. /\ dev.mode = "recv" /\ dev.nth = Nth(call, step) /\ dev_sda = 1 /\ Len(dev.bits) = k
        /\ \A j \in 1..k : dev.bits[j] = i_data_in[j]
    BY <1>5, <2>1 DEF AtWrite, Receives
  <2>3. Sda = i_data_in[k + 1]
    <3>1. sda_out = i_data_in[k + 1]
      BY <1>5, <2>1, Levels
    <3>2. QED
      BY <1>4, <2>2, <3>1 DEF Sda, Bit
  <2>4. Becomes("recv", Append(dev.bits, Sda), dev.nth, dev.index, dev.first, 1)
    <3>1. k # Bits
      BY <1>4
    <3>2. QED
      BY <1>3, <1>8, <2>2, <3>1, SeesRise
  <2>5. /\ dev'.mode = "recv" /\ dev'.nth = dev.nth /\ dev'.index = dev.index
        /\ dev'.first = dev.first /\ dev_sda' = 1 /\ dev'.bits = Append(dev.bits, Sda)
    BY <2>4 DEF Becomes, State
  <2>6. /\ Len(Append(dev.bits, Sda)) = k + 1
        /\ \A j \in 1..k + 1 : Append(dev.bits, Sda)[j] = i_data_in[j]
    BY <1>4, <2>2, <2>3
  <2>7. Receives(i_ctr + 1)'
    BY <1>1, <1>5, <2>1, <2>2, <2>5, <2>6 DEF Receives
  <2>8. Knows(step)'
    BY <1>1, <2>5 DEF AtWrite, Knows
  <2>9. AtWrite'
    BY <2>1, <2>7, <2>8 DEF AtWrite
  <2>10. QED
    BY <1>6, <2>1, <2>9
<1>9. CASE Falls /\ ~Rises
  <2>1. Pulse = "high" /\ i_ctr' = i_ctr /\ ((Stays /\ Pulse' = "after") \/ Leaves)
    BY <1>2, <1>9 DEF Pulses
  <2>2. /\ dev.mode = "recv" /\ dev.nth = Nth(call, step) /\ dev_sda = 1
        /\ Len(dev.bits) = k + 1 /\ \A j \in 1..k + 1 : dev.bits[j] = i_data_in[j]
    BY <1>5, <2>1 DEF AtWrite, Receives
  <2>3. CASE k # Bits - 1
    <3>1. dev' = dev /\ dev_sda' = dev_sda
      <4>1. Len(dev.bits) # Bits
        BY <1>4, <2>2, <2>3
      <4>2. QED
        BY <1>3, <1>9, <2>2, <4>1, SeesFall
    <3>2. Receives(i_ctr + 1)'
      BY <1>1, <1>5, <2>1, <2>2, <3>1 DEF Receives
    <3>3. Knows(step)'
      BY <1>1, <3>1 DEF AtWrite, Knows
    <3>4. Stays /\ Pulse' = "after" /\ i_ctr' # Bits - 1
      BY <1>5, <1>6, <2>1, <2>3
    <3>5. AtWrite'
      BY <3>2, <3>3, <3>4 DEF AtWrite
    <3>6. QED
      BY <1>6, <3>4, <3>5
  <2>4. CASE k = Bits - 1
    <3>1. \/ Becomes("accept", dev.bits, dev.nth, dev.index, dev.first, 0)
          \/ Becomes("refuse", dev.bits, dev.nth, dev.index, dev.first, 1)
      <4>1. Len(dev.bits) = Bits
        BY <1>4, <2>2, <2>4
      <4>2. QED
        BY <1>3, <1>9, <2>2, <4>1, SeesFall
    <3>2. /\ dev'.nth = dev.nth /\ dev'.index = dev.index
          /\ dev'.first = dev.first /\ dev'.bits = dev.bits
          /\ \/ dev'.mode = "accept" /\ dev_sda' = 0
             \/ dev'.mode = "refuse" /\ dev_sda' = 1
      BY <3>1 DEF Becomes, State
    <3>3. dev.bits = i_data_in
      <4>1. dev.bits \in [1..Bits -> Bit]
        BY <1>4, <2>2, <2>4
      <4>2. \A j \in 1..Bits : dev.bits[j] = i_data_in[j]
        BY <1>4, <2>2, <2>4
      <4>3. QED
        BY <1>4, <4>1, <4>2
    <3>4. Answers'
      BY <1>1, <2>2, <3>2, <3>3 DEF Answers
    <3>5. Knows(step)'
      BY <1>1, <3>2 DEF AtWrite, Knows
    <3>6. CASE Stays /\ Pulse' = "after"
      <4>1. i_ctr' = Bits - 1
        BY <1>5, <2>1, <2>4
      <4>2. AtWrite'
        BY <3>4, <3>5, <3>6, <4>1 DEF AtWrite
      <4>3. QED
        BY <1>6, <3>6, <4>2
    <3>7. CASE Leaves
      <4>1. AtRdAck'
        BY <1>6, <3>4, <3>5, <3>7 DEF AtRdAck
      <4>2. QED
        BY <1>6, <3>7, <4>1
    <3>8. QED
      BY <2>1, <3>6, <3>7
  <2>5. QED
    BY <2>3, <2>4
<1>10. QED
  BY <1>7, <1>8, <1>9

\* The byte of a command was acknowledged: what follows is what the next
\* command needs.
LEMMA Accepted ==
  ASSUME BytesGiven, ReadsGiven, Based, NEW access, Clocked(access), Move(access),
         p_state \in RdAcks, Knows(step), Answers, dev.mode = "accept", Falls
  PROVE  /\ step # Len(Commands) => ReadyFor(step + 1)'
         /\ step = Len(Commands) => Quiet'
<1>1. UNCHANGED <<call, step>> /\ Commands' = Commands
  BY Working DEF RdAcks
<1>2. Command.ctl.wr = 1 /\ i_data_in = Command.byte
  <2>1. write_reg = 1
    BY DEF Based, HandoverInv
  <2>2. QED
    BY <2>1, Working DEF RdAcks
<1>3. /\ Commands = List(call) /\ Command = List(call)[step]
      /\ Kind(call, step) /\ (step # Len(List(call)) => Kind(call, step + 1))
  BY Here
<1>4. Device /\ DeviceInv
  BY DEF Clocked, Based
<1>5. /\ memory' = memory
      /\ dev.nth = 1 /\ dev.bits = AddrR =>
           Becomes("send", <<>>, 1, dev.index, dev.first, memory[dev.index][1][1])
      /\ dev.nth = 2 /\ dev.bits \in Indexes =>
           Becomes("recv", <<>>, 3, dev.bits, dev.first, 1)
      /\ ~(dev.nth = 1 /\ dev.bits = AddrR) /\ ~(dev.nth = 2 /\ dev.bits \in Indexes) =>
           Becomes("recv", <<>>, dev.nth + 1, dev.index, dev.bits, 1)
  BY <1>4, SeesFall
<1>6. dev.nth = Nth(call, step) /\ dev.bits = Command.byte
  BY <1>2 DEF Answers
<1>8. CASE step = 1
  <2>1. Command.byte = AddrW /\ Nth(call, step) = 1
    BY <1>3, <1>8 DEF Kind, Writes, Reads, Nth
  <2>2. Becomes("recv", <<>>, 2, dev.index, dev.bits, 1)
    BY <1>5, <1>6, <2>1 DEF ReadsGiven
  <2>3. Listens(2)' /\ Knows(2)'
    BY <1>1, <2>2 DEF Becomes, State, Listens, Knows, Nth
  <2>4. step # Len(Commands) => List(call)[2].ctl.rd = 0 /\ List(call)[2].ctl.sta = 0
    BY <1>3, <1>8 DEF Kind, Writes, Reads
  <2>5. step + 1 = 2
    BY <1>8
  <2>6. step # Len(Commands) => ReadyFor(step + 1)'
    BY <1>1, <1>3, <2>3, <2>4, <2>5 DEF ReadyFor
  <2>7. Quiet'
    BY <2>3 DEF Listens, Quiet
  <2>8. QED
    BY <2>6, <2>7
<1>9. CASE step = 2
  <2>1. Command.byte = call.index /\ Nth(call, step) = 2 /\ call.index \in Indexes
    BY <1>3, <1>9 DEF Kind, Writes, Reads, Nth
  <2>2. Becomes("recv", <<>>, 3, call.index, dev.first, 1)
    BY <1>5, <1>6, <2>1
  <2>3. Quiet' /\ Knows(3)' /\ (call.dir = "write" => Listens(3)')
    BY <1>1, <2>2 DEF Becomes, State, Listens, Knows, Nth, Quiet
  <2>4. step # Len(Commands) =>
          /\ List(call)[3].ctl.rd = 0
          /\ call.dir = "write" \/ List(call)[3].ctl.sta = 1
    BY <1>3, <1>9 DEF Kind, Writes, Reads
  <2>5. step + 1 = 3
    BY <1>9
  <2>6. step # Len(Commands) => ReadyFor(step + 1)'
    BY <1>1, <1>3, <2>3, <2>4, <2>5 DEF ReadyFor
  <2>7. QED
    BY <2>3, <2>6
<1>10. CASE step = 3 /\ call.dir = "write"
  <2>1. Command.byte = call.word[1] /\ Nth(call, step) = 3
    BY <1>3, <1>10 DEF Kind, Writes, Reads, Nth
  <2>2. Becomes("recv", <<>>, 4, dev.index, dev.bits, 1)
    BY <1>5, <1>6, <2>1
  <2>3. dev.index = call.index
    BY <1>10 DEF Knows
  <2>4. Quiet' /\ Knows(4)' /\ Listens(4)'
    BY <1>1, <1>6, <1>10, <2>1, <2>2, <2>3 DEF Becomes, State, Listens, Knows, Nth, Quiet
  <2>5. step # Len(Commands) => List(call)[4].ctl.rd = 0 /\ List(call)[4].ctl.sta = 0
    BY <1>3, <1>10 DEF Kind, Writes, Reads
  <2>6. step + 1 = 4
    BY <1>10
  <2>7. step # Len(Commands) => ReadyFor(step + 1)'
    BY <1>1, <1>3, <2>4, <2>5, <2>6 DEF ReadyFor
  <2>8. QED
    BY <2>4, <2>7
<1>11. CASE step = 4 /\ call.dir = "write"
  <2>1. Nth(call, step) = 4 /\ step = Len(Commands)
    BY <1>3, <1>11 DEF Kind, Nth
  <2>2. Becomes("recv", <<>>, 5, dev.index, dev.bits, 1)
    BY <1>5, <1>6, <2>1
  <2>3. Quiet'
    BY <2>2 DEF Becomes, State, Quiet
  <2>4. QED
    BY <2>1, <2>3
<1>12. CASE step = 3 /\ call.dir = "read"
  <2>1. Command.byte = AddrR /\ Nth(call, step) = 1 /\ step # Len(Commands)
    <3>1. Command.byte = AddrR
      BY <1>3, <1>12 DEF Kind, Writes
    <3>2. Nth(call, step) = 1
      BY <1>12 DEF Nth
    <3>3. step # Len(Commands)
      <4>1. Len(List(call)) = 3 + call.size /\ call.size \in 1..2
        BY <1>3, <1>12 DEF Kind
      <4>2. QED
        BY <1>3, <1>12, <4>1
    <3>4. QED
      BY <3>1, <3>2, <3>3
  <2>2. dev.index = call.index
    BY <1>12 DEF Knows
  <2>3. Becomes("send", <<>>, 1, call.index, dev.first, memory[call.index][1][1])
    BY <1>5, <1>6, <2>1, <2>2
  <2>4. Knows(4)' /\ Speaks(4)'
    BY <1>1, <1>5, <1>12, <2>3 DEF Becomes, State, Speaks, Knows, Nth
  <2>5. List(call)[4].ctl.wr = 0 /\ List(call)[4].ctl.sta = 0
    BY <1>3, <1>12, <2>1 DEF Kind, Writes, Reads
  <2>6. step + 1 = 4
    BY <1>12
  <2>7. ReadyFor(step + 1)'
    BY <1>1, <1>3, <2>4, <2>5, <2>6 DEF ReadyFor
  <2>8. QED
    BY <2>1, <2>7
<1>13. QED
  BY <1>2, <1>3, <1>8, <1>9, <1>10, <1>11, <1>12 DEF Kind, Reads

LEMMA RdAckWork ==
  ASSUME BytesGiven, ReadsGiven, Based, AtRdAck, NEW access, Clocked(access), Move(access),
         p_state \in RdAcks
  PROVE  \/ p_state' \in RdAcks /\ AtRdAck'
         \/ p_state' = "Stop_A" /\ Quiet'
         \/ p_state' = "Done" /\ Over'
<1>1. /\ UNCHANGED <<call, step, i_data_in>> /\ Commands' = Commands /\ Command' = Command
      /\ stop_reg = Command.ctl.stp
  BY Working DEF RdAcks
<1>2. Command.ctl.wr = 1
  <2>1. write_reg = 1
    BY DEF Based, HandoverInv
  <2>2. QED
    BY <2>1, Working DEF RdAcks
<1>3. Pulses /\ ~Starts /\ ~Stops
  BY PulseStep DEF Based, BitStates
<1>4. Device /\ DeviceInv /\ i2c_core /\ DeviceTyped(dev)
  BY DEF Clocked, Based, DeviceInv
<1>5. /\ dev_sda \in Bit /\ sda_out \in Bit /\ scl_was \in Bit /\ scl_out \in Bit
      /\ sda_in \in Bit /\ sda_was = sda_in
  BY DEF Based, DeviceInv, RegisterInv, WireInv
<1>6. /\ Stays <=> p_state' \in RdAcks
      /\ Leaves <=> p_state' = IF stop_reg = 1 THEN "Stop_A" ELSE "Done"
  BY DEF Stays, Leaves, Writing, RdAcks, Readings, AckOut
<1>7. Command.ctl.stp \in Bit
  BY Here DEF Place
<1>8. i_ack_out' = IF p_state = "RdAck_C" THEN sda_in ELSE i_ack_out
  BY <1>4 DEF i2c_core
<1>9. /\ p_state' \in {"RdAck_D", "RdAck_E"} => p_state \in {"RdAck_C", "RdAck_D", "RdAck_E"}
      /\ p_state = "RdAck_C" => p_state' = "RdAck_D"
  BY <1>4, Successors DEF i2c_core, RdAcks, RegisterInv, Based, Unclocked
<1>10. Falls => p_state = "RdAck_E"
  <2>1. Falls => scl_was = 1 /\ scl_out = 0
    BY DEF Falls, Scl
  <2>2. Falls => p_state \notin {"RdAck_A", "RdAck_B", "RdAck_C", "RdAck_D"}
    BY <2>1 DEF Based, WireInv, Low, Rising, High
  <2>3. QED
    BY <2>2 DEF RdAcks
<1>11. Rested' => (p_state' = "Stop_A" /\ Quiet') \/ (p_state' = "Done" /\ Over') \/ ~Leaves
  <2> SUFFICES ASSUME Rested', Leaves
               PROVE  (p_state' = "Stop_A" /\ Quiet') \/ (p_state' = "Done" /\ Over')
    OBVIOUS
  <2>1. CASE stop_reg = 1
    <3>1. step = Len(Commands)
      <4>1. step # Len(List(call)) => List(call)[step].ctl.stp = 0
        BY Here DEF Place
      <4>2. Commands = List(call) /\ Command = List(call)[step]
        BY Here
      <4>3. Command.ctl.stp = 1
        BY <1>1, <2>1
      <4>4. Command.ctl.stp # 0
        BY <4>3
      <4>5. step = Len(List(call))
        BY <4>1, <4>2, <4>4, Zenon
      <4>6. QED
        BY <4>2, <4>5, Zenon
    <3>2. Quiet'
      BY <1>1, <3>1 DEF Rested, Off, Quiet
    <3>3. QED
      BY <1>6, <2>1, <3>2
  <2>2. CASE stop_reg # 1
    BY <1>1, <1>6, <2>2 DEF Over
  <2>3. QED
    BY <2>1, <2>2
<1>12. CASE ~Rises /\ ~Falls
  <2>1. dev' = dev /\ dev_sda' = dev_sda /\ memory' = memory
    BY <1>3, <1>4, <1>12, SeesNothing
  <2>2. (Knows(step) => Knows(step)') /\ (Answers => Answers')
    BY <1>1, <2>1 DEF Knows, Answers
  <2>3. CASE Pulse' = Pulse /\ Stays /\ Pulse \in {"before", "high"}
    <3>1. Pulse = "high" /\ p_state' \in {"RdAck_D", "RdAck_E"} =>
            (i_ack_out' = 1 <=> dev.mode = "refuse")
      <4> SUFFICES ASSUME Pulse = "high", p_state' \in {"RdAck_D", "RdAck_E"}
                   PROVE  i_ack_out' = 1 <=> dev.mode = "refuse"
        OBVIOUS
      <4>1. CASE p_state = "RdAck_C"
        <5>1. i_ack_out' = sda_was
          BY <1>5, <1>8, <4>1
        <5>2. sda_out = 1 /\ scl_out = 1 /\ scl_was = 1
          BY <4>1, Levels DEF Based, WireInv, PhaseInv, High, RdAcks
        <5>3. sda_was = dev_sda
          BY <1>3, <1>5, <5>2 DEF Starts, Stops, Scl, Sda, Bit
        <5>4. QED
          BY <1>5, <5>1, <5>3 DEF AtRdAck, Answers, Bit
      <4>2. CASE p_state \in {"RdAck_D", "RdAck_E"}
        BY <1>8, <4>2 DEF AtRdAck
      <4>3. QED
        BY <1>9, <4>1, <4>2
    <3>2. AtRdAck'
      BY <2>1, <2>2, <2>3, <3>1 DEF AtRdAck
    <3>3. QED
      BY <1>6, <2>3, <3>2
  <2>4. CASE Pulse = "after" /\ (Leaves \/ (Stays /\ Pulse' = "after"))
    <3>1. i_ack_out' = i_ack_out
      <4>1. p_state # "RdAck_C"
        BY <2>4 DEF Pulse, Falling
      <4>2. QED
        BY <1>8, <4>1
    <3>2. Rested'
      BY <1>1, <2>1, <2>4, <3>1
         DEF AtRdAck, Rested, Failed, Off, Quiet, ReadyFor, Knows, Listens, Speaks
    <3>3. Stays /\ Pulse' = "after" => AtRdAck'
      BY <3>2 DEF AtRdAck
    <3>4. QED
      BY <1>6, <1>11, <2>4, <3>2, <3>3
  <2>5. ~(Stays /\ Pulse' = "before" /\ p_state' \in {"Wr_A", "Rd_A"})
    BY <1>6 DEF RdAcks
  <2>6. QED
    BY <1>3, <1>12, <2>3, <2>4, <2>5 DEF Pulses
<1>13. CASE Rises
  <2>1. Pulse = "before" /\ Pulse' = "high" /\ Stays
    BY <1>3, <1>13 DEF Pulses
  <2>2. Answers /\ Knows(step)
    BY <2>1 DEF AtRdAck
  <2>3. dev' = dev /\ dev_sda' = dev_sda
    BY <1>4, <1>13, <2>2, SeesRise DEF Answers
  <2>4. Answers' /\ Knows(step)'
    BY <1>1, <2>2, <2>3 DEF Knows, Answers
  <2>5. p_state' \notin {"RdAck_D", "RdAck_E"}
    <3>1. p_state \notin {"RdAck_C", "RdAck_D", "RdAck_E"}
      <4>1. scl_was = 0 /\ scl_out = 1
        BY <1>13 DEF Rises, Scl
      <4>2. QED
        BY <4>1 DEF Based, PhaseInv, High, Falling
    <3>2. QED
      BY <1>9, <3>1
  <2>6. AtRdAck'
    BY <2>1, <2>4, <2>5 DEF AtRdAck
  <2>7. QED
    BY <1>6, <2>1, <2>6
<1>14. CASE Falls /\ ~Rises
  <2>1. Pulse = "high" /\ ((Stays /\ Pulse' = "after") \/ Leaves) /\ p_state = "RdAck_E"
    BY <1>3, <1>10, <1>14 DEF Pulses
  <2>2. Answers /\ Knows(step) /\ (i_ack_out = 1 <=> dev.mode = "refuse")
    BY <2>1 DEF AtRdAck
  <2>3. i_ack_out' = i_ack_out
    BY <1>8, <2>1
  <2>4. Failed' <=> dev.mode = "refuse"
    BY <1>1, <1>2, <2>2, <2>3 DEF Failed
  <2>5. Rested'
    <3>1. CASE dev.mode = "refuse"
      <4>1. Becomes("off", <<>>, dev.nth, dev.index, dev.first, 1)
        BY <1>4, <1>14, <3>1, SeesFall
      <4>2. Off'
        BY <4>1 DEF Becomes, State, Off
      <4>3. QED
        BY <2>4, <3>1, <4>2 DEF Rested
    <3>2. CASE dev.mode = "accept"
      <4>1. /\ step # Len(Commands) => ReadyFor(step + 1)'
            /\ step = Len(Commands) => Quiet'
        BY <1>14, <2>2, <3>2, Accepted
      <4>2. ~Failed'
        BY <2>4, <3>2
      <4>3. QED
        BY <1>1, <4>1, <4>2 DEF Rested, ReadyFor, Knows, Listens, Speaks, Quiet
    <3>3. QED
      BY <2>2, <3>1, <3>2 DEF Answers
  <2>6. Stays /\ Pulse' = "after" => AtRdAck'
    BY <2>5 DEF AtRdAck
  <2>7. QED
    BY <1>6, <1>11, <2>1, <2>5, <2>6
<1>15. QED
  BY <1>12, <1>13, <1>14

\* In a read, the byte under way is one of the two of the register.
LEMMA ReadHere ==
  ASSUME BytesGiven, ReadsGiven, Based, Command.ctl.rd = 1
  PROVE  /\ call.dir = "read" /\ step \in 4..5 /\ Nth(call, step) = step - 3
         /\ Command.ctl.wr = 0 /\ Command.ctl.sta = 0 /\ Command.ctl.ack = Command.ctl.stp
         /\ Command.ctl.stp = 1 <=> step = Len(Commands)
         /\ Command.ctl.stp = 0 <=> step # Len(Commands)
         /\ TheByte \in Byte /\ call.index \in Indexes
<1>1. /\ Commands = List(call) /\ Command = List(call)[step] /\ Kind(call, step)
  BY Here
<1>2. call.dir = "read" /\ step \in 4..5 /\ Reads(Command, One(step = Len(Commands)))
      /\ call.index \in Indexes
  BY <1>1 DEF Kind, Writes
<1>3. Nth(call, step) = step - 3
  BY <1>2 DEF Nth
<1>4. Command.ctl.stp = IF step = Len(Commands) THEN 1 ELSE 0
  BY <1>2 DEF Reads, One
<1>5. memory[call.index] \in [1..2 -> Byte] /\ step - 3 \in 1..2
  BY <1>2 DEF Based, DeviceInv
<1>6. TheByte \in Byte
  BY <1>5 DEF TheByte
<1>7. QED
  BY <1>2, <1>3, <1>4, <1>6 DEF Reads

LEMMA SameBits ==
  ASSUME NEW f, f \in [1..Bits -> Bit], NEW g, g \in [1..Bits -> Bit],
         \A j \in 1..Bits : f[j] = g[j]
  PROVE  f = g
<1>1. f = [j \in 1..Bits |-> f[j]] /\ g = [j \in 1..Bits |-> g[j]]
  OBVIOUS
<1>2. [j \in 1..Bits |-> f[j]] = [j \in 1..Bits |-> g[j]]
  OBVIOUS
<1>3. QED
  BY <1>1, <1>2

LEMMA ReadWork ==
  ASSUME BytesGiven, ReadsGiven, Based, AtRead, NEW access, Clocked(access), Move(access),
         p_state \in Readings
  PROVE  \/ p_state' \in Readings /\ AtRead'
         \/ p_state' = "WrAck_A" /\ AtWrAck'
<1>1. UNCHANGED <<call, step>>
  BY Working DEF Readings
<1>2. Pulses /\ ~Starts /\ ~Stops
  BY PulseStep DEF Based, BitStates
<1>3. Device /\ DeviceInv
  BY DEF Clocked, Based
<1>4. /\ dev.bits \in Seq(Bit) /\ dev_sda \in Bit
      /\ i_ctr \in 0..Bits - 1 /\ Bits \in Nat \ {0} /\ sda_out \in Bit
  BY I2cConstants DEF Based, DeviceInv, DeviceTyped, RegisterInv, Byte
<1>5. PICK k \in 0..Bits - 1 : k = i_ctr
  BY <1>4
<1>6. /\ Stays <=> p_state' \in Readings
      /\ Leaves <=> i_ctr = Bits - 1 /\ p_state' = "WrAck_A" /\ Pulse' = "before"
  BY DEF Stays, Leaves, Writing, RdAcks, Readings, AckOut
<1>7. Command.ctl.rd = 1
  <2>1. read_reg = 1
    BY DEF Based, HandoverInv
  <2>2. QED
    BY <2>1, Working DEF Readings
<1>8. PICK byte : byte = TheByte
  OBVIOUS
<1>9. /\ byte \in [1..Bits -> Bit] /\ Nth(call, step) = step - 3 /\ step \in 4..5
      /\ dev.index = call.index
  <2>1. /\ TheByte \in Byte /\ Nth(call, step) = step - 3 /\ step \in 4..5
    BY <1>7, ReadHere
  <2>2. dev.index = call.index
    BY <2>1 DEF AtRead, Knows
  <2>3. QED
    BY <1>8, <2>1, <2>2 DEF Byte
<1>10. CASE ~Rises /\ ~Falls
  <2>1. dev' = dev /\ dev_sda' = dev_sda /\ memory' = memory
    BY <1>2, <1>3, <1>10, SeesNothing
  <2>2. Knows(step)' /\ TheByte' = TheByte
    BY <1>1, <2>1 DEF AtRead, Knows, TheByte
  <2>3. (Asks => Asks') /\ \A n, m : Sends(n, m) => Sends(n, m)'
    BY <1>1, <2>1, <2>2 DEF Asks, Sends
  <2>4. CASE Pulse' = Pulse /\ Stays /\ i_ctr' = i_ctr
    <3>1. AtRead'
      BY <2>2, <2>3, <2>4 DEF AtRead
    <3>2. QED
      BY <1>6, <2>4, <3>1
  <2>5. CASE Pulse = "after" /\ Leaves
    <3>1. AtWrAck'
      BY <1>6, <2>2, <2>3, <2>5 DEF AtRead, AtWrAck
    <3>2. QED
      BY <1>6, <2>5, <3>1
  <2>6. CASE /\ Pulse = "after" /\ Stays /\ Pulse' = "before"
             /\ i_ctr # Bits - 1 /\ i_ctr' = i_ctr + 1
    <3>1. i_ctr' = k + 1 /\ i_ctr' + 1 = k + 2
      BY <1>5, <2>6
    <3>2. Sends(k + 1, k + 2)
      BY <1>5, <2>6 DEF AtRead
    <3>3. Sends(i_ctr, i_ctr + 1)'
      <4>1. Sends(k + 1, k + 2)'
        BY <2>3, <3>2
      <4>2. QED
        BY <3>1, <4>1 DEF Sends
    <3>4. AtRead'
      BY <2>2, <2>6, <3>3 DEF AtRead
    <3>5. QED
      BY <1>6, <2>6, <3>4
  <2>7. QED
    BY <1>2, <1>10, <2>4, <2>5, <2>6 DEF Pulses
<1>11. CASE Rises
  <2>1. Pulse = "before" /\ Pulse' = "high" /\ Stays /\ i_ctr' = i_ctr /\ sda_out = i_sda_out
    BY <1>2, <1>11 DEF Pulses
  <2>2. /\ dev.mode = "send" /\ dev.nth = Nth(call, step) /\ dev_sda = byte[k + 1]
        /\ Len(dev.bits) = k /\ \A j \in 1..k : dev.bits[j] = byte[j]
    BY <1>5, <1>8, <2>1 DEF AtRead, Sends
  <2>3. Sda = byte[k + 1]
    <3>1. sda_out = 1
      BY <2>1, Levels
    <3>2. QED
      BY <1>4, <2>2, <3>1 DEF Sda, Bit
  <2>4. /\ Becomes("send", Append(dev.bits, Sda), dev.nth, dev.index, dev.first, dev_sda)
        /\ memory' = memory
    <3>1. k # Bits
      BY <1>4
    <3>2. QED
      BY <1>3, <1>11, <2>2, <3>1, SeesRise
  <2>5. /\ dev'.mode = "send" /\ dev'.nth = dev.nth /\ dev'.index = dev.index
        /\ dev'.first = dev.first /\ dev_sda' = dev_sda /\ dev'.bits = Append(dev.bits, Sda)
    BY <2>4 DEF Becomes, State
  <2>6. /\ Len(Append(dev.bits, Sda)) = k + 1
        /\ \A j \in 1..k + 1 : Append(dev.bits, Sda)[j] = byte[j]
    BY <1>4, <2>2, <2>3
  <2>7. TheByte' = byte
    BY <1>1, <1>8, <2>4 DEF TheByte
  <2>8. Sends(i_ctr + 1, i_ctr + 1)'
    BY <1>1, <1>5, <2>1, <2>2, <2>5, <2>6, <2>7 DEF Sends
  <2>9. Knows(step)'
    BY <1>1, <2>5 DEF AtRead, Knows
  <2>10. AtRead'
    BY <2>1, <2>8, <2>9 DEF AtRead
  <2>11. QED
    BY <1>6, <2>1, <2>10
<1>12. CASE Falls /\ ~Rises
  <2>1. Pulse = "high" /\ i_ctr' = i_ctr /\ ((Stays /\ Pulse' = "after") \/ Leaves)
    BY <1>2, <1>12 DEF Pulses
  <2>2. /\ dev.mode = "send" /\ dev.nth = Nth(call, step)
        /\ Len(dev.bits) = k + 1 /\ \A j \in 1..k + 1 : dev.bits[j] = byte[j]
    BY <1>5, <1>8, <2>1 DEF AtRead, Sends
  <2>3. memory' = memory
    BY <1>3, <1>12, SeesFall
  <2>4. TheByte' = byte
    BY <1>1, <1>8, <2>3 DEF TheByte
  <2>5. CASE k # Bits - 1
    <3>1. dev' = dev /\ dev_sda' = NextBit(dev)
      <4>1. Len(dev.bits) # Bits
        BY <1>4, <2>2, <2>5
      <4>2. QED
        BY <1>3, <1>12, <2>2, <4>1, SeesFall
    <3>2. NextBit(dev) = byte[k + 2]
      <4>1. ((dev.nth - 1) % 2) + 1 = step - 3
        BY <1>9, <2>2
      <4>2. Len(dev.bits) + 1 = k + 2
        BY <2>2
      <4>3. QED
        BY <1>8, <1>9, <4>1, <4>2 DEF NextBit, TheByte
    <3>3. Sends(i_ctr + 1, i_ctr + 2)'
      BY <1>1, <1>5, <2>1, <2>2, <2>4, <3>1, <3>2 DEF Sends
    <3>4. Knows(step)'
      BY <1>1, <3>1 DEF AtRead, Knows
    <3>5. Stays /\ Pulse' = "after" /\ i_ctr' # Bits - 1
      BY <1>5, <1>6, <2>1, <2>5
    <3>6. AtRead'
      BY <3>3, <3>4, <3>5 DEF AtRead
    <3>7. QED
      BY <1>6, <3>5, <3>6
  <2>6. CASE k = Bits - 1
    <3>1. Becomes("asked", dev.bits, dev.nth, dev.index, dev.first, 1)
      <4>1. Len(dev.bits) = Bits
        BY <1>4, <2>2, <2>6
      <4>2. QED
        BY <1>3, <1>12, <2>2, <4>1, SeesFall
    <3>2. /\ dev'.nth = dev.nth /\ dev'.index = dev.index
          /\ dev'.first = dev.first /\ dev'.bits = dev.bits
          /\ dev'.mode = "asked" /\ dev_sda' = 1
      BY <3>1 DEF Becomes, State
    <3>3. dev.bits = byte
      <4>1. dev.bits \in [1..Bits -> Bit]
        BY <1>4, <2>2, <2>6
      <4>2. \A j \in 1..Bits : dev.bits[j] = byte[j]
        BY <1>4, <2>2, <2>6
      <4>3. byte \in [1..Bits -> Bit]
        BY <1>9
      <4>4. QED
        BY <4>1, <4>2, <4>3, SameBits
    <3>4. Asks'
      BY <1>1, <2>2, <2>4, <3>2, <3>3 DEF Asks
    <3>5. Knows(step)'
      BY <1>1, <3>2 DEF AtRead, Knows
    <3>6. CASE Stays /\ Pulse' = "after"
      <4>1. i_ctr' = Bits - 1
        BY <1>5, <2>1, <2>6
      <4>2. AtRead'
        BY <3>4, <3>5, <3>6, <4>1 DEF AtRead
      <4>3. QED
        BY <1>6, <3>6, <4>2
    <3>7. CASE Leaves
      <4>1. AtWrAck'
        BY <1>6, <3>4, <3>5, <3>7 DEF AtWrAck
      <4>2. QED
        BY <1>6, <3>7, <4>1
    <3>8. QED
      BY <2>1, <3>6, <3>7
  <2>7. QED
    BY <2>5, <2>6
<1>13. QED
  BY <1>10, <1>11, <1>12

\* Another byte was asked for, or none; what follows fits the next command.
LEMMA AskedMore ==
  ASSUME BytesGiven, ReadsGiven, Based, NEW access, Clocked(access), Move(access),
         p_state \in AckOut, Knows(step), Told, Falls
  PROVE  Rested'
<1>1. /\ UNCHANGED <<call, step>> /\ Commands' = Commands /\ Command' = Command
      /\ ack_reg = Command.ctl.ack
  BY Working DEF AckOut
<1>2. Command.ctl.rd = 1
  <2>1. read_reg = 1
    BY DEF Based, HandoverInv
  <2>2. QED
    BY <2>1, Working DEF AckOut
<1>3. /\ call.dir = "read" /\ step \in 4..5 /\ Nth(call, step) = step - 3
      /\ Command.ctl.wr = 0 /\ Command.ctl.ack = Command.ctl.stp
      /\ Command.ctl.stp = 1 <=> step = Len(Commands)
      /\ Command.ctl.stp = 0 <=> step # Len(Commands)
  BY <1>2, ReadHere
<1>4. ~Failed'
  BY <1>1, <1>3 DEF Failed
<1>5. Device /\ DeviceInv
  BY DEF Clocked, Based
<1>6. CASE ack_reg = 0
  <2>1. dev.mode = "more" /\ dev.nth = step - 3 /\ dev.index = call.index
    BY <1>3, <1>6 DEF Told, Knows
  <2>2. step # Len(Commands)
    BY <1>1, <1>3, <1>6
  <2>3. step = 4
    <3>1. Commands = List(call) /\ Kind(call, step)
      BY Here
    <3>2. Len(Commands) = 3 + call.size /\ call.size \in 1..2 /\ step <= Len(Commands)
      BY <1>3, <3>1 DEF Kind
    <3>3. QED
      BY <1>3, <2>2, <3>2
  <2>4. Becomes("send", <<>>, 2, call.index, dev.first, memory[call.index][2][1]) /\ memory' = memory
    <3>1. dev.nth = 1
      BY <2>1, <2>3
    <3>2. 1 + 1 = 2 /\ (1 % 2) + 1 = 2
      OBVIOUS
    <3>3. Becomes("send", <<>>, dev.nth + 1, dev.index, dev.first,
                  memory[dev.index][(dev.nth % 2) + 1][1]) /\ memory' = memory
      BY <1>5, <2>1, SeesFall
    <3>4. QED
      BY <2>1, <3>1, <3>2, <3>3
  <2>5. Knows(5)' /\ Speaks(5)'
    BY <1>1, <1>3, <2>4 DEF Becomes, State, Speaks, Knows, Nth
  <2>6. List(call)[5].ctl.wr = 0 /\ List(call)[5].ctl.sta = 0
    <3>1. step + 1 = 5
      BY <2>3
    <3>2. Kind(call, 5)
      BY <2>2, <3>1, Here
    <3>3. QED
      BY <1>3, <3>2 DEF Kind, Reads
  <2>7. step + 1 = 5 /\ Commands = List(call)
    BY <2>3, Here
  <2>8. ReadyFor(step + 1)'
    BY <1>1, <2>5, <2>6, <2>7 DEF ReadyFor
  <2>9. QED
    BY <1>1, <1>4, <2>2, <2>8 DEF Rested
<1>7. CASE ack_reg # 0
  <2>1. Off
    BY <1>7 DEF Told
  <2>2. dev' = dev /\ dev_sda' = dev_sda
    BY <1>5, <2>1, SeesFall DEF Off
  <2>3. Quiet'
    BY <2>1, <2>2 DEF Off, Quiet
  <2>4. step = Len(Commands)
    BY <1>1, <1>3, <1>7
  <2>5. QED
    BY <1>1, <1>4, <2>3, <2>4 DEF Rested
<1>8. QED
  BY <1>6, <1>7

LEMMA WrAckWork ==
  ASSUME BytesGiven, ReadsGiven, Based, AtWrAck, NEW access, Clocked(access), Move(access),
         p_state \in AckOut
  PROVE  \/ p_state' \in AckOut /\ AtWrAck'
         \/ p_state' = "Stop_A" /\ Quiet'
         \/ p_state' = "Done" /\ Over'
<1>1. /\ UNCHANGED <<call, step, ack_reg>> /\ Commands' = Commands /\ Command' = Command
      /\ stop_reg = Command.ctl.stp
  BY Working DEF AckOut
<1>2. Command.ctl.rd = 1
  <2>1. read_reg = 1
    BY DEF Based, HandoverInv
  <2>2. QED
    BY <2>1, Working DEF AckOut
<1>3. Pulses /\ ~Starts /\ ~Stops
  BY PulseStep DEF Based, BitStates
<1>4. Device /\ DeviceInv /\ i2c_core
  BY DEF Clocked, Based
<1>5. dev_sda \in Bit /\ sda_out \in Bit /\ ack_reg \in Bit
  BY DEF Based, DeviceInv, RegisterInv
<1>6. /\ Stays <=> p_state' \in AckOut
      /\ Leaves <=> p_state' = IF stop_reg = 1 THEN "Stop_A" ELSE "Done"
  BY DEF Stays, Leaves, Writing, RdAcks, Readings, AckOut
<1>7. /\ Command.ctl.stp = 1 <=> step = Len(Commands)
      /\ Command.ctl.wr = 0
  BY <1>2, ReadHere
<1>8. i_ack_out' = i_ack_out
  BY <1>4 DEF i2c_core, AckOut
<1>9. Rested' => (p_state' = "Stop_A" /\ Quiet') \/ (p_state' = "Done" /\ Over') \/ ~Leaves
  <2> SUFFICES ASSUME Rested', Leaves
               PROVE  (p_state' = "Stop_A" /\ Quiet') \/ (p_state' = "Done" /\ Over')
    OBVIOUS
  <2>1. CASE stop_reg = 1
    <3>1. step = Len(Commands)
      BY <1>1, <1>7, <2>1
    <3>2. Quiet'
      BY <1>1, <3>1 DEF Rested, Off, Quiet
    <3>3. QED
      BY <1>6, <2>1, <3>2
  <2>2. CASE stop_reg # 1
    BY <1>1, <1>6, <2>2 DEF Over
  <2>3. QED
    BY <2>1, <2>2
<1>10. CASE ~Rises /\ ~Falls
  <2>1. dev' = dev /\ dev_sda' = dev_sda /\ memory' = memory
    BY <1>3, <1>4, <1>10, SeesNothing
  <2>2. /\ (Knows(step) => Knows(step)') /\ (Asks => Asks') /\ (Told => Told')
        /\ (Rested => Rested')
    BY <1>1, <1>8, <2>1
       DEF Knows, Asks, TheByte, Told, Rested, Failed, Off, Quiet, ReadyFor, Listens, Speaks
  <2>3. CASE Pulse' = Pulse /\ Stays
    <3>1. AtWrAck'
      BY <2>2, <2>3 DEF AtWrAck
    <3>2. QED
      BY <1>6, <2>3, <3>1
  <2>4. CASE Pulse = "after" /\ Leaves
    BY <1>9, <2>2, <2>4 DEF AtWrAck
  <2>5. ~(Stays /\ Pulse' = "before" /\ p_state' \in {"Wr_A", "Rd_A"})
    BY <1>6 DEF AckOut
  <2>6. QED
    BY <1>3, <1>10, <2>3, <2>4, <2>5 DEF Pulses
<1>11. CASE Rises
  <2>1. Pulse = "before" /\ Pulse' = "high" /\ Stays /\ sda_out = i_sda_out
    BY <1>3, <1>11 DEF Pulses
  <2>2. Asks /\ Knows(step)
    BY <2>1 DEF AtWrAck
  <2>3. Sda = ack_reg
    <3>1. sda_out = ack_reg
      BY <2>1, Levels
    <3>2. QED
      BY <1>5, <2>2, <3>1 DEF Sda, Bit, Asks
  <2>4. /\ ack_reg = 0 => Becomes("more", dev.bits, dev.nth, dev.index, dev.first, dev_sda)
        /\ ack_reg # 0 => Becomes("off", <<>>, dev.nth, dev.index, dev.first, dev_sda)
    BY <1>4, <1>11, <2>2, <2>3, SeesRise DEF Asks
  <2>5. /\ dev'.nth = dev.nth /\ dev'.index = dev.index /\ dev'.first = dev.first
        /\ dev_sda' = dev_sda
        /\ ack_reg = 0 => dev'.mode = "more"
        /\ ack_reg # 0 => dev'.mode = "off"
    BY <2>4 DEF Becomes, State
  <2>6. Told' /\ Knows(step)'
    BY <1>1, <2>2, <2>5 DEF Asks, Told, Off, Knows
  <2>7. AtWrAck'
    BY <2>1, <2>6 DEF AtWrAck
  <2>8. QED
    BY <1>6, <2>1, <2>7
<1>12. CASE Falls /\ ~Rises
  <2>1. Pulse = "high" /\ ((Stays /\ Pulse' = "after") \/ Leaves)
    BY <1>3, <1>12 DEF Pulses
  <2>2. Rested'
    BY <1>12, <2>1, AskedMore DEF AtWrAck
  <2>3. Stays /\ Pulse' = "after" => AtWrAck'
    BY <2>2 DEF AtWrAck
  <2>4. QED
    BY <1>6, <1>9, <2>1, <2>2, <2>3
<1>13. QED
  BY <1>10, <1>11, <1>12

\* Nothing happens on the wires while the levels are latched.
LEMMA Nothing ==
  ASSUME Based, EdgeInv, Device, p_state \in Latched
  PROVE  /\ dev' = dev /\ dev_sda' = dev_sda /\ memory' = memory /\ Observed = <<>>
         /\ scl_out = 1 => Sda = 1
<1>1. scl_out = scl_was /\ scl_out \in Bit
  BY DEF Based, WireInv, RegisterInv
<1>2. scl_out = 1 => sda_was = 1 /\ Sda = 1
  BY DEF EdgeInv, Sda
<1>3. ~Starts /\ ~Stops /\ ~Rises /\ ~Falls
  BY <1>1, <1>2 DEF Starts, Stops, Rises, Falls, Scl
<1>4. QED
  BY <1>2, <1>3, SeesNothing

\* A device that listens for a condition, or for nothing, stays quiet when the
\* clock rises.
LEMMA QuietRise ==
  ASSUME Based, Device, Quiet, Rises \/ (~Starts /\ ~Stops /\ ~Rises /\ ~Falls)
  PROVE  /\ Quiet' /\ dev'.index = dev.index /\ dev'.first = dev.first
         /\ memory' = memory /\ Observed = <<>>
<1>1. DeviceInv
  BY DEF Based
<1>2. CASE Rises /\ dev.mode = "recv" /\ Len(dev.bits) # Bits
  <2>1. /\ Becomes(dev.mode, Append(dev.bits, Sda), dev.nth, dev.index, dev.first, dev_sda)
        /\ memory' = memory /\ Observed = <<>>
    BY <1>1, <1>2, SeesRise
  <2>2. QED
    BY <2>1 DEF Becomes, State, Quiet
<1>3. CASE Rises /\ ~(dev.mode = "recv" /\ Len(dev.bits) # Bits)
  <2>1. dev' = dev /\ dev_sda' = dev_sda /\ memory' = memory /\ Observed = <<>>
    BY <1>1, <1>3, SeesRise DEF Quiet
  <2>2. QED
    BY <2>1 DEF Quiet
<1>4. CASE ~Starts /\ ~Stops /\ ~Rises /\ ~Falls
  BY <1>4, SeesNothing DEF Quiet
<1>5. QED
  BY <1>2, <1>3, <1>4

\* The command with a start condition is an address.
LEMMA StartHere ==
  ASSUME BytesGiven, ReadsGiven, Based, Command.ctl.sta = 1
  PROVE  Nth(call, step) = 1 /\ Command.ctl.wr = 1
<1>1. Command = List(call)[step] /\ Kind(call, step)
  BY Here
<1>2. step = 1 \/ (call.dir = "read" /\ step = 3)
  BY <1>1 DEF Kind, Writes, Reads
<1>3. Nth(call, step) = 1
  BY <1>2 DEF Nth
<1>4. Command.ctl.wr = 1
  BY <1>1, <1>2 DEF Kind, Writes
<1>5. QED
  BY <1>3, <1>4

LEMMA StartWork ==
  ASSUME BytesGiven, ReadsGiven, Based, EdgeInv, Located, NEW access, Clocked(access),
         Move(access), p_state \in Starting
  PROVE  \/ p_state' \in {"Start_A", "Start_B"} /\ AtStart'
         \/ p_state' = "Start_C" /\ AtStartC'
         \/ p_state' = "Start_D" /\ AtStartD'
         \/ p_state' = "Wr_A" /\ AtWrite'
<1>1. /\ UNCHANGED <<call, step, i_data_in>> /\ Commands' = Commands /\ Command' = Command
      /\ Command.ctl.sta = start_reg /\ Command.ctl.wr = write_reg
  BY Working DEF Starting
<1>2. Device /\ DeviceInv /\ i2c_core
  BY DEF Clocked, Based
<1>3. Nth(call, step) = 1 /\ write_reg = 1 /\ i_ctr = 0 /\ i_ctr' = 0
  <2>1. start_reg = 1 /\ i_ctr = 0
    BY DEF Based, PhaseInv
  <2>2. i_ctr' = 0
    BY <1>2, <2>1 DEF i2c_core, Starting
  <2>3. QED
    BY <1>1, <2>1, <2>2, StartHere
<1>4. /\ p_state = "Start_A" => p_state' \in {"Start_A", "Start_B"}
      /\ p_state = "Start_B" => p_state' \in {"Start_B", "Start_C"}
      /\ p_state = "Start_C" => p_state' = "Start_C" \/ (p_state' = "Start_D" /\ sclk = 1)
      /\ p_state = "Start_D" => p_state' = "Start_D" \/ (p_state' = "Wr_A" /\ sclk = 1)
  <2>1. /\ p_state \in States
        /\ p_state' = IF sclk = 1 \/ p_state \in Unclocked THEN n_state ELSE p_state
    BY <1>2 DEF i2c_core, Based, RegisterInv
  <2>2. p_state \notin Unclocked
    BY DEF Starting, Unclocked
  <2>3. Transfer("Start_D") = "Wr_A"
    BY <1>3 DEF Transfer, Based, HandoverInv
  <2>4. QED
    BY <2>1, <2>2, <2>3, Successors
<1>5. /\ scl_out \in Bit /\ sda_out \in Bit /\ scl_was \in Bit /\ sda_was \in Bit
      /\ dev_sda \in Bit
  BY DEF Based, RegisterInv, DeviceInv
<1>6. scl_was' = scl_out /\ sda_was' = Sda
  BY <1>2 DEF Device, Scl
<1>7. scl_in = scl_was
  BY DEF Based, WireInv
<1>8. CASE p_state = "Start_A"
  <2>1. dev' = dev /\ dev_sda' = dev_sda
    BY <1>2, <1>8, Nothing DEF Latched
  <2>2. AtStart'
    BY <1>1, <1>8, <2>1 DEF Located, AtStart, Knows, Quiet
  <2>3. QED
    BY <1>4, <1>8, <2>2
<1>9. CASE p_state = "Start_B"
  <2>1. AtStart /\ Quiet /\ Knows(step)
    BY <1>9 DEF Located, AtStart
  <2>2. scl_out = 1 \/ scl_was = 0
    BY <1>7, <1>9 DEF Based, WireInv, Rising
  <2>3. Sda = 1
    <3>1. sda_out = 1
      BY <1>9, Levels DEF Based, WireInv, Rising
    <3>2. QED
      BY <2>1, <3>1 DEF Sda, Quiet
  <2>4. scl_out = 1 => sda_was = 1
    BY <1>9 DEF EdgeInv
  <2>5. Rises \/ (~Starts /\ ~Stops /\ ~Rises /\ ~Falls)
    BY <2>2, <2>3, <2>4 DEF Rises, Starts, Stops, Falls, Scl
  <2>6. Quiet' /\ dev'.index = dev.index /\ dev'.first = dev.first
    BY <1>2, <2>1, <2>5, QuietRise
  <2>7. Knows(step)'
    BY <1>1, <2>1, <2>6 DEF Knows
  <2>8. sda_was' = 1
    BY <1>6, <2>3
  <2>9. AtStart' /\ AtStartC'
    BY <2>6, <2>7, <2>8 DEF AtStart, AtStartC
  <2>10. QED
    BY <1>4, <1>9, <2>9
<1>10. CASE p_state = "Start_C"
  <2>1. AtStartC /\ Knows(step)
    BY <1>10 DEF Located, AtStartC
  <2>2. scl_out = 1 /\ scl_was = 1
    BY <1>10 DEF Based, WireInv, PhaseInv, High
  <2>3. ~Rises /\ ~Falls
    BY <2>2 DEF Rises, Falls, Scl
  <2>4. CASE sda_was = 0
    <3>1. sda_out = 0 /\ Sda = 0 /\ Listens(step)
      BY <1>10, <2>1, <2>4 DEF EdgeInv, Sda, AtStartC
    <3>2. ~Starts /\ ~Stops
      BY <2>4, <3>1 DEF Starts, Stops
    <3>3. dev' = dev /\ dev_sda' = dev_sda
      BY <1>2, <2>3, <3>2, SeesNothing
    <3>4. Knows(step)' /\ Listens(step)'
      BY <1>1, <2>1, <3>1, <3>3 DEF Knows, Listens
    <3>5. sda_was' # 1
      BY <1>6, <3>1
    <3>6. AtStartC' /\ AtStartD'
      BY <3>4, <3>5 DEF AtStartC, AtStartD
    <3>7. QED
      BY <1>4, <1>10, <3>6
  <2>5. CASE sda_was = 1 /\ sda_out = 1
    <3>1. Quiet /\ Sda = 1
      BY <2>1, <2>5 DEF AtStartC, Quiet, Sda
    <3>2. ~Starts /\ ~Stops
      BY <2>5, <3>1 DEF Starts, Stops
    <3>3. dev' = dev /\ dev_sda' = dev_sda
      BY <1>2, <2>3, <3>2, SeesNothing
    <3>4. Knows(step)' /\ Quiet'
      BY <1>1, <2>1, <3>1, <3>3 DEF Knows, Quiet
    <3>5. sda_was' # 0
      BY <1>6, <3>1
    <3>6. AtStartC'
      BY <3>4, <3>5 DEF AtStartC
    <3>7. p_state' = "Start_C"
      BY <1>4, <1>10, <2>5 DEF Based, PhaseInv
    <3>8. QED
      BY <3>6, <3>7
  <2>6. CASE sda_was = 1 /\ sda_out = 0
    <3>1. Starts /\ Sda = 0
      BY <2>2, <2>6 DEF Starts, Sda, Scl
    <3>2. Becomes("recv", <<>>, 1, dev.index, dev.first, 1)
      BY <1>2, <3>1, SeesStart
    <3>3. Knows(step)' /\ Listens(step)'
      BY <1>1, <1>3, <2>1, <3>2 DEF Becomes, State, Knows, Listens
    <3>4. sda_was' # 1
      BY <1>6, <3>1
    <3>5. AtStartC' /\ AtStartD'
      BY <3>3, <3>4 DEF AtStartC, AtStartD
    <3>6. QED
      BY <1>4, <1>10, <3>5
  <2>7. QED
    BY <1>5, <2>4, <2>5, <2>6 DEF Bit
<1>11. CASE p_state = "Start_D"
  <2>1. Knows(step) /\ Listens(step)
    BY <1>11 DEF Located, AtStartD
  <2>2. /\ sda_was = 0 /\ Sda = 0
        /\ scl_was = 1 \/ scl_out = 0
        /\ scl_out = 0 \/ sclk = 0
    <3>1. sda_out = 0
      BY <1>11, Levels DEF Based, WireInv, Falling
    <3>2. QED
      BY <1>11, <3>1 DEF EdgeInv, Sda, Based, WireInv, PhaseInv, Falling
  <2>3. ~Rises /\ ~Starts /\ ~Stops
    BY <2>2 DEF Rises, Starts, Stops, Scl
  <2>4. dev' = dev /\ dev_sda' = dev_sda
    <3>1. Falls => dev.mode = "recv" /\ Len(dev.bits) # Bits
      BY <2>1, NoBits DEF Listens
    <3>2. CASE Falls
      BY <1>2, <3>1, <3>2, SeesFall
    <3>3. CASE ~Falls
      BY <1>2, <2>3, <3>3, SeesNothing
    <3>4. QED
      BY <3>2, <3>3
  <2>5. Knows(step)' /\ Listens(step)'
    BY <1>1, <2>1, <2>4 DEF Knows, Listens
  <2>6. p_state' = "Wr_A" => AtWrite'
    <3> SUFFICES ASSUME p_state' = "Wr_A" PROVE AtWrite'
      OBVIOUS
    <3>1. scl_was' = 0
      BY <1>4, <1>6, <1>11, <2>2
    <3>2. Pulse' = "before"
      BY <3>1 DEF Pulse, Falling
    <3>3. Receives(0)'
      BY <1>3, <2>5, NoBits DEF Receives, Listens
    <3>4. Receives(i_ctr)'
      BY <1>3, <3>3 DEF Receives
    <3>5. QED
      BY <2>5, <3>2, <3>4 DEF AtWrite
  <2>7. QED
    BY <1>4, <1>11, <2>5, <2>6 DEF AtStartD
<1>12. QED
  BY <1>8, <1>9, <1>10, <1>11 DEF Starting

LEMMA StopWork ==
  ASSUME BytesGiven, ReadsGiven, Based, EdgeInv, Located, NEW access, Clocked(access),
         Move(access), p_state \in Stopping
  PROVE  \/ p_state' \in {"Stop_A", "Stop_B"} /\ Quiet'
         \/ p_state' = "Stop_C" /\ AtStopC'
         \/ p_state' = "Done" /\ Over' /\ Off' /\ Sda = 1
<1>1. /\ UNCHANGED <<call, step>> /\ Commands' = Commands /\ Command' = Command
      /\ Command.ctl.stp = 1
  <2>1. stop_reg = 1
    BY DEF Based, HandoverInv
  <2>2. QED
    BY <2>1, Working DEF Stopping
<1>2. Device /\ DeviceInv /\ i2c_core
  BY DEF Clocked, Based
<1>3. /\ p_state = "Stop_A" => p_state' \in {"Stop_A", "Stop_B"}
      /\ p_state = "Stop_B" => p_state' \in {"Stop_B", "Stop_C"}
      /\ p_state = "Stop_C" => p_state' = "Stop_C" \/ (p_state' = "Done" /\ sclk = 1)
  BY <1>2, Successors DEF i2c_core, Based, RegisterInv, Unclocked
<1>4. /\ sda_out \in Bit /\ sda_was \in Bit /\ scl_in = scl_was
      /\ sda_was' = Sda
  BY <1>2 DEF Based, RegisterInv, WireInv, Device
<1>5. CASE p_state \in {"Stop_A", "Stop_B"}
  <2>1. Quiet
    BY <1>5 DEF Located
  <2>2. Rises \/ (~Starts /\ ~Stops /\ ~Rises /\ ~Falls)
    <3>1. CASE p_state = "Stop_A"
      <4>1. scl_out = 0 /\ scl_was = 0
        BY <1>4, <3>1 DEF Based, WireInv, Low
      <4>2. QED
        BY <4>1 DEF Starts, Stops, Rises, Falls, Scl
    <3>2. CASE p_state = "Stop_B"
      <4>1. scl_out = 1 \/ scl_was = 0
        BY <1>4, <3>2 DEF Based, WireInv, Rising
      <4>2. Sda = 0
        BY <3>2, Levels DEF Based, WireInv, Rising, Sda
      <4>3. scl_out = 1 => sda_was = 0
        BY <3>2 DEF EdgeInv
      <4>4. QED
        BY <4>1, <4>2, <4>3 DEF Starts, Stops, Rises, Falls, Scl
    <3>3. QED
      BY <1>5, <3>1, <3>2
  <2>3. Quiet'
    BY <1>2, <2>1, <2>2, QuietRise
  <2>4. p_state = "Stop_B" => sda_was' # 1
    BY <1>4, Levels DEF Based, WireInv, Rising, Sda
  <2>5. p_state = "Stop_B" => AtStopC'
    BY <2>3, <2>4 DEF AtStopC
  <2>6. QED
    BY <1>3, <1>5, <2>3, <2>5
<1>6. CASE p_state = "Stop_C"
  <2>1. AtStopC /\ Quiet
    BY <1>6 DEF Located, AtStopC
  <2>2. scl_out = 1 /\ scl_was = 1 /\ Sda = sda_out
    BY <1>4, <1>6, <2>1 DEF Based, WireInv, PhaseInv, High, Sda, Quiet, Bit
  <2>3. ~Rises /\ ~Falls
    BY <2>2 DEF Rises, Falls, Scl
  <2>4. CASE sda_out = 0
    <3>1. sda_was = 0
      BY <1>4, <1>6, <2>4 DEF EdgeInv
    <3>2. ~Starts /\ ~Stops
      BY <2>2, <2>4, <3>1 DEF Starts, Stops
    <3>3. dev' = dev /\ dev_sda' = dev_sda
      BY <1>2, <2>3, <3>2, SeesNothing
    <3>4. sda_was' # 1
      BY <1>4, <2>2, <2>4
    <3>5. AtStopC'
      BY <2>1, <3>3, <3>4 DEF AtStopC, Quiet
    <3>6. p_state' = "Stop_C"
      BY <1>3, <1>6, <2>4 DEF Based, PhaseInv
    <3>7. QED
      BY <3>5, <3>6
  <2>5. CASE sda_out = 1
    <3>1. Off'
      <4>1. CASE sda_was = 0
        <5>1. Stops
          BY <2>2, <2>5, <4>1 DEF Stops, Scl
        <5>2. Becomes("off", <<>>, dev.nth, dev.index, dev.first, 1)
          BY <1>2, <5>1, SeesStop
        <5>3. QED
          BY <5>2 DEF Becomes, State, Off
      <4>2. CASE sda_was = 1
        <5>1. ~Starts /\ ~Stops
          BY <2>2, <2>5, <4>2 DEF Starts, Stops
        <5>2. dev' = dev /\ dev_sda' = dev_sda
          BY <1>2, <2>3, <5>1, SeesNothing
        <5>3. QED
          BY <2>1, <4>2, <5>2 DEF AtStopC, Off
      <4>3. QED
        BY <1>4, <4>1, <4>2 DEF Bit
    <3>2. AtStopC'
      BY <3>1 DEF AtStopC, Off, Quiet
    <3>3. Over'
      <4>1. Command'.ctl.stp # 0
        BY <1>1
      <4>2. QED
        BY <3>1, <4>1 DEF Over
    <3>4. QED
      BY <1>3, <1>6, <2>2, <2>5, <3>1, <3>2, <3>3
  <2>6. QED
    BY <1>4, <2>4, <2>5 DEF Bit
<1>7. QED
  BY <1>5, <1>6 DEF Stopping

LEMMA IdleWork ==
  ASSUME BytesGiven, ReadsGiven, Based, EdgeInv, Located, NEW access, Clocked(access),
         Move(access), p_state = "Idle", TIP
  PROVE  /\ TIP'
         /\ \/ p_state' = "Start_A" /\ AtStart'
            \/ p_state' = "Wr_A" /\ AtWrite'
            \/ p_state' = "Rd_A" /\ AtRead'
<1>1. /\ Device /\ DeviceInv /\ i2c_core /\ data_in_sync(access) /\ HandoverInv
      /\ RegisterInv /\ CommandInv /\ HeldInv
  BY DEF Clocked, Based
<1>2. cmd_done # 1
  BY <1>1 DEF HandoverInv
<1>3. /\ UNCHANGED <<call, step, i_data_in>> /\ Commands' = Commands /\ TIP'
  BY <1>1, <1>2, Busy
<1>4. /\ start_reg = Command.ctl.sta /\ write_reg = Command.ctl.wr
      /\ read_reg = Command.ctl.rd /\ start_reg \in Bit
  BY <1>1 DEF CommandInv, RegisterInv
<1>5. dev' = dev /\ dev_sda' = dev_sda /\ memory' = memory
  BY <1>1, Nothing DEF Latched
<1>6. ReadyFor(step) /\ Knows(step) /\ Knows(step)'
  BY <1>3, <1>5 DEF Located, ReadyFor, Knows
<1>7. p_state' = IF start_reg = 1 THEN "Start_A" ELSE IF write_reg = 1 THEN "Wr_A" ELSE "Rd_A"
  <2>1. p_state' = n_state /\ p_state \in States
    BY <1>1 DEF i2c_core, Unclocked, RegisterInv
  <2>2. Transfer("Idle") = IF write_reg = 1 THEN "Wr_A" ELSE "Rd_A"
    BY <1>1 DEF Transfer, TIP, HandoverInv
  <2>3. QED
    BY <2>1, <2>2, Successors
<1>8. i_ctr' = 0 /\ scl_was' = scl_out
  BY <1>1 DEF i2c_core, Device, Scl
<1>9. Commands[step] = Command
  BY DEF Command
<1>10. CASE start_reg = 1
  <2>1. Quiet
    BY <1>4, <1>6, <1>9, <1>10 DEF ReadyFor
  <2>2. AtStart'
    BY <1>5, <1>6, <2>1 DEF AtStart, Quiet
  <2>3. QED
    BY <1>3, <1>7, <1>10, <2>2
<1>11. CASE start_reg = 0
  <2>1. scl_was' = 0
    BY <1>1, <1>8, <1>11 DEF HeldInv
  <2>2. Pulse' = "before"
    BY <1>7, <1>11, <2>1 DEF Pulse, Falling
  <2>3. CASE write_reg = 1
    <3>1. Listens(step)
      BY <1>4, <1>6, <1>9, <1>11, <2>3 DEF ReadyFor
    <3>2. Receives(0)'
      BY <1>3, <1>5, <3>1, NoBits DEF Receives, Listens
    <3>3. Receives(i_ctr)'
      BY <1>8, <3>2 DEF Receives
    <3>4. AtWrite'
      BY <1>6, <2>2, <3>3 DEF AtWrite
    <3>5. QED
      BY <1>3, <1>7, <1>11, <2>3, <3>4
  <2>4. CASE write_reg # 1
    <3>1. Command.ctl.rd = 1
      BY <1>4, <2>4 DEF TIP
    <3>2. Speaks(step)
      BY <1>6, <1>9, <3>1 DEF ReadyFor
    <3>3. Sends(0, 1)'
      BY <1>3, <1>5, <3>2, NoBits DEF Sends, Speaks, TheByte
    <3>4. i_ctr' = 0 /\ i_ctr' + 1 = 1
      BY <1>8
    <3>5. Sends(i_ctr, i_ctr + 1)'
      BY <3>3, <3>4 DEF Sends
    <3>6. AtRead'
      BY <1>6, <2>2, <3>5 DEF AtRead
    <3>7. QED
      BY <1>3, <1>7, <1>11, <2>4, <3>6
  <2>5. QED
    BY <2>3, <2>4
<1>12. QED
  BY <1>4, <1>10, <1>11 DEF Bit

\* A write that is over left the device quiet, wherever it stopped.
LEMMA OverQuiet ==
  ASSUME BytesGiven, ReadsGiven, Based, Over, call.dir = "write" \/ Failed
  PROVE  Quiet
<1>1. Command.ctl.stp \in Bit
  BY Here DEF Place
<1>2. CASE Command.ctl.stp = 1
  BY <1>2 DEF Over, Off, Quiet
<1>3. CASE Command.ctl.stp = 0
  <2>1. Rested
    BY <1>3 DEF Over
  <2>2. CASE Failed \/ step = Len(Commands)
    BY <2>1, <2>2 DEF Rested, Off, Quiet
  <2>3. CASE ~Failed /\ step # Len(Commands)
    <3>1. ReadyFor(step + 1) /\ call.dir = "write"
      BY <2>1, <2>3 DEF Rested
    <3>2. Commands = List(call) /\ Kind(call, step + 1)
      BY <2>3, Here
    <3>3. Commands[step + 1].ctl.wr = 1 /\ Commands[step + 1].ctl.sta \in Bit
      BY <3>1, <3>2 DEF Kind, Writes, Bit
    <3>4. QED
      BY <3>1, <3>3 DEF ReadyFor, Listens, Quiet, Bit
  <2>4. QED
    BY <2>2, <2>3
<1>4. QED
  BY <1>1, <1>2, <1>3 DEF Bit

LEMMA DoneWork ==
  ASSUME BytesGiven, ReadsGiven, Based, EdgeInv, Located, NEW access, Clocked(access),
         Move(access), p_state \in {"Done", "DoneAck"}, TIP
  PROVE  p_state' = "DoneAck" /\ Over'
<1>1. /\ Device /\ i2c_core /\ data_in_sync(access) /\ HandoverInv /\ RegisterInv
  BY DEF Clocked, Based
<1>2. UNCHANGED <<call, step>> /\ Commands' = Commands /\ Command' = Command
  BY <1>1, Busy
<1>3. dev' = dev /\ dev_sda' = dev_sda /\ memory' = memory
  BY <1>1, Nothing DEF Latched
<1>4. i_ack_out' = i_ack_out
  BY <1>1 DEF i2c_core
<1>5. Over
  BY DEF Located
<1>6. Over'
  BY <1>2, <1>3, <1>4, <1>5
     DEF Over, Rested, Failed, Off, Quiet, ReadyFor, Knows, Listens, Speaks
<1>7. p_state' = "DoneAck"
  <2>1. p_state = "DoneAck" => cmd_done_ack # 1
    BY <1>1 DEF HandoverInv
  <2>2. QED
    BY <1>1, <2>1, Successors DEF i2c_core, Unclocked, RegisterInv
<1>8. QED
  BY <1>6, <1>7

LEMMA WorkStep ==
  ASSUME BytesGiven, ReadsGiven, ReadsGoOn, Based, EdgeInv, WorkInv, TIP,
         NEW access, Clocked(access), Move(access)
  PROVE  WorkInv' /\ RestInv'
<1>1. /\ Device /\ i2c_core /\ data_in_sync(access) /\ HandoverInv /\ RegisterInv
      /\ CommandInv /\ Located
  BY DEF Clocked, Based, WorkInv
<1>2. /\ pc \in Polling /\ UNCHANGED <<call, step>> /\ Commands' = Commands
      /\ Command' = Command
      /\ cmd_done # 1 => TIP'
      /\ cmd_done = 1 => ~TIP'
      /\ pc' = pc \/ (pc = "Poll" /\ pc' = "Idle" /\ call.dir \in CpuRestarts)
  BY <1>1, Busy
<1>3. pc' \in Polling
  BY <1>2 DEF Polling
<1>4. CASE p_state \in {"Done", "DoneAck"}
  <2>1. p_state' = "DoneAck" /\ Over'
    BY <1>1, <1>4, DoneWork
  <2>2. WorkInv'
    BY <2>1 DEF WorkInv, Located, Writing, RdAcks, Readings, AckOut
  <2>3. pc' = "Idle" => Quiet'
    <3> SUFFICES ASSUME pc' = "Idle" PROVE Quiet'
      OBVIOUS
    <3>1. call.dir = "write"
      BY <1>1, <1>2, I2cConstants DEF CommandInv, ReadsGoOn
    <3>2. Quiet
      BY <1>1, <1>4, <3>1, OverQuiet DEF Located
    <3>3. dev' = dev /\ dev_sda' = dev_sda
      BY <1>1, <1>4, Nothing DEF Latched
    <3>4. QED
      BY <3>2, <3>3 DEF Quiet
  <2>4. RestInv'
    BY <1>3, <2>1, <2>3 DEF RestInv, Polling
  <2>5. QED
    BY <2>2, <2>4
<1>5. CASE p_state \notin {"Done", "DoneAck"}
  <2>1. TIP'
    BY <1>1, <1>2, <1>5 DEF HandoverInv
  <2>2. RestInv'
    BY <1>3, <2>1 DEF RestInv, Polling
  <2>3. Located'
    <3>1. CASE p_state = "Idle"
      <4>1. \/ p_state' = "Start_A" /\ AtStart'
            \/ p_state' = "Wr_A" /\ AtWrite'
            \/ p_state' = "Rd_A" /\ AtRead'
        BY <1>1, <3>1, IdleWork
      <4>2. QED
        BY <4>1 DEF Located, Writing, RdAcks, Readings, AckOut
    <3>2. CASE p_state \in Starting
      <4>1. \/ p_state' \in {"Start_A", "Start_B"} /\ AtStart'
            \/ p_state' = "Start_C" /\ AtStartC'
            \/ p_state' = "Start_D" /\ AtStartD'
            \/ p_state' = "Wr_A" /\ AtWrite'
        BY <1>1, <3>2, StartWork
      <4>2. QED
        BY <4>1 DEF Located, Writing, RdAcks, Readings, AckOut
    <3>3. CASE p_state \in Writing
      <4>1. \/ p_state' \in Writing /\ AtWrite'
            \/ p_state' = "RdAck_A" /\ AtRdAck'
        BY <1>1, <3>3, WriteWork DEF Located
      <4>2. QED
        BY <4>1 DEF Located, Writing, RdAcks, Readings, AckOut
    <3>4. CASE p_state \in RdAcks
      <4>1. \/ p_state' \in RdAcks /\ AtRdAck'
            \/ p_state' = "Stop_A" /\ Quiet'
            \/ p_state' = "Done" /\ Over'
        BY <1>1, <3>4, RdAckWork DEF Located
      <4>2. QED
        BY <4>1 DEF Located, Writing, RdAcks, Readings, AckOut
    <3>5. CASE p_state \in Readings
      <4>1. \/ p_state' \in Readings /\ AtRead'
            \/ p_state' = "WrAck_A" /\ AtWrAck'
        BY <1>1, <3>5, ReadWork DEF Located
      <4>2. QED
        BY <4>1 DEF Located, Writing, RdAcks, Readings, AckOut
    <3>6. CASE p_state \in AckOut
      <4>1. \/ p_state' \in AckOut /\ AtWrAck'
            \/ p_state' = "Stop_A" /\ Quiet'
            \/ p_state' = "Done" /\ Over'
        BY <1>1, <3>6, WrAckWork DEF Located
      <4>2. QED
        BY <4>1 DEF Located, Writing, RdAcks, Readings, AckOut
    <3>7. CASE p_state \in Stopping
      <4>1. \/ p_state' \in {"Stop_A", "Stop_B"} /\ Quiet'
            \/ p_state' = "Stop_C" /\ AtStopC'
            \/ p_state' = "Done" /\ Over'
        BY <1>1, <3>7, StopWork
      <4>2. QED
        BY <4>1 DEF Located, Writing, RdAcks, Readings, AckOut
    <3>8. p_state # "Reset"
      BY <1>1 DEF HandoverInv
    <3>9. QED
      BY <1>1, <1>5, <3>1, <3>2, <3>3, <3>4, <3>5, <3>6, <3>7, <3>8
         DEF RegisterInv, States, Unclocked, Starting, Writing, RdAcks, Readings, AckOut, Stopping
  <2>4. QED
    BY <2>2, <2>3 DEF WorkInv
<1>6. QED
  BY <1>4, <1>5

\* What the next command finds, when one has not failed.
LEMMA NextReady ==
  ASSUME BytesGiven, ReadsGiven, Based, Over, ~Failed
  PROVE  /\ step = Len(Commands) => Quiet
         /\ step # Len(Commands) => ReadyFor(step + 1)
<1>1. /\ Command.ctl.stp \in Bit
      /\ step # Len(Commands) => Command.ctl.stp = 0
  BY Here DEF Place
<1>2. Command.ctl.stp = 1 => Quiet
  BY DEF Over, Off, Quiet
<1>3. Command.ctl.stp = 0 => Rested
  BY DEF Over
<1>4. QED
  BY <1>1, <1>2, <1>3 DEF Rested, Bit

\* A device that waits for a byte, or for a condition, is quiet.
LEMMA ReadyQuiet ==
  ASSUME BytesGiven, ReadsGiven, Based, ReadyFor(step), call.dir = "write"
  PROVE  Quiet
<1>1. Commands = List(call) /\ Kind(call, step)
  BY Here
<1>2. Commands[step].ctl.wr = 1 /\ Commands[step].ctl.sta \in Bit
  BY <1>1 DEF Kind, Writes, Bit, One
<1>3. QED
  BY <1>2 DEF ReadyFor, Listens, Quiet, Bit

LEMMA RestStep ==
  ASSUME BytesGiven, ReadsGiven, ReadsGoOn, Based, EdgeInv, RestInv, ~TIP,
         NEW access, Clocked(access), Move(access), DriverInv'
  PROVE  WorkInv' /\ RestInv'
<1>1. /\ Device /\ i2c_core /\ data_in_sync(access) /\ HandoverInv /\ RegisterInv
      /\ CommandInv /\ CopyInv
  BY DEF Clocked, Based
<1>2. /\ p_state \in {"Reset", "Idle", "DoneAck"}
      /\ UNCHANGED <<i_ack_out, i_dout>>
      /\ TIP' => pc = "Control" /\ pc' = "Poll" /\ p_state' = "Idle"
  BY <1>1, Free
<1>3. dev' = dev /\ dev_sda' = dev_sda /\ memory' = memory
  BY <1>1, <1>2, Nothing DEF Latched
<1>4. call' = call => Commands' = Commands
  BY DEF Commands
<1>5. call' = call /\ step' = step => Command' = Command
  BY <1>4 DEF Command
<1>6. /\ Quiet => Quiet'
      /\ call' = call /\ step' = step => /\ Over => Over'
                                         /\ ReadyFor(step) => ReadyFor(step)'
                                         /\ Failed <=> Failed'
  BY <1>2, <1>3, <1>4, <1>5
     DEF Over, Rested, Failed, Off, Quiet, ReadyFor, Knows, Listens, Speaks
<1>7. pc = "Control" /\ access = WriteControl(Command.ctl) => TIP'
  <2> SUFFICES ASSUME pc = "Control", access = WriteControl(Command.ctl) PROVE TIP'
    OBVIOUS
  <2>1. write_reg' = Command.ctl.wr /\ read_reg' = Command.ctl.rd
    BY <1>1, Accesses, Interface
  <2>2. Command.ctl.wr = 1 \/ Command.ctl.rd = 1
    BY Here DEF Kind, Writes, Reads
  <2>3. QED
    BY <2>1, <2>2 DEF TIP
<1>8. CASE /\ UNCHANGED <<call, step>>
           /\ \/ pc' = pc
              \/ pc = "Wait" /\ pc' \in {"Data", "Control"}
              \/ pc = "Poll" /\ pc' \in {"Check", "Fetch"}
              \/ pc = "Check" /\ ack_out = 1 /\ pc' = "Abort"
              \/ pc = "Data" /\ pc' = "Control"
  <2>1. ~TIP'
    BY <1>2, <1>8
  <2>2. pc' = "Abort" => Failed'
    <3>1. CASE pc = "Abort"
      BY <1>6, <1>8, <3>1 DEF RestInv
    <3>2. CASE pc = "Check" /\ ack_out = 1
      <4>1. Failed
        BY <1>1, <1>2, <3>2 DEF Failed, CommandInv, CopyInv
      <4>2. QED
        BY <1>6, <1>8, <4>1
    <3>3. QED
      BY <1>8, <3>1, <3>2
  <2>3. RestInv'
    BY <1>6, <1>8, <2>2 DEF RestInv
  <2>4. QED
    BY <2>1, <2>3 DEF WorkInv
<1>9. CASE pc # "Idle" /\ pc' = "Idle" /\ call.dir \in CpuRestarts /\ UNCHANGED <<call, step>>
  <2>1. call.dir = "write"
    BY <1>9, I2cConstants DEF ReadsGoOn
  <2>2. ReadyFor(step) \/ Over
    BY <1>1, <1>9 DEF RestInv, Based, DriverInv
  <2>3. Quiet
    BY <2>1, <2>2, OverQuiet, ReadyQuiet
  <2>4. ~TIP'
    BY <1>2, <1>9
  <2>5. QED
    BY <1>6, <1>9, <2>3, <2>4 DEF WorkInv, RestInv
<1>10. CASE /\ call' = call
            /\ (pc = "Check" /\ ack_out # 1) \/ pc = "Fetch"
            /\ \/ step = Len(Commands) /\ pc' = "Idle" /\ step' = step
               \/ step # Len(Commands) /\ pc' = "Wait" /\ step' = step + 1
  <2>1. ~Failed
    <3>1. pc = "Check" => ack_out = i_ack_out
      BY <1>1, <1>2 DEF CopyInv
    <3>2. pc = "Fetch" => Command.ctl.wr # 1
      <4>1. Command.ctl.rd = 1 => Command.ctl.wr = 0
        BY ReadHere
      <4>2. QED
        BY <1>1, <4>1 DEF CommandInv
    <3>3. QED
      BY <1>10, <3>1, <3>2 DEF Failed
  <2>2. Over
    BY <1>10 DEF RestInv
  <2>3. ~TIP'
    BY <1>2, <1>10
  <2>4. CASE step = Len(Commands)
    <3>1. Quiet' /\ pc' = "Idle"
      BY <1>6, <1>10, <2>1, <2>2, <2>4, NextReady
    <3>2. QED
      BY <2>3, <3>1 DEF WorkInv, RestInv
  <2>5. CASE step # Len(Commands)
    <3>1. ReadyFor(step + 1) /\ step' = step + 1 /\ pc' = "Wait"
      BY <1>10, <2>1, <2>2, <2>5, NextReady
    <3>2. PICK k : k = step + 1
      OBVIOUS
    <3>3. ReadyFor(k)'
      BY <1>3, <1>4, <1>10, <3>1, <3>2 DEF ReadyFor, Knows, Listens, Speaks, Quiet
    <3>4. ReadyFor(step)'
      BY <3>1, <3>2, <3>3 DEF ReadyFor, Knows, Listens, Speaks
    <3>5. QED
      BY <2>3, <3>1, <3>4 DEF WorkInv, RestInv
  <2>6. QED
    BY <2>4, <2>5
<1>11. CASE pc = "Idle" /\ pc' = "Data" /\ step' = 1
  <2>1. Quiet'
    BY <1>6, <1>11 DEF RestInv
  <2>2. WellFormed(Commands)'
    <3>1. (BytesGiven /\ call \in T!Calls => WellFormed(Commands))'
      BY CommandList, PTL
    <3>2. QED
      BY <3>1 DEF DriverInv, BytesGiven
  <2>3. Commands'[1].ctl.sta = 1 /\ Commands'[1].ctl.rd = 0
    <3>1. Commands'[1].ctl.sta = 1 /\ Commands'[1].ctl.wr = 1 /\ 1 \in 1..Len(Commands')
      BY <2>2 DEF WellFormed
    <3>2. QED
      BY <2>2, <3>1 DEF WellFormed
  <2>4. ReadyFor(1)'
    BY <2>1, <2>3 DEF ReadyFor, Knows
  <2>5. ReadyFor(step)'
    BY <1>11, <2>4 DEF ReadyFor, Knows, Listens, Speaks
  <2>6. ~TIP'
    BY <1>2, <1>11
  <2>7. QED
    BY <1>11, <2>5, <2>6 DEF WorkInv, RestInv
<1>12. CASE access = WriteControl(Command.ctl) /\ pc = "Control" /\ pc' = "Poll" /\ UNCHANGED <<call, step>>
  <2>1. TIP' /\ p_state' = "Idle"
    BY <1>2, <1>7, <1>12
  <2>2. ReadyFor(step)'
    BY <1>6, <1>12 DEF RestInv
  <2>3. Located'
    BY <2>1, <2>2 DEF Located, Writing, RdAcks, Readings, AckOut
  <2>4. QED
    BY <1>12, <2>1, <2>3 DEF WorkInv, RestInv
<1>13. CASE pc = "Abort" /\ pc' = "Idle" /\ UNCHANGED <<call, step>>
  <2>1. Failed /\ Over
    BY <1>13 DEF RestInv
  <2>2. Quiet'
    BY <1>6, <2>1, OverQuiet
  <2>3. ~TIP'
    BY <1>2, <1>13
  <2>4. QED
    BY <1>13, <2>2, <2>3 DEF WorkInv, RestInv
<1>14. QED
  BY <1>8, <1>9, <1>10, <1>11, <1>12, <1>13 DEF Move

LEMMA EdgeStep ==
  ASSUME BytesGiven, ReadsGiven, Based, EdgeInv, WorkInv, NEW access, Clocked(access),
         Move(access)
  PROVE  EdgeInv'
<1>1. Device /\ i2c_core /\ RegisterInv /\ HandoverInv /\ WireInv /\ PhaseInv /\ DeviceInv
  BY DEF Clocked, Based
<1>2. /\ p_state' = IF sclk = 1 \/ p_state \in Unclocked THEN n_state ELSE p_state
      /\ scl_out' = i_scl_out /\ sda_out' = i_sda_out /\ sda_was' = Sda
      /\ p_state \in States /\ dev_sda \in Bit /\ sda_out \in Bit
  BY <1>1 DEF i2c_core, Device, RegisterInv, DeviceInv
<1>3. /\ p_state' \in Latched => p_state \in Latched \cup {"Stop_C"} \cup Falling
      /\ p_state' = "Start_B" => p_state \in {"Start_A", "Start_B"}
      /\ p_state' = "Start_C" => p_state \in {"Start_B", "Start_C"}
      /\ p_state' = "Start_D" => (p_state = "Start_C" /\ sclk = 1) \/ p_state = "Start_D"
      /\ p_state' = "Stop_B" => p_state \in {"Stop_A", "Stop_B"}
      /\ p_state' = "Stop_C" => p_state \in {"Stop_B", "Stop_C"}
      /\ p_state' = "Done" /\ p_state = "Stop_C" => sclk = 1
  BY <1>2, Successors
     DEF States, Unclocked, Writing, AckOut, Latched, Falling, Transfer
<1>4. p_state \in Starting \cup Stopping => Located
  BY <1>1 DEF WorkInv, HandoverInv, Starting, Stopping
<1>5. ASSUME p_state' \in Latched, scl_out' = 1
      PROVE  sda_out' = 1 /\ sda_was' = 1 /\ dev_sda' = 1
  <2>1. CASE p_state \in Latched
    <3>1. scl_out = 1 /\ scl_in = 1
      BY <1>1, <1>2, <1>5, <2>1, Outputs DEF WireInv
    <3>2. Sda = 1 /\ dev_sda' = 1 /\ sda_was = 1
      BY <1>1, <2>1, <3>1, Nothing DEF EdgeInv
    <3>3. sda_in = 1
      BY <1>1, <3>2 DEF WireInv
    <3>4. i_sda_out = 1
      BY <2>1, <3>3 DEF i_sda_out, Latched, Writing, AckOut
    <3>5. QED
      BY <1>2, <3>2, <3>4
  <2>2. CASE p_state = "Stop_C"
    <3>1. p_state' = "Done"
      BY <1>2, <1>5, <2>2, Successors DEF Latched, Unclocked
    <3>2. Off' /\ Sda = 1
      BY <1>4, <2>2, <3>1, StopWork DEF Stopping
    <3>3. i_sda_out = 1
      BY <2>2, Levels
    <3>4. QED
      BY <1>2, <3>2, <3>3 DEF Off
  <2>3. CASE p_state \in Falling
    BY <1>2, <1>5, <2>3, Outputs
  <2>4. QED
    BY <1>3, <1>5, <2>1, <2>2, <2>3
<1>6. p_state = "Start_B" => Sda = 1
  <2> SUFFICES ASSUME p_state = "Start_B" PROVE Sda = 1
    OBVIOUS
  <2>1. sda_out = 1
    BY <1>1, Levels DEF WireInv, Rising
  <2>2. dev_sda = 1
    BY <1>4 DEF Located, AtStart, Quiet, Starting
  <2>3. QED
    BY <2>1, <2>2 DEF Sda
<1>7. p_state = "Start_A" /\ scl_out' = 1 => Sda = 1
  <2>1. p_state = "Start_A" /\ scl_out' = 1 => scl_out = 1
    BY <1>1, <1>2, Outputs DEF WireInv, Latched
  <2>2. QED
    BY <1>1, <2>1, Nothing DEF Latched
<1>8. p_state \in {"Start_D", "Stop_B"} => Sda = 0
  <2>1. p_state \in {"Start_D", "Stop_B"} => sda_out = 0
    BY <1>1, Levels DEF WireInv, Rising, Falling
  <2>2. QED
    BY <2>1 DEF Sda
<1>9. p_state = "Start_C" /\ sclk = 1 => Sda = 0
  BY <1>1, <1>2 DEF PhaseInv, Bit, Sda
<1>10. p_state' = "Start_B" /\ scl_out' = 1 => sda_was' = 1
  BY <1>2, <1>3, <1>6, <1>7
<1>11. p_state' = "Start_C" => sda_was' = 1 \/ sda_out' = 0
  BY <1>2, <1>3, <1>6, Levels
<1>12. p_state' = "Start_D" => sda_was' = 0
  BY <1>2, <1>3, <1>8, <1>9
<1>13. p_state' = "Stop_B" /\ scl_out' = 1 => sda_was' = 0
  <2>1. p_state = "Stop_A" => scl_out' = 0
    BY <1>2, Outputs DEF Low
  <2>2. QED
    BY <1>2, <1>3, <1>8, <2>1
<1>14. p_state' = "Stop_C" => sda_was' = 0 \/ sda_out' = 1
  BY <1>2, <1>3, <1>8, Levels
<1>15. QED
  BY <1>5, <1>10, <1>11, <1>12, <1>13, <1>14 DEF EdgeInv

StageInv == PhaseInv /\ CopyInv /\ CommandInv

LEMMA StageInvHolds ==
  ASSUME BytesGiven, DivisorGiven, ReadsGoOn
  PROVE  I2cSpec => []StageInv
<1>1. I2cInit => StageInv
  BY DEF I2cInit, StageInv, PhaseInv, CopyInv, CommandInv, TIP, Starting, Rising, High, Falling
<1>2. I2cInv /\ LineInv /\ StageInv /\ [I2cNext]_i2cVars => StageInv'
  <2> SUFFICES ASSUME I2cInv, LineInv, StageInv, [I2cNext]_i2cVars
               PROVE  StageInv'
    OBVIOUS
  <2>1. CASE I2cNext
    <3>1. PICK access : Clocked(access) /\ Software(access)
      BY <2>1, Edge
    <3>2. i2c_core
      BY <3>1 DEF Clocked
    <3>3. QED
      BY <3>1, <3>2, PhaseStep, CopyStep, CommandStep DEF I2cInv, LineInv, StageInv
  <2>2. CASE UNCHANGED i2cVars
    <3>1. PhaseInv' /\ CopyInv'
      BY <2>2 DEF StageInv, PhaseInv, CopyInv, i2cVars, coreVars, ifVars, clkVars, devVars
    <3>2. CommandInv'
      BY <2>2 DEF StageInv, CommandInv, Command, Commands, TIP, i2cVars, coreVars, ifVars,
                  driverVars
    <3>3. QED
      BY <3>1, <3>2 DEF StageInv
  <2>3. QED
    BY <2>1, <2>2
<1>3. QED
  BY <1>1, <1>2, I2cInvHolds, LineInvHolds, PTL DEF I2cSpec

LEMMA BasedHolds ==
  ASSUME BytesGiven, DivisorGiven, ReadsGoOn
  PROVE  I2cSpec => []Based
<1>1. I2cInv /\ LineInv /\ DeviceInv /\ StageInv => Based
  BY DEF I2cInv, LineInv, StageInv, Based
<1>2. QED
  BY <1>1, I2cInvHolds, LineInvHolds, DeviceInvHolds, StageInvHolds, PTL

\* The device is where the controller and the driver take it to be.
PlaceInv == WorkInv /\ RestInv /\ EdgeInv

LEMMA PlaceUnchanged ==
  ASSUME UNCHANGED i2cVars, PlaceInv
  PROVE  PlaceInv'
<1>1. /\ Commands' = Commands /\ Command' = Command /\ (TIP' <=> TIP) /\ Pulse' = Pulse
      /\ TheByte' = TheByte
      /\ UNCHANGED <<call, step, dev, dev_sda, memory, i_data_in, ack_reg, i_ack_out, p_state,
                     pc, sda_was, i_ctr, scl_out, sda_out>>
  BY DEF Commands, Command, TIP, Pulse, TheByte, i2cVars, coreVars, ifVars, driverVars, devVars
<1>2. /\ Off' <=> Off
      /\ Quiet' <=> Quiet
      /\ Answers' <=> Answers
      /\ Asks' <=> Asks
      /\ Told' <=> Told
      /\ Failed' <=> Failed
      /\ \A s : /\ Knows(s)' <=> Knows(s)
                /\ Listens(s)' <=> Listens(s)
                /\ Speaks(s)' <=> Speaks(s)
      /\ \A n : Receives(n)' <=> Receives(n)
      /\ \A n, m : Sends(n, m)' <=> Sends(n, m)
  BY <1>1 DEF Off, Quiet, Answers, Asks, Told, Failed, Knows, Listens, Speaks, Receives, Sends
<1>3. /\ ReadyFor(step)' <=> ReadyFor(step)
      /\ Rested' <=> Rested
  BY <1>1, <1>2 DEF ReadyFor, Rested, Knows, Listens, Speaks
<1>4. /\ Over' <=> Over
      /\ AtStart' <=> AtStart
      /\ AtStartC' <=> AtStartC
      /\ AtStartD' <=> AtStartD
      /\ AtRdAck' <=> AtRdAck
      /\ AtWrAck' <=> AtWrAck
      /\ AtStopC' <=> AtStopC
  BY <1>1, <1>2, <1>3
     DEF Over, AtStart, AtStartC, AtStartD, AtRdAck, AtWrAck, AtStopC, Knows, Listens
<1>5. AtWrite' <=> AtWrite
  BY <1>1, <1>2 DEF AtWrite, Knows, Receives
<1>6. AtRead' <=> AtRead
  BY <1>1, <1>2 DEF AtRead, Knows, Sends
<1>7. Located' <=> Located
  BY <1>1, <1>2, <1>3, <1>4, <1>5, <1>6 DEF Located, ReadyFor, Knows, Listens, Speaks
<1>8. WorkInv'
  BY <1>1, <1>7 DEF PlaceInv, WorkInv
<1>9. RestInv'
  BY <1>1, <1>2, <1>3, <1>4 DEF PlaceInv, RestInv
<1>10. EdgeInv'
  BY <1>1 DEF PlaceInv, EdgeInv
<1>11. QED
  BY <1>8, <1>9, <1>10 DEF PlaceInv

LEMMA PlaceInvHolds ==
  ASSUME BytesGiven, DivisorGiven, ReadsGiven, ReadsGoOn
  PROVE  I2cSpec => []PlaceInv
<1>1. I2cInit => PlaceInv
  <2> SUFFICES ASSUME I2cInit PROVE PlaceInv
    OBVIOUS
  <2>1. ~TIP /\ pc = "Idle" /\ p_state = "Reset" /\ sda_out = 1 /\ sda_was = 1 /\ dev_sda = 1
    BY DEF I2cInit, TIP
  <2>2. dev.mode = "off"
    BY DEF I2cInit
  <2>3. QED
    BY <2>1, <2>2 DEF PlaceInv, WorkInv, RestInv, EdgeInv, Quiet
<1>2. Based /\ PlaceInv /\ Based' /\ [I2cNext]_i2cVars => PlaceInv'
  <2> SUFFICES ASSUME Based, PlaceInv, Based', [I2cNext]_i2cVars
               PROVE  PlaceInv'
    OBVIOUS
  <2>1. CASE I2cNext
    <3>1. PICK access : Clocked(access) /\ Software(access)
      BY <2>1, Edge
    <3>2. Move(access) /\ DriverInv'
      BY <3>1, DriverMoves DEF Based
    <3>3. EdgeInv'
      BY <3>1, <3>2, EdgeStep DEF PlaceInv
    <3>4. WorkInv' /\ RestInv'
      <4>1. CASE TIP
        BY <3>1, <3>2, <4>1, WorkStep DEF PlaceInv
      <4>2. CASE ~TIP
        BY <3>1, <3>2, <4>2, RestStep DEF PlaceInv
      <4>3. QED
        BY <4>1, <4>2
    <3>5. QED
      BY <3>3, <3>4 DEF PlaceInv
  <2>2. CASE UNCHANGED i2cVars
    BY <2>2, PlaceUnchanged
  <2>3. QED
    BY <2>1, <2>2
<1>3. QED
  BY <1>1, <1>2, BasedHolds, PTL DEF I2cSpec

-----------------------------------------------------------------------------
(* What crossed the wires, and what came back.                             *)

\* What the device may see of an item.
Sights == {T!START, T!STOP} \cup [kind : {"sent", "got"}, byte : Byte, ack : BOOLEAN]

\* Between two commands, and after one.
Waits == ~TIP /\ pc \in {"Wait", "Data", "Control"}
Ended == ~TIP /\ pc \in {"Poll", "Check", "Fetch", "Abort"}

\* The place in the script of the byte of the command under way.
ByteAt == Before(call, step) + Command.ctl.sta + 1

\* The items of the command that have crossed.
Crossed(n) ==
  /\ p_state \in {"Idle", "Start_A", "Start_B"} => n = 0
  /\ p_state = "Start_C" => n = 1 - sda_was
  /\ p_state = "Start_D" => n = 1
  /\ p_state \in Writing \cup Readings => n = Command.ctl.sta
  /\ p_state \in RdAcks \cup AckOut =>
       n = IF Pulse = "before" THEN Command.ctl.sta ELSE Command.ctl.sta + 1
  /\ p_state \in {"Stop_A", "Stop_B"} => n = Command.ctl.sta + 1
  /\ p_state = "Stop_C" => n = Command.ctl.sta + 1 + sda_was
  /\ p_state \in {"Done", "DoneAck"} => n = Command.ctl.sta + 1 + Command.ctl.stp

CountInv ==
  /\ TIP => Crossed(Len(wire) - Before(call, step))
  /\ Waits => Len(wire) = Before(call, step)
  /\ Ended => Len(wire) = ByteAt + Command.ctl.stp
  /\ ~TIP /\ pc = "Idle" => Len(wire) <= Len(T!Script(call))

\* Each item is the one of the script.
Fits(seen, item) ==
  /\ seen.kind = item.kind
  /\ item.kind = "got" => seen.byte = memory[call.index][item.nth]
  /\ item.kind = "start" => seen = T!START

ScriptInv ==
  /\ wire \in Seq(Sights)
  /\ \A i \in 1..Len(wire) : Fits(wire[i], T!Script(call)[i])

\* A byte that was refused is that of the command under way, and the
\* controller knows of it.
Noted ==
  \/ TIP /\ p_state \in RdAcks /\ Pulse = "after"
  \/ TIP /\ p_state \in Stopping \cup {"Done", "DoneAck"}
  \/ Ended

RefusalInv ==
  /\ TIP \/ pc # "Idle" => \A i \in 1..Len(wire) : T!IsRefused(wire, i) => i = ByteAt
  /\ p_state \in RdAcks /\ Pulse = "high" =>
       (T!IsRefused(wire, ByteAt) <=> dev.mode = "refuse")
  /\ Noted /\ Command.ctl.wr = 1 => (T!IsRefused(wire, ByteAt) <=> i_ack_out = 1)

\* What the controller has taken of the byte of a read.
TakenInv ==
  /\ p_state \in Readings => \A j \in 1..i_ctr : i_dout[j] = TheByte[j]
  /\ p_state \in {"Rd_D", "Rd_E", "Rd_F"} => i_dout[i_ctr + 1] = TheByte[i_ctr + 1]
  /\ Command.ctl.rd = 1 /\ (p_state \in AckOut \/ Noted) => i_dout = TheByte

\* The register holds what was written and acknowledged, the driver has what
\* was read, and the bus is free after a stop condition.
StoreInv ==
  /\ memory \in [Indexes -> Words]
  /\ call.dir = "write" /\ call.size = 2 /\ Len(wire) >= 5 /\ wire[5].ack =>
       memory[call.index] = call.word

ValueInv ==
  /\ outcome = "pending" =>
       /\ value \in Seq(Byte)
       /\ Len(value) = IF call.dir = "read" /\ step >= 4 THEN step - 4 ELSE 0
       /\ \A i \in 1..Len(value) : value[i] = memory[call.index][i]
  /\ T!SuccessIsDone

FreeInv ==
  /\ TIP /\ p_state \in {"Done", "DoneAck"} /\ Command.ctl.stp = 1 => scl_out = 1
  /\ Ended /\ Command.ctl.stp = 1 => scl_out = 1
  /\ outcome = "SUCCESS" /\ call.size > 0 => scl_out = 1 /\ Off

\* What an edge adds to the history, and the driver's step that goes with it.
LEMMA Written ==
  ASSUME I2cNext
  PROVE  \E access : /\ Clocked(access) /\ Move(access)
                     /\ wire' = IF pc = "Idle" /\ pc' = "Data" THEN Observed
                                ELSE wire \o Observed
<1>1. CASE Proceed
  <2>1. CASE (Wait \/ Poll \/ Check \/ Fetch) /\ Clocked(NoAccess)
    <3>1. Software(NoAccess)
      BY <2>1 DEF Software
    <3>2. pc # "Idle"
      BY <2>1 DEF Wait, Poll, Check, Fetch
    <3>3. QED
      BY <1>1, <2>1, <3>1, <3>2, DriverMoves DEF Proceed
  <2>2. CASE Write /\ Clocked(Access)
    <3>1. Software(Access)
      BY <2>2 DEF Software
    <3>2. pc # "Idle"
      BY <2>2 DEF Write
    <3>3. QED
      BY <1>1, <2>2, <3>1, <3>2, DriverMoves DEF Proceed
  <2>3. QED
    BY <1>1, <2>1, <2>2 DEF Proceed
<1>2. CASE Invoke
  <2>1. Software(NoAccess)
    BY <1>2 DEF Invoke, Software
  <2>2. QED
    BY <1>2, <2>1, DriverMoves DEF Invoke, BeginCall
<1>3. CASE Tick
  <2>1. Software(NoAccess) /\ pc' = pc
    BY <1>3 DEF Tick, Software, driverVars
  <2>2. QED
    BY <1>3, <2>1, DriverMoves DEF Tick
<1>4. CASE Restart
  <2>1. Software(NoAccess) /\ pc # "Idle"
    BY <1>4 DEF Restart, Software, CpuRestart
  <2>2. QED
    BY <1>4, <2>1, DriverMoves DEF Restart
<1>5. QED
  BY <1>1, <1>2, <1>3, <1>4 DEF I2cNext

\* Nothing crosses while the bits of a byte are on the wires ...
LEMMA BitSight ==
  ASSUME BytesGiven, ReadsGiven, Based, Located, NEW access, Clocked(access),
         p_state \in Writing \cup Readings
  PROVE  Observed = <<>> /\ memory' = memory
<1>1. Device /\ DeviceInv
  BY DEF Clocked, Based
<1>2. Pulses /\ ~Starts /\ ~Stops
  BY PulseStep DEF Based, BitStates
<1>3. i_ctr # Bits
  BY I2cConstants DEF Based, RegisterInv
<1>4. CASE ~Rises /\ ~Falls
  BY <1>1, <1>2, <1>4, SeesNothing
<1>5. CASE Rises
  <2>1. Pulse = "before"
    BY <1>2, <1>5 DEF Pulses
  <2>2. dev.mode \in {"recv", "send"} /\ Len(dev.bits) = i_ctr
    BY <2>1 DEF Located, AtWrite, AtRead, Receives, Sends
  <2>3. QED
    BY <1>1, <1>3, <1>5, <2>2, SeesRise
<1>6. CASE Falls
  BY <1>1, <1>6, SeesFall
<1>7. QED
  BY <1>4, <1>5, <1>6

\* ... but the byte does when the clock rises for its acknowledge bit.
LEMMA PairOf ==
  ASSUME NEW S, NEW w \in [1..2 -> S]
  PROVE  <<w[1], w[2]>> = w
<1>1. w = [i \in 1..2 |-> w[i]]
  OBVIOUS
<1>2. <<w[1], w[2]>> = [i \in 1..2 |-> w[i]]
  OBVIOUS
<1>3. QED
  BY <1>1, <1>2

LEMMA SentSight ==
  ASSUME BytesGiven, ReadsGiven, Based, AtRdAck, NEW access, Clocked(access), Move(access),
         p_state \in RdAcks
  PROVE  /\ Command.ctl.wr = 1 /\ Command.byte \in Byte
         /\ \/ /\ Observed = <<>> /\ memory' = memory
               /\ Pulse = "before" => Pulse' = "before" /\ p_state' \in RdAcks
            \/ /\ Pulse = "before" /\ Pulse' = "high" /\ p_state' \in RdAcks /\ dev' = dev
               /\ Observed = <<[kind |-> "sent", byte |-> Command.byte,
                                ack |-> dev.mode = "accept"]>>
               /\ memory' = IF dev.mode = "accept" /\ call.dir = "write" /\ step = 4
                            THEN [memory EXCEPT ![call.index] = call.word] ELSE memory
<1>1. Command.ctl.wr = 1 /\ i_data_in = Command.byte
  <2>1. write_reg = 1
    BY DEF Based, HandoverInv
  <2>2. QED
    BY <2>1, Working DEF RdAcks
<1>2. Command.byte \in Byte
  BY <1>1 DEF Based, RegisterInv
<1>3. Device /\ DeviceInv /\ dev_sda \in Bit
  BY DEF Clocked, Based, DeviceInv
<1>4. Pulses /\ ~Starts /\ ~Stops
  BY PulseStep DEF Based, BitStates
<1>5. Stays => p_state' \in RdAcks
  BY DEF Stays, Writing, RdAcks, Readings, AckOut
<1>6. Pulse = "before" => (Pulse' = "before" /\ ~Rises /\ ~Falls /\ p_state' \in RdAcks) \/ Rises
  BY <1>4, <1>5 DEF Pulses
<1>7. CASE ~Rises /\ ~Falls
  BY <1>1, <1>2, <1>3, <1>4, <1>6, <1>7, SeesNothing
<1>8. CASE Falls /\ ~Rises
  BY <1>1, <1>2, <1>3, <1>6, <1>8, SeesFall
<1>9. CASE Rises
  <2>1. Pulse = "before" /\ Pulse' = "high" /\ p_state' \in RdAcks /\ sda_out = i_sda_out
    BY <1>4, <1>5, <1>9 DEF Pulses
  <2>2. Answers /\ Knows(step)
    BY <2>1 DEF AtRdAck
  <2>3. (Sda = 0) <=> (dev.mode = "accept")
    <3>1. sda_out = 1
      BY <2>1, Levels
    <3>2. QED
      BY <2>2, <3>1 DEF Sda, Answers
  <2>4. /\ dev' = dev
        /\ Observed = <<[kind |-> "sent", byte |-> Command.byte, ack |-> dev.mode = "accept"]>>
    <3>1. /\ dev' = dev
          /\ Observed = <<[kind |-> "sent", byte |-> dev.bits, ack |-> Sda = 0]>>
      BY <1>3, <1>9, <2>2, SeesRise DEF Answers
    <3>2. (Sda = 0) = (dev.mode = "accept")
      BY <2>3
    <3>3. dev.bits = Command.byte
      BY <1>1, <2>2 DEF Answers
    <3>4. QED
      BY <3>1, <3>2, <3>3
  <2>5. memory' = IF dev.mode = "accept" /\ dev.nth = 4
                  THEN [memory EXCEPT ![dev.index] = <<dev.first, dev.bits>>] ELSE memory
    BY <1>3, <1>9, <2>2, SeesRise DEF Answers
  <2>6. Command = List(call)[step] /\ Kind(call, step)
    BY Here
  <2>7. dev.nth = 4 <=> call.dir = "write" /\ step = 4
    <3>1. dev.nth = Nth(call, step)
      BY <2>2 DEF Answers
    <3>2. step \in 1..5 /\ (call.dir = "read" => step \in 1..3)
      BY <1>1, <2>6 DEF Kind, Reads
    <3>3. call.dir \in {"read", "write"}
      BY <2>6 DEF Kind
    <3>4. QED
      BY <3>1, <3>2, <3>3 DEF Nth
  <2>8. call.dir = "write" /\ step = 4 =>
          dev.index = call.index /\ <<dev.first, dev.bits>> = call.word
    <3> SUFFICES ASSUME call.dir = "write", step = 4
                 PROVE  dev.index = call.index /\ <<dev.first, dev.bits>> = call.word
      OBVIOUS
    <3>1. dev.index = call.index /\ dev.first = call.word[1]
      BY <2>2 DEF Knows
    <3>2. Command.byte = call.word[2] /\ call.word \in [1..2 -> Byte]
      BY <2>6 DEF Kind, Writes
    <3>3. dev.bits = call.word[2]
      BY <1>1, <2>2, <3>2 DEF Answers
    <3>4. <<call.word[1], call.word[2]>> = call.word
      BY <3>2, PairOf
    <3>5. QED
      BY <3>1, <3>3, <3>4
  <2>9. memory' = IF dev.mode = "accept" /\ call.dir = "write" /\ step = 4
                  THEN [memory EXCEPT ![call.index] = call.word] ELSE memory
    BY <2>5, <2>7, <2>8
  <2>10. QED
    BY <1>1, <1>2, <2>1, <2>4, <2>9
<1>10. QED
  BY <1>7, <1>8, <1>9

LEMMA GotSight ==
  ASSUME BytesGiven, ReadsGiven, Based, AtWrAck, NEW access, Clocked(access), Move(access),
         p_state \in AckOut
  PROVE  /\ Command.ctl.rd = 1 /\ memory' = memory
         /\ \/ /\ Observed = <<>>
               /\ Pulse = "before" => Pulse' = "before" /\ p_state' \in AckOut
            \/ /\ Pulse = "before" /\ Pulse' = "high" /\ p_state' \in AckOut
               /\ Observed = <<[kind |-> "got", byte |-> TheByte,
                                ack |-> Command.ctl.stp = 0]>>
<1>1. Command.ctl.rd = 1 /\ ack_reg = Command.ctl.ack
  <2>1. read_reg = 1
    BY DEF Based, HandoverInv
  <2>2. QED
    BY <2>1, Working DEF AckOut
<1>2. Command.ctl.ack = Command.ctl.stp
  BY <1>1, ReadHere
<1>3. Device /\ DeviceInv /\ ack_reg \in Bit
  BY DEF Clocked, Based, RegisterInv
<1>4. Pulses /\ ~Starts /\ ~Stops
  BY PulseStep DEF Based, BitStates
<1>5. Stays => p_state' \in AckOut
  BY DEF Stays, Writing, RdAcks, Readings, AckOut
<1>6. Pulse = "before" => (Pulse' = "before" /\ ~Rises /\ ~Falls /\ p_state' \in AckOut) \/ Rises
  BY <1>4, <1>5 DEF Pulses
<1>7. CASE ~Rises /\ ~Falls
  BY <1>1, <1>3, <1>4, <1>6, <1>7, SeesNothing
<1>8. CASE Falls /\ ~Rises
  BY <1>1, <1>3, <1>6, <1>8, SeesFall
<1>9. CASE Rises
  <2>1. Pulse = "before" /\ Pulse' = "high" /\ p_state' \in AckOut /\ sda_out = i_sda_out
    BY <1>4, <1>5, <1>9 DEF Pulses
  <2>2. Asks
    BY <2>1 DEF AtWrAck
  <2>3. Sda = Command.ctl.stp
    <3>1. sda_out = ack_reg
      BY <2>1, Levels
    <3>2. QED
      BY <1>1, <1>2, <1>3, <2>2, <3>1 DEF Sda, Bit, Asks
  <2>4. /\ memory' = memory
        /\ Observed = <<[kind |-> "got", byte |-> TheByte, ack |-> Command.ctl.stp = 0]>>
    BY <1>3, <1>9, <2>2, <2>3, SeesRise DEF Asks
  <2>5. QED
    BY <1>1, <2>1, <2>4
<1>10. QED
  BY <1>7, <1>8, <1>9

\* A start condition crosses in Start_C, a stop condition in Stop_C.
LEMMA StartSight ==
  ASSUME BytesGiven, ReadsGiven, Based, EdgeInv, Located, NEW access, Clocked(access),
         p_state \in Starting
  PROVE  /\ memory' = memory /\ (p_state = "Start_B" => sda_was' = 1)
         /\ \/ Observed = <<>> /\ (p_state = "Start_C" => sda_was' = sda_was)
            \/ p_state = "Start_C" /\ sda_was = 1 /\ sda_was' = 0 /\ Observed = <<T!START>>
<1>1. /\ Device /\ DeviceInv /\ sda_was' = Sda /\ scl_in = scl_was
      /\ sda_out \in Bit /\ sda_was \in Bit
  BY DEF Clocked, Based, Device, WireInv, RegisterInv
<1>2. CASE p_state = "Start_A"
  BY <1>1, <1>2, Nothing DEF Latched
<1>3. CASE p_state = "Start_B"
  <2>1. Quiet
    BY <1>3 DEF Located, AtStart
  <2>2. scl_out = 1 \/ scl_was = 0
    BY <1>1, <1>3 DEF Based, WireInv, Rising
  <2>3. Sda = 1
    <3>1. sda_out = 1
      BY <1>3, Levels DEF Based, WireInv, Rising
    <3>2. QED
      BY <2>1, <3>1 DEF Sda, Quiet
  <2>4. scl_out = 1 => sda_was = 1
    BY <1>3 DEF EdgeInv
  <2>5. Rises \/ (~Starts /\ ~Stops /\ ~Rises /\ ~Falls)
    BY <2>2, <2>3, <2>4 DEF Rises, Starts, Stops, Falls, Scl
  <2>6. QED
    BY <1>1, <1>3, <2>1, <2>3, <2>5, QuietRise
<1>4. CASE p_state = "Start_C"
  <2>1. scl_out = 1 /\ scl_was = 1
    BY <1>4 DEF Based, WireInv, PhaseInv, High
  <2>2. ~Rises /\ ~Falls
    BY <2>1 DEF Rises, Falls, Scl
  <2>3. CASE sda_was = 1 /\ sda_out = 0
    <3>1. Starts /\ Sda = 0
      BY <2>1, <2>3 DEF Starts, Sda, Scl
    <3>2. QED
      BY <1>1, <1>4, <2>3, <3>1, SeesStart
  <2>4. CASE ~(sda_was = 1 /\ sda_out = 0)
    <3>1. Sda = sda_was
      <4>1. CASE sda_was = 0
        BY <1>4, <4>1 DEF EdgeInv, Sda
      <4>2. CASE sda_was = 1
        BY <1>1, <1>4, <2>4, <4>2 DEF Located, AtStartC, Quiet, Sda, Bit
      <4>3. QED
        BY <1>1, <4>1, <4>2 DEF Bit
    <3>2. ~Starts /\ ~Stops
      BY <3>1 DEF Starts, Stops
    <3>3. QED
      BY <1>1, <1>4, <2>2, <3>1, <3>2, SeesNothing
  <2>5. QED
    BY <2>3, <2>4
<1>5. CASE p_state = "Start_D"
  <2>1. sda_was = 0 /\ Sda = 0 /\ (scl_was = 1 \/ scl_out = 0)
    <3>1. sda_out = 0
      BY <1>5, Levels DEF Based, WireInv, Falling
    <3>2. QED
      BY <1>5, <3>1 DEF EdgeInv, Sda, Based, PhaseInv, Falling
  <2>2. ~Rises /\ ~Starts /\ ~Stops
    BY <2>1 DEF Rises, Starts, Stops, Scl
  <2>3. QED
    BY <1>1, <1>5, <2>2, SeesNothing, SeesFall
<1>6. QED
  BY <1>2, <1>3, <1>4, <1>5 DEF Starting

LEMMA StopSight ==
  ASSUME BytesGiven, ReadsGiven, Based, EdgeInv, Located, NEW access, Clocked(access),
         p_state \in Stopping
  PROVE  /\ memory' = memory /\ (p_state = "Stop_B" => sda_was' = 0)
         /\ \/ Observed = <<>> /\ (p_state = "Stop_C" => sda_was' = sda_was)
            \/ p_state = "Stop_C" /\ sda_was = 0 /\ sda_was' = 1 /\ Observed = <<T!STOP>>
<1>1. /\ Device /\ DeviceInv /\ sda_was' = Sda /\ scl_in = scl_was
      /\ sda_out \in Bit /\ sda_was \in Bit
  BY DEF Clocked, Based, Device, WireInv, RegisterInv
<1>2. CASE p_state = "Stop_A"
  <2>1. scl_out = 0 /\ scl_was = 0
    BY <1>1, <1>2 DEF Based, WireInv, Low
  <2>2. ~Starts /\ ~Stops /\ ~Rises /\ ~Falls
    BY <2>1 DEF Starts, Stops, Rises, Falls, Scl
  <2>3. QED
    BY <1>1, <1>2, <2>2, SeesNothing
<1>3. CASE p_state = "Stop_B"
  <2>1. scl_out = 1 \/ scl_was = 0
    BY <1>1, <1>3 DEF Based, WireInv, Rising
  <2>2. Sda = 0
    BY <1>3, Levels DEF Based, WireInv, Rising, Sda
  <2>3. scl_out = 1 => sda_was = 0
    BY <1>3 DEF EdgeInv
  <2>4. Rises \/ (~Starts /\ ~Stops /\ ~Rises /\ ~Falls)
    BY <2>1, <2>2, <2>3 DEF Starts, Stops, Rises, Falls, Scl
  <2>5. Quiet
    BY <1>3 DEF Located
  <2>6. QED
    BY <1>1, <1>3, <2>2, <2>4, <2>5, QuietRise
<1>4. CASE p_state = "Stop_C"
  <2>1. scl_out = 1 /\ scl_was = 1 /\ Sda = sda_out
    BY <1>1, <1>4 DEF Based, WireInv, PhaseInv, High, Sda, Located, AtStopC, Quiet, Bit
  <2>2. ~Rises /\ ~Falls
    BY <2>1 DEF Rises, Falls, Scl
  <2>3. CASE sda_was = 0 /\ sda_out = 1
    <3>1. Stops
      BY <2>1, <2>3 DEF Stops, Scl
    <3>2. QED
      BY <1>1, <1>4, <2>1, <2>3, <3>1, SeesStop
  <2>4. CASE ~(sda_was = 0 /\ sda_out = 1)
    <3>1. Sda = sda_was
      BY <1>1, <1>4, <2>1, <2>4 DEF EdgeInv, Bit
    <3>2. ~Starts /\ ~Stops
      BY <3>1 DEF Starts, Stops
    <3>3. QED
      BY <1>1, <1>4, <2>2, <3>1, <3>2, SeesNothing
  <2>5. QED
    BY <2>3, <2>4
<1>5. QED
  BY <1>2, <1>3, <1>4 DEF Stopping

-----------------------------------------------------------------------------
(* The items cross in the order of the script.                             *)

LEMMA SeenItems ==
  /\ T!START.kind = "start" /\ T!STOP.kind = "stop"
  /\ \A b : /\ T!Sent(b).kind = "sent" /\ T!Sent(b).byte = b
            /\ T!Got(b).kind = "got" /\ T!Got(b).nth = b
  /\ \A x, a : T!Seen(T!START, x, a) = T!START /\ T!Seen(T!STOP, x, a) = T!STOP
  /\ \A b, x, a : /\ T!Seen(T!Sent(b), x, a) = [kind |-> "sent", byte |-> b, ack |-> a]
                  /\ T!Seen(T!Got(b), x, a) = [kind |-> "got", byte |-> x, ack |-> a]
BY DEF T!START, T!STOP, T!Sent, T!Got, T!Seen

\* The next item of the script crosses, as the abstract transfer has it; a
\* byte that the controller sends is the one of its command.
Crosses(ack) ==
  LET n    == Len(wire) + 1
      item == T!Script(call)[n]
  IN  /\ T!More(call, wire)
      /\ item.kind = "got" => ack = (item.nth < call.size)
      /\ item.kind = "sent" => n = ByteAt
      /\ Observed = <<T!Seen(item, IF item.kind = "got" THEN memory[call.index][item.nth]
                                                        ELSE AddrW, ack)>>
      /\ memory' = IF T!Stores(call, item, ack, n)
                   THEN [memory EXCEPT ![call.index] = call.word] ELSE memory

\* The place of the command, in numbers.
LEMMA PlaceHere ==
  ASSUME BytesGiven, ReadsGiven, Based
  PROVE  /\ Before(call, step) \in Nat /\ Len(T!Script(call)) \in Nat
         /\ Command.ctl.sta \in Bit /\ Command.ctl.stp \in Bit
         /\ Command.ctl.sta = 1 => T!Script(call)[Before(call, step) + 1] = T!START
         /\ Command.ctl.wr = 1 => T!Script(call)[ByteAt] = T!Sent(Command.byte)
         /\ Command.ctl.rd = 1 => Command.ctl.sta = 0 /\ T!Script(call)[ByteAt] = T!Got(step - 3)
         /\ Command.ctl.stp = 1 => T!Script(call)[ByteAt + 1] = T!STOP
         /\ ByteAt = Before(call, step) + Command.ctl.sta + 1
         /\ ByteAt + Command.ctl.stp <= Len(T!Script(call))
         /\ step = Len(Commands) => Len(T!Script(call)) = ByteAt + Command.ctl.stp
         /\ step # Len(Commands) =>
              Command.ctl.stp = 0 /\ Before(call, step + 1) = ByteAt
<1> DEFINE b == Before(call, step)
           s == Command.ctl.sta
           p == Command.ctl.stp
           S == T!Script(call)
<1>1. /\ b \in Nat /\ Len(S) \in Nat /\ s \in Bit /\ p \in Bit
      /\ s = 1 => S[b + 1] = T!START
      /\ Command.ctl.wr = 1 => S[b + s + 1] = T!Sent(Command.byte)
      /\ Command.ctl.rd = 1 => S[b + 1] = T!Got(step - 3)
      /\ p = 1 => S[b + s + 2] = T!STOP
      /\ b + s + 1 + p <= Len(S)
      /\ step = Len(Commands) => Len(S) = b + s + 1 + p
      /\ step # Len(Commands) => p = 0 /\ Before(call, step + 1) = b + s + 1
  BY Here DEF Place
<1>2. Command.ctl.rd = 1 => s = 0
  BY ReadHere
<1>3. ByteAt = b + s + 1
  BY DEF ByteAt
<1> HIDE DEF b, s, p, S
<1>4. PICK m \in Nat, t \in Bit : m = b /\ t = s
  BY <1>1
<1>5. ByteAt + 1 = b + s + 2 /\ (s = 0 => ByteAt = b + 1) /\ ByteAt + p = b + s + 1 + p
  BY <1>3, <1>4, <1>1 DEF Bit
<1>6. QED
  BY <1>1, <1>2, <1>3, <1>5 DEF b, s, p, S

\* As long as the byte has not crossed, no byte was refused.
LEMMA NotRefused ==
  ASSUME RefusalInv, TIP \/ pc # "Idle", ByteAt \in Nat, Len(wire) \in Nat, Len(wire) < ByteAt
  PROVE  ~T!Refused(wire)
<1>1. \A i \in 1..Len(wire) : T!IsRefused(wire, i) => i = ByteAt
  BY DEF RefusalInv
<1>2. \A i \in 1..Len(wire) : i # ByteAt
  OBVIOUS
<1>3. QED
  BY <1>1, <1>2 DEF T!Refused

LEMMA StartCrosses ==
  ASSUME BytesGiven, ReadsGiven, Based, RefusalInv, TIP, Command.ctl.sta = 1,
         Len(wire) = Before(call, step), Observed = <<T!START>>, memory' = memory
  PROVE  Crosses(TRUE)
<1>1. /\ Before(call, step) \in Nat /\ Len(T!Script(call)) \in Nat /\ Command.ctl.stp \in Bit
      /\ T!Script(call)[Len(wire) + 1] = T!START
      /\ ByteAt = Before(call, step) + 1 + 1
      /\ ByteAt + Command.ctl.stp <= Len(T!Script(call))
  BY PlaceHere
<1>2. PICK n \in Nat : n = Len(wire)
  BY <1>1
<1>3. ByteAt = n + 2 /\ Len(wire) < Len(T!Script(call))
  BY <1>1, <1>2 DEF Bit
<1>4. ~T!Refused(wire)
  BY <1>2, <1>3, NotRefused
<1>5. T!More(call, wire)
  BY <1>3, <1>4 DEF T!More
<1>6. ~T!Stores(call, T!START, TRUE, Len(wire) + 1)
  BY SeenItems DEF T!Stores
<1>7. T!START.kind = "start" /\ \A x : Observed = <<T!Seen(T!START, x, TRUE)>>
  BY SeenItems
<1>8. QED
  BY <1>1, <1>5, <1>6, <1>7 DEF Crosses

LEMMA StopCrosses ==
  ASSUME BytesGiven, ReadsGiven, Based, TIP, Command.ctl.stp = 1,
         Len(wire) = ByteAt, Observed = <<T!STOP>>, memory' = memory
  PROVE  Crosses(TRUE)
<1>1. /\ Before(call, step) \in Nat /\ Len(T!Script(call)) \in Nat /\ Command.ctl.sta \in Bit
      /\ T!Script(call)[Len(wire) + 1] = T!STOP
      /\ ByteAt = Before(call, step) + Command.ctl.sta + 1
      /\ ByteAt + 1 <= Len(T!Script(call))
  BY PlaceHere
<1>2. PICK n \in Nat : n = Len(wire)
  BY <1>1 DEF Bit
<1>3. Len(wire) < Len(T!Script(call))
  BY <1>1, <1>2
<1>5. T!More(call, wire)
  BY <1>1, <1>3 DEF T!More
<1>6. ~T!Stores(call, T!STOP, TRUE, Len(wire) + 1)
  BY SeenItems DEF T!Stores
<1>7. T!STOP.kind = "stop" /\ \A x : Observed = <<T!Seen(T!STOP, x, TRUE)>>
  BY SeenItems
<1>8. QED
  BY <1>1, <1>5, <1>6, <1>7 DEF Crosses

LEMMA SentCrosses ==
  ASSUME BytesGiven, ReadsGiven, Based, RefusalInv, TIP, Command.ctl.wr = 1,
         Len(wire) = Before(call, step) + Command.ctl.sta, NEW ack \in BOOLEAN,
         Observed = <<[kind |-> "sent", byte |-> Command.byte, ack |-> ack]>>,
         memory' = IF ack /\ call.dir = "write" /\ step = 4
                   THEN [memory EXCEPT ![call.index] = call.word] ELSE memory
  PROVE  Crosses(ack)
<1>1. /\ Before(call, step) \in Nat /\ Len(T!Script(call)) \in Nat
      /\ Command.ctl.sta \in Bit /\ Command.ctl.stp \in Bit
      /\ T!Script(call)[ByteAt] = T!Sent(Command.byte)
      /\ ByteAt = Before(call, step) + Command.ctl.sta + 1
      /\ ByteAt + Command.ctl.stp <= Len(T!Script(call))
  BY PlaceHere
<1>2. PICK n \in Nat : n = Len(wire)
  BY <1>1 DEF Bit
<1>3. ByteAt = n + 1 /\ Len(wire) + 1 = ByteAt /\ Len(wire) < Len(T!Script(call))
  <2>1. ByteAt = n + 1 /\ Len(wire) + 1 = ByteAt
    BY <1>1, <1>2
  <2>2. n + 1 <= Len(T!Script(call))
    BY <1>1, <2>1 DEF Bit
  <2>3. QED
    BY <1>1, <1>2, <2>1, <2>2
<1>4. ~T!Refused(wire)
  BY <1>2, <1>3, NotRefused
<1>5. T!More(call, wire)
  BY <1>3, <1>4 DEF T!More
<1>6. call.dir = "write" => (step = 4 <=> ByteAt = 5)
  <2>1. Command = List(call)[step] /\ Kind(call, step)
    BY Here
  <2>2. call.dir = "write" => /\ step \in 1..4
                              /\ step = 1 => Command.ctl.sta = 1
                              /\ step # 1 => Command.ctl.sta = 0
    BY <2>1 DEF Kind, Writes
  <2>3. call.dir = "write" => Before(call, step) = IF step = 1 THEN 0 ELSE step
    BY DEF Before
  <2>4. QED
    BY <1>1, <2>2, <2>3
<1>7. T!Stores(call, T!Sent(Command.byte), ack, ByteAt) <=> ack /\ call.dir = "write" /\ step = 4
  BY <1>6, SeenItems DEF T!Stores
<1>8. /\ T!Sent(Command.byte).kind = "sent"
      /\ \A x : Observed = <<T!Seen(T!Sent(Command.byte), x, ack)>>
  BY SeenItems
<1>9. QED
  BY <1>1, <1>3, <1>5, <1>7, <1>8 DEF Crosses

LEMMA GotCrosses ==
  ASSUME BytesGiven, ReadsGiven, Based, RefusalInv, TIP, Command.ctl.rd = 1,
         Len(wire) = Before(call, step) + Command.ctl.sta, memory' = memory,
         Observed = <<[kind |-> "got", byte |-> TheByte, ack |-> Command.ctl.stp = 0]>>
  PROVE  \E ack \in BOOLEAN : Crosses(ack)
<1>1. /\ Before(call, step) \in Nat /\ Len(T!Script(call)) \in Nat
      /\ Command.ctl.sta = 0 /\ Command.ctl.stp \in Bit
      /\ T!Script(call)[ByteAt] = T!Got(step - 3)
      /\ ByteAt = Before(call, step) + Command.ctl.sta + 1
      /\ ByteAt + Command.ctl.stp <= Len(T!Script(call))
  BY PlaceHere
<1>2. PICK n \in Nat : n = Len(wire)
  BY <1>1
<1>3. ByteAt = n + 1 /\ Len(wire) + 1 = ByteAt /\ Len(wire) < Len(T!Script(call))
  BY <1>1, <1>2 DEF Bit
<1>4. ~T!Refused(wire)
  BY <1>2, <1>3, NotRefused
<1>5. T!More(call, wire)
  BY <1>3, <1>4 DEF T!More
<1>6. PICK ack \in BOOLEAN : ack = (Command.ctl.stp = 0)
  OBVIOUS
<1>7. ack = (step - 3 < call.size)
  <2>1. /\ call.dir = "read" /\ step \in 4..5 /\ (Command.ctl.stp = 0 <=> step # Len(Commands))
        /\ Commands = List(call) /\ Kind(call, step)
    BY ReadHere, Here
  <2>2. call.size \in 1..2 /\ Len(Commands) = 3 + call.size /\ step <= Len(Commands)
    BY <2>1 DEF Kind
  <2>3. (step # Len(Commands)) <=> (step - 3 < call.size)
    BY <2>1, <2>2
  <2>4. QED
    BY <1>6, <2>1, <2>3
<1>8. ~T!Stores(call, T!Got(step - 3), ack, ByteAt)
  BY SeenItems DEF T!Stores
<1>9. /\ T!Got(step - 3).kind = "got" /\ T!Got(step - 3).nth = step - 3
      /\ Observed = <<T!Seen(T!Got(step - 3), memory[call.index][step - 3], ack)>>
  BY <1>6, SeenItems DEF TheByte
<1>10. Crosses(ack)
  BY <1>1, <1>3, <1>5, <1>7, <1>8, <1>9 DEF Crosses
<1>11. QED
  BY <1>10

\* The items of the command that have crossed are counted right.
Counts(k) ==
  \/ Observed = <<>> /\ memory' = memory /\ Crossed(k)'
  \/ Crossed(k + 1)' /\ \E ack \in BOOLEAN : Crosses(ack)

LEMMA IdleCounts ==
  ASSUME BytesGiven, ReadsGiven, Based, EdgeInv, WorkInv, TIP, NEW access, Clocked(access),
         Move(access), NEW k \in Int, Crossed(k), p_state \in {"Idle", "Done", "DoneAck"}
  PROVE  Counts(k)
<1>1. /\ Device /\ i2c_core /\ HandoverInv /\ RegisterInv /\ CommandInv /\ Located
      /\ data_in_sync(access)
  BY DEF Clocked, Based, WorkInv
<1>2. Observed = <<>> /\ memory' = memory
  BY <1>1, Nothing DEF Latched
<1>3. Command' = Command
  BY <1>1, Busy
<1>4. CASE p_state = "Idle"
  <2>1. \/ p_state' = "Start_A"
        \/ p_state' \in {"Wr_A", "Rd_A"} /\ start_reg # 1
    BY <1>1, <1>4, Successors DEF i2c_core, Unclocked, RegisterInv, Transfer, TIP, HandoverInv
  <2>2. start_reg # 1 => Command.ctl.sta = 0
    BY <1>1 DEF CommandInv, RegisterInv, Bit
  <2>3. k = 0
    BY <1>4 DEF Crossed
  <2>4. Crossed(k)'
    BY <1>3, <2>1, <2>2, <2>3 DEF Crossed, Writing, Readings, RdAcks, AckOut
  <2>5. QED
    BY <1>2, <2>4 DEF Counts
<1>5. CASE p_state \in {"Done", "DoneAck"}
  <2>1. p_state' = "DoneAck"
    BY <1>1, <1>5, DoneWork
  <2>2. k = Command.ctl.sta + 1 + Command.ctl.stp
    BY <1>5 DEF Crossed
  <2>3. Crossed(k)'
    BY <1>3, <2>1, <2>2 DEF Crossed, Writing, Readings, RdAcks, AckOut
  <2>4. QED
    BY <1>2, <2>3 DEF Counts
<1>6. QED
  BY <1>4, <1>5

LEMMA StartCounts ==
  ASSUME BytesGiven, ReadsGiven, Based, EdgeInv, EdgeInv', WorkInv, RefusalInv, TIP,
         NEW access, Clocked(access), Move(access), p_state \in Starting,
         NEW k \in Int, Crossed(k), Len(wire) = Before(call, step) + k
  PROVE  Counts(k)
<1>1. Located /\ RegisterInv /\ start_reg = 1
  BY DEF WorkInv, Based, PhaseInv
<1>2. Command' = Command /\ Command.ctl.sta = 1
  BY <1>1, Working DEF Starting
<1>3. \/ p_state \in {"Start_A", "Start_B"} /\ p_state' \in {"Start_A", "Start_B", "Start_C"}
      \/ p_state = "Start_C" /\ p_state' \in {"Start_C", "Start_D"}
      \/ p_state = "Start_D" /\ p_state' \in {"Start_D", "Wr_A"}
  <2>1. /\ p_state' = IF sclk = 1 \/ p_state \in Unclocked THEN n_state ELSE p_state
        /\ p_state \in States
    BY <1>1 DEF Clocked, i2c_core, RegisterInv
  <2>2. p_state' \in Starting \cup {"Wr_A"}
    BY <1>1, StartWork DEF Starting
  <2>3. QED
    BY <2>1, <2>2, Successors DEF Starting, Unclocked, Transfer
<1>4. /\ memory' = memory /\ (p_state = "Start_B" => sda_was' = 1)
      /\ \/ Observed = <<>> /\ (p_state = "Start_C" => sda_was' = sda_was)
         \/ p_state = "Start_C" /\ sda_was = 1 /\ sda_was' = 0 /\ Observed = <<T!START>>
  BY <1>1, StartSight
<1>5. CASE p_state \in {"Start_A", "Start_B"}
  <2>1. k = 0
    BY <1>5 DEF Crossed
  <2>2. p_state' = "Start_C" => p_state = "Start_B"
    BY <1>1, <1>5, Successors DEF Clocked, i2c_core, RegisterInv, Unclocked
  <2>3. Crossed(k)'
    BY <1>3, <1>4, <1>5, <2>1, <2>2 DEF Crossed, Writing, Readings, RdAcks, AckOut
  <2>4. QED
    BY <1>4, <1>5, <2>3 DEF Counts
<1>6. CASE p_state = "Start_C" /\ Observed = <<>> /\ sda_was' = sda_was
  <2>1. k = 1 - sda_was
    BY <1>6 DEF Crossed
  <2>2. p_state' = "Start_D" => sda_was' = 0
    BY DEF EdgeInv
  <2>3. Crossed(k)'
    BY <1>3, <1>6, <2>1, <2>2 DEF Crossed, Writing, Readings, RdAcks, AckOut
  <2>4. QED
    BY <1>4, <1>6, <2>3 DEF Counts
<1>7. CASE p_state = "Start_C" /\ sda_was = 1 /\ sda_was' = 0 /\ Observed = <<T!START>>
  <2>1. k = 0
    BY <1>7 DEF Crossed
  <2>2. Crossed(k + 1)'
    BY <1>3, <1>7, <2>1 DEF Crossed, Writing, Readings, RdAcks, AckOut
  <2>3. Crosses(TRUE)
    <3>1. Len(wire) = Before(call, step)
      BY <2>1, PlaceHere
    <3>2. QED
      BY <1>2, <1>4, <1>7, <3>1, StartCrosses
  <2>4. QED
    BY <2>2, <2>3 DEF Counts
<1>8. CASE p_state = "Start_D"
  <2>1. k = 1
    BY <1>8 DEF Crossed
  <2>2. Crossed(k)'
    BY <1>2, <1>3, <1>8, <2>1 DEF Crossed, Writing, Readings, RdAcks, AckOut
  <2>3. QED
    BY <1>4, <1>8, <2>2 DEF Counts
<1>9. QED
  BY <1>4, <1>5, <1>6, <1>7, <1>8 DEF Starting

LEMMA BitCounts ==
  ASSUME BytesGiven, ReadsGiven, Based, WorkInv, TIP, NEW access, Clocked(access),
         Move(access), p_state \in Writing \cup Readings, NEW k \in Int, Crossed(k)
  PROVE  Counts(k)
<1>1. Located /\ Observed = <<>> /\ memory' = memory
  BY BitSight DEF WorkInv
<1>2. Command' = Command
  BY Working DEF Writing, Readings
<1>3. k = Command.ctl.sta
  BY DEF Crossed
<1>4. \/ p_state' \in Writing \cup Readings
      \/ p_state' \in {"RdAck_A", "WrAck_A"} /\ Pulse' = "before"
  <2>1. Pulses
    BY PulseStep DEF Based, BitStates
  <2>2. Stays => p_state' \in Writing \cup Readings
    BY DEF Stays, Writing, RdAcks, Readings, AckOut
  <2>3. Leaves => p_state' \in {"RdAck_A", "WrAck_A"} /\ Pulse' = "before"
    BY DEF Leaves, Writing, RdAcks, Readings, AckOut
  <2>4. QED
    BY <2>1, <2>2, <2>3 DEF Pulses
<1>5. Crossed(k)'
  BY <1>2, <1>3, <1>4 DEF Crossed, Writing, Readings, RdAcks, AckOut
<1>6. QED
  BY <1>1, <1>5 DEF Counts

\* After the acknowledge bit.
LEMMA AckMoves ==
  ASSUME Based, NEW access, Clocked(access), Move(access), p_state \in RdAcks \cup AckOut
  PROVE  /\ Command' = Command /\ TIP' /\ Command.ctl.stp \in Bit
         /\ \/ /\ p_state' \in RdAcks <=> p_state \in RdAcks
               /\ p_state' \in AckOut <=> p_state \in AckOut
               /\ Pulse # "before" => Pulse' # "before"
            \/ Pulse # "before" /\ p_state' = IF Command.ctl.stp = 1 THEN "Stop_A" ELSE "Done"
<1>1. Command' = Command /\ TIP' /\ stop_reg = Command.ctl.stp /\ stop_reg \in Bit
  BY Working DEF RdAcks, AckOut, Based, RegisterInv
<1>2. Pulses
  BY PulseStep DEF Based, BitStates
<1>3. Stays => /\ p_state' \in RdAcks <=> p_state \in RdAcks
               /\ p_state' \in AckOut <=> p_state \in AckOut
               /\ p_state' \notin {"Wr_A", "Rd_A"}
  BY DEF Stays, Writing, RdAcks, Readings, AckOut
<1>4. Leaves => p_state' = IF stop_reg = 1 THEN "Stop_A" ELSE "Done"
  BY DEF Leaves, Writing, RdAcks, Readings, AckOut
<1>5. QED
  BY <1>1, <1>2, <1>3, <1>4 DEF Pulses

LEMMA AckCounts ==
  ASSUME BytesGiven, ReadsGiven, Based, WorkInv, RefusalInv, TIP, NEW access, Clocked(access),
         Move(access), p_state \in RdAcks \cup AckOut,
         NEW k \in Int, Crossed(k), Len(wire) = Before(call, step) + k
  PROVE  Counts(k)
<1>1. Located
  BY DEF WorkInv
<1>2. /\ Command' = Command /\ Command.ctl.stp \in Bit
      /\ \/ /\ p_state' \in RdAcks <=> p_state \in RdAcks
            /\ p_state' \in AckOut <=> p_state \in AckOut
            /\ Pulse # "before" => Pulse' # "before"
         \/ Pulse # "before" /\ p_state' = IF Command.ctl.stp = 1 THEN "Stop_A" ELSE "Done"
  BY AckMoves
<1>3. k = IF Pulse = "before" THEN Command.ctl.sta ELSE Command.ctl.sta + 1
  BY DEF Crossed
<1>4. Pulse # "before" => Crossed(k)'
  BY <1>2, <1>3 DEF Crossed, Writing, Readings, RdAcks, AckOut, Bit
<1>5. /\ p_state' \in RdAcks \cup AckOut /\ Pulse' = "before" /\ Pulse = "before" => Crossed(k)'
      /\ p_state' \in RdAcks \cup AckOut /\ Pulse' = "high" /\ Pulse = "before" =>
           Crossed(k + 1)'
  BY <1>2, <1>3 DEF Crossed, Writing, Readings, RdAcks, AckOut
<1>6. CASE p_state \in RdAcks
  <2>1. /\ Command.ctl.wr = 1
        /\ \/ /\ Observed = <<>> /\ memory' = memory
              /\ Pulse = "before" => Pulse' = "before" /\ p_state' \in RdAcks
           \/ /\ Pulse = "before" /\ Pulse' = "high" /\ p_state' \in RdAcks
              /\ Observed = <<[kind |-> "sent", byte |-> Command.byte,
                               ack |-> dev.mode = "accept"]>>
              /\ memory' = IF dev.mode = "accept" /\ call.dir = "write" /\ step = 4
                           THEN [memory EXCEPT ![call.index] = call.word] ELSE memory
    BY <1>1, <1>6, SentSight DEF Located
  <2>2. CASE Observed = <<>> /\ memory' = memory
             /\ (Pulse = "before" => Pulse' = "before" /\ p_state' \in RdAcks)
    BY <1>4, <1>5, <2>2 DEF Counts
  <2>3. CASE /\ Pulse = "before" /\ Pulse' = "high" /\ p_state' \in RdAcks
             /\ Observed = <<[kind |-> "sent", byte |-> Command.byte,
                              ack |-> dev.mode = "accept"]>>
             /\ memory' = IF dev.mode = "accept" /\ call.dir = "write" /\ step = 4
                          THEN [memory EXCEPT ![call.index] = call.word] ELSE memory
    <3>1. PICK ack \in BOOLEAN : ack = (dev.mode = "accept")
      OBVIOUS
    <3>2. Len(wire) = Before(call, step) + Command.ctl.sta
      BY <1>3, <2>3
    <3>3. Crosses(ack)
      BY <2>1, <2>3, <3>1, <3>2, SentCrosses
    <3>4. Crossed(k + 1)'
      BY <1>5, <2>3
    <3>5. QED
      BY <3>3, <3>4 DEF Counts
  <2>4. QED
    BY <2>1, <2>2, <2>3
<1>7. CASE p_state \in AckOut
  <2>1. /\ Command.ctl.rd = 1 /\ memory' = memory
        /\ \/ /\ Observed = <<>>
              /\ Pulse = "before" => Pulse' = "before" /\ p_state' \in AckOut
           \/ /\ Pulse = "before" /\ Pulse' = "high" /\ p_state' \in AckOut
              /\ Observed = <<[kind |-> "got", byte |-> TheByte,
                               ack |-> Command.ctl.stp = 0]>>
    BY <1>1, <1>7, GotSight DEF Located
  <2>2. CASE Observed = <<>> /\ (Pulse = "before" => Pulse' = "before" /\ p_state' \in AckOut)
    BY <1>4, <1>5, <2>1, <2>2 DEF Counts
  <2>3. CASE /\ Pulse = "before" /\ Pulse' = "high" /\ p_state' \in AckOut
             /\ Observed = <<[kind |-> "got", byte |-> TheByte, ack |-> Command.ctl.stp = 0]>>
    <3>1. Len(wire) = Before(call, step) + Command.ctl.sta
      BY <1>3, <2>3
    <3>2. \E ack \in BOOLEAN : Crosses(ack)
      BY <2>1, <2>3, <3>1, GotCrosses
    <3>3. Crossed(k + 1)'
      BY <1>5, <2>3
    <3>4. QED
      BY <3>2, <3>3 DEF Counts
  <2>4. QED
    BY <2>1, <2>2, <2>3
<1>8. QED
  BY <1>6, <1>7

LEMMA StopCounts ==
  ASSUME BytesGiven, ReadsGiven, Based, EdgeInv, EdgeInv', WorkInv, TIP,
         NEW access, Clocked(access), Move(access), p_state \in Stopping,
         NEW k \in Int, Crossed(k), Len(wire) = Before(call, step) + k
  PROVE  Counts(k)
<1>1. Located /\ RegisterInv /\ stop_reg = 1
  BY DEF WorkInv, Based, HandoverInv
<1>2. Command' = Command /\ Command.ctl.stp = 1
  BY <1>1, Working DEF Stopping
<1>3. \/ p_state = "Stop_A" /\ p_state' \in {"Stop_A", "Stop_B"}
      \/ p_state = "Stop_B" /\ p_state' \in {"Stop_B", "Stop_C"}
      \/ p_state = "Stop_C" /\ p_state' = "Stop_C"
      \/ p_state = "Stop_C" /\ p_state' = "Done" /\ sda_was' = 1
  <2>1. /\ p_state' = IF sclk = 1 \/ p_state \in Unclocked THEN n_state ELSE p_state
        /\ p_state \in States /\ sda_was' = Sda
    BY <1>1 DEF Clocked, i2c_core, RegisterInv, Device
  <2>2. p_state' = "Done" => Sda = 1
    BY <1>1, StopWork
  <2>3. QED
    BY <2>1, <2>2, Successors DEF Stopping, Unclocked
<1>4. /\ memory' = memory /\ (p_state = "Stop_B" => sda_was' = 0)
      /\ \/ Observed = <<>> /\ (p_state = "Stop_C" => sda_was' = sda_was)
         \/ p_state = "Stop_C" /\ sda_was = 0 /\ sda_was' = 1 /\ Observed = <<T!STOP>>
  BY <1>1, StopSight
<1>5. Command.ctl.sta \in Bit
  BY PlaceHere
<1>6. CASE p_state \in {"Stop_A", "Stop_B"}
  <2>1. k = Command.ctl.sta + 1
    BY <1>6 DEF Crossed
  <2>2. p_state' = "Stop_C" => k = Command.ctl.sta + 1 + sda_was'
    BY <1>3, <1>4, <1>5, <1>6, <2>1 DEF Bit
  <2>3. Crossed(k)'
    BY <1>2, <1>3, <1>6, <2>1, <2>2 DEF Crossed, Writing, Readings, RdAcks, AckOut
  <2>4. QED
    BY <1>4, <1>6, <2>3 DEF Counts
<1>7. CASE p_state = "Stop_C" /\ Observed = <<>> /\ sda_was' = sda_was
  <2>1. k = Command.ctl.sta + 1 + sda_was'
    BY <1>7 DEF Crossed
  <2>2. p_state' = "Done" => k = Command.ctl.sta + 1 + Command.ctl.stp
    BY <1>2, <1>3, <1>7, <2>1
  <2>3. Crossed(k)'
    BY <1>2, <1>3, <1>7, <2>1, <2>2 DEF Crossed, Writing, Readings, RdAcks, AckOut
  <2>4. QED
    BY <1>4, <1>7, <2>3 DEF Counts
<1>8. CASE p_state = "Stop_C" /\ sda_was = 0 /\ sda_was' = 1 /\ Observed = <<T!STOP>>
  <2>1. k = Command.ctl.sta + 1 + 0
    BY <1>8 DEF Crossed
  <2>2. /\ k + 1 = Command.ctl.sta + 1 + sda_was'
        /\ k + 1 = Command.ctl.sta + 1 + Command.ctl.stp
    BY <1>2, <1>5, <1>8, <2>1 DEF Bit
  <2>3. Crossed(k + 1)'
    BY <1>2, <1>3, <1>8, <2>2 DEF Crossed, Writing, Readings, RdAcks, AckOut
  <2>4. Crosses(TRUE)
    <3>1. PICK b \in Nat, t \in Bit : b = Before(call, step) /\ t = Command.ctl.sta
      BY <1>5, PlaceHere
    <3>2. ByteAt = b + t + 1
      BY <3>1, PlaceHere
    <3>3. Len(wire) = ByteAt
      BY <2>1, <3>1, <3>2 DEF Bit
    <3>4. QED
      BY <1>2, <1>4, <1>8, <3>3, StopCrosses
  <2>5. QED
    BY <2>3, <2>4 DEF Counts
<1>9. QED
  BY <1>4, <1>6, <1>7, <1>8 DEF Stopping

LEMMA Counted ==
  ASSUME BytesGiven, ReadsGiven, Based, EdgeInv, EdgeInv', WorkInv, RefusalInv, TIP,
         NEW access, Clocked(access), Move(access),
         NEW k \in Int, Crossed(k), Len(wire) = Before(call, step) + k
  PROVE  Counts(k)
<1>1. p_state \in States /\ p_state # "Reset"
  BY DEF Based, RegisterInv, HandoverInv
<1>2. CASE p_state \in {"Idle", "Done", "DoneAck"}
  BY <1>2, IdleCounts
<1>3. CASE p_state \in Starting
  BY <1>3, StartCounts
<1>4. CASE p_state \in Writing \cup Readings
  BY <1>4, BitCounts
<1>5. CASE p_state \in RdAcks \cup AckOut
  BY <1>5, AckCounts
<1>6. CASE p_state \in Stopping
  BY <1>6, StopCounts
<1>7. QED
  BY <1>1, <1>2, <1>3, <1>4, <1>5, <1>6
     DEF States, Unclocked, Starting, Writing, RdAcks, Readings, AckOut, Stopping

\* One item more.
LEMMA Grown ==
  ASSUME NEW S, NEW w \in Seq(S), NEW x \in S
  PROVE  /\ w \o <<x>> = Append(w, x) /\ w \o <<x>> \in Seq(S)
         /\ Len(w \o <<x>>) = Len(w) + 1 /\ (w \o <<x>>)[Len(w) + 1] = x
         /\ \A i \in 1..Len(w) : (w \o <<x>>)[i] = w[i]
OBVIOUS

LEMMA Same ==
  ASSUME NEW S, NEW w \in Seq(S)
  PROVE  w \o <<>> = w
OBVIOUS

-----------------------------------------------------------------------------
(* The edges, by what the driver does at them.                             *)

\* The driver and the history at the edge.
Recorded == wire' = IF pc = "Idle" /\ pc' = "Data" THEN Observed ELSE wire \o Observed

\* A command is under way: it goes on, or the controller hands it back.
Keeps    == pc' = pc /\ UNCHANGED <<outcome, value>>
Deserts  == pc' = "Idle" /\ outcome' = "abandoned" /\ value' = <<>> /\ call.dir = "write"
HandsBack == ~TIP' /\ p_state = "DoneAck" /\ p_state' = "DoneAck" /\ Observed = <<>>
               /\ memory' = memory

LEMMA BusyMoves ==
  ASSUME Based, EdgeInv, ReadsGoOn, ScriptInv, TIP, NEW access, Clocked(access), Move(access),
         Recorded
  PROVE  /\ pc \in Polling /\ UNCHANGED <<call, step>> /\ Commands' = Commands
         /\ Command' = Command /\ wire' = wire \o Observed
         /\ TIP' \/ HandsBack
         /\ Keeps \/ (pc = "Poll" /\ Deserts)
<1>1. /\ HandoverInv /\ data_in_sync(access) /\ Device /\ i2c_core /\ RegisterInv
      /\ DriverInv
  BY DEF Clocked, Based
<1>2. /\ pc \in Polling /\ UNCHANGED <<call, step>> /\ Commands' = Commands
      /\ Command' = Command
      /\ cmd_done # 1 => TIP'
      /\ cmd_done = 1 => ~TIP'
      /\ \/ pc' = pc /\ UNCHANGED <<outcome, value>>
         \/ /\ pc = "Poll" /\ pc' = "Idle" /\ call.dir \in CpuRestarts
            /\ outcome' = "abandoned" /\ value' = <<>>
  BY <1>1, Busy
<1>3. wire' = wire \o Observed
  BY <1>2 DEF Recorded, Polling
<1>4. cmd_done = 1 => HandsBack
  <2> SUFFICES ASSUME cmd_done = 1 PROVE HandsBack
    OBVIOUS
  <2>1. p_state = "DoneAck" /\ cmd_done_ack = 0
    BY <1>1 DEF HandoverInv, RegisterInv, Bit
  <2>2. p_state' = "DoneAck"
    BY <1>1, <2>1, Successors DEF i2c_core, Unclocked, RegisterInv
  <2>3. Observed = <<>> /\ memory' = memory
    BY <1>1, <2>1, Nothing DEF Latched
  <2>4. QED
    BY <1>2, <2>1, <2>2, <2>3 DEF HandsBack
<1>5. call.dir \in CpuRestarts => call.dir = "write"
  BY I2cConstants DEF ReadsGoOn
<1>6. QED
  BY <1>2, <1>3, <1>4, <1>5 DEF Keeps, Deserts

\* No command is under way.
Reads1 == \/ pc = "Check" /\ Command.ctl.wr = 1 /\ i_ack_out # 1 /\ value' = value
          \/ pc = "Fetch" /\ Command.ctl.rd = 1 /\ value' = Append(value, i_dout)
Goes ==
  /\ ~TIP' /\ UNCHANGED <<call, step, value, outcome, wire>>
  /\ (pc = "Idle" <=> pc' = "Idle") /\ (Waits <=> Waits') /\ (Ended <=> Ended')
Issues ==
  /\ pc = "Control" /\ pc' = "Poll" /\ TIP' /\ p_state' = "Idle"
  /\ UNCHANGED <<call, step, value, outcome, wire>>
Advances ==
  /\ pc' = "Wait" /\ ~TIP' /\ step # Len(Commands) /\ step' = step + 1 /\ Reads1
  /\ UNCHANGED <<call, outcome, wire>>
Succeeds ==
  /\ pc' = "Idle" /\ ~TIP' /\ step = Len(Commands) /\ outcome' = "SUCCESS" /\ Reads1
  /\ UNCHANGED <<call, step, wire>>
Fails ==
  /\ pc = "Abort" /\ pc' = "Idle" /\ ~TIP' /\ outcome' = ErrorAt(step)
  /\ UNCHANGED <<call, step, value, wire>>
GivesUp ==
  /\ pc # "Idle" /\ ~TIP' /\ Deserts /\ UNCHANGED <<call, step, wire>>
Begins ==
  /\ pc = "Idle" /\ pc' = "Data" /\ ~TIP' /\ wire' = <<>>
  /\ call' \in T!Calls /\ step' = 1 /\ outcome' = "pending" /\ value' = <<>>

LEMMA RestMoves ==
  ASSUME BytesGiven, ReadsGiven, Based, EdgeInv, ReadsGoOn, ScriptInv, ~TIP,
         NEW access, Clocked(access), Move(access), Recorded
  PROVE  /\ Observed = <<>> /\ memory' = memory /\ UNCHANGED <<i_ack_out, i_dout>>
         /\ p_state \in {"Reset", "Idle", "DoneAck"} /\ p_state' \in {"Idle", "DoneAck"}
         /\ Goes \/ Issues \/ Advances \/ Succeeds \/ Fails \/ GivesUp \/ Begins
<1>1. /\ HandoverInv /\ data_in_sync(access) /\ Device /\ RegisterInv /\ DriverInv
      /\ CommandInv /\ CopyInv
  BY DEF Clocked, Based
<1>2. /\ p_state \in {"Reset", "Idle", "DoneAck"} /\ p_state' \in {"Idle", "DoneAck"}
      /\ TIP' => pc = "Control" /\ pc' = "Poll" /\ p_state' = "Idle"
      /\ UNCHANGED <<i_ack_out, i_dout>>
  BY <1>1, Free
<1>3. /\ Observed = <<>> /\ memory' = memory
  BY <1>1, <1>2, Nothing DEF Latched
<1>4. wire \o Observed = wire
  BY <1>3, Same DEF ScriptInv
<1>5. /\ pc = "Idle" /\ pc' = "Data" => wire' = <<>>
      /\ ~(pc = "Idle" /\ pc' = "Data") => wire' = wire
  BY <1>3, <1>4, Zenon DEF Recorded
<1>6. ack_out = i_ack_out /\ data_out = i_dout
  BY <1>1, <1>2 DEF CopyInv
<1>7. pc = "Control" /\ access = WriteControl(Command.ctl) => TIP'
  <2> SUFFICES ASSUME pc = "Control", access = WriteControl(Command.ctl) PROVE TIP'
    OBVIOUS
  <2>1. write_reg' = Command.ctl.wr /\ read_reg' = Command.ctl.rd
    BY <1>1, Interface, Accesses
  <2>2. Command.ctl.wr = 1 \/ Command.ctl.rd = 1
    BY Here DEF Kind, Writes, Reads
  <2>3. QED
    BY <2>1, <2>2 DEF TIP
<1>8. pc \in {"Idle", "Wait", "Data", "Control", "Poll", "Check", "Fetch", "Abort"}
  BY <1>1 DEF DriverInv
<1>9. call.dir \in CpuRestarts => call.dir = "write"
  BY I2cConstants DEF ReadsGoOn
<1>10. pc = "Idle" /\ pc' = "Data" => ~TIP'
  BY <1>2
<1> SUFFICES Goes \/ Issues \/ Advances \/ Succeeds \/ Fails \/ GivesUp \/ Begins
  BY <1>2, <1>3
<1>11. CASE UNCHANGED <<call, step, value, outcome>> /\ pc' = pc
  BY <1>2, <1>5, <1>11 DEF Goes, Waits, Ended
<1>12. CASE /\ UNCHANGED <<call, step, value, outcome>>
            /\ \/ pc = "Wait" /\ pc' = IF Command.ctl.wr = 1 THEN "Data" ELSE "Control"
               \/ pc = "Poll" /\ pc' = IF Command.ctl.wr = 1 THEN "Check" ELSE "Fetch"
               \/ pc = "Check" /\ pc' = "Abort"
               \/ pc = "Data" /\ pc' = "Control"
  <2>1. \/ {pc, pc'} \subseteq {"Wait", "Data", "Control"} /\ pc # "Control"
        \/ {pc, pc'} \subseteq {"Poll", "Check", "Fetch", "Abort"}
    BY <1>12
  <2>2. QED
    BY <1>2, <1>5, <1>12, <2>1 DEF Goes, Waits, Ended
<1>13. CASE /\ pc # "Idle" /\ pc' = "Idle" /\ call.dir \in CpuRestarts
            /\ outcome' = "abandoned" /\ value' = <<>> /\ UNCHANGED <<call, step>>
  BY <1>2, <1>5, <1>9, <1>13 DEF GivesUp, Deserts
<1>14. CASE /\ \/ pc = "Check" /\ ack_out # 1 /\ value' = value
               \/ pc = "Fetch" /\ value' = Append(value, data_out)
            /\ call' = call
            /\ \/ step = Len(Commands) /\ pc' = "Idle" /\ step' = step /\ outcome' = "SUCCESS"
               \/ step # Len(Commands) /\ pc' = "Wait" /\ step' = step + 1 /\ outcome' = outcome
  <2>1. Reads1
    BY <1>1, <1>6, <1>14 DEF Reads1, CommandInv
  <2>2. QED
    BY <1>2, <1>5, <1>14, <2>1 DEF Advances, Succeeds
<1>15. CASE /\ pc = "Idle" /\ pc' = "Data"
            /\ call' \in T!Calls /\ step' = 1 /\ outcome' = "pending" /\ value' = <<>>
  BY <1>5, <1>10, <1>15 DEF Begins
<1>16. CASE /\ access = WriteControl(Command.ctl) /\ pc = "Control" /\ pc' = "Poll"
            /\ UNCHANGED <<call, step, value, outcome>>
  BY <1>2, <1>5, <1>7, <1>16 DEF Issues
<1>17. CASE /\ pc = "Abort" /\ pc' = "Idle"
            /\ outcome' = ErrorAt(step) /\ UNCHANGED <<call, step, value>>
  BY <1>2, <1>5, <1>17 DEF Fails
<1>18. QED
  BY <1>11, <1>12, <1>13, <1>14, <1>15, <1>16, <1>17 DEF Move

\* What crosses is counted, for the command under way and for the call.
LEMMA BusyCount ==
  ASSUME BytesGiven, ReadsGiven, ReadsGoOn, Based, EdgeInv, EdgeInv', WorkInv, CountInv,
         ScriptInv, RefusalInv, TIP, NEW access, Clocked(access), Move(access), Recorded
  PROVE  /\ CountInv'
         /\ \/ Observed = <<>> /\ memory' = memory /\ wire' = wire
            \/ TIP' /\ \E ack \in BOOLEAN : Crosses(ack)
<1>1. /\ UNCHANGED <<call, step>> /\ Command' = Command /\ wire' = wire \o Observed
      /\ TIP' \/ HandsBack
      /\ Keeps \/ (pc = "Poll" /\ Deserts)
      /\ pc \in Polling
  BY BusyMoves
<1>2. PICK b \in Nat, s \in Nat, p \in Nat, n \in Nat :
        /\ b = Before(call, step) /\ s = Command.ctl.sta /\ p = Command.ctl.stp
        /\ n = Len(wire)
  BY PlaceHere DEF ScriptInv, Bit
<1>3. Before(call, step)' = b /\ Before(call', step') = b
  BY <1>1, <1>2
<1>4. PICK k \in Int : k = n - b
  BY <1>2
<1>5. Crossed(k) /\ Len(wire) = Before(call, step) + k
  <2>1. n - b = k /\ n = b + k
    BY <1>2, <1>4
  <2>2. Len(wire) - Before(call, step) = k /\ Len(wire) = Before(call, step) + k
    BY <1>2, <2>1, Zenon
  <2>3. QED
    BY <2>2 DEF CountInv
<1>6. Counts(k)
  BY <1>5, Counted
<1>7. /\ ByteAt = b + s + 1 /\ ByteAt' = b + s + 1
  BY <1>1, <1>2, <1>3, Zenon DEF ByteAt
<1>8. CASE Observed = <<>> /\ memory' = memory /\ Crossed(k)'
  <2>1. wire' = wire
    BY <1>1, <1>8, Same DEF ScriptInv
  <2>2. Len(wire') - Before(call', step') = k
    BY <1>2, <1>3, <1>4, <2>1
  <2>3. TIP' => Crossed(Len(wire) - Before(call, step))'
    BY <1>8, <2>2
  <2>4. ~TIP' => Len(wire) = ByteAt + Command.ctl.stp
    <3>1. ~TIP' => k = s + 1 + p
      BY <1>1, <1>2, <1>5 DEF HandsBack, Crossed
    <3>2. ~TIP' => n = b + s + 1 + p
      BY <1>4, <3>1
    <3>3. QED
      BY <1>2, <1>7, <3>2
  <2>5. ~TIP' => Len(wire') <= Len(T!Script(call))
    BY <2>1, <2>4, PlaceHere
  <2>6. ~TIP' => Len(wire') = ByteAt' + Command'.ctl.stp
    BY <1>1, <1>7, <2>1, <2>4
  <2>7. ~Waits'
    BY <1>1 DEF Waits, Keeps, Deserts, Polling
  <2>8. CountInv'
    BY <1>1, <2>3, <2>5, <2>6, <2>7 DEF CountInv, Ended
  <2>9. QED
    BY <1>8, <2>1, <2>8
<1>9. CASE Crossed(k + 1)' /\ \E ack \in BOOLEAN : Crosses(ack)
  <2>1. PICK x : Observed = <<x>>
    BY <1>9 DEF Crosses
  <2>2. <<x>> # <<>>
    OBVIOUS
  <2>3. TIP'
    BY <1>1, <2>1, <2>2 DEF HandsBack
  <2>4. Len(wire') = n + 1
    BY <1>1, <1>2, <2>1 DEF ScriptInv
  <2>5. Len(wire') - Before(call', step') = k + 1
    BY <1>2, <1>3, <1>4, <2>4
  <2>6. Crossed(Len(wire) - Before(call, step))'
    BY <1>9, <2>5
  <2>7. CountInv'
    BY <2>3, <2>6 DEF CountInv, Waits, Ended
  <2>8. QED
    BY <1>9, <2>3, <2>7
<1>10. QED
  BY <1>6, <1>8, <1>9 DEF Counts

LEMMA RestCount ==
  ASSUME BytesGiven, ReadsGiven, ReadsGoOn, Based, EdgeInv, CountInv, ScriptInv, ~TIP,
         NEW access, Clocked(access), Move(access), Recorded
  PROVE  CountInv'
<1>1. /\ p_state' \in {"Idle", "DoneAck"}
      /\ Goes \/ Issues \/ Advances \/ Succeeds \/ Fails \/ GivesUp \/ Begins
  BY RestMoves
<1>2. Command.ctl.sta \in Nat /\ Command.ctl.stp \in Nat /\ Len(wire) \in Nat
  <2>1. Command.ctl.sta \in Bit /\ Command.ctl.stp \in Bit
    BY PlaceHere
  <2>2. Bit \subseteq Nat
    BY DEF Bit
  <2>3. Len(wire) \in Nat
    BY DEF ScriptInv
  <2>4. QED
    BY <2>1, <2>2, <2>3, Zenon
<1>3. PICK b \in Nat, s \in Nat, p \in Nat, n \in Nat, m \in Nat :
        /\ b = Before(call, step) /\ s = Command.ctl.sta /\ p = Command.ctl.stp
        /\ n = Len(wire) /\ m = Len(T!Script(call)) /\ ByteAt = b + s + 1
        /\ b + s + 1 + p <= m
        /\ step = Len(Commands) => m = b + s + 1 + p
        /\ step # Len(Commands) => p = 0 /\ Before(call, step + 1) = b + s + 1
  BY <1>2, PlaceHere
<1>4. /\ Waits => n = b
      /\ Ended => n = b + s + 1 + p
      /\ pc = "Idle" => n <= m
  BY <1>3 DEF CountInv
<1>5. pc # "Idle" => Waits \/ Ended
  BY DEF Based, DriverInv, Waits, Ended
<1>6. n <= m
  <2>1. b + s + 1 + p <= m
    BY <1>3
  <2>2. n = b \/ n = b + s + 1 + p \/ n <= m
    BY <1>4, <1>5, Zenon
  <2>3. QED
    BY <2>1, <2>2
<1>7. UNCHANGED <<call, step>> => UNCHANGED <<Commands, Command, Before(call, step), ByteAt>>
  BY DEF Commands, Command, ByteAt
<1>8. CASE Goes
  <2>1. UNCHANGED <<wire, call, Command, Before(call, step), ByteAt>>
    BY <1>7, <1>8 DEF Goes
  <2>2. QED
    BY <1>3, <1>6, <1>8, <2>1 DEF CountInv, Goes
<1>9. CASE Issues
  <2>1. UNCHANGED <<wire, Before(call, step)>>
    BY <1>7, <1>9 DEF Issues
  <2>2. n - b = 0
    BY <1>3, <1>4, <1>9 DEF Issues, Waits
  <2>3. Len(wire') - Before(call', step') = 0
    BY <1>3, <2>1, <2>2
  <2>4. Crossed(Len(wire) - Before(call, step))'
    BY <1>9, <2>3 DEF Crossed, Issues, Writing, Readings, RdAcks, AckOut
  <2>5. QED
    BY <1>9, <2>4 DEF CountInv, Issues, Waits, Ended
<1>10. CASE Advances
  <2>1. Ended
    BY <1>5, <1>10 DEF Advances, Reads1, Ended
  <2>2. n = b + s + 1 + p /\ p = 0 /\ Before(call, step + 1) = b + s + 1
    BY <1>3, <1>4, <1>10, <2>1 DEF Advances
  <2>3. n = b + s + 1
    BY <2>2
  <2>4. Len(wire') = Before(call', step')
    BY <1>3, <1>10, <2>2, <2>3 DEF Advances
  <2>5. QED
    BY <1>10, <2>4 DEF CountInv, Advances, Waits, Ended
<1>11. CASE Succeeds \/ Fails \/ GivesUp
  <2>1. pc' = "Idle" /\ ~TIP' /\ UNCHANGED <<call, wire>>
    BY <1>11 DEF Succeeds, Fails, GivesUp, Deserts
  <2>2. QED
    BY <1>3, <1>6, <2>1 DEF CountInv, Waits, Ended
<1>12. CASE Begins
  <2>1. Len(wire') = 0 /\ Before(call', step') = 0
    BY <1>12 DEF Begins, Before
  <2>2. QED
    BY <1>12, <2>1 DEF CountInv, Begins, Waits, Ended
<1>13. QED
  BY <1>1, <1>8, <1>9, <1>10, <1>11, <1>12

\* What can be where in the script.
LEMMA ItemOf ==
  ASSUME BytesGiven, ReadsGiven, Based, NEW n \in 1..Len(T!Script(call))
  PROVE  \/ T!Script(call)[n] \in {T!START, T!STOP}
         \/ \E b \in Byte : T!Script(call)[n] = T!Sent(b)
         \/ call.dir = "read" /\ n - 5 \in 1..2 /\ T!Script(call)[n] = T!Got(n - 5)
<1> DEFINE S == T!Script(call)
<1>1. /\ call \in T!Calls /\ call.dir \in {"write", "read"} /\ Kind(call, step)
      /\ AddrW \in Byte /\ AddrR \in Byte
  BY Here DEF Based, DriverInv, Kind, BytesGiven
<1>2. call.index \in Byte /\ (call.dir = "write" => call.word \in [1..2 -> Byte])
  BY <1>1 DEF Kind, BytesGiven
<1>3. CASE call.dir = "write"
  <2>1. WriteItems(call, S) /\ call.size \in 0..2
    BY <1>1, <1>3, WriteScript DEF Kind
  <2> HIDE DEF S
  <2>2. Len(S) = IF call.size > 0 THEN 4 + call.size ELSE 3
    BY <2>1 DEF WriteItems, One
  <2>3. CASE n \in {1, 2, 3}
    BY <1>1, <1>2, <2>1, <2>3 DEF WriteItems, S
  <2>4. CASE n \in 4..3 + call.size
    <3>1. n - 3 \in 1..call.size /\ n = 3 + (n - 3) /\ n - 3 \in 1..2
      BY <2>1, <2>4
    <3>2. S[n] = T!Sent(call.word[n - 3])
      BY <2>1, <3>1 DEF WriteItems
    <3>3. call.word[n - 3] \in Byte
      BY <1>2, <1>3, <3>1
    <3>4. QED
      BY <3>2, <3>3 DEF S
  <2>5. CASE call.size > 0 /\ n = 4 + call.size
    BY <2>1, <2>5 DEF WriteItems, S
  <2>6. n \in 1..Len(S)
    BY DEF S
  <2>7. QED
    BY <2>1, <2>2, <2>3, <2>4, <2>5, <2>6
<1>4. CASE call.dir = "read"
  <2>1. ReadItems(call, S) /\ call.size \in 1..2
    BY <1>1, <1>4, ReadScript DEF Kind
  <2> HIDE DEF S
  <2>2. Len(S) = 6 + call.size
    BY <2>1 DEF ReadItems
  <2>3. CASE n \in {1, 2, 3, 4, 5}
    BY <1>1, <1>2, <2>1, <2>3 DEF ReadItems, S
  <2>4. CASE n \in 6..5 + call.size
    <3>1. n - 5 \in 1..call.size /\ n = 5 + (n - 5) /\ n - 5 \in 1..2
      BY <2>1, <2>4
    <3>2. S[n] = T!Got(n - 5)
      BY <2>1, <3>1 DEF ReadItems
    <3>3. QED
      BY <1>4, <3>1, <3>2 DEF S
  <2>5. CASE n = 6 + call.size
    BY <2>1, <2>5 DEF ReadItems, S
  <2>6. n \in 1..Len(S)
    BY DEF S
  <2>7. QED
    BY <2>1, <2>2, <2>3, <2>4, <2>5, <2>6
<1>5. QED
  BY <1>1, <1>3, <1>4

\* The item that crosses is added to the history.
Item == T!Script(call)[Len(wire) + 1]

LEMMA Added ==
  ASSUME BytesGiven, ReadsGiven, Based, ScriptInv, NEW ack \in BOOLEAN, Crosses(ack),
         wire' = wire \o Observed
  PROVE  /\ Len(wire) \in Nat /\ Len(wire) + 1 <= Len(T!Script(call))
         /\ wire' \in Seq(Sights) /\ Len(wire') = Len(wire) + 1
         /\ wire' = Append(wire, T!Seen(Item, IF Item.kind = "got"
                                              THEN memory[call.index][Item.nth] ELSE AddrW, ack))
         /\ \A i \in 1..Len(wire) : wire'[i] = wire[i]
         /\ Fits(wire'[Len(wire) + 1], Item)
         /\ wire'[Len(wire) + 1].kind = Item.kind
         /\ Item.kind = "start" => wire'[Len(wire) + 1] = T!START
         /\ Item.kind \in {"sent", "got"} => wire'[Len(wire) + 1].ack = ack
<1> DEFINE x == T!Seen(Item, IF Item.kind = "got" THEN memory[call.index][Item.nth]
                                                  ELSE AddrW, ack)
<1>1. /\ Len(wire) \in Nat /\ Len(T!Script(call)) \in Nat /\ Len(wire) < Len(T!Script(call))
      /\ wire \in Seq(Sights)
  BY PlaceHere DEF ScriptInv, Crosses, T!More
<1>2. PICK n \in 1..Len(T!Script(call)) : n = Len(wire) + 1
  BY <1>1
<1>3. Item = T!Script(call)[n]
  BY <1>2 DEF Item
<1>4. Observed = <<x>>
  BY DEF Crosses, Item
<1>5. /\ x \in Sights /\ Fits(x, Item) /\ x.kind = Item.kind
      /\ Item.kind = "start" => x = T!START
      /\ Item.kind \in {"sent", "got"} => x.ack = ack
  <2>1. CASE Item \in {T!START, T!STOP}
    <3>1. x = Item
      BY <2>1, SeenItems
    <3>2. QED
      BY <2>1, <3>1, SeenItems DEF Sights, Fits
  <2>2. CASE \E b \in Byte : Item = T!Sent(b)
    <3>1. PICK b \in Byte : Item = T!Sent(b)
      BY <2>2
    <3>2. x = [kind |-> "sent", byte |-> b, ack |-> ack] /\ Item.kind = "sent"
      BY <3>1, SeenItems
    <3>3. QED
      BY <3>1, <3>2 DEF Sights, Fits
  <2>3. CASE call.dir = "read" /\ n - 5 \in 1..2 /\ Item = T!Got(n - 5)
    <3>1. PICK y : y = memory[call.index][n - 5]
      OBVIOUS
    <3>2. y \in Byte
      BY <2>3, <3>1, Here DEF Kind, Based, DeviceInv
    <3>3. Item.kind = "got" /\ Item.nth = n - 5
      BY <2>3, SeenItems
    <3>4. x = [kind |-> "got", byte |-> y, ack |-> ack]
      BY <2>3, <3>1, <3>3, SeenItems
    <3>5. QED
      BY <3>1, <3>2, <3>3, <3>4 DEF Sights, Fits
  <2>4. QED
    BY <1>3, <2>1, <2>2, <2>3, ItemOf
<1> HIDE DEF x
<1>6. /\ wire \o <<x>> = Append(wire, x) /\ wire \o <<x>> \in Seq(Sights)
      /\ Len(wire \o <<x>>) = Len(wire) + 1 /\ (wire \o <<x>>)[Len(wire) + 1] = x
      /\ \A i \in 1..Len(wire) : (wire \o <<x>>)[i] = wire[i]
  BY <1>1, <1>5, Grown
<1>7. wire' = wire \o <<x>>
  BY <1>4
<1>8. QED
  <2>1. wire' = Append(wire, x)
    BY <1>6, <1>7
  <2>2. QED
    BY <1>1, <1>5, <1>6, <1>7, <2>1 DEF x

\* The history follows the script, and the register holds what was written.
LEMMA ScriptKept ==
  ASSUME ScriptInv, StoreInv, UNCHANGED <<wire, call, memory>>
  PROVE  ScriptInv' /\ StoreInv'
BY DEF ScriptInv, StoreInv, Fits

LEMMA ScriptGrows ==
  ASSUME BytesGiven, ReadsGiven, Based, ScriptInv, StoreInv, NEW ack \in BOOLEAN, Crosses(ack),
         wire' = wire \o Observed, call' = call
  PROVE  ScriptInv' /\ StoreInv'
<1>1. /\ Len(wire) \in Nat /\ Len(wire) + 1 <= Len(T!Script(call))
      /\ wire' \in Seq(Sights) /\ Len(wire') = Len(wire) + 1
      /\ \A i \in 1..Len(wire) : wire'[i] = wire[i]
      /\ Fits(wire'[Len(wire) + 1], Item)
      /\ Item.kind \in {"sent", "got"} => wire'[Len(wire) + 1].ack = ack
  BY Added
<1>2. PICK n \in Nat : n = Len(wire)
  BY <1>1
<1>3. Len(T!Script(call)) \in Nat
  BY PlaceHere
<1>4. memory' = IF T!Stores(call, Item, ack, n + 1)
                THEN [memory EXCEPT ![call.index] = call.word] ELSE memory
  BY <1>2 DEF Crosses, Item
<1>5. \A i \in 1..n + 1 : Fits(wire'[i], T!Script(call)[i])
  <2>1. TAKE i \in 1..n + 1
  <2>2. CASE i = n + 1
    BY <1>1, <1>2, <2>2 DEF Item
  <2>3. CASE i # n + 1
    <3>1. i \in 1..Len(wire)
      BY <1>2, <2>3
    <3>2. QED
      BY <1>1, <3>1 DEF ScriptInv
  <2>4. QED
    BY <2>2, <2>3
<1>6. call.dir = "write" => \A i \in 1..n + 1 : T!Script(call)[i].kind # "got"
  <2> SUFFICES ASSUME call.dir = "write", NEW i \in 1..n + 1
               PROVE  T!Script(call)[i].kind # "got"
    OBVIOUS
  <2>1. i \in 1..Len(T!Script(call))
    BY <1>1, <1>2, <1>3
  <2>2. \/ T!Script(call)[i] \in {T!START, T!STOP}
        \/ \E b \in Byte : T!Script(call)[i] = T!Sent(b)
    BY <2>1, ItemOf
  <2>3. QED
    BY <2>2, SeenItems
<1>7. T!Stores(call, Item, ack, n + 1) <=>
        call.dir = "write" /\ Item.kind = "sent" /\ n + 1 = 5 /\ ack
  BY DEF T!Stores
<1>8. \A i \in 1..n + 1 :
        T!Script(call)[i].kind = "got" =>
          wire'[i].byte = memory'[call.index][T!Script(call)[i].nth]
  BY <1>4, <1>5, <1>6, <1>7 DEF Fits
<1>9. ScriptInv'
  <2>1. wire' \in Seq(Sights) /\ Len(wire') = n + 1
    BY <1>1, <1>2
  <2>2. QED
    BY <1>5, <1>8, <2>1 DEF ScriptInv, Fits
<1>10. /\ call \in T!Calls /\ call.index \in Indexes
       /\ call.dir = "write" => call.word \in Words
  BY Here DEF Kind, Based, DriverInv, T!Calls
<1>11. memory' \in [Indexes -> Words]
  BY <1>4, <1>7, <1>10 DEF StoreInv
<1>12. call.dir = "write" /\ call.size = 2 /\ n + 1 >= 5 /\ wire'[5].ack =>
         memory'[call.index] = call.word
  <2> SUFFICES ASSUME call.dir = "write", call.size = 2, n + 1 >= 5, wire'[5].ack
               PROVE  memory'[call.index] = call.word
    OBVIOUS
  <2>1. CASE n + 1 = 5
    <3>1. WriteItems(call, T!Script(call))
      BY <1>10, WriteScript
    <3>2. T!Script(call)[3 + 2] = T!Sent(call.word[2])
      BY <3>1 DEF WriteItems
    <3>3. Item.kind = "sent"
      BY <1>2, <2>1, <3>2, SeenItems DEF Item
    <3>4. wire'[5].ack = ack
      BY <1>1, <1>2, <2>1, <3>3
    <3>5. T!Stores(call, Item, ack, n + 1)
      BY <1>7, <2>1, <3>3, <3>4
    <3>6. QED
      BY <1>4, <1>10, <3>5 DEF StoreInv
  <2>2. CASE n + 1 # 5
    <3>1. memory' = memory
      BY <1>4, <1>7, <2>2
    <3>2. 5 \in 1..Len(wire) /\ Len(wire) >= 5
      BY <1>2, <2>2
    <3>3. wire[5].ack
      BY <1>1, <3>2
    <3>4. QED
      BY <3>1, <3>2, <3>3 DEF StoreInv
  <2>3. QED
    BY <2>1, <2>2
<1>13. StoreInv'
  <2>1. Len(wire') = n + 1
    BY <1>1, <1>2
  <2>2. QED
    BY <1>11, <1>12, <2>1 DEF StoreInv
<1>14. QED
  BY <1>9, <1>13

LEMMA ScriptBegins ==
  ASSUME StoreInv, wire' = <<>>, memory' = memory
  PROVE  ScriptInv' /\ StoreInv'
<1>1. wire' \in Seq(Sights) /\ Len(wire') = 0
  OBVIOUS
<1>2. QED
  BY <1>1 DEF ScriptInv, StoreInv

LEMMA ScriptStep ==
  ASSUME BytesGiven, ReadsGiven, ReadsGoOn, Based, EdgeInv, EdgeInv', WorkInv, CountInv,
         ScriptInv, StoreInv, RefusalInv, NEW access, Clocked(access), Move(access), Recorded
  PROVE  CountInv' /\ ScriptInv' /\ StoreInv'
<1>1. CASE TIP
  <2>1. CountInv' /\ call' = call /\ wire' = wire \o Observed
    BY <1>1, BusyMoves, BusyCount
  <2>2. CASE Observed = <<>> /\ memory' = memory /\ wire' = wire
    BY <2>1, <2>2, ScriptKept
  <2>3. CASE \E ack \in BOOLEAN : Crosses(ack)
    BY <2>1, <2>3, ScriptGrows
  <2>4. QED
    BY <1>1, <2>1, <2>2, <2>3, BusyCount
<1>2. CASE ~TIP
  <2>1. CountInv'
    BY <1>2, RestCount
  <2>2. /\ memory' = memory
        /\ Goes \/ Issues \/ Advances \/ Succeeds \/ Fails \/ GivesUp \/ Begins
    BY <1>2, RestMoves
  <2>3. (call' = call /\ wire' = wire) \/ wire' = <<>>
    BY <2>2 DEF Goes, Issues, Advances, Succeeds, Fails, GivesUp, Begins
  <2>4. QED
    BY <2>1, <2>2, <2>3, ScriptKept, ScriptBegins
<1>3. QED
  BY <1>1, <1>2

\* Where the controller goes in a command.
LEMMA Onward ==
  ASSUME RegisterInv, HandoverInv, i2c_core, TIP
  PROVE  /\ p_state \in Starting \cup {"Idle"} => p_state' \in Starting \cup {"Wr_A", "Rd_A"}
         /\ p_state \in Writing => p_state' \in Writing \cup {"RdAck_A"}
         /\ p_state \in Readings => p_state' \in Readings \cup {"WrAck_A"}
         /\ p_state \in RdAcks => p_state' \in RdAcks \cup {"Stop_A", "Done"}
         /\ p_state \in AckOut => p_state' \in AckOut \cup {"Stop_A", "Done"}
         /\ p_state \in Stopping => p_state' \in Stopping \cup {"Done"}
         /\ p_state \in {"Done", "DoneAck"} => p_state' = "DoneAck"
         /\ p_state \in Starting \cup Writing \cup Readings \cup RdAcks \cup AckOut \cup Stopping
                         \cup {"Idle", "Done", "DoneAck"}
<1>1. /\ p_state' = IF sclk = 1 \/ p_state \in Unclocked THEN n_state ELSE p_state
      /\ p_state \in States /\ p_state # "Reset"
  BY DEF i2c_core, RegisterInv, HandoverInv
<1>2. /\ Transfer("Idle") \in {"Wr_A", "Rd_A"} /\ Transfer("Start_D") \in {"Wr_A", "Rd_A"}
  BY DEF Transfer, TIP, HandoverInv
<1>3. CASE p_state \in Starting \cup {"Idle"}
  BY <1>1, <1>2, <1>3, Successors
     DEF Starting, Unclocked, Writing, Readings, RdAcks, AckOut, Stopping
<1>4. CASE p_state \in Writing
  BY <1>1, <1>4, Successors DEF Starting, Unclocked, Writing, Readings, RdAcks, AckOut, Stopping
<1>5. CASE p_state \in Readings
  BY <1>1, <1>5, Successors DEF Starting, Unclocked, Writing, Readings, RdAcks, AckOut, Stopping
<1>6. CASE p_state \in RdAcks \cup AckOut
  BY <1>1, <1>6, Successors DEF Starting, Unclocked, Writing, Readings, RdAcks, AckOut, Stopping
<1>7. CASE p_state \in Stopping \cup {"Done", "DoneAck"}
  BY <1>1, <1>7, Successors
     DEF Starting, Unclocked, Writing, Readings, RdAcks, AckOut, Stopping, HandoverInv
<1>8. p_state \in Starting \cup Writing \cup Readings \cup RdAcks \cup AckOut \cup Stopping
                    \cup {"Idle", "Done", "DoneAck"}
  BY <1>1 DEF States, Unclocked, Starting, Writing, Readings, RdAcks, AckOut, Stopping
<1>9. QED
  BY <1>1, <1>3, <1>4, <1>5, <1>6, <1>7, <1>8

\* The history at the byte of the command.
LEMMA ByteSeen ==
  ASSUME BytesGiven, ReadsGiven, Based, ScriptInv, CountInv
  PROVE  /\ Len(wire) \in Nat /\ ByteAt \in Nat \ {0}
         /\ Noted => ByteAt \in 1..Len(wire)
         /\ p_state \in RdAcks /\ TIP /\ Pulse = "high" => Len(wire) = ByteAt
         /\ p_state \in RdAcks /\ TIP /\ Pulse = "before" => Len(wire) + 1 = ByteAt
         /\ Command.ctl.rd = 1 /\ Len(wire) >= ByteAt => ~T!IsRefused(wire, ByteAt)
<1>1. /\ Command.ctl.sta \in Bit /\ Command.ctl.stp \in Bit /\ sda_was \in Bit
      /\ Before(call, step) \in Nat /\ Len(wire) \in Nat
  BY PlaceHere DEF ScriptInv, Based, RegisterInv
<1>2. Bit \subseteq Nat
  BY DEF Bit
<1>3. PICK b \in Nat, s \in Nat, p \in Nat, n \in Nat, m \in Nat, d \in Nat :
        /\ b = Before(call, step) /\ s = Command.ctl.sta /\ p = Command.ctl.stp
        /\ n = Len(wire) /\ d = sda_was /\ m = ByteAt
        /\ m = b + s + 1
  <2>1. ByteAt = Before(call, step) + Command.ctl.sta + 1
    BY DEF ByteAt
  <2>2. QED
    BY <1>1, <1>2, <2>1
<1>4. PICK k \in Int : k = n - b
  BY <1>3
<1>5. Len(wire) - Before(call, step) = k /\ n = b + k
  BY <1>3, <1>4
<1>6. TIP => Crossed(k)
  BY <1>5 DEF CountInv
<1>7. /\ Noted /\ TIP => k = s + 1 \/ k = s + 1 + d \/ k = s + 1 + p
      /\ p_state \in RdAcks /\ TIP /\ Pulse = "high" => k = s + 1
      /\ p_state \in RdAcks /\ TIP /\ Pulse = "before" => k = s
  BY <1>3, <1>6 DEF Crossed, Noted, Stopping, Ended
<1>8. Noted /\ ~TIP => n = m + p
  BY <1>3 DEF CountInv, Noted
<1>9. /\ k = s + 1 \/ k = s + 1 + d \/ k = s + 1 + p => m <= n
      /\ n = m + p => m <= n
      /\ k = s + 1 => n = m
      /\ k = s => n + 1 = m
      /\ m >= 1
  BY <1>3, <1>5
<1>10. Command.ctl.rd = 1 /\ n >= m => ~T!IsRefused(wire, ByteAt)
  <2> SUFFICES ASSUME Command.ctl.rd = 1, n >= m PROVE wire[ByteAt].kind # "sent"
    BY DEF T!IsRefused
  <2>1. T!Script(call)[ByteAt] = T!Got(step - 3)
    BY PlaceHere
  <2>2. ByteAt \in 1..Len(wire)
    BY <1>3, <1>9
  <2>3. QED
    BY <2>1, <2>2, SeenItems DEF ScriptInv, Fits
<1>11. QED
  BY <1>3, <1>7, <1>8, <1>9, <1>10

\* No byte was refused, when the driver has read that the last one was not.
LEMMA NoneRefused ==
  ASSUME BytesGiven, ReadsGiven, Based, CountInv, ScriptInv, RefusalInv, Reads1, ~TIP
  PROVE  \A i \in 1..Len(wire) : ~T!IsRefused(wire, i)
<1>1. Ended /\ Noted
  BY DEF Reads1, Ended, Noted
<1>2. ByteAt \in 1..Len(wire) /\ (Command.ctl.rd = 1 => ~T!IsRefused(wire, ByteAt))
  BY <1>1, ByteSeen
<1>3. Command.ctl.wr = 1 /\ i_ack_out # 1 => ~T!IsRefused(wire, ByteAt)
  BY <1>1 DEF RefusalInv
<1>4. \A i \in 1..Len(wire) : T!IsRefused(wire, i) => i = ByteAt
  BY DEF RefusalInv, Reads1
<1>5. QED
  BY <1>2, <1>3, <1>4 DEF Reads1

\* What the device answers is on the wire when the clock rises, and in the
\* controller when it falls.
LEMMA RefusalRest ==
  ASSUME BytesGiven, ReadsGiven, ReadsGoOn, Based, EdgeInv, CountInv, ScriptInv, RefusalInv,
         ~TIP, NEW access, Clocked(access), Move(access), Recorded
  PROVE  RefusalInv'
<1>1. /\ p_state' \in {"Idle", "DoneAck"} /\ i_ack_out' = i_ack_out
      /\ Goes \/ Issues \/ Advances \/ Succeeds \/ Fails \/ GivesUp \/ Begins
  BY RestMoves
<1>2. p_state' \notin RdAcks \cup Stopping \cup {"Done"}
  BY <1>1 DEF RdAcks, Stopping
<1>3. UNCHANGED <<call, step>> => UNCHANGED <<Command, ByteAt>>
  BY DEF Commands, Command, ByteAt
<1>4. CASE Goes
  <2>1. UNCHANGED <<wire, Command, ByteAt>> /\ ~TIP' /\ (Ended' => Ended)
        /\ (pc' # "Idle" => pc # "Idle")
    BY <1>3, <1>4 DEF Goes
  <2>2. Noted' => Noted
    BY <2>1 DEF Noted
  <2>3. QED
    BY <1>1, <1>2, <2>1, <2>2 DEF RefusalInv
<1>5. CASE Issues
  <2>1. UNCHANGED <<wire, Command, ByteAt>> /\ pc # "Idle" /\ TIP' /\ p_state' = "Idle"
    BY <1>3, <1>5 DEF Issues
  <2>2. ~Noted'
    BY <1>2, <2>1 DEF Noted, Ended
  <2>3. QED
    BY <1>2, <2>1, <2>2 DEF RefusalInv
<1>6. CASE Advances
  <2>1. wire' = wire /\ ~TIP' /\ pc' = "Wait" /\ Reads1
    BY <1>6 DEF Advances
  <2>2. \A i \in 1..Len(wire') : ~T!IsRefused(wire', i)
    BY <2>1, NoneRefused
  <2>3. ~Noted'
    BY <2>1 DEF Noted, Ended
  <2>4. QED
    BY <1>2, <2>2, <2>3 DEF RefusalInv
<1>7. CASE Succeeds \/ Fails \/ GivesUp
  <2>1. pc' = "Idle" /\ ~TIP'
    BY <1>7 DEF Succeeds, Fails, GivesUp, Deserts
  <2>2. ~Noted'
    BY <2>1 DEF Noted, Ended
  <2>3. QED
    BY <1>2, <2>1, <2>2 DEF RefusalInv
<1>8. CASE Begins
  <2>1. wire' = <<>> /\ ~TIP' /\ pc' = "Data"
    BY <1>8 DEF Begins
  <2>2. \A i \in 1..Len(wire') : FALSE
    BY <2>1
  <2>3. ~Noted'
    BY <2>1 DEF Noted, Ended
  <2>4. QED
    BY <1>2, <2>2, <2>3 DEF RefusalInv
<1>9. QED
  BY <1>1, <1>4, <1>5, <1>6, <1>7, <1>8

\* SCL falls only in the states that let it fall.
LEMMA FallsLate ==
  ASSUME Based, Falls, p_state \in BitStates
  PROVE  p_state \in Falling
<1>1. scl_in = 1 /\ scl_out # 1
  BY DEF Based, WireInv, Falls, Scl
<1>2. p_state \notin Low \cup High \cup Rising
  BY <1>1 DEF Based, WireInv
<1>3. QED
  BY <1>2 DEF BitStates, Writing, RdAcks, Readings, AckOut, Low, High, Rising, Falling

LEMMA RefusalBusy ==
  ASSUME BytesGiven, ReadsGiven, ReadsGoOn, Based, EdgeInv, EdgeInv', WorkInv, CountInv,
         ScriptInv, RefusalInv, TIP, NEW access, Clocked(access), Move(access), Recorded
  PROVE  RefusalInv'
<1>1. /\ UNCHANGED <<call, step>> /\ Command' = Command /\ wire' = wire \o Observed
      /\ TIP' \/ HandsBack
  BY BusyMoves
<1>2. ByteAt' = ByteAt
  BY <1>1 DEF ByteAt
<1>3. /\ RegisterInv /\ HandoverInv /\ i2c_core /\ Device /\ DeviceInv /\ Located /\ WireInv
  BY DEF Based, Clocked, WorkInv
<1>4. /\ Len(wire) \in Nat /\ ByteAt \in Nat \ {0}
      /\ Noted => ByteAt \in 1..Len(wire)
      /\ p_state \in RdAcks /\ Pulse = "high" => Len(wire) = ByteAt
      /\ p_state \in RdAcks /\ Pulse = "before" => Len(wire) + 1 = ByteAt
  BY ByteSeen
<1>5. i_ack_out' = IF p_state = "RdAck_C" THEN sda_in ELSE i_ack_out
  BY <1>3 DEF i2c_core
<1>6. /\ \A i \in 1..Len(wire) : wire'[i] = wire[i]
      /\ \A i \in 1..Len(wire') :
           i \in 1..Len(wire) \/ i = ByteAt \/ ~T!IsRefused(wire', i)
  <2>1. CASE wire' = wire
    BY <2>1
  <2>2. CASE \E ack \in BOOLEAN : Crosses(ack)
    <3>1. PICK ack \in BOOLEAN : Crosses(ack)
      BY <2>2
    <3>2. /\ Len(wire') = Len(wire) + 1 /\ \A i \in 1..Len(wire) : wire'[i] = wire[i]
          /\ wire'[Len(wire) + 1].kind = Item.kind
      BY <1>1, <3>1, Added
    <3>3. Item.kind = "sent" => Len(wire) + 1 = ByteAt
      BY <3>1 DEF Crosses, Item
    <3>4. T!IsRefused(wire', Len(wire) + 1) => Item.kind = "sent"
      BY <3>2 DEF T!IsRefused
    <3>5. ASSUME NEW i \in 1..Len(wire'), i \notin 1..Len(wire) PROVE i = Len(wire) + 1
      BY <1>4, <3>2, <3>5
    <3>6. QED
      BY <3>2, <3>3, <3>4, <3>5
  <2>3. QED
    BY <2>1, <2>2, BusyCount
<1>7. \A i \in 1..Len(wire) : T!IsRefused(wire', i) <=> T!IsRefused(wire, i)
  BY <1>6 DEF T!IsRefused
<1>8. \A i \in 1..Len(wire') : T!IsRefused(wire', i) => i = ByteAt
  BY <1>6, <1>7 DEF RefusalInv
<1>9. p_state' \in RdAcks /\ Pulse' = "high" => (T!IsRefused(wire', ByteAt) <=> dev'.mode = "refuse")
  <2> SUFFICES ASSUME p_state' \in RdAcks, Pulse' = "high"
               PROVE  T!IsRefused(wire', ByteAt) <=> dev'.mode = "refuse"
    OBVIOUS
  <2>1. p_state \in RdAcks \cup Writing
    BY <1>3, Onward DEF Starting, Readings, RdAcks, AckOut, Stopping
  <2>2. Pulses
    BY <1>3, <2>1, PulseStep DEF Based, BitStates
  <2>3. p_state \in RdAcks
    <3>1. CASE p_state \in Writing
      BY <2>2, <3>1 DEF Pulses, Stays, Leaves, Writing, RdAcks, Readings, AckOut
    <3>2. QED
      BY <2>1, <3>1
  <2>4. AtRdAck
    BY <1>3, <2>3 DEF Located
  <2>5. CASE Pulse = "high"
    <3>1. ~Rises /\ ~Falls /\ ~Starts /\ ~Stops
      <4>1. ~Starts /\ ~Stops
        BY <1>3, <2>3, PulseStep DEF Based, BitStates
      <4>2. ~Leaves
        BY <2>3 DEF Leaves, Writing, Readings, RdAcks, AckOut
      <4>3. QED
        BY <2>2, <2>5, <4>1, <4>2 DEF Pulses
    <3>2. dev' = dev /\ Observed = <<>>
      BY <1>3, <3>1, SeesNothing
    <3>3. wire' = wire
      BY <1>1, <3>2, Same DEF ScriptInv
    <3>4. QED
      BY <2>3, <2>5, <3>2, <3>3 DEF RefusalInv
  <2>6. CASE Pulse = "before"
    <3>1. /\ Observed = <<[kind |-> "sent", byte |-> Command.byte, ack |-> dev.mode = "accept"]>>
          /\ dev' = dev
      BY <2>3, <2>4, <2>6, SentSight
    <3>2. dev.mode \in {"accept", "refuse"}
      BY <2>4, <2>6 DEF AtRdAck, Answers
    <3>3. PICK x : x = [kind |-> "sent", byte |-> Command.byte, ack |-> dev.mode = "accept"]
      OBVIOUS
    <3>4. wire' = wire \o <<x>>
      BY <1>1, <3>1, <3>3
    <3>5. wire'[Len(wire) + 1] = x
      BY <3>4 DEF ScriptInv
    <3>6. wire'[ByteAt] = x
      BY <1>4, <2>3, <2>6, <3>5
    <3>7. x.kind = "sent" /\ (x.ack <=> dev.mode = "accept")
      BY <3>3
    <3>8. QED
      BY <3>1, <3>2, <3>6, <3>7 DEF T!IsRefused
  <2>7. Pulse # "after"
    BY <2>2 DEF Pulses, Leaves, RdAcks, Stays
  <2>8. QED
    BY <2>5, <2>6, <2>7 DEF Pulse
<1>10. Noted' /\ Command.ctl.wr = 1 => (T!IsRefused(wire', ByteAt) <=> i_ack_out' = 1)
  <2> SUFFICES ASSUME Noted', Command.ctl.wr = 1
               PROVE  T!IsRefused(wire', ByteAt) <=> i_ack_out' = 1
    OBVIOUS
  <2>1. CASE Noted /\ p_state # "RdAck_C"
    BY <1>4, <1>5, <1>7, <2>1 DEF RefusalInv
  <2>2. CASE p_state \in RdAcks /\ ~(Noted /\ p_state # "RdAck_C")
    <3>1. Pulses /\ AtRdAck
      BY <1>3, <2>2, PulseStep DEF Based, BitStates, Located
    <3>2. Pulse = "high" /\ Falls
      <4>1. Pulse # "after"
        <5>1. Pulse = "after" => p_state # "RdAck_C"
          BY DEF Pulse, Falling
        <5>2. QED
          BY <2>2, <5>1 DEF Noted
      <4>2. Pulse' = "after" \/ p_state' \notin RdAcks
        BY <1>1, <2>2 DEF Noted, HandsBack, Ended, RdAcks, Stopping
      <4>3. QED
        BY <2>2, <3>1, <4>1, <4>2 DEF Pulses, Stays, Writing, RdAcks, Readings, AckOut
    <3>3. p_state = "RdAck_E"
      <4>1. p_state \in Falling
        BY <2>2, <3>2, FallsLate DEF BitStates
      <4>2. QED
        BY <2>2, <4>1 DEF Falling, RdAcks
    <3>4. i_ack_out = 1 <=> dev.mode = "refuse"
      BY <3>1, <3>2, <3>3 DEF AtRdAck
    <3>5. T!IsRefused(wire, ByteAt) <=> dev.mode = "refuse"
      BY <2>2, <3>2 DEF RefusalInv
    <3>6. ByteAt \in 1..Len(wire)
      BY <1>4, <2>2, <3>2
    <3>7. QED
      BY <1>5, <1>7, <3>3, <3>4, <3>5, <3>6
  <2>3. CASE p_state \notin RdAcks /\ ~Noted
    <3>1. p_state \notin Stopping \cup {"Done", "DoneAck"}
      BY <2>3 DEF Noted
    <3>2. TIP' /\ ~Ended'
      BY <1>1, <3>1 DEF HandsBack, Ended
    <3>3. p_state \notin AckOut
      <4>1. p_state \in AckOut => read_reg = 1 /\ read_reg = Command.ctl.rd
        BY <1>3 DEF HandoverInv, Based, CommandInv
      <4>2. QED
        BY <4>1, ReadHere
    <3>4. p_state \in Starting \cup Writing \cup Readings \cup {"Idle"}
      BY <1>3, <2>3, <3>1, <3>3, Onward
    <3>5. p_state' \in RdAcks
      BY <1>3, <3>2, <3>4, Onward DEF Noted, Starting, Writing, Readings, RdAcks, Stopping
    <3>6. p_state \in Writing
      BY <1>3, <3>4, <3>5, Onward DEF Starting, Writing, Readings, RdAcks
    <3>7. Pulse' = "before"
      <4>1. Pulses
        BY <3>6, PulseStep DEF Based, BitStates
      <4>2. QED
        BY <3>5, <3>6, <4>1 DEF Pulses, Stays, Leaves, Writing, RdAcks, Readings, AckOut
    <3>8. QED
      BY <3>2, <3>5, <3>7 DEF Noted, RdAcks, Stopping
  <2>4. QED
    BY <2>1, <2>2, <2>3 DEF RdAcks
<1>11. QED
  BY <1>1, <1>2, <1>8, <1>9, <1>10 DEF RefusalInv

\* What the controller notes in a command stays noted until the driver goes on.
LEMMA RestNoted ==
  ASSUME BytesGiven, ReadsGiven, ReadsGoOn, Based, EdgeInv, ScriptInv, ~TIP,
         NEW access, Clocked(access), Move(access), Recorded
  PROVE  /\ p_state' \notin Starting \cup Writing \cup Readings \cup RdAcks \cup AckOut \cup Stopping
         /\ i_dout' = i_dout /\ memory' = memory
         /\ Noted' => Goes /\ Noted /\ Ended /\ UNCHANGED <<call, step, Command, TheByte>>
<1>1. /\ p_state' \in {"Idle", "DoneAck"} /\ UNCHANGED <<i_dout, memory>>
      /\ Goes \/ Issues \/ Advances \/ Succeeds \/ Fails \/ GivesUp \/ Begins
  BY RestMoves
<1>2. p_state' \notin Starting \cup Writing \cup Readings \cup RdAcks \cup AckOut \cup Stopping
  BY <1>1 DEF Starting, Writing, Readings, RdAcks, AckOut, Stopping
<1>3. Noted' => Goes
  <2>1. ~Issues \/ ~Noted'
    BY <1>2 DEF Issues, Noted, Ended
  <2>2. Advances \/ Succeeds \/ Fails \/ GivesUp \/ Begins => ~Noted'
    BY DEF Advances, Succeeds, Fails, GivesUp, Begins, Deserts, Noted, Ended
  <2>3. QED
    BY <1>1, <2>1, <2>2
<1>4. Goes => UNCHANGED <<call, step, Command, TheByte>> /\ (Noted' => Ended)
  BY <1>1 DEF Goes, Commands, Command, TheByte, Noted
<1>5. Ended => Noted
  BY DEF Noted
<1>6. QED
  BY <1>1, <1>2, <1>3, <1>4, <1>5

\* The bits of a read are taken where the device holds them.
LEMMA TakenBusy ==
  ASSUME BytesGiven, ReadsGiven, ReadsGoOn, Based, EdgeInv, EdgeInv', WorkInv, CountInv,
         ScriptInv, RefusalInv, TakenInv, TIP,
         NEW access, Clocked(access), Move(access), Recorded
  PROVE  TakenInv'
<1>1. /\ UNCHANGED <<call, step>> /\ Command' = Command
      /\ TIP' \/ HandsBack
  BY BusyMoves
<1>2. /\ RegisterInv /\ HandoverInv /\ i2c_core /\ Located /\ WireInv /\ PhaseInv
      /\ write_reg = Command.ctl.wr /\ read_reg = Command.ctl.rd
  BY DEF Based, Clocked, WorkInv, CommandInv
<1>3. SUFFICES ASSUME Command.ctl.rd = 1 PROVE TakenInv'
  <2>1. CASE Command.ctl.rd # 1
    <3>1. p_state' \notin Readings
      <4>1. read_reg # 1
        BY <1>2, <2>1
      <4>2. p_state' \in Readings => p_state = "Idle" \/ p_state \in Starting \cup Readings
        BY <1>2, Onward DEF Writing, Readings, RdAcks, AckOut, Stopping
      <4>3. p_state \notin Readings
        BY <1>2, <4>1 DEF HandoverInv
      <4>4. p_state \in Starting \cup {"Idle"} => p_state' # "Rd_A"
        BY <1>2, <4>1, Successors
           DEF i2c_core, Starting, Transfer, TIP, RegisterInv
      <4>5. p_state \in Starting \cup {"Idle"} => p_state' \in Starting \cup {"Wr_A", "Rd_A"}
        BY <1>2, Onward
      <4>6. QED
        BY <4>2, <4>3, <4>4, <4>5 DEF Starting, Readings
    <3>2. p_state' \notin {"Rd_D", "Rd_E", "Rd_F"} /\ Command'.ctl.rd # 1
      BY <1>1, <2>1, <3>1 DEF Readings
    <3>3. QED
      BY <3>1, <3>2 DEF TakenInv
  <2>2. QED
    BY <2>1
<1>4. /\ call.dir = "read" /\ TheByte \in Byte /\ Command.ctl.wr # 1
  BY <1>3, ReadHere
<1>5. memory' = memory /\ TheByte' = TheByte
  <2>1. memory' = memory
    BY <1>4, BusyCount DEF Crosses, T!Stores
  <2>2. QED
    BY <1>1, <2>1 DEF TheByte
<1>6. PICK c \in 0..Bits - 1 : c = i_ctr
  BY <1>2 DEF RegisterInv
<1>7. Bits \in Nat \ {0} /\ i_dout \in [1..Bits -> Bit] /\ TheByte \in [1..Bits -> Bit]
  BY <1>2, <1>4, I2cConstants DEF RegisterInv, Byte
<1>8. /\ p_state = "Rd_C" => i_dout' = [i_dout EXCEPT ![c + 1] = sda_in]
      /\ p_state # "Rd_C" => i_dout' = i_dout
  BY <1>2, <1>6 DEF i2c_core
<1>9. \A j \in 1..c : i_dout'[j] = i_dout[j]
  BY <1>6, <1>7, <1>8
<1>10. /\ p_state \in Starting \cup {"Idle"} => i_ctr' = 0
       /\ p_state = "Rd_F" => i_ctr' = c + 1
       /\ p_state \in Readings \ {"Rd_F"} => i_ctr' = c
  <2>1. p_state = "Rd_F" => (c + 1) % Bits = c + 1
    BY <1>2, <1>6, <1>7 DEF PhaseInv
  <2>2. QED
    BY <1>2, <1>6, <2>1 DEF i2c_core, Starting, Readings, PhaseInv
<1>11. p_state' \in Readings => p_state \in Starting \cup {"Idle"} \cup Readings
  BY <1>2, Onward DEF Writing, Readings, RdAcks, AckOut, Stopping
<1>12. p_state \in Starting \cup {"Idle"} => p_state' \notin {"Rd_D", "Rd_E", "Rd_F"}
  BY <1>2, Onward DEF Starting
<1>13. /\ p_state' \in {"Rd_D", "Rd_E", "Rd_F"} /\ p_state \in Readings =>
            p_state \in {"Rd_C", "Rd_D", "Rd_E"}
       /\ p_state \in Readings /\ p_state' \notin Readings => p_state = "Rd_E" /\ c = Bits - 1
  BY <1>2, <1>6, Successors DEF i2c_core, RegisterInv, Readings, Unclocked, LastBit
<1>14. p_state = "Rd_C" => i_dout'[c + 1] = TheByte[c + 1]
  <2> SUFFICES ASSUME p_state = "Rd_C" PROVE i_dout'[c + 1] = TheByte[c + 1]
    OBVIOUS
  <2>1. scl_was = 1 /\ scl_out = 1 /\ sda_out = 1 /\ sda_in = sda_was /\ ~Starts /\ ~Stops
    BY <1>2, Levels DEF WireInv, PhaseInv, High, BitStates, Readings
  <2>2. Sda = sda_was
    BY <1>2, <2>1 DEF Starts, Stops, Scl, Sda, RegisterInv, Bit
  <2>3. dev_sda = TheByte[c + 1]
    BY <1>2, <1>6, <2>1 DEF Located, AtRead, Sends, Pulse, Readings
  <2>4. Sda = dev_sda
    BY <2>1, <2>3 DEF Sda, Based, DeviceInv, Bit
  <2>5. i_dout'[c + 1] = sda_in
    BY <1>6, <1>7, <1>8
  <2>6. QED
    BY <2>1, <2>2, <2>3, <2>4, <2>5
<1>15. p_state' \in Readings => \A j \in 1..i_ctr' : i_dout'[j] = TheByte[j]
  <2> SUFFICES ASSUME p_state' \in Readings PROVE \A j \in 1..i_ctr' : i_dout'[j] = TheByte[j]
    OBVIOUS
  <2>1. CASE p_state \in Starting \cup {"Idle"}
    BY <1>10, <2>1
  <2>2. CASE p_state \in Readings \ {"Rd_F"}
    BY <1>6, <1>9, <1>10, <2>2 DEF TakenInv
  <2>3. CASE p_state = "Rd_F"
    <3>1. i_dout'[c + 1] = TheByte[c + 1] /\ \A j \in 1..c : i_dout'[j] = TheByte[j]
      BY <1>6, <1>8, <1>9, <2>3 DEF TakenInv, Readings
    <3>2. \A j \in 1..c + 1 : j = c + 1 \/ j \in 1..c
      BY <1>6
    <3>3. QED
      BY <1>10, <2>3, <3>1, <3>2
  <2>4. QED
    BY <1>11, <2>1, <2>2, <2>3
<1>16. p_state' \in {"Rd_D", "Rd_E", "Rd_F"} => i_dout'[i_ctr' + 1] = TheByte[i_ctr' + 1]
  <2> SUFFICES ASSUME p_state' \in {"Rd_D", "Rd_E", "Rd_F"}
               PROVE  i_dout'[i_ctr' + 1] = TheByte[i_ctr' + 1]
    OBVIOUS
  <2>1. p_state \in {"Rd_C", "Rd_D", "Rd_E"}
    BY <1>11, <1>12, <1>13 DEF Readings
  <2>2. i_ctr' = c
    BY <1>10, <2>1 DEF Readings
  <2>3. i_dout'[c + 1] = TheByte[c + 1]
    BY <1>6, <1>8, <1>14, <2>1 DEF TakenInv
  <2>4. QED
    BY <2>2, <2>3
<1>17. p_state' \in AckOut \/ Noted' => i_dout' = TheByte
  <2> SUFFICES ASSUME p_state' \in AckOut \/ Noted' PROVE i_dout' = TheByte
    OBVIOUS
  <2>1. p_state \notin Writing \cup RdAcks
    BY <1>2, <1>4 DEF HandoverInv
  <2>2. CASE p_state \in AckOut \/ Noted
    <3>1. i_dout = TheByte /\ p_state # "Rd_C"
      BY <1>3, <2>2 DEF TakenInv, Noted, AckOut, RdAcks, Stopping, Ended
    <3>2. QED
      BY <1>8, <3>1
  <2>3. CASE ~(p_state \in AckOut \/ Noted)
    <3>1. p_state \in Starting \cup {"Idle"} \cup Readings
      BY <1>2, <2>1, <2>3, Onward DEF Noted
    <3>2. TIP' /\ ~Ended'
      BY <1>1, <3>1 DEF HandsBack, Ended, Starting, Readings
    <3>3. p_state' \in AckOut \cup RdAcks \cup Stopping \cup {"Done", "DoneAck"}
      BY <3>2 DEF Noted
    <3>4. p_state = "Rd_E" /\ c = Bits - 1
      BY <1>2, <1>13, <3>1, <3>3, Onward DEF Starting, Readings, AckOut, RdAcks, Stopping
    <3>5. \A j \in 1..c : i_dout[j] = TheByte[j]
      BY <1>6, <3>4 DEF TakenInv, Readings
    <3>6. i_dout[c + 1] = TheByte[c + 1]
      BY <1>6, <3>4 DEF TakenInv
    <3>7. \A j \in 1..Bits : j = c + 1 \/ j \in 1..c
      BY <1>6, <1>7, <3>4
    <3>8. \A j \in 1..Bits : i_dout[j] = TheByte[j]
      BY <3>5, <3>6, <3>7
    <3>9. i_dout = TheByte
      BY <1>7, <3>8
    <3>10. QED
      BY <1>8, <3>4, <3>9
  <2>4. QED
    BY <2>2, <2>3
<1>18. QED
  BY <1>5, <1>15, <1>16, <1>17 DEF TakenInv

LEMMA TakenStep ==
  ASSUME BytesGiven, ReadsGiven, ReadsGoOn, Based, EdgeInv, EdgeInv', WorkInv, CountInv,
         ScriptInv, RefusalInv, TakenInv, NEW access, Clocked(access), Move(access), Recorded
  PROVE  RefusalInv' /\ TakenInv'
<1>1. CASE TIP
  BY <1>1, RefusalBusy, TakenBusy
<1>2. CASE ~TIP
  <2>1. /\ p_state' \notin Readings \cup AckOut /\ i_dout' = i_dout
        /\ Noted' => Noted /\ Command' = Command /\ TheByte' = TheByte
    BY <1>2, RestNoted
  <2>2. TakenInv'
    BY <2>1 DEF TakenInv, Readings
  <2>3. QED
    BY <1>2, <2>2, RefusalRest
<1>3. QED
  BY <1>1, <1>2

\* The first bytes of a register.
LEMMA FirstOf ==
  ASSUME NEW S, NEW w \in [1..2 -> S], NEW n \in 1..2, NEW v \in Seq(S), Len(v) = n,
         \A i \in 1..n : v[i] = w[i]
  PROVE  v = SubSeq(w, 1, n)
<1>1. w \in Seq(S) /\ Len(w) = 2
  <2>1. w = [i \in 1..2 |-> w[i]] /\ \A i \in 1..2 : w[i] \in S
    OBVIOUS
  <2>2. QED
    BY <2>1
<1>2. SubSeq(w, 1, n) \in Seq(S) /\ Len(SubSeq(w, 1, n)) = n
      /\ \A i \in 1..n : SubSeq(w, 1, n)[i] = w[i]
  BY <1>1
<1>3. QED
  BY <1>2, SeqEqual

\* What the driver has read so far.
Valued(v, s) ==
  /\ v \in Seq(Byte)
  /\ Len(v) = IF call.dir = "read" /\ s >= 4 THEN s - 4 ELSE 0
  /\ \A i \in 1..Len(v) : v[i] = memory[call.index][i]

LEMMA ValueReads ==
  ASSUME BytesGiven, ReadsGiven, Based, CountInv, ScriptInv, TakenInv, ValueInv, Reads1, ~TIP,
         outcome = "pending"
  PROVE  Valued(value', step + 1)
<1>1. Ended /\ Noted
  BY DEF Reads1, Ended, Noted
<1>2. Valued(value, step) /\ step \in Nat
  BY Here DEF ValueInv, Valued
<1>3. Kind(call, step) /\ Command = List(call)[step]
  BY Here
<1>4. CASE pc = "Check" /\ Command.ctl.wr = 1 /\ value' = value
  <2>1. call.dir = "read" => step \in 1..3
    BY <1>3, <1>4 DEF Kind, Reads
  <2>2. (IF call.dir = "read" /\ step + 1 >= 4 THEN step + 1 - 4 ELSE 0)
          = (IF call.dir = "read" /\ step >= 4 THEN step - 4 ELSE 0)
    BY <1>2, <2>1
  <2>3. QED
    BY <1>2, <1>4, <2>2 DEF Valued
<1>5. CASE Command.ctl.rd = 1 /\ value' = Append(value, i_dout)
  <2>1. call.dir = "read" /\ step \in 4..5 /\ TheByte \in Byte
    BY <1>5, ReadHere
  <2>2. i_dout = TheByte
    BY <1>1, <1>5 DEF TakenInv
  <2>3. PICK n \in Nat : n = step - 4
    BY <2>1
  <2>4. value \in Seq(Byte) /\ Len(value) = n
    BY <1>2, <2>1, <2>3 DEF Valued
  <2>5. /\ value' \in Seq(Byte) /\ Len(value') = n + 1 /\ value'[n + 1] = TheByte
        /\ \A i \in 1..n : value'[i] = value[i]
    BY <1>5, <2>1, <2>2, <2>4
  <2>6. step - 3 = n + 1 /\ step + 1 - 4 = n + 1 /\ step + 1 >= 4
    BY <2>1, <2>3
  <2>7. \A i \in 1..n + 1 : value'[i] = memory[call.index][i]
    <3>1. value'[n + 1] = memory[call.index][n + 1]
      BY <2>5, <2>6 DEF TheByte
    <3>2. \A i \in 1..n : value'[i] = memory[call.index][i]
      BY <1>2, <2>4, <2>5 DEF Valued
    <3>3. \A i \in 1..n + 1 : i = n + 1 \/ i \in 1..n
      OBVIOUS
    <3>4. QED
      BY <3>1, <3>2, <3>3
  <2>8. QED
    BY <2>1, <2>5, <2>6, <2>7 DEF Valued
<1>6. QED
  BY <1>4, <1>5 DEF Reads1

\* What a write wrote, and what a read read, when the call succeeds.
LEMMA DoneWrite ==
  ASSUME BytesGiven, ReadsGiven, Based, CountInv, ScriptInv, RefusalInv, StoreInv, Reads1, ~TIP,
         step = Len(Commands), call.dir = "write", call.size = 2
  PROVE  memory[call.index] = call.word
<1>1. Ended
  BY DEF Reads1, Ended
<1>2. WriteItems(call, T!Script(call))
  BY WriteScript DEF Based, DriverInv
<1>3. Len(T!Script(call)) = 6 /\ T!Script(call)[3 + 2] = T!Sent(call.word[2])
  BY <1>2 DEF WriteItems, One
<1>4. Len(wire) = 6
  BY <1>1, <1>3, PlaceHere DEF CountInv
<1>5. wire[5].kind = "sent"
  BY <1>3, <1>4, SeenItems DEF ScriptInv, Fits
<1>6. wire[5].ack
  BY <1>4, <1>5, NoneRefused DEF T!IsRefused
<1>7. QED
  BY <1>4, <1>6 DEF StoreInv

LEMMA DoneRead ==
  ASSUME BytesGiven, ReadsGiven, Based, CountInv, ScriptInv, TakenInv, ValueInv, Reads1, ~TIP,
         outcome = "pending", step = Len(Commands), call.dir = "read"
  PROVE  /\ value' = SubSeq(memory[call.index], 1, call.size)
         /\ value' \in Seq(Byte) /\ Len(value') = call.size
         /\ \A i \in 1..call.size : value'[i] = memory[call.index][i]
<1>1. Valued(value', step + 1)
  BY ValueReads
<1>2. call.size \in 1..2 /\ step = 3 + call.size /\ call.index \in Indexes
  BY Here DEF Kind
<1>3. step + 1 >= 4 /\ step + 1 - 4 = call.size
  BY <1>2
<1>4. value' \in Seq(Byte) /\ Len(value') = call.size
      /\ \A i \in 1..call.size : value'[i] = memory[call.index][i]
  BY <1>1, <1>3 DEF Valued
<1>5. memory[call.index] \in [1..2 -> Byte]
  BY <1>2 DEF Based, DeviceInv
<1>6. QED
  BY <1>2, <1>4, <1>5, FirstOf

\* The registers of the device change in a write only.
LEMMA ReadsNothingStored ==
  ASSUME BytesGiven, ReadsGiven, ReadsGoOn, Based, EdgeInv, EdgeInv', WorkInv, CountInv,
         ScriptInv, RefusalInv, call.dir = "read",
         NEW access, Clocked(access), Move(access), Recorded
  PROVE  memory' = memory
<1>1. CASE TIP
  BY <1>1, BusyCount DEF Crosses, T!Stores
<1>2. CASE ~TIP
  BY <1>2, RestMoves
<1>3. QED
  BY <1>1, <1>2

LEMMA ValueStep ==
  ASSUME BytesGiven, ReadsGiven, ReadsGoOn, Based, EdgeInv, EdgeInv', WorkInv, CountInv,
         ScriptInv, RefusalInv, TakenInv, StoreInv, ValueInv,
         NEW access, Clocked(access), Move(access), Recorded
  PROVE  ValueInv'
<1>1. /\ pc = "Idle" <=> outcome # "pending"
      /\ pc = "Idle" /\ TIP => outcome = "abandoned"
      /\ call.dir \in {"read", "write"}
  BY Here DEF Based, CommandInv, Kind
<1>2. ASSUME UNCHANGED <<call, step, value, outcome>>, outcome # "SUCCESS" \/ memory' = memory
      PROVE  ValueInv'
  <2>1. CASE memory' = memory
    BY <1>2, <2>1 DEF ValueInv, T!SuccessIsDone
  <2>2. CASE memory' # memory /\ outcome # "SUCCESS"
    <3>1. call.dir = "write"
      BY <1>1, <2>2, ReadsNothingStored
    <3>2. QED
      BY <1>2, <2>2, <3>1 DEF ValueInv, T!SuccessIsDone
  <2>3. QED
    BY <1>2, <2>1, <2>2
<1>3. ASSUME outcome' \in {"abandoned", "ENODEV", "EBADACK"} PROVE ValueInv'
  BY <1>3 DEF ValueInv, T!SuccessIsDone
<1>4. CASE TIP
  <2>1. /\ UNCHANGED <<call, step>>
        /\ Keeps \/ Deserts
        /\ outcome # "SUCCESS"
    BY <1>1, <1>4, BusyMoves DEF Polling
  <2>2. QED
    BY <1>2, <1>3, <2>1 DEF Keeps, Deserts
<1>5. CASE ~TIP
  <2>1. /\ memory' = memory
        /\ Goes \/ Issues \/ Advances \/ Succeeds \/ Fails \/ GivesUp \/ Begins
    BY <1>5, RestMoves
  <2>2. CASE Goes \/ Issues
    BY <1>2, <2>1, <2>2 DEF Goes, Issues
  <2>3. CASE Fails \/ GivesUp
    BY <1>3, <2>3 DEF Fails, GivesUp, Deserts, ErrorAt
  <2>4. CASE Advances
    <3>1. outcome = "pending" /\ UNCHANGED <<call, outcome>> /\ step' = step + 1 /\ Reads1
      BY <1>1, <2>4 DEF Advances, Reads1
    <3>2. Valued(value', step + 1)
      BY <1>5, <3>1, ValueReads
    <3>3. QED
      BY <2>1, <3>1, <3>2 DEF Valued, ValueInv, T!SuccessIsDone
  <2>5. CASE Succeeds
    <3>1. /\ outcome = "pending" /\ outcome' = "SUCCESS" /\ call' = call /\ Reads1
          /\ step = Len(Commands)
      BY <1>1, <2>5 DEF Succeeds, Reads1
    <3>2. call.dir = "write" /\ call.size = 2 => memory[call.index] = call.word
      BY <1>5, <3>1, DoneWrite
    <3>3. call.dir = "read" => value' = SubSeq(memory[call.index], 1, call.size)
      BY <1>5, <3>1, DoneRead
    <3>4. QED
      BY <2>1, <3>1, <3>2, <3>3 DEF ValueInv, T!SuccessIsDone
  <2>6. CASE Begins
    <3>1. outcome' = "pending" /\ step' = 1 /\ value' = <<>>
      BY <2>6 DEF Begins
    <3>2. value' \in Seq(Byte) /\ Len(value') = 0
      BY <3>1
    <3>3. QED
      BY <3>1, <3>2 DEF ValueInv, T!SuccessIsDone
  <2>7. QED
    BY <2>1, <2>2, <2>3, <2>4, <2>5, <2>6
<1>6. QED
  BY <1>4, <1>5

\* After a stop condition the clock stays released, and the device is off.
LEMMA FreeStep ==
  ASSUME BytesGiven, ReadsGiven, ReadsGoOn, Based, EdgeInv, WorkInv, RestInv, ScriptInv,
         FreeInv, NEW access, Clocked(access), Move(access), Recorded
  PROVE  FreeInv'
<1>1. /\ RegisterInv /\ HandoverInv /\ i2c_core /\ WireInv /\ Device
      /\ pc = "Idle" <=> outcome # "pending"
      /\ pc = "Idle" /\ TIP => outcome = "abandoned"
  BY DEF Based, Clocked, CommandInv
<1>2. p_state \in Latched => /\ scl_out = 1 => scl_out' = 1
                             /\ dev' = dev /\ dev_sda' = dev_sda
  <2>1. p_state \in Latched => scl_out' = IF p_state = "Reset" THEN 1 ELSE scl_out
    BY <1>1 DEF WireInv, i2c_core, i_scl_out, Latched
  <2>2. QED
    BY <1>1, <2>1, Nothing
<1>3. CASE TIP
  <2>1. /\ Command' = Command /\ UNCHANGED <<call, step>>
        /\ TIP' \/ HandsBack
        /\ Keeps \/ (pc = "Poll" /\ Deserts)
        /\ pc \in Polling
    BY <1>3, BusyMoves
  <2>2. outcome' # "SUCCESS"
    BY <1>1, <1>3, <2>1 DEF Keeps, Deserts, Polling
  <2>3. p_state' \in {"Done", "DoneAck"} /\ Command.ctl.stp = 1 /\ TIP' => scl_out' = 1
    <3> SUFFICES ASSUME p_state' \in {"Done", "DoneAck"}, Command.ctl.stp = 1, TIP'
                 PROVE  scl_out' = 1
      OBVIOUS
    <3>1. CASE p_state \in {"Done", "DoneAck"}
      BY <1>2, <1>3, <3>1 DEF FreeInv, Latched
    <3>2. CASE p_state \in Stopping
      <4>1. p_state = "Stop_C"
        BY <1>1, <3>2, Successors DEF i2c_core, RegisterInv, Stopping, Unclocked
      <4>2. QED
        BY <1>1, <4>1 DEF i2c_core, i_scl_out
    <3>3. CASE p_state \in RdAcks \cup AckOut
      BY <3>3, AckMoves DEF RdAcks, AckOut
    <3>4. p_state \notin Starting \cup Writing \cup Readings \cup {"Idle"}
      BY <1>1, <1>3, Onward DEF Starting, Writing, Readings
    <3>5. QED
      BY <1>1, <1>3, <3>1, <3>2, <3>3, <3>4, Onward
  <2>4. ~TIP' /\ Command.ctl.stp = 1 => scl_out' = 1
    <3>1. ~TIP' => p_state = "DoneAck"
      BY <2>1 DEF HandsBack
    <3>2. QED
      BY <1>2, <1>3, <3>1 DEF FreeInv, Latched
  <2>5. QED
    BY <2>1, <2>2, <2>3, <2>4 DEF FreeInv, Ended
<1>4. CASE ~TIP
  <2>1. /\ p_state \in Latched
        /\ Goes \/ Issues \/ Advances \/ Succeeds \/ Fails \/ GivesUp \/ Begins
    BY <1>4, RestMoves DEF Latched
  <2>2. UNCHANGED <<call, step>> => UNCHANGED Command
    BY DEF Commands, Command
  <2>3. Off => Off'
    BY <1>2, <2>1 DEF Off
  <2>4. CASE Goes
    <3>1. /\ UNCHANGED <<call, outcome, Command>> /\ ~TIP'
          /\ Ended' => Ended
      BY <2>2, <2>4 DEF Goes
    <3>2. QED
      BY <1>2, <2>1, <2>3, <3>1 DEF FreeInv
  <2>5. CASE Issues
    <3>1. outcome' # "SUCCESS" /\ p_state' = "Idle" /\ TIP'
      BY <1>1, <2>5 DEF Issues
    <3>2. QED
      BY <3>1 DEF FreeInv, Ended
  <2>6. CASE Advances
    <3>1. outcome' # "SUCCESS" /\ pc' = "Wait" /\ ~TIP'
      BY <1>1, <2>6 DEF Advances, Reads1
    <3>2. QED
      BY <3>1 DEF FreeInv, Ended
  <2>7. CASE Succeeds
    <3>1. Ended /\ ~TIP' /\ pc' = "Idle" /\ call' = call /\ step = Len(Commands)
      BY <1>4, <2>7 DEF Succeeds, Reads1, Ended
    <3>2. call.size > 0 => Command.ctl.stp = 1
      BY <3>1, Here DEF Kind, Writes, Reads, One
    <3>3. call.size > 0 => scl_out = 1 /\ Off
      BY <3>1, <3>2 DEF FreeInv, RestInv, Over, Ended
    <3>4. QED
      BY <1>2, <2>1, <2>3, <3>1, <3>3 DEF FreeInv, Ended
  <2>8. CASE Fails \/ GivesUp
    <3>1. outcome' # "SUCCESS" /\ ~TIP' /\ pc' = "Idle"
      BY <2>8 DEF Fails, GivesUp, Deserts, ErrorAt
    <3>2. QED
      BY <3>1 DEF FreeInv, Ended
  <2>9. CASE Begins
    <3>1. outcome' # "SUCCESS" /\ ~TIP' /\ pc' = "Data"
      BY <2>9 DEF Begins
    <3>2. QED
      BY <3>1 DEF FreeInv, Ended
  <2>10. QED
    BY <2>1, <2>4, <2>5, <2>6, <2>7, <2>8, <2>9
<1>5. QED
  BY <1>3, <1>4

\* All of it, for every execution.
HistoryInv ==
  CountInv /\ ScriptInv /\ RefusalInv /\ TakenInv /\ StoreInv /\ ValueInv /\ FreeInv

LEMMA HistoryUnchanged ==
  ASSUME UNCHANGED i2cVars, HistoryInv
  PROVE  HistoryInv'
<1>1. /\ UNCHANGED <<wire, call, step, memory, Command, Before(call, step), ByteAt, TIP, Pulse,
                     TheByte, p_state, pc, i_ack_out, i_dout, i_ctr, dev, dev_sda, scl_out,
                     sda_was, outcome, value>>
  BY DEF Commands, Command, ByteAt, TIP, Pulse, TheByte,
         i2cVars, coreVars, ifVars, driverVars, devVars
<1>2. UNCHANGED <<Waits, Ended, Off>>
  BY <1>1 DEF Waits, Ended, Off
<1>3. UNCHANGED Noted
  BY <1>1, <1>2 DEF Noted
<1>4. CountInv'
  BY <1>1, <1>2 DEF HistoryInv, CountInv, Crossed
<1>5. ScriptInv' /\ StoreInv'
  BY <1>1, ScriptKept DEF HistoryInv
<1>6. RefusalInv'
  BY <1>1, <1>3 DEF HistoryInv, RefusalInv
<1>7. TakenInv'
  BY <1>1, <1>3 DEF HistoryInv, TakenInv
<1>8. ValueInv'
  BY <1>1 DEF HistoryInv, ValueInv, T!SuccessIsDone
<1>9. FreeInv'
  BY <1>1, <1>2 DEF HistoryInv, FreeInv
<1>10. QED
  BY <1>4, <1>5, <1>6, <1>7, <1>8, <1>9 DEF HistoryInv

LEMMA HistoryStarts ==
  ASSUME BytesGiven, ReadsGiven, I2cInit
  PROVE  HistoryInv
<1>1. /\ ~TIP /\ pc = "Idle" /\ p_state = "Reset" /\ wire = <<>> /\ outcome = "none"
      /\ memory \in [Indexes -> Words] /\ call \in T!Calls
  BY DEF I2cInit, TIP
<1>2. ~Waits /\ ~Ended /\ ~Noted
  BY <1>1 DEF Waits, Ended, Noted
<1>3. Len(wire) = 0 /\ wire \in Seq(Sights)
  BY <1>1
<1>4. Len(T!Script(call)) \in Nat
  <2>1. CASE call.dir = "write"
    BY <1>1, <2>1, WriteScript DEF WriteItems
  <2>2. CASE call.dir = "read"
    <3>1. call.size > 0
      <4>1. call.size \in ReadSizes
        BY <1>1, <2>2 DEF T!Calls
      <4>2. call.size \in 1..2
        BY <4>1, Zenon DEF ReadsGiven
      <4>3. QED
        BY <4>2
    <3>2. QED
      BY <1>1, <2>2, <3>1, ReadScript DEF ReadItems
  <2>3. QED
    BY <1>1, <2>1, <2>2 DEF T!Calls
<1>5. CountInv
  BY <1>1, <1>2, <1>3, <1>4 DEF CountInv
<1>6. ScriptInv /\ StoreInv
  BY <1>1, <1>3 DEF ScriptInv, StoreInv
<1>7. RefusalInv /\ TakenInv
  BY <1>1, <1>2, <1>3 DEF RefusalInv, TakenInv, RdAcks, Readings, AckOut
<1>8. ValueInv /\ FreeInv
  BY <1>1, <1>2 DEF ValueInv, FreeInv, T!SuccessIsDone
<1>9. QED
  BY <1>5, <1>6, <1>7, <1>8 DEF HistoryInv

LEMMA HistoryInvHolds ==
  ASSUME BytesGiven, DivisorGiven, ReadsGiven, ReadsGoOn
  PROVE  I2cSpec => []HistoryInv
<1>1. I2cInit => HistoryInv
  BY HistoryStarts
<1>2. Based /\ PlaceInv /\ HistoryInv /\ PlaceInv' /\ [I2cNext]_i2cVars => HistoryInv'
  <2> SUFFICES ASSUME Based, PlaceInv, HistoryInv, PlaceInv', [I2cNext]_i2cVars
               PROVE  HistoryInv'
    OBVIOUS
  <2>1. CASE I2cNext
    <3>1. PICK access : Clocked(access) /\ Move(access) /\ Recorded
      BY <2>1, Written DEF Recorded
    <3>2. /\ EdgeInv /\ EdgeInv' /\ WorkInv /\ RestInv
          /\ CountInv /\ ScriptInv /\ RefusalInv /\ TakenInv /\ StoreInv /\ ValueInv /\ FreeInv
      BY DEF PlaceInv, HistoryInv
    <3>3. CountInv' /\ ScriptInv' /\ StoreInv'
      BY <3>1, <3>2, ScriptStep
    <3>4. RefusalInv' /\ TakenInv'
      BY <3>1, <3>2, TakenStep
    <3>5. ValueInv'
      BY <3>1, <3>2, ValueStep
    <3>6. FreeInv'
      BY <3>1, <3>2, FreeStep
    <3>7. QED
      BY <3>3, <3>4, <3>5, <3>6 DEF HistoryInv
  <2>2. CASE UNCHANGED i2cVars
    BY <2>2, HistoryUnchanged
  <2>3. QED
    BY <2>1, <2>2
<1>3. QED
  BY <1>1, <1>2, BasedHolds, PlaceInvHolds, PTL DEF I2cSpec

\* The history is never longer than the script.
LEMMA WireLength ==
  ASSUME BytesGiven, ReadsGiven, Based, CountInv, ScriptInv
  PROVE  Len(wire) <= Len(T!Script(call))
<1>1. /\ Command.ctl.sta \in Bit /\ Command.ctl.stp \in Bit /\ sda_was \in Bit
      /\ Before(call, step) \in Nat /\ Len(wire) \in Nat /\ Len(T!Script(call)) \in Nat
  BY PlaceHere DEF ScriptInv, Based, RegisterInv
<1>2. Bit \subseteq 0..1
  BY DEF Bit
<1>3. PICK b \in Nat, s \in 0..1, p \in 0..1, n \in Nat, d \in 0..1, m \in Nat :
        /\ b = Before(call, step) /\ s = Command.ctl.sta /\ p = Command.ctl.stp
        /\ n = Len(wire) /\ d = sda_was /\ m = Len(T!Script(call))
  BY <1>1, <1>2
<1>4. ByteAt = b + s + 1 /\ ByteAt + p <= m
  BY <1>3, PlaceHere
<1>5. b + s + 1 + p <= m
  BY <1>3, <1>4
<1>6. CASE TIP
  <2>1. PICK k \in Int : k = n - b
    BY <1>3
  <2>2. Len(wire) - Before(call, step) = k
    BY <1>3, <2>1
  <2>3. Crossed(k)
    BY <1>6, <2>2 DEF CountInv
  <2>4. p_state = "Stop_C" => p = 1
    BY <1>3, <1>6 DEF Based, HandoverInv, CommandInv, Stopping
  <2>5. p_state \in Starting \cup Writing \cup Readings \cup RdAcks \cup AckOut \cup Stopping
                     \cup {"Idle", "Done", "DoneAck"}
    BY <1>6 DEF Based, RegisterInv, HandoverInv, States, Unclocked,
                Starting, Writing, Readings, RdAcks, AckOut, Stopping
  <2>6. k \in {0, 1, s, s + 1, s + 1 + p} \/ k = 1 - d \/ (p_state = "Stop_C" /\ k = s + 1 + d)
    BY <1>3, <2>3, <2>5 DEF Crossed, Starting, Stopping
  <2>7. k <= s + 1 + p
    BY <2>4, <2>6
  <2>8. n <= m
    BY <1>5, <2>1, <2>7
  <2>9. QED
    BY <1>3, <2>8
<1>7. CASE ~TIP
  <2>1. /\ Waits => n = b
        /\ Ended => n = b + s + 1 + p
        /\ pc = "Idle" => n <= m
    BY <1>3, <1>4, <1>7 DEF CountInv
  <2>2. Waits \/ Ended \/ pc = "Idle"
    BY <1>7 DEF Waits, Ended, Based, DriverInv
  <2>3. n <= m
    BY <1>5, <2>1, <2>2
  <2>4. QED
    BY <1>3, <2>3
<1>8. QED
  BY <1>6, <1>7

-----------------------------------------------------------------------------
(* The invariants of the runs.                                             *)

\* Every register has its type, the bit counter stays below the size of a
\* byte and the history within its script: for every size of a byte, every
\* divisor from 1 on and every device (i2c_core.vhd, i2c_interface.vhd, i2c.c).
THEOREM I2cTypeCorrect ==
  ASSUME BytesGiven, DivisorGiven, ReadsGiven, ReadsGoOn
  PROVE  I2cSpec => []I2cTypeOK
<1>1. ASSUME Based, HistoryInv PROVE I2cTypeOK
  <2>1. RegisterInv /\ DriverInv /\ CommandInv /\ dev_sda \in Bit
    BY <1>1 DEF Based, DeviceInv
  <2>2. Len(wire) <= Len(T!Script(call)) /\ memory \in [Indexes -> Words]
    BY <1>1, WireLength DEF HistoryInv, StoreInv
  <2>3. QED
    BY <2>1, <2>2 DEF I2cTypeOK, RegisterInv, DriverInv, CommandInv
<1>2. QED
  BY <1>1, BasedHolds, HistoryInvHolds, PTL

\* A call with data that returned success left SCL and SDA released and the
\* device idle: the stop condition that goes with its last command came before
\* the controller took the command back (i2c_core.vhd: STOP_A to DONE).
THEOREM SuccessesFreeBus ==
  ASSUME BytesGiven, DivisorGiven, ReadsGiven, ReadsGoOn
  PROVE  I2cSpec => []SuccessFreesBus
<1>1. ASSUME Based, PlaceInv, HistoryInv PROVE SuccessFreesBus
  <2> SUFFICES ASSUME pc = "Idle", outcome = "SUCCESS", call.size > 0
               PROVE  Scl = 1 /\ Sda = 1 /\ dev.mode = "off"
    BY DEF SuccessFreesBus
  <2>1. scl_out = 1 /\ Off
    BY <1>1 DEF HistoryInv, FreeInv
  <2>2. ~TIP
    BY <1>1 DEF Based, CommandInv
  <2>3. p_state \in Latched
    BY <1>1, <2>2 DEF Based, HandoverInv, Latched
  <2>4. sda_out = 1 /\ dev_sda = 1
    BY <1>1, <2>1, <2>3 DEF PlaceInv, EdgeInv
  <2>5. QED
    BY <2>1, <2>4 DEF Scl, Sda, Off
<1>2. QED
  BY <1>1, BasedHolds, PlaceInvHolds, HistoryInvHolds, PTL

\* A call that returned success did what it says: the word of a write of two
\* bytes is in the device's register, and the bytes of a read are those of the
\* register (i2c_write_array, i2c_read_array).
THEOREM SuccessesAreDone ==
  ASSUME BytesGiven, DivisorGiven, ReadsGiven, ReadsGoOn
  PROVE  I2cSpec => []SuccessIsDone
<1>1. ASSUME HistoryInv PROVE SuccessIsDone
  BY <1>1 DEF HistoryInv, ValueInv, SuccessIsDone
<1>2. QED
  BY <1>1, HistoryInvHolds, PTL

-----------------------------------------------------------------------------
(* The controller, its driver and the device implement the transfer.       *)

\* What the driver returns of a read.
Returned == IF outcome = "SUCCESS" THEN value ELSE <<>>

\* A command under way is an item that crosses, or nothing.
LEMMA BusyTransfers ==
  ASSUME BytesGiven, ReadsGiven, ReadsGoOn, Based, EdgeInv, EdgeInv', WorkInv, CountInv,
         ScriptInv, RefusalInv, TIP, NEW access, Clocked(access), Move(access), Recorded
  PROVE  T!Cross \/ T!Abandon \/ UNCHANGED T!transferVars
<1>1. /\ call' = call /\ wire' = wire \o Observed
      /\ Keeps \/ (pc = "Poll" /\ Deserts)
      /\ pc \in Polling
  BY BusyMoves
<1>2. /\ pc = "Poll" => outcome = "pending"
      /\ outcome \in {"pending", "abandoned"}
  BY <1>1 DEF Based, CommandInv, Polling
<1>3. Returned = <<>> /\ Returned' = <<>>
  BY <1>1, <1>2 DEF Returned, Keeps, Deserts
<1>4. CASE memory' = memory /\ wire' = wire
  BY <1>1, <1>2, <1>3, <1>4 DEF Keeps, Deserts, T!Abandon, T!transferVars, Returned
<1>5. CASE \E ack \in BOOLEAN : Crosses(ack)
  <2>1. PICK ack \in BOOLEAN : Crosses(ack)
    BY <1>5
  <2>2. wire' = Append(wire, T!Seen(Item, IF Item.kind = "got"
                                          THEN memory[call.index][Item.nth] ELSE AddrW, ack))
    BY <1>1, <2>1, Added
  <2>3. /\ T!More(call, wire)
        /\ Item.kind = "got" => ack = (Item.nth < call.size)
        /\ memory' = IF T!Stores(call, Item, ack, Len(wire) + 1)
                     THEN [memory EXCEPT ![call.index] = call.word] ELSE memory
    BY <2>1 DEF Crosses, Item
  <2>4. T!Crossing
    BY <2>2, <2>3 DEF T!Crossing, Item
  <2>5. CASE Keeps
    BY <1>1, <1>2, <1>3, <2>4, <2>5 DEF T!Cross, Keeps, Returned
  <2>6. CASE pc = "Poll" /\ Deserts
    BY <1>1, <1>2, <1>3, <2>4, <2>6 DEF T!Abandon, Deserts, Returned
  <2>7. QED
    BY <1>1, <2>5, <2>6
<1>6. QED
  BY <1>4, <1>5, BusyCount

\* What a call that succeeds returns is what the history has of it.
LEMMA BytesReturned ==
  ASSUME BytesGiven, ReadsGiven, Based, CountInv, ScriptInv, TakenInv, ValueInv, Reads1, ~TIP,
         outcome = "pending", step = Len(Commands)
  PROVE  value' = T!BytesGot(call, wire)
<1>1. Ended
  BY DEF Reads1, Ended
<1>2. call.dir \in {"read", "write"} /\ call \in T!Calls
  BY Here DEF Kind, Based, DriverInv
<1>3. CASE call.dir = "read"
  <2>1. call.size \in 1..2
    BY <1>3, Here DEF Kind
  <2>2. PICK n \in 1..2 : n = call.size
    BY <2>1
  <2>3. value' \in Seq(Byte) /\ Len(value') = n /\ \A i \in 1..n : value'[i] = memory[call.index][i]
    BY <1>3, <2>2, DoneRead
  <2>4. ReadItems(call, T!Script(call))
    BY <1>2, <1>3, <2>1, ReadScript
  <2>5. Len(wire) = 6 + n
    BY <1>1, <2>2, <2>4, PlaceHere DEF CountInv, ReadItems
  <2>6. \A i \in 1..n : value'[i] = wire[i + 5].byte
    <3>1. TAKE i \in 1..n
    <3>2. T!Script(call)[5 + i] = T!Got(i) /\ 5 + i = i + 5 /\ i + 5 \in 1..Len(wire)
      BY <2>2, <2>4, <2>5 DEF ReadItems
    <3>3. wire[i + 5].byte = memory[call.index][i]
      BY <3>2, SeenItems DEF ScriptInv, Fits
    <3>4. QED
      BY <2>3, <3>3
  <2>7. value' = [i \in 1..n |-> value'[i]]
    BY <2>3
  <2>8. value' = [i \in 1..n |-> wire[i + 5].byte]
    BY <2>6, <2>7
  <2>9. QED
    BY <1>3, <2>2, <2>8 DEF T!BytesGot
<1>4. CASE call.dir = "write"
  <2>1. value' \in Seq(Byte) /\ Len(value') = 0
    BY <1>4, ValueReads DEF Valued
  <2>2. value' = <<>>
    BY <2>1
  <2>3. T!BytesGot(call, wire) = [i \in 1..0 |-> wire[i + 5].byte]
    BY <1>4 DEF T!BytesGot
  <2>4. [i \in 1..0 |-> wire[i + 5].byte] = <<>>
    OBVIOUS
  <2>5. QED
    BY <2>2, <2>3, <2>4
<1>5. QED
  BY <1>2, <1>3, <1>4

LEMMA SuccessReturns ==
  ASSUME BytesGiven, ReadsGiven, Based, CountInv, ScriptInv, RefusalInv, TakenInv, ValueInv,
         ~TIP, memory' = memory, Succeeds
  PROVE  T!Return
<1>1. /\ Ended /\ Reads1 /\ step = Len(Commands) /\ outcome' = "SUCCESS"
      /\ UNCHANGED <<call, wire>>
  BY DEF Succeeds, Reads1, Ended
<1>2. outcome = "pending"
  BY <1>1 DEF Based, CommandInv, Ended
<1>3. ~T!Refused(wire)
  BY <1>1, NoneRefused DEF T!Refused
<1>4. ~T!More(call, wire)
  <2>1. Len(wire) = Len(T!Script(call)) /\ Len(T!Script(call)) \in Nat
    BY <1>1, PlaceHere DEF CountInv
  <2>2. ~(Len(wire) < Len(T!Script(call)))
    BY <2>1
  <2>3. QED
    BY <2>2 DEF T!More
<1>5. T!Verdict(wire) = "SUCCESS"
  <2>1. Len(wire) \in Nat
    BY PlaceHere DEF ScriptInv
  <2>2. ~\E i \in 2..Len(wire) : T!IsRefused(wire, i) /\ wire[i - 1] = T!START
    BY <1>3, <2>1 DEF T!Refused
  <2>3. QED
    BY <1>3, <2>2 DEF T!Verdict
<1>6. value' = T!BytesGot(call, wire)
  BY <1>1, <1>2, BytesReturned
<1>7. QED
  BY <1>1, <1>2, <1>4, <1>5, <1>6 DEF T!Return

\* The item before the byte of a command is a start condition when the command
\* has one, and the byte before it otherwise.
LEMMA ItemBefore ==
  ASSUME BytesGiven, ReadsGiven, Based, Command.ctl.wr = 1
  PROVE  /\ ByteAt - 1 \in 1..Len(T!Script(call)) /\ ByteAt \in Nat /\ ByteAt >= 2
         /\ T!Script(call)[ByteAt - 1].kind = "start" <=> Command.ctl.sta = 1
<1> DEFINE S == T!Script(call)
<1>1. /\ Kind(call, step) /\ Command = List(call)[step] /\ call \in T!Calls
      /\ call.dir \in {"read", "write"}
  BY Here DEF Based, DriverInv, Kind
<1>2. /\ ByteAt = Before(call, step) + Command.ctl.sta + 1
      /\ ByteAt + Command.ctl.stp <= Len(S) /\ Len(S) \in Nat
      /\ Command.ctl.stp \in Bit /\ Before(call, step) \in Nat
      /\ Command.ctl.sta = 1 => S[Before(call, step) + 1] = T!START
  BY PlaceHere
<1>3. PICK b \in Nat, p \in Nat : b = Before(call, step) /\ p = Command.ctl.stp
  BY <1>2 DEF Bit
<1>4. \/ step = 1 /\ Command.ctl.sta = 1
      \/ step = 2 /\ Command.ctl.sta = 0
      \/ call.dir = "write" /\ step \in 3..4 /\ Command.ctl.sta = 0
      \/ call.dir = "read" /\ step = 3 /\ Command.ctl.sta = 1
  BY <1>1 DEF Kind, Writes, Reads
<1>5. CASE Command.ctl.sta = 1
  <2>1. ByteAt = b + 2 /\ b + 2 <= Len(S)
    BY <1>2, <1>3, <1>5
  <2>2. S[b + 1].kind = "start"
    BY <1>2, <1>3, <1>5, SeenItems
  <2>3. ByteAt - 1 = b + 1 /\ b + 1 \in 1..Len(S)
    BY <1>2, <2>1
  <2>4. QED
    BY <1>5, <2>1, <2>2, <2>3
<1>6. CASE Command.ctl.sta = 0
  <2>1. b = step /\ step \in 2..4 /\ (call.dir = "read" => step = 2)
    BY <1>1, <1>3, <1>4, <1>6 DEF Before
  <2>2. ByteAt = step + 1 /\ step + 1 <= Len(S)
    BY <1>2, <1>3, <1>6, <2>1
  <2>3. S[step].kind # "start"
    <3>1. CASE call.dir = "read"
      <4>1. call.size > 0
        BY <1>1, <3>1 DEF Kind
      <4>2. S[2] = T!Sent(AddrW)
        BY <1>1, <3>1, <4>1, ReadScript DEF ReadItems
      <4>3. QED
        BY <2>1, <3>1, <4>2, SeenItems
    <3>2. CASE call.dir = "write"
      <4>1. WriteItems(call, S)
        BY <1>1, <3>2, WriteScript
      <4>2. step = 4 => 1 \in 1..call.size
        BY <1>1, <3>2 DEF Kind
      <4>3. \E x : S[step] = T!Sent(x)
        <5>1. S[2] = T!Sent(AddrW) /\ S[3] = T!Sent(call.index)
              /\ (step = 4 => S[3 + 1] = T!Sent(call.word[1]))
          BY <4>1, <4>2 DEF WriteItems
        <5>2. step = 2 \/ step = 3 \/ step = 4
          BY <2>1
        <5>3. QED
          BY <5>1, <5>2
      <4>4. QED
        BY <4>3, SeenItems
    <3>3. QED
      BY <1>1, <3>1, <3>2
  <2>4. ByteAt - 1 = step /\ step \in 1..Len(S)
    BY <1>2, <2>1, <2>2
  <2>5. QED
    BY <1>6, <2>1, <2>2, <2>3, <2>4
<1>7. QED
  BY <1>4, <1>5, <1>6

\* Nothing follows a byte that was refused, and the driver knows which it was.
LEMMA FailureReturns ==
  ASSUME BytesGiven, ReadsGiven, Based, RestInv, CountInv, ScriptInv, RefusalInv,
         ~TIP, memory' = memory, Fails
  PROVE  T!Return
<1>1. /\ Ended /\ Noted /\ UNCHANGED <<call, wire>> /\ outcome' = ErrorAt(step)
      /\ pc = "Abort" /\ Command.ctl.wr = 1 /\ i_ack_out = 1
  BY DEF Fails, Ended, Noted, RestInv, Failed
<1>2. outcome = "pending"
  BY <1>1 DEF Based, CommandInv
<1>3. /\ T!IsRefused(wire, ByteAt) /\ ByteAt \in 1..Len(wire) /\ Len(wire) \in Nat
      /\ \A i \in 1..Len(wire) : T!IsRefused(wire, i) => i = ByteAt
  BY <1>1, ByteSeen DEF RefusalInv
<1>4. T!Refused(wire)
  BY <1>3 DEF T!Refused
<1>5. ~T!More(call, wire)
  <2> SUFFICES ASSUME Len(wire) < Len(T!Script(call)), T!Script(call)[Len(wire) + 1] = T!STOP
               PROVE  FALSE
    BY <1>4 DEF T!More
  <2>1. /\ Len(wire) = ByteAt + Command.ctl.stp
        /\ step = Len(Commands) => Len(T!Script(call)) = ByteAt + Command.ctl.stp
        /\ step # Len(Commands) => Command.ctl.stp = 0 /\ Before(call, step + 1) = ByteAt
    BY <1>1, PlaceHere DEF CountInv
  <2>2. step # Len(Commands)
    BY <1>3, <2>1
  <2>3. Len(wire) = ByteAt /\ Before(call, step + 1) = ByteAt
    BY <1>3, <2>1, <2>2
  <2>4. Kind(call, step + 1) /\ Place(call, step + 1)
    BY <2>2, Here
  <2> DEFINE e == List(call)[step + 1]
  <2>5. /\ e.ctl.sta = 1 => T!Script(call)[Before(call, step + 1) + 1] = T!START
        /\ e.ctl.wr = 1 =>
             T!Script(call)[Before(call, step + 1) + e.ctl.sta + 1] = T!Sent(e.byte)
        /\ e.ctl.rd = 1 => T!Script(call)[Before(call, step + 1) + 1] = T!Got((step + 1) - 3)
    BY <2>4 DEF Place
  <2>6. e.ctl.sta = 1 \/ (e.ctl.sta = 0 /\ e.ctl.wr = 1) \/ e.ctl.rd = 1
    BY <2>4 DEF Kind, Writes, Reads
  <2> HIDE DEF e
  <2>7. Len(wire) + 0 + 1 = Len(wire) + 1
    BY <1>3
  <2>8. QED
    BY <2>3, <2>5, <2>6, <2>7, SeenItems
<1>6. T!Verdict(wire) = ErrorAt(step)
  <2>1. Commands[step].ctl.sta = Command.ctl.sta
    BY DEF Command
  <2>2. /\ ByteAt - 1 \in 1..Len(T!Script(call)) /\ ByteAt \in Nat /\ ByteAt >= 2
        /\ T!Script(call)[ByteAt - 1].kind = "start" <=> Command.ctl.sta = 1
    BY <1>1, ItemBefore
  <2>3. ByteAt - 1 \in 1..Len(wire) /\ ByteAt \in 2..Len(wire)
    BY <1>3, <2>2
  <2>4. wire[ByteAt - 1] = T!START <=> Command.ctl.sta = 1
    BY <2>2, <2>3, SeenItems DEF ScriptInv, Fits
  <2>5. (\E i \in 2..Len(wire) : T!IsRefused(wire, i) /\ wire[i - 1] = T!START)
          <=> Command.ctl.sta = 1
    <3>1. \A i \in 2..Len(wire) : T!IsRefused(wire, i) => i = ByteAt
      BY <1>3
    <3>2. QED
      BY <1>3, <2>3, <2>4, <3>1
  <2>6. QED
    BY <1>4, <2>1, <2>5 DEF T!Verdict, ErrorAt
<1>7. outcome' # "SUCCESS"
  BY <1>1 DEF ErrorAt
<1>8. QED
  BY <1>1, <1>2, <1>5, <1>6, <1>7 DEF T!Return

\* Every edge of the clock is a step of the transfer, or none.
LEMMA EdgeTransfers ==
  ASSUME BytesGiven, ReadsGiven, ReadsGoOn, Based, PlaceInv, HistoryInv, PlaceInv',
         [I2cNext]_i2cVars
  PROVE  [T!TransferNext]_(T!transferVars)
<1>1. CASE UNCHANGED i2cVars
  <2>1. UNCHANGED <<call, wire, memory, outcome, value>>
    BY <1>1 DEF i2cVars, driverVars, devVars
  <2>2. QED
    BY <2>1 DEF T!transferVars
<1>2. CASE I2cNext
  <2>1. PICK access : Clocked(access) /\ Move(access) /\ Recorded
    BY <1>2, Written DEF Recorded
  <2>2. /\ EdgeInv /\ EdgeInv' /\ WorkInv /\ RestInv
        /\ CountInv /\ ScriptInv /\ RefusalInv /\ TakenInv /\ ValueInv
    BY DEF PlaceInv, HistoryInv
  <2>3. pc = "Idle" <=> outcome # "pending"
    BY DEF Based, CommandInv
  <2>4. CASE TIP
    BY <2>1, <2>2, <2>4, BusyTransfers DEF T!TransferNext
  <2>5. CASE ~TIP
    <3>1. /\ memory' = memory
          /\ Goes \/ Issues \/ Advances \/ Succeeds \/ Fails \/ GivesUp \/ Begins
      BY <2>1, <2>2, <2>5, RestMoves
    <3>2. CASE Goes \/ Issues
      <4>1. UNCHANGED <<call, wire, memory, outcome, value>>
        BY <3>1, <3>2 DEF Goes, Issues
      <4>2. QED
        BY <4>1 DEF T!transferVars
    <3>3. CASE Advances
      <4>1. UNCHANGED <<call, wire, memory, outcome>> /\ pc # "Idle"
        BY <3>1, <3>3 DEF Advances, Reads1
      <4>2. outcome # "SUCCESS" /\ outcome' # "SUCCESS"
        BY <2>3, <4>1
      <4>3. QED
        BY <4>1, <4>2 DEF T!transferVars
    <3>4. CASE Succeeds
      BY <2>2, <2>5, <3>1, <3>4, SuccessReturns DEF T!TransferNext
    <3>5. CASE Fails
      BY <2>2, <2>5, <3>1, <3>5, FailureReturns DEF T!TransferNext
    <3>6. CASE GivesUp
      <4>1. /\ UNCHANGED <<call, wire, memory>> /\ outcome = "pending"
            /\ outcome' = "abandoned"
        BY <2>3, <3>1, <3>6 DEF GivesUp, Deserts
      <4>2. T!Abandon
        BY <4>1 DEF T!Abandon
      <4>3. QED
        BY <4>2 DEF T!TransferNext
    <3>7. CASE Begins
      <4>1. /\ outcome # "pending" /\ call' \in T!Calls /\ wire' = <<>>
            /\ outcome' = "pending" /\ memory' = memory
        BY <2>3, <3>1, <3>7 DEF Begins
      <4>2. \E c \in T!Calls : T!Begin(c)
        BY <4>1 DEF T!Begin
      <4>3. QED
        BY <4>2 DEF T!TransferNext
    <3>8. QED
      BY <3>1, <3>2, <3>3, <3>4, <3>5, <3>6, <3>7
  <2>6. QED
    BY <2>4, <2>5
<1>3. QED
  BY <1>1, <1>2

\* The controller's four-phase bits, the command registers with their
\* handshake, the polling of the driver and the device make, together, the
\* transfer they promise: the items of a call cross the wires in order, each
\* once, up to the first byte refused, and the driver returns what happened
\* (i2c_core.vhd, i2c_interface.vhd, i2c_write_array and i2c_read_array).
THEOREM TransferImplemented ==
  ASSUME BytesGiven, DivisorGiven, ReadsGiven, ReadsGoOn
  PROVE  I2cSpec => ImplementsTransfer
<1>1. I2cInit => T!TransferInit
  BY DEF I2cInit, T!TransferInit
<1>2. Based /\ PlaceInv /\ HistoryInv /\ PlaceInv' /\ [I2cNext]_i2cVars
        => [T!TransferNext]_(T!transferVars)
  BY EdgeTransfers
<1>3. QED
  BY <1>1, <1>2, BasedHolds, PlaceInvHolds, HistoryInvHolds, PTL
     DEF I2cSpec, ImplementsTransfer, T!TransferSpec

=============================================================================
