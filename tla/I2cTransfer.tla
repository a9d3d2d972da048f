---------------------------- MODULE I2cTransfer -----------------------------
(***************************************************************************)
(* What the I2C driver and its controller promise together: a call of      *)
(* i2c_write_array or i2c_read_array (i2c.c) is a script of items -- start *)
(* conditions, bytes, a stop condition -- that cross the two wires in      *)
(* order, each once, up to the first byte that is not acknowledged, and    *)
(* the return code tells how far that was.  i2c_write and i2c_read are the *)
(* same scripts with one data byte.                                        *)
(***************************************************************************)
EXTENDS Integers, Sequences

CONSTANTS
  Byte,                  \* what a byte may be
  AddrW, AddrR,          \* device & 0xFE, device | 0x01
  Indexes,               \* registers of the device
  Words,                 \* contents of a register: two bytes
  WriteSizes, ReadSizes  \* numbers of data bytes of a call

VARIABLES
  call,     \* the call under way, or the last one
  wire,     \* the items that crossed the wires since it began
  memory,   \* the device's registers
  outcome,  \* what the call returned, "pending" until then
  value     \* the bytes a successful read returned

transferVars == <<call, wire, memory, outcome, value>>

Calls ==
  [dir : {"write"}, index : Indexes, size : WriteSizes, word : Words]
    \cup [dir : {"read"}, index : Indexes, size : ReadSizes]

START     == [kind |-> "start"]
STOP      == [kind |-> "stop"]
Sent(b)   == [kind |-> "sent", byte |-> b]  \* by the controller
Got(i)    == [kind |-> "got", nth |-> i]    \* by the controller, i-th data byte

Data(c) ==
  IF c.dir = "write"
  THEN [i \in 1..c.size |-> Sent(c.word[i])]
  ELSE <<START, Sent(AddrR)>> \o [i \in 1..c.size |-> Got(i)]

Script(c) ==
  <<START, Sent(AddrW), Sent(c.index)>> \o Data(c)
    \o (IF c.size > 0 THEN <<STOP>> ELSE <<>>)

\* What the device sees of an item: for a byte also its value and whether
\* the receiver of the byte acknowledged it.
Seen(item, b, ack) ==
  CASE item.kind = "sent" -> [kind |-> "sent", byte |-> item.byte, ack |-> ack]
    [] item.kind = "got"  -> [kind |-> "got", byte |-> b, ack |-> ack]
    [] OTHER              -> item

IsRefused(w, i) == w[i].kind = "sent" /\ ~w[i].ack
Refused(w)      == \E i \in 1..Len(w) : IsRefused(w, i)

\* More of the script follows, unless a byte was refused; the stop condition
\* that goes with the last byte follows all the same.
More(c, w) ==
  /\ Len(w) < Len(Script(c))
  /\ Refused(w) => Script(c)[Len(w) + 1] = STOP

\* ENODEV: the refused byte is an address, which follows a start condition.
Verdict(w) ==
  CASE ~Refused(w) -> "SUCCESS"
    [] \E i \in 2..Len(w) : IsRefused(w, i) /\ w[i - 1] = START -> "ENODEV"
    [] OTHER -> "EBADACK"

\* The data bytes of a read come after the five items that address it.
BytesGot(c, w) == [i \in 1..(IF c.dir = "read" THEN c.size ELSE 0) |-> w[i + 5].byte]

TransferInit ==
  /\ call \in Calls
  /\ wire = <<>>
  /\ memory \in [Indexes -> Words]
  /\ outcome = "none"
  /\ value = <<>>

Begin(c) ==
  /\ outcome # "pending"
  /\ call' = c
  /\ wire' = <<>>
  /\ outcome' = "pending"
  /\ value' = <<>>
  /\ UNCHANGED memory

\* The second data byte of a write that the device acknowledges is stored.
Stores(c, item, ack, n) ==
  c.dir = "write" /\ item.kind = "sent" /\ n = 5 /\ ack

Crossing ==
  /\ More(call, wire)
  /\ LET n == Len(wire) + 1
         item == Script(call)[n]
     IN  \E ack \in BOOLEAN :
           /\ item.kind = "got" => ack = (item.nth < call.size)
           /\ wire' = Append(wire,
                Seen(item, IF item.kind = "got" THEN memory[call.index][item.nth]
                                                ELSE AddrW, ack))
           /\ memory' = IF Stores(call, item, ack, n)
                        THEN [memory EXCEPT ![call.index] = call.word]
                        ELSE memory

Cross ==
  /\ outcome \in {"pending", "abandoned"}
  /\ Crossing
  /\ UNCHANGED <<call, outcome, value>>

Return ==
  /\ outcome = "pending"
  /\ ~More(call, wire)
  /\ outcome' = Verdict(wire)
  /\ value' = IF outcome' = "SUCCESS" THEN BytesGot(call, wire) ELSE <<>>
  /\ UNCHANGED <<call, wire, memory>>

\* The program restarts: what is under way still crosses.
Abandon ==
  /\ outcome = "pending"
  /\ outcome' = "abandoned"
  /\ Crossing \/ UNCHANGED <<wire, memory>>
  /\ UNCHANGED <<call, value>>

TransferNext ==
  \/ \E c \in Calls : Begin(c)
  \/ Cross
  \/ Return
  \/ Abandon

TransferSpec == TransferInit /\ [][TransferNext]_transferVars

\* A call that returned success did what it says: what was written is in the
\* device, and what was read is what the device holds.
SuccessIsDone ==
  outcome = "SUCCESS" =>
    /\ call.dir = "write" /\ call.size = 2 => memory[call.index] = call.word
    /\ call.dir = "read" => value = SubSeq(memory[call.index], 1, call.size)

=============================================================================
