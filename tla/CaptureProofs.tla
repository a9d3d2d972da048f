---------------------------- MODULE CaptureProofs ----------------------------
(***************************************************************************)
(* The generator and its driver within the capture path, for every width   *)
(* of the registers, all bounds of the driver and every sequence of calls: *)
(* the frame counters never miss their ends, a stop is heard, a configure  *)
(* that reports success has configured.                                    *)
(***************************************************************************)
EXTENDS Capture, SequenceTheorems, TLAPS

Calls  == Configures \cup {Start, Stop}
Tokens == Fields \cup {"START", "STOP", "write"}

MayBeZero == {"frameLine", "lineFrame"}

\* The unit: lengths that are waited for are not zero, and no line blank
\* follows the last line of a frame.
UnitInv ==
  /\ config \in [Fields -> Lengths]
  /\ \A f \in Fields \ MayBeZero : config[f] >= 1
  /\ reg_start \in BOOLEAN /\ reg_stop \in BOOLEAN
  /\ width_counter \in Lengths /\ height_counter \in Lengths /\ blank_counter \in Lengths
  /\ reg_state \in {"IDLE", "FRAME_FRAME_BLANK", "FRAME_LINE_BLANK", "VALID",
                    "LINE_LINE_BLANK", "LINE_FRAME_BLANK"}
  /\ CountersStop
  /\ reg_state = "LINE_LINE_BLANK" => height_counter \in 1..Height - 1

\* The driver: what it is about to write is within its bounds.
DriverInv ==
  /\ program \in Seq(Calls)
  /\ values \in [Fields -> Nat]
  /\ todo \in Seq(Tokens)
  /\ \A i \in 1..Len(todo) : todo[i] = "write" =>
       i = 1 /\ Len(todo) >= 2 /\ todo[2] \in Fields /\ WithinBounds(todo[2])
  /\ success \in BOOLEAN /\ quiet \in BOOLEAN

\* Both: a command is over before the next access; the last one has been
\* obeyed or is being obeyed; a register is written to an idle unit.
Writing == todo # <<>> /\ Head(todo) = "write"

HandshakeInv ==
  /\ quiet => ~reg_start /\ ~reg_stop
  /\ reg_start => commanded = "START" /\ reg_state = "IDLE"
  /\ commanded = "STOP" => reg_stop \/ reg_state = "IDLE"
  /\ Writing => reg_state = "IDLE" /\ ~reg_start

\* What configure has still to write is in the list of its accesses.
Listed(f) == \E i \in 1..Len(todo) : todo[i] = f

ConfigureInv == success => \A f \in Fields : config[f] = values[f] \/ Listed(f)

GeneratorInv == UnitInv /\ DriverInv /\ HandshakeInv /\ ConfigureInv

-----------------------------------------------------------------------------
\* The accesses of the driver.
Allowed(access) ==
  \/ access \in {None, Status, Command("START"), Command("STOP")}
  \/ \E f \in Fields, v \in Minimum..Maximum : access = Register(f, v)

LEMMA SmallMod == \A x \in Nat : x < Modulus => x % Modulus = x
BY GeneratorConstants

LEMMA FieldNames ==
  /\ "width" \in Fields \ MayBeZero /\ "height" \in Fields \ MayBeZero
  /\ "frameFrame" \in Fields \ MayBeZero /\ "lineLine" \in Fields \ MayBeZero
  /\ "frameLine" \in Fields /\ "lineFrame" \in Fields
BY DEF Fields, MayBeZero

LEMMA CommandsDiffer ==
  /\ Command("START") # None /\ Command("STOP") # None
  /\ Command("START") # Command("STOP")
<1>1. None.kind = "none"
  BY DEF None
<1>2. \A c : Command(c).kind = "command" /\ Command(c).what = c
  BY DEF Command
<1>3. QED
  BY <1>1, <1>2

\* Registers change in the idle unit only, and to lengths within the bounds.
LEMMA ConfigStep ==
  ASSUME UnitInv, HandshakeInv, NEW access, Allowed(access), MM_WRITE(access),
         access # None => quiet
  PROVE  /\ config' \in [Fields -> Lengths]
         /\ \A f \in Fields \ MayBeZero : config'[f] >= 1
         /\ reg_start' \in BOOLEAN /\ reg_stop' \in BOOLEAN
         /\ reg_state # "IDLE" \/ reg_start => config' = config
         /\ reg_start' => reg_state = "IDLE" /\ ~reg_start
<1>1. CASE access.kind = "register" /\ reg_state = "IDLE"
  <2>1. PICK f \in Fields, v \in Minimum..Maximum : access = Register(f, v)
    BY <1>1 DEF Allowed, None, Status, Command
  <2>2. v \in Nat /\ v < Modulus /\ v >= 1
    BY GeneratorConstants
  <2>3. config' = [config EXCEPT ![f] = v]
    BY <1>1, <2>1, <2>2, SmallMod DEF MM_WRITE, Register
  <2>4. ~reg_start
    BY <2>1 DEF HandshakeInv, Register, None
  <2>5. reg_start' \in BOOLEAN /\ reg_stop' \in BOOLEAN
    BY DEF MM_WRITE
  <2>6. reg_start' => reg_state = "IDLE" /\ ~reg_start
    BY <1>1, <2>4
  <2>7. config' \in [Fields -> Lengths] /\ \A g \in Fields \ MayBeZero : config'[g] >= 1
    <3>1. v \in Lengths
      BY <2>2, GeneratorConstants DEF Lengths
    <3>2. QED
      BY <2>2, <2>3, <3>1 DEF UnitInv
  <2>8. QED
    BY <1>1, <2>4, <2>5, <2>6, <2>7
<1>2. CASE ~(access.kind = "register" /\ reg_state = "IDLE")
  <2>1. config' = config
    BY <1>2 DEF MM_WRITE
  <2>2. reg_start' => reg_state = "IDLE" /\ ~reg_start
    <3>1. Command("START") # None
      BY CommandsDiffer
    <3>2. QED
      BY <3>1 DEF MM_WRITE, HandshakeInv
  <2>3. QED
    BY <2>1, <2>2 DEF MM_WRITE, UnitInv
<1>3. QED
  BY <1>1, <1>2

\* The first line of a frame, or the blank in front of it.
LEMMA FrameStart ==
  ASSUME UnitInv, config' = config, StartOfFrame
  PROVE  /\ width_counter' \in Lengths /\ height_counter' \in Lengths
         /\ blank_counter' \in Lengths
         /\ reg_state' \in {"FRAME_LINE_BLANK", "VALID"}
         /\ CountersStop'
<1>1. 1 \in Lengths
  BY GeneratorConstants DEF Lengths
<1>2. Width >= 1 /\ Height >= 1 /\ Width \in Nat /\ Height \in Nat /\ config["frameLine"] \in Nat
  BY FieldNames DEF UnitInv, Width, Height, Lengths
<1>3. QED
  BY <1>1, <1>2 DEF StartOfFrame, Blank, Goto, FirstLine, CountersStop, UnitInv, Width, Height

\* One edge of the unit.
LEMMA UnitStep ==
  ASSUME UnitInv, HandshakeInv, NEW access, Allowed(access), MM_WRITE(access),
         access # None => quiet, STATE_LOGIC
  PROVE  UnitInv'
<1>1. /\ config' \in [Fields -> Lengths]
      /\ \A f \in Fields \ MayBeZero : config'[f] >= 1
      /\ reg_start' \in BOOLEAN /\ reg_stop' \in BOOLEAN
      /\ reg_state # "IDLE" \/ reg_start => config' = config
  BY ConfigStep
<1>2. \A x \in Lengths : (x + 1) % Modulus \in Lengths
  BY GeneratorConstants DEF Lengths
<1>3. \A x \in Lengths, y \in Lengths : x < y => (x + 1) % Modulus = x + 1
  BY SmallMod, GeneratorConstants DEF Lengths
<1>4. /\ Width \in Lengths /\ Width >= 1 /\ Height \in Lengths /\ Height >= 1
      /\ config["frameFrame"] \in Lengths /\ config["frameFrame"] >= 1
      /\ config["lineLine"] \in Lengths /\ config["lineLine"] >= 1
      /\ config["frameLine"] \in Lengths /\ config["lineFrame"] \in Lengths
  BY FieldNames DEF UnitInv, Width, Height
<1>5. 1 \in Lengths /\ \A x \in Lengths : x \in Nat
  BY GeneratorConstants DEF Lengths
<1>6. /\ width_counter \in Lengths /\ height_counter \in Lengths /\ blank_counter \in Lengths
      /\ CountersStop
      /\ reg_state = "LINE_LINE_BLANK" => height_counter \in 1..Height - 1
  BY DEF UnitInv
<1>7. config' = config => Width' = Width /\ Height' = Height
  BY DEF Width, Height
<1> DEFINE Goal ==
      /\ width_counter' \in Lengths /\ height_counter' \in Lengths
      /\ blank_counter' \in Lengths
      /\ reg_state' \in {"IDLE", "FRAME_FRAME_BLANK", "FRAME_LINE_BLANK", "VALID",
                         "LINE_LINE_BLANK", "LINE_FRAME_BLANK"}
      /\ CountersStop'
      /\ reg_state' = "LINE_LINE_BLANK" => height_counter' \in 1..Height' - 1
<1>8. ASSUME StateIdle PROVE Goal
  <2>1. CASE reg_start
    BY <1>1, <1>8, <2>1, FrameStart DEF StateIdle
  <2>2. CASE ~reg_start
    BY <1>6, <1>8, <2>2 DEF StateIdle, Goto, CountersStop
  <2>3. QED
    BY <2>1, <2>2
<1>9. ASSUME StateFrameFrameBlank PROVE Goal
  <2>1. config' = config
    BY <1>1, <1>9 DEF StateFrameFrameBlank
  <2>2. CASE StartOfFrame
    BY <2>1, <2>2, FrameStart
  <2>3. CASE ~StartOfFrame
    BY <1>2, <1>3, <1>4, <1>5, <1>6, <1>7, <1>9, <2>1, <2>3
       DEF StateFrameFrameBlank, Halt, Goto, Counted, CountersStop
  <2>4. QED
    BY <2>2, <2>3
<1>10. ASSUME StateFrameLineBlank PROVE Goal
  <2>1. config' = config
    BY <1>1, <1>10 DEF StateFrameLineBlank
  <2>2. QED
    BY <1>2, <1>3, <1>4, <1>5, <1>6, <1>7, <1>10, <2>1
       DEF StateFrameLineBlank, Halt, Goto, Counted, FirstLine, CountersStop
<1>11. ASSUME StateValid PROVE Goal
  <2>1. config' = config
    BY <1>1, <1>11 DEF StateValid
  <2>2. QED
    BY <1>2, <1>3, <1>4, <1>5, <1>6, <1>7, <1>11, <2>1
       DEF StateValid, EndOfLine, CountersStop, Width, Height
<1>12. ASSUME StateLineLineBlank PROVE Goal
  <2>1. config' = config
    BY <1>1, <1>12 DEF StateLineLineBlank
  <2>2. QED
    BY <1>2, <1>3, <1>4, <1>5, <1>6, <1>7, <1>12, <2>1
       DEF StateLineLineBlank, Halt, Goto, Counted, CountersStop
<1>13. ASSUME StateLineFrameBlank PROVE Goal
  <2>1. config' = config
    BY <1>1, <1>13 DEF StateLineFrameBlank
  <2>2. QED
    BY <1>2, <1>3, <1>4, <1>5, <1>6, <1>7, <1>13, <2>1
       DEF StateLineFrameBlank, Halt, Blank, Goto, Counted, CountersStop
<1>14. Goal
  BY <1>8, <1>9, <1>10, <1>11, <1>12, <1>13 DEF STATE_LOGIC
<1>15. QED
  BY <1>1, <1>14 DEF UnitInv, Goal

-----------------------------------------------------------------------------
\* What the driver brings to the bus.
LEMMA DriverAccess ==
  ASSUME DriverInv, NEW access, Driver(access)
  PROVE  Allowed(access) /\ (access # None => quiet)
<1>1. CASE quiet /\ WriteRegister /\ access = Register(todo[2], values[todo[2]])
  <2>1. Len(todo) \in Nat /\ Len(todo) # 0 /\ todo[1] = "write"
    BY <1>1, LenProperties, EmptySeq DEF WriteRegister, DriverInv
  <2>2. todo[2] \in Fields /\ WithinBounds(todo[2])
    BY <2>1 DEF DriverInv
  <2>3. values[todo[2]] \in Minimum..Maximum
    BY <2>2, GeneratorConstants DEF DriverInv, WithinBounds
  <2>4. QED
    BY <1>1, <2>2, <2>3 DEF Allowed
<1>2. CASE ~(quiet /\ WriteRegister /\ access = Register(todo[2], values[todo[2]]))
  BY <1>2 DEF Driver, Allowed, WriteCommand
<1>3. QED
  BY <1>1, <1>2

\* The list of configure names every register, and writes nothing by itself.
LEMMA ConfigureList ==
  /\ ConfigureSteps \in Seq(Tokens) /\ Len(ConfigureSteps) = 7
  /\ Head(ConfigureSteps) = "STOP"
  /\ \A i \in 1..7 : ConfigureSteps[i] # "write"
  /\ \A f \in Fields : \E i \in 1..7 : ConfigureSteps[i] = f
<1>1. <<"STOP">> \in Seq(Tokens) /\ Len(<<"STOP">>) = 1 /\ <<"STOP">>[1] = "STOP"
  BY DEF Tokens
<1>2. Order \in Seq(Fields) /\ Len(Order) = 6
  BY DEF Order, Fields
<1>3. Order \in Seq(Tokens)
  BY <1>2, SeqMonotonic DEF Tokens
<1>4. /\ ConfigureSteps \in Seq(Tokens) /\ Len(ConfigureSteps) = 7
      /\ \A i \in 1..7 : ConfigureSteps[i] = IF i <= 1 THEN "STOP" ELSE Order[i - 1]
  <2>1. ConfigureSteps = <<"STOP">> \o Order
    BY DEF ConfigureSteps
  <2>2. /\ <<"STOP">> \o Order \in Seq(Tokens)
        /\ Len(<<"STOP">> \o Order) = Len(<<"STOP">>) + Len(Order)
        /\ \A i \in 1..Len(<<"STOP">>) + Len(Order) : (<<"STOP">> \o Order)[i] =
             IF i <= Len(<<"STOP">>) THEN <<"STOP">>[i] ELSE Order[i - Len(<<"STOP">>)]
    BY <1>1, <1>3, ConcatProperties
  <2>3. \A i \in 1..7 : (<<"STOP">> \o Order)[i] = IF i <= 1 THEN "STOP" ELSE Order[i - 1]
    <3>1. TAKE i \in 1..7
    <3>2. i <= 1 => i = 1
      OBVIOUS
    <3>3. QED
      BY <1>1, <1>2, <2>2, <3>2
  <2>4. QED
    BY <1>1, <1>2, <2>1, <2>2, <2>3
<1>5. Head(ConfigureSteps) = ConfigureSteps[1] /\ ConfigureSteps[1] = "STOP"
  <2>1. Head(ConfigureSteps) = ConfigureSteps[1]
    BY <1>4
  <2>2. QED
    BY <1>4, <2>1
<1>6. \A i \in 1..6 : ConfigureSteps[i + 1] = Order[i]
  BY <1>4
<1>7. \A i \in 1..7 : ConfigureSteps[i] # "write"
  <2>1. \A i \in 2..7 : i - 1 \in 1..6 /\ ConfigureSteps[i] = Order[i - 1]
    BY <1>4
  <2>2. \A i \in 1..6 : Order[i] # "write"
    BY DEF Order
  <2>3. QED
    BY <1>5, <2>1, <2>2
<1>8. \A f \in Fields : \E i \in 1..7 : ConfigureSteps[i] = f
  <2>1. \A f \in Fields : \E i \in 1..6 : Order[i] = f
    BY DEF Order, Fields
  <2>2. QED
    BY <1>6, <2>1
<1>9. QED
  BY <1>4, <1>5, <1>7, <1>8

\* The rest of a list of accesses, without its first one.
LEMMA Rest ==
  ASSUME DriverInv, todo # <<>>
  PROVE  /\ Tail(todo) \in Seq(Tokens) /\ Len(Tail(todo)) \in Nat /\ Len(todo) \in Nat
         /\ Len(Tail(todo)) = Len(todo) - 1
         /\ \A i \in 1..Len(Tail(todo)) : Tail(todo)[i] = todo[i + 1] /\ Tail(todo)[i] # "write"
         /\ Head(todo) = todo[1]
<1>1. /\ Tail(todo) \in Seq(Tokens) /\ Len(Tail(todo)) = Len(todo) - 1
      /\ \A i \in 1..Len(Tail(todo)) : Tail(todo)[i] = todo[i + 1]
  BY HeadTailProperties DEF DriverInv
<1>2. Len(Tail(todo)) \in Nat /\ Len(todo) \in Nat
  BY <1>1, LenProperties DEF DriverInv
<1>3. \A i \in 1..Len(Tail(todo)) : i + 1 \in 1..Len(todo) /\ i + 1 # 1
  BY <1>1, <1>2
<1>4. QED
  BY <1>1, <1>2, <1>3 DEF DriverInv

\* When a register is written two accesses are crossed off: the write, and
\* the register's name.
LEMMA RestOfWrite ==
  ASSUME DriverInv, todo # <<>>, Head(todo) = "write"
  PROVE  /\ Tail(Tail(todo)) \in Seq(Tokens) /\ Len(Tail(Tail(todo))) \in Nat
         /\ Len(Tail(Tail(todo))) = Len(todo) - 2 /\ Len(todo) \in Nat /\ Len(todo) >= 2
         /\ todo[1] = "write" /\ todo[2] \in Fields /\ WithinBounds(todo[2])
         /\ \A i \in 1..Len(Tail(Tail(todo))) :
              Tail(Tail(todo))[i] = todo[i + 2] /\ Tail(Tail(todo))[i] # "write"
<1>1. todo[1] = "write" /\ Len(todo) \in Nat /\ Len(todo) # 0
  BY Rest, EmptySeq DEF DriverInv
<1>2. Len(todo) >= 2 /\ todo[2] \in Fields /\ WithinBounds(todo[2])
  BY <1>1 DEF DriverInv
<1>3. Len(Tail(todo)) = Len(todo) - 1 /\ Tail(todo) \in Seq(Tokens) /\ Tail(todo) # <<>>
  <2>1. Len(Tail(todo)) = Len(todo) - 1 /\ Tail(todo) \in Seq(Tokens)
    BY Rest
  <2>2. Len(Tail(todo)) # 0
    BY <1>1, <1>2, <2>1
  <2>3. QED
    BY <2>1, <2>2, EmptySeq
<1>4. /\ Tail(Tail(todo)) \in Seq(Tokens) /\ Len(Tail(Tail(todo))) = Len(Tail(todo)) - 1
      /\ \A i \in 1..Len(Tail(Tail(todo))) : Tail(Tail(todo))[i] = Tail(todo)[i + 1]
  BY <1>3, HeadTailProperties
<1>5. \A i \in 1..Len(Tail(Tail(todo))) : i + 1 \in 1..Len(Tail(todo)) /\ (i + 1) + 1 = i + 2
  BY <1>1, <1>3, <1>4
<1>6. \A i \in 1..Len(Tail(Tail(todo))) :
        Tail(Tail(todo))[i] = todo[i + 2] /\ Tail(Tail(todo))[i] # "write"
  BY <1>4, <1>5, Rest
<1>7. QED
  BY <1>1, <1>2, <1>3, <1>4, <1>6

\* The calls of a program.
LEMMA NextCall ==
  ASSUME DriverInv, program # <<>>
  PROVE  /\ Tail(program) \in Seq(Calls)
         /\ Head(program).what = "CONFIGURE" => Head(program).values \in [Fields -> Nat]
         /\ Head(program).what # "CONFIGURE" => Head(program).what \in {"START", "STOP"}
<1>1. Head(program) \in Calls /\ Tail(program) \in Seq(Calls)
  BY HeadTailProperties DEF DriverInv
<1>2. QED
  BY <1>1 DEF Calls, Configures, Start, Stop

LEMMA DriverStep ==
  ASSUME DriverInv, NEW access, Driver(access)
  PROVE  DriverInv'
<1>1. CASE BeginCall
  <2>1. CASE Head(program).what = "CONFIGURE"
    BY <1>1, <2>1, NextCall, ConfigureList DEF BeginCall, Driver, DriverInv
  <2>2. CASE Head(program).what # "CONFIGURE"
    <3>1. todo' = <<Head(program).what>> /\ values' = values /\ success' = success
          /\ program' = Tail(program) /\ program # <<>>
      BY <1>1, <2>2 DEF BeginCall
    <3>2. todo' \in Seq(Tokens) /\ Len(todo') = 1 /\ todo'[1] # "write"
      BY <2>2, <3>1, NextCall DEF Tokens
    <3>3. program' \in Seq(Calls) /\ values' \in [Fields -> Nat] /\ success' \in BOOLEAN
      BY <3>1, NextCall DEF DriverInv
    <3>4. quiet' \in BOOLEAN
      BY DEF Driver
    <3>5. \A i \in 1..Len(todo') : todo'[i] # "write"
      BY <3>2
    <3>6. QED
      BY <3>2, <3>3, <3>4, <3>5 DEF DriverInv
  <2>3. QED
    BY <2>1, <2>2
<1>2. CASE todo # <<>> /\ todo' = Tail(todo) /\ UNCHANGED <<program, values>>
           /\ success' \in {success, FALSE}
  <2>1. todo' \in Seq(Tokens) /\ \A i \in 1..Len(todo') : todo'[i] # "write"
    BY <1>2, Rest
  <2>2. program' \in Seq(Calls) /\ values' \in [Fields -> Nat] /\ success' \in BOOLEAN
    BY <1>2 DEF DriverInv
  <2>3. quiet' \in BOOLEAN
    BY DEF Driver
  <2>4. QED
    BY <2>1, <2>2, <2>3 DEF DriverInv
<1>3. CASE ReadStatus /\ reg_state = "IDLE"
  <2>1. todo # <<>> /\ Head(todo) \in Fields /\ WithinBounds(Head(todo))
        /\ todo' = <<"write">> \o todo /\ UNCHANGED <<program, values, success>>
    BY <1>3 DEF ReadStatus
  <2>2. <<"write">> \in Seq(Tokens) /\ Len(<<"write">>) = 1 /\ <<"write">>[1] = "write"
    BY DEF Tokens
  <2>3. todo \in Seq(Tokens) /\ Len(todo) \in Nat /\ Len(todo) # 0 /\ todo[1] = Head(todo)
    BY <2>1, Rest, EmptySeq DEF DriverInv
  <2>4. /\ todo' \in Seq(Tokens) /\ Len(todo') = Len(todo) + 1
        /\ \A i \in 1..Len(todo) + 1 : todo'[i] = IF i <= 1 THEN "write" ELSE todo[i - 1]
    BY <2>1, <2>2, <2>3, ConcatProperties
  <2>5. \A i \in 1..Len(todo) : todo[i] # "write"
    <3>1. Head(todo) # "write"
      BY <2>1 DEF Fields
    <3>2. QED
      BY <2>3, <3>1 DEF DriverInv
  <2>6. todo'[2] = Head(todo)
    BY <2>3, <2>4
  <2>7. \A i \in 1..Len(todo') : todo'[i] = "write" => i = 1
    BY <2>3, <2>4, <2>5
  <2>8. values' = values /\ todo'[2] \in Fields
        /\ Minimum <= values'[todo'[2]] /\ values'[todo'[2]] <= Maximum /\ Len(todo') >= 2
    BY <2>1, <2>3, <2>4, <2>6 DEF WithinBounds
  <2>9. program' \in Seq(Calls) /\ values' \in [Fields -> Nat] /\ success' \in BOOLEAN
    BY <2>1 DEF DriverInv
  <2>10. quiet' \in BOOLEAN
    BY DEF Driver
  <2>11. QED
    BY <2>4, <2>7, <2>8, <2>9, <2>10 DEF DriverInv, WithinBounds
<1>4. CASE WriteRegister
  <2>1. todo # <<>> /\ Head(todo) = "write" /\ todo' = Tail(Tail(todo))
        /\ UNCHANGED <<program, values, success>>
    BY <1>4 DEF WriteRegister
  <2>2. todo' \in Seq(Tokens) /\ \A i \in 1..Len(todo') : todo'[i] # "write"
    BY <2>1, RestOfWrite
  <2>3. QED
    BY <2>1, <2>2 DEF Driver, DriverInv
<1>5. CASE UNCHANGED <<program, values, todo, success, commanded>>
  BY <1>5 DEF Driver, DriverInv, WithinBounds
<1>6. QED
  BY <1>1, <1>2, <1>3, <1>4, <1>5
     DEF Driver, WriteCommand, Refuse, ReadStatus, Done

\* A stop that is pending, like an idle unit without a start, ends in IDLE.
LEMMA StaysIdle ==
  ASSUME STATE_LOGIC, ~reg_start, reg_stop \/ reg_state = "IDLE"
  PROVE  reg_state' = "IDLE"
BY DEF STATE_LOGIC, StateIdle, StateFrameFrameBlank, StateFrameLineBlank, StateValid,
       StateLineLineBlank, StateLineFrameBlank, Halt, Goto

\* Two neighbouring edges never both carry an access, which is why a command
\* is over before the next one, and a unit found idle still is when written.
LEMMA HandshakeStep ==
  ASSUME DriverInv, HandshakeInv, NEW access, Driver(access), MM_WRITE(access), STATE_LOGIC
  PROVE  HandshakeInv'
<1>1. Allowed(access) /\ (access # None => quiet)
  BY DriverAccess
<1>2. /\ reg_start' = (access = Command("START") /\ reg_state = "IDLE")
      /\ reg_stop' = (access = Command("STOP") /\ reg_state # "IDLE")
  BY DEF MM_WRITE
<1>3. quiet' => access = None
  BY DEF Driver
<1>4. quiet' => ~reg_start' /\ ~reg_stop'
  BY <1>2, <1>3, CommandsDiffer
<1>5. access # None => ~reg_start /\ ~reg_stop
  BY <1>1 DEF HandshakeInv
<1>6. \/ /\ quiet /\ WriteCommand /\ access = Command(Head(todo))
         /\ commanded' = Head(todo) /\ Head(todo) \in {"START", "STOP"}
      \/ commanded' = commanded
           /\ access \notin {Command("START"), Command("STOP")}
  <2>1. \A c : Status # Command(c) /\ None # Command(c)
    <3>1. \A c : Command(c).kind = "command"
      BY DEF Command
    <3>2. Status.kind = "status" /\ None.kind = "none"
      BY DEF Status, None
    <3>3. QED
      BY <3>1, <3>2
  <2>2. \A c, f, v : Register(f, v) # Command(c)
    <3>1. \A c : Command(c).kind = "command"
      BY DEF Command
    <3>2. \A f, v : Register(f, v).kind = "register"
      BY DEF Register
    <3>3. QED
      BY <3>1, <3>2
  <2>3. QED
    BY <2>1, <2>2 DEF Driver, BeginCall, Refuse, WriteCommand, ReadStatus, WriteRegister
<1>7. reg_start' => commanded' = "START" /\ reg_state' = "IDLE"
  <2> SUFFICES ASSUME reg_start' PROVE commanded' = "START" /\ reg_state' = "IDLE"
    OBVIOUS
  <2>1. access = Command("START") /\ reg_state = "IDLE"
    BY <1>2
  <2>2. commanded' = Head(todo) /\ Command(Head(todo)) = Command("START")
        /\ Head(todo) \in {"START", "STOP"}
    BY <1>6, <2>1
  <2>3. ~reg_start
    BY <1>5, <2>1, CommandsDiffer
  <2>4. QED
    BY <2>1, <2>2, <2>3, StaysIdle, CommandsDiffer
<1>8. commanded' = "STOP" => reg_stop' \/ reg_state' = "IDLE"
  <2> SUFFICES ASSUME commanded' = "STOP" PROVE reg_stop' \/ reg_state' = "IDLE"
    OBVIOUS
  <2>1. CASE access = Command("STOP")
    <3>1. ~reg_start
      BY <1>5, <2>1, CommandsDiffer
    <3>2. QED
      BY <1>2, <2>1, <3>1, StaysIdle
  <2>2. CASE commanded = "STOP"
    BY <2>2, StaysIdle DEF HandshakeInv
  <2>3. QED
    BY <1>6, <2>1, <2>2
<1>9. Writing' => reg_state = "IDLE" /\ ~reg_start /\ access # Command("START")
  <2>1. CASE UNCHANGED todo /\ access = None
    BY <2>1, CommandsDiffer DEF Writing, HandshakeInv
  <2>2. CASE BeginCall
    <3>1. CASE Head(program).what = "CONFIGURE"
      BY <2>2, <3>1, ConfigureList DEF BeginCall, Writing
    <3>2. CASE Head(program).what # "CONFIGURE"
      <4>1. todo' = <<Head(program).what>> /\ Head(program).what # "write"
        BY <2>2, <3>2, NextCall DEF BeginCall
      <4>2. QED
        BY <4>1 DEF Writing
    <3>3. QED
      BY <3>1, <3>2
  <2>3. CASE todo # <<>> /\ todo' = Tail(todo)
    <3>1. todo' # <<>> => Head(todo') = todo'[1] /\ todo'[1] # "write"
      <4>1. todo' \in Seq(Tokens) /\ \A i \in 1..Len(todo') : todo'[i] # "write"
        BY <2>3, Rest
      <4>2. todo' # <<>> => Len(todo') \in Nat /\ Len(todo') # 0
        BY <4>1, EmptySeq, LenProperties
      <4>3. QED
        BY <4>1, <4>2
    <3>2. QED
      BY <3>1 DEF Writing
  <2>4. CASE quiet /\ ReadStatus /\ reg_state = "IDLE" /\ access = Status
    <3>1. access # Command("START")
      BY <1>6, <2>4 DEF WriteCommand, ReadStatus, Fields
    <3>2. QED
      BY <2>4, <3>1 DEF HandshakeInv
  <2>5. CASE WriteRegister
    <3>1. todo # <<>> /\ Head(todo) = "write" /\ todo' = Tail(Tail(todo))
      BY <2>5 DEF WriteRegister
    <3>2. todo' \in Seq(Tokens) /\ \A i \in 1..Len(todo') : todo'[i] # "write"
      BY <3>1, RestOfWrite
    <3>3. todo' # <<>> => Len(todo') \in Nat /\ Len(todo') # 0
      BY <3>2, EmptySeq, LenProperties
    <3>4. QED
      BY <3>2, <3>3 DEF Writing
  <2>6. QED
    BY <2>1, <2>2, <2>3, <2>4, <2>5
       DEF Driver, Refuse, WriteCommand, ReadStatus, Done
<1>10. Writing' => reg_state' = "IDLE" /\ ~reg_start'
  BY <1>2, <1>9, StaysIdle
<1>11. QED
  BY <1>4, <1>7, <1>8, <1>10 DEF HandshakeInv

\* A register that is crossed off the list has its value.
LEMMA ConfigureStep ==
  ASSUME DriverInv, HandshakeInv, ConfigureInv, UnitInv,
         NEW access, Driver(access), MM_WRITE(access)
  PROVE  ConfigureInv'
<1> SUFFICES ASSUME success', NEW f \in Fields
             PROVE  config'[f] = values'[f] \/ Listed(f)'
  BY DEF ConfigureInv
<1>1. access.kind # "register" => config' = config
  BY DEF MM_WRITE
<1>2. None.kind = "none" /\ Status.kind = "status" /\ \A c : Command(c).kind = "command"
  BY DEF None, Status, Command
<1>3. CASE UNCHANGED <<values, todo, success>> /\ access = None
  BY <1>1, <1>2, <1>3 DEF ConfigureInv, Listed
<1>4. CASE BeginCall /\ access = None
  <2>1. CASE Head(program).what = "CONFIGURE"
    <3>1. todo' = ConfigureSteps
      BY <1>4, <2>1 DEF BeginCall
    <3>2. QED
      BY <3>1, ConfigureList DEF Listed
  <2>2. CASE Head(program).what # "CONFIGURE"
    <3>1. todo = <<>> /\ UNCHANGED <<values, success>>
      BY <1>4, <2>2 DEF BeginCall
    <3>2. ~Listed(f)
      BY <3>1, EmptySeq DEF Listed
    <3>3. QED
      BY <1>1, <1>2, <1>4, <3>1, <3>2 DEF ConfigureInv
  <2>3. QED
    BY <2>1, <2>2
<1>5. CASE WriteCommand /\ access = Command(Head(todo))
  <2>1. todo # <<>> /\ Head(todo) # f /\ todo' = Tail(todo) /\ UNCHANGED <<values, success>>
    BY <1>5 DEF WriteCommand, Done, Fields
  <2>2. Listed(f) => Listed(f)'
    <3>1. ASSUME NEW i \in 1..Len(todo), todo[i] = f
          PROVE  i - 1 \in 1..Len(todo') /\ todo'[i - 1] = f
      <4>1. i # 1
        BY <2>1, <3>1, Rest
      <4>2. i - 1 \in 1..Len(todo') /\ i - 1 + 1 = i
        BY <2>1, <4>1, Rest
      <4>3. QED
        BY <2>1, <3>1, <4>2, Rest
    <3>2. QED
      BY <3>1 DEF Listed
  <2>3. QED
    BY <1>1, <1>2, <1>5, <2>1, <2>2 DEF ConfigureInv
<1>6. CASE ReadStatus /\ access = Status
  <2>1. todo # <<>> /\ todo' = <<"write">> \o todo /\ UNCHANGED <<values, success>>
    BY <1>6 DEF ReadStatus
  <2>2. Listed(f) => Listed(f)'
    <3>1. <<"write">> \in Seq(Tokens) /\ Len(<<"write">>) = 1
      BY DEF Tokens
    <3>2. /\ Len(todo') = 1 + Len(todo) /\ Len(todo) \in Nat
          /\ \A i \in 1..1 + Len(todo) :
               todo'[i] = IF i <= 1 THEN <<"write">>[i] ELSE todo[i - 1]
      BY <2>1, <3>1, ConcatProperties, LenProperties DEF DriverInv
    <3>3. \A i \in 1..Len(todo) : i + 1 \in 1..Len(todo') /\ todo'[i + 1] = todo[i]
      BY <3>2
    <3>4. QED
      BY <3>3 DEF Listed
  <2>3. QED
    BY <1>1, <1>2, <1>6, <2>1, <2>2 DEF ConfigureInv
<1>7. CASE WriteRegister /\ access = Register(todo[2], values[todo[2]])
  <2>1. todo # <<>> /\ Head(todo) = "write" /\ todo' = Tail(Tail(todo))
        /\ UNCHANGED <<values, success>>
    BY <1>7 DEF WriteRegister
  <2>2. todo[2] \in Fields /\ values[todo[2]] \in Nat /\ values[todo[2]] < Modulus
    <3>1. todo[2] \in Fields /\ WithinBounds(todo[2])
      BY <2>1, RestOfWrite
    <3>2. QED
      BY <3>1, GeneratorConstants DEF WithinBounds, DriverInv
  <2>3. config' = [config EXCEPT ![todo[2]] = values[todo[2]]]
    BY <1>7, <2>1, <2>2, SmallMod DEF MM_WRITE, Register, HandshakeInv, Writing
  <2>4. CASE f = todo[2]
    BY <2>1, <2>2, <2>3, <2>4 DEF UnitInv
  <2>5. CASE f # todo[2]
    <3>1. config'[f] = config[f]
      BY <2>3, <2>5 DEF UnitInv
    <3>2. Listed(f) => Listed(f)'
      <4>1. ASSUME NEW i \in 1..Len(todo), todo[i] = f
            PROVE  i - 2 \in 1..Len(todo') /\ todo'[i - 2] = f
        <5>1. todo[1] # f
          BY <2>1, RestOfWrite DEF Fields
        <5>2. i # 1 /\ i # 2
          BY <2>5, <4>1, <5>1
        <5>3. i - 2 \in 1..Len(todo') /\ i - 2 + 2 = i
          BY <2>1, <5>2, RestOfWrite
        <5>4. QED
          BY <2>1, <4>1, <5>3, RestOfWrite
      <4>2. QED
        BY <4>1 DEF Listed
    <3>3. QED
      BY <2>1, <3>1, <3>2 DEF ConfigureInv
  <2>6. QED
    BY <2>4, <2>5
<1>8. QED
  BY <1>3, <1>4, <1>5, <1>6, <1>7 DEF Driver, Refuse, ReadStatus

-----------------------------------------------------------------------------
LEMMA GeneratorInvInit == CaptureInit => GeneratorInv
<1> SUFFICES ASSUME CaptureInit PROVE GeneratorInv
  OBVIOUS
<1> USE DEF CaptureInit, GeneratorInit
<1>1. 0 \in Lengths /\ 1 \in Lengths
  BY GeneratorConstants DEF Lengths
<1>2. UnitInv
  <2>1. config \in [Fields -> Lengths]
    BY <1>1 DEF ResetConfig
  <2>2. \A f \in Fields \ MayBeZero : config[f] >= 1
    BY DEF ResetConfig, MayBeZero
  <2>3. CountersStop
    BY DEF CountersStop
  <2>4. QED
    BY <1>1, <2>1, <2>2, <2>3 DEF UnitInv
<1>3. DriverInv
  <2>1. program \in Seq(Calls)
    BY GeneratorConstants DEF Calls
  <2>2. values \in [Fields -> Nat]
    BY DEF ResetConfig
  <2>3. todo \in Seq(Tokens) /\ Len(todo) = 0
    BY EmptySeq
  <2>4. QED
    BY <2>1, <2>2, <2>3 DEF DriverInv
<1>4. HandshakeInv
  BY DEF HandshakeInv, Writing
<1>5. ConfigureInv
  BY DEF ConfigureInv
<1>6. QED
  BY <1>2, <1>3, <1>4, <1>5 DEF GeneratorInv

LEMMA GeneratorInvStep == GeneratorInv /\ [CaptureNext]_captureVars => GeneratorInv'
<1>1. ASSUME GeneratorInv, UNCHANGED generatorVars PROVE GeneratorInv'
  BY <1>1 DEF GeneratorInv, UnitInv, DriverInv, HandshakeInv, ConfigureInv, Writing, Listed,
              WithinBounds, CountersStop, Width, Height, generatorVars, unitVars, driverVars
<1>2. ASSUME GeneratorInv, GeneratorEdge PROVE GeneratorInv'
  <2>1. PICK access : MM_WRITE(access) /\ STATE_LOGIC /\ Driver(access)
    BY <1>2 DEF GeneratorEdge
  <2>2. Allowed(access) /\ (access # None => quiet)
    BY <1>2, <2>1, DriverAccess DEF GeneratorInv
  <2>3. UnitInv'
    BY <1>2, <2>1, <2>2, UnitStep DEF GeneratorInv
  <2>4. DriverInv'
    BY <1>2, <2>1, DriverStep DEF GeneratorInv
  <2>5. HandshakeInv'
    BY <1>2, <2>1, HandshakeStep DEF GeneratorInv
  <2>6. ConfigureInv'
    BY <1>2, <2>1, ConfigureStep DEF GeneratorInv
  <2>7. QED
    BY <2>3, <2>4, <2>5, <2>6 DEF GeneratorInv
<1>3. CaptureNext => GeneratorEdge \/ UNCHANGED generatorVars
  BY DEF CaptureNext, PixelClock, FpgaClock
<1>4. UNCHANGED captureVars => UNCHANGED generatorVars
  BY DEF captureVars
<1>5. QED
  BY <1>1, <1>2, <1>3, <1>4

LEMMA GeneratorKeepsInv == CaptureSpec => []GeneratorInv
BY GeneratorInvInit, GeneratorInvStep, PTL DEF CaptureSpec

\* Registers, counters and states of the generator stay typed.
THEOREM GeneratorTyped == CaptureSpec => []GeneratorTypeOK
<1>1. GeneratorInv => GeneratorTypeOK
  BY DEF GeneratorInv, UnitInv, DriverInv, GeneratorTypeOK
<1>2. QED
  BY <1>1, GeneratorKeepsInv, PTL

\* The frame counters, which stop on equality, never pass their ends.
THEOREM CountersNeverMiss == CaptureSpec => []CountersStop
<1>1. GeneratorInv => CountersStop
  BY DEF GeneratorInv, UnitInv
<1>2. QED
  BY <1>1, GeneratorKeepsInv, PTL

\* A stop is obeyed within two edges, whatever the unit was doing.
THEOREM StopsAreHeard == CaptureSpec => []StopIsHeard
<1>1. GeneratorInv => StopIsHeard
  BY DEF GeneratorInv, HandshakeInv, StopIsHeard
<1>2. QED
  BY <1>1, GeneratorKeepsInv, PTL

\* A configure that reports success has written all six registers.
THEOREM ConfiguresAreDone == CaptureSpec => []ConfigureIsDone
<1>1. ASSUME GeneratorInv, todo = <<>>, success PROVE config = values
  <2>1. \A f \in Fields : ~Listed(f)
    BY <1>1, EmptySeq DEF Listed
  <2>2. \A f \in Fields : config[f] = values[f]
    BY <1>1, <2>1 DEF GeneratorInv, ConfigureInv
  <2>3. config \in [Fields -> Lengths] /\ values \in [Fields -> Nat]
    BY <1>1 DEF GeneratorInv, UnitInv, DriverInv
  <2>4. QED
    BY <2>2, <2>3
<1>2. GeneratorInv => ConfigureIsDone
  BY <1>1 DEF ConfigureIsDone
<1>3. QED
  BY <1>2, GeneratorKeepsInv, PTL

=============================================================================
