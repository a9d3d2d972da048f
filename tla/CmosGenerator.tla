---------------------------- MODULE CmosGenerator ----------------------------
(***************************************************************************)
(* The CMOS sensor output generator and its driver:                        *)
(* cmos_sensor_output_generator.vhd, a source of frames that stands in for *)
(* the camera, and cmos_sensor_output_generator.c, which configures,       *)
(* starts and stops it through six registers, a command and a status.      *)
(*                                                                         *)
(* One step is one rising edge of clk, at which the driver may make one    *)
(* access; two accesses of the driver are never made at neighbouring       *)
(* edges.  The counters of the four blanks are one: each is set to 1 when  *)
(* its blank begins and is not looked at elsewhere.                        *)
(*                                                                         *)
(* A definition named Faulty... is a variant of the one below it, with a   *)
(* bug that one of the properties has to notice; nothing else uses it.     *)
(***************************************************************************)
EXTENDS Integers, Sequences

CONSTANTS
  Minimum,    \* ..._CONFIG_..._MIN of the driver (3 in the code, for all six)
  Maximum,    \* max(max_width, max_height)
  Modulus,    \* 2^CONFIG_REG_WIDTH: the registers and the counters wrap here
  Programs    \* the sequences of driver calls that a program may make

Fields == {"width", "height", "frameFrame", "frameLine", "lineLine", "lineFrame"}

\* The calls of the driver; cmos_sensor_output_generator_init is a configure
\* with the minimums.
Configures   == [what : {"CONFIGURE"}, values : [Fields -> Nat]]
Configure(v) == [what |-> "CONFIGURE", values |-> v]
Init         == Configure([f \in Fields |-> Minimum])
Start        == [what |-> "START"]
Stop         == [what |-> "STOP"]

ASSUME GeneratorConstants ==
  /\ Minimum \in Nat \ {0} /\ Maximum \in Nat /\ Modulus \in Nat
  /\ Minimum <= Maximum /\ Maximum < Modulus
  /\ Programs \subseteq Seq(Configures \cup {Start, Stop})

VARIABLES
  config,                    \* the six ..._config registers
  reg_start, reg_stop,
  reg_state,
  width_counter, height_counter, blank_counter,
  program,                   \* the calls that are still to come
  values,                    \* those that the last configure is to write
  todo,                      \* the accesses that the call still has to make
  success,                   \* the result of configure, so far
  commanded,                 \* the last command written
  quiet                      \* no access was made at the last edge

unitVars      == <<config, reg_start, reg_stop, reg_state,
                   width_counter, height_counter, blank_counter>>
driverVars    == <<program, values, todo, success, commanded, quiet>>
generatorVars == <<unitVars, driverVars>>

\* What the bus brings to the unit at an edge.
None           == [kind |-> "none"]
Status         == [kind |-> "status"]
Command(c)     == [kind |-> "command", what |-> c]
Register(f, v) == [kind |-> "register", field |-> f, value |-> v]

ResetConfig == [f \in Fields |-> IF f \in {"frameLine", "lineFrame"} THEN 0 ELSE 1]

GeneratorInit ==
  /\ config = ResetConfig
  /\ reg_start = FALSE /\ reg_stop = FALSE
  /\ reg_state = "IDLE"
  /\ width_counter = 0 /\ height_counter = 0 /\ blank_counter = 0
  /\ program \in Programs
  /\ values = ResetConfig /\ todo = <<>> /\ success = TRUE
  /\ commanded = "STOP" /\ quiet = TRUE

-----------------------------------------------------------------------------
(* The unit: registers, outputs, frame state machine.                      *)

MM_WRITE(access) ==
  /\ reg_start' = (access = Command("START") /\ reg_state = "IDLE")
  /\ reg_stop' = (access = Command("STOP") /\ reg_state # "IDLE")
  /\ config' = IF access.kind = "register" /\ reg_state = "IDLE"
               THEN [config EXCEPT ![access.field] = access.value % Modulus]
               ELSE config

frame_valid == reg_state \notin {"IDLE", "FRAME_FRAME_BLANK"}
line_valid  == reg_state = "VALID"

\* In a line, the number of the pixel in the frame.
data == IF line_valid
        THEN (height_counter - 1) * config["width"] + width_counter - 1
        ELSE 0

Goto(s) == reg_state' = s /\ UNCHANGED <<width_counter, height_counter>>

Blank(s) == Goto(s) /\ blank_counter' = 1

FirstLine ==
  /\ reg_state' = "VALID"
  /\ width_counter' = 1 /\ height_counter' = 1

StartOfFrame ==
  \/ config["frameLine"] > 0 /\ Blank("FRAME_LINE_BLANK")
  \/ config["frameLine"] = 0 /\ FirstLine /\ UNCHANGED blank_counter

StateIdle ==
  /\ reg_state = "IDLE"
  /\ \/ reg_start /\ StartOfFrame
     \/ ~reg_start /\ Goto("IDLE") /\ UNCHANGED blank_counter

Counted == blank_counter' = (blank_counter + 1) % Modulus

Halt == reg_stop /\ Goto("IDLE")

StateFrameFrameBlank ==
  /\ reg_state = "FRAME_FRAME_BLANK"
  /\ \/ Halt /\ Counted
     \/ ~reg_stop /\ blank_counter = config["frameFrame"] /\ StartOfFrame
     \/ ~reg_stop /\ blank_counter # config["frameFrame"] /\ Goto(reg_state) /\ Counted

StateFrameLineBlank ==
  /\ reg_state = "FRAME_LINE_BLANK"
  /\ Counted
  /\ \/ Halt
     \/ ~reg_stop /\ blank_counter = config["frameLine"] /\ FirstLine
     \/ ~reg_stop /\ blank_counter # config["frameLine"] /\ Goto(reg_state)

EndOfLine == width_counter = config["width"]

StateValid ==
  /\ reg_state = "VALID"
  /\ width_counter' = (width_counter + 1) % Modulus
  /\ UNCHANGED height_counter
  /\ \/ /\ reg_stop \/ ~EndOfLine
        /\ reg_state' = IF reg_stop THEN "IDLE" ELSE "VALID"
        /\ UNCHANGED blank_counter
     \/ /\ ~reg_stop /\ EndOfLine
        /\ reg_state' = IF height_counter < config["height"] THEN "LINE_LINE_BLANK"
                        ELSE IF config["lineFrame"] > 0 THEN "LINE_FRAME_BLANK"
                        ELSE "FRAME_FRAME_BLANK"
        /\ blank_counter' = 1

FaultyStateLineLineBlank ==
  /\ reg_state = "LINE_LINE_BLANK"
  /\ Counted
  /\ \/ /\ blank_counter = config["lineLine"]
        /\ reg_state' = "VALID"
        /\ width_counter' = 1 /\ height_counter' = height_counter + 1
     \/ blank_counter # config["lineLine"] /\ Goto(reg_state)

StateLineLineBlank ==
  /\ reg_state = "LINE_LINE_BLANK"
  /\ Counted
  /\ \/ Halt
     \/ /\ ~reg_stop /\ blank_counter = config["lineLine"]
        /\ reg_state' = "VALID"
        /\ width_counter' = 1 /\ height_counter' = (height_counter + 1) % Modulus
     \/ ~reg_stop /\ blank_counter # config["lineLine"] /\ Goto(reg_state)

StateLineFrameBlank ==
  /\ reg_state = "LINE_FRAME_BLANK"
  /\ \/ Halt /\ Counted
     \/ /\ ~reg_stop /\ blank_counter = config["lineFrame"]
        /\ Blank("FRAME_FRAME_BLANK")
     \/ ~reg_stop /\ blank_counter # config["lineFrame"] /\ Goto(reg_state) /\ Counted

STATE_LOGIC ==
  \/ StateIdle
  \/ StateFrameFrameBlank
  \/ StateFrameLineBlank
  \/ StateValid
  \/ StateLineLineBlank
  \/ StateLineFrameBlank

-----------------------------------------------------------------------------
(* The driver.  A call is the list of its accesses; a register that is out *)
(* of bounds, or a unit that is not idle, makes configure fail but go on.  *)

Order == <<"width", "height", "frameFrame", "frameLine", "lineLine", "lineFrame">>

ConfigureSteps == <<"STOP">> \o Order

FaultyWithinBounds(f) == values[f] <= Maximum

WithinBounds(f) == Minimum <= values[f] /\ values[f] <= Maximum

Done == todo' = Tail(todo)

BeginCall ==
  LET c == Head(program)
  IN  /\ todo = <<>> /\ program # <<>>
      /\ program' = Tail(program)
      /\ IF c.what = "CONFIGURE"
         THEN values' = c.values /\ todo' = ConfigureSteps /\ success' = TRUE
         ELSE todo' = <<c.what>> /\ UNCHANGED <<values, success>>
      /\ UNCHANGED commanded

WriteCommand ==
  /\ todo # <<>> /\ Head(todo) \in {"START", "STOP"}
  /\ Done
  /\ commanded' = Head(todo)
  /\ UNCHANGED <<program, values, success>>

\* is_idle, then the write or the next register.
ReadStatus ==
  /\ todo # <<>> /\ Head(todo) \in Fields
  /\ WithinBounds(Head(todo))
  /\ IF reg_state = "IDLE"
     THEN todo' = <<"write">> \o todo /\ UNCHANGED success
     ELSE Done /\ success' = FALSE
  /\ UNCHANGED <<program, values, commanded>>

Refuse ==
  /\ todo # <<>> /\ Head(todo) \in Fields
  /\ ~WithinBounds(Head(todo))
  /\ Done /\ success' = FALSE
  /\ UNCHANGED <<program, values, commanded>>

FaultyWriteRegister ==
  /\ todo # <<>> /\ Head(todo) = "write"
  /\ todo' = Tail(Tail(todo))
  /\ success' = TRUE
  /\ UNCHANGED <<program, values, commanded>>

WriteRegister ==
  /\ todo # <<>> /\ Head(todo) = "write"
  /\ todo' = Tail(Tail(todo))
  /\ UNCHANGED <<program, values, success, commanded>>

\* The driver's step and the access that goes with it.
Driver(access) ==
  \/ access = None /\ UNCHANGED <<program, values, todo, success, commanded>> /\ quiet' = TRUE
  \/ access = None /\ (BeginCall \/ Refuse) /\ quiet' = TRUE
  \/ quiet /\ WriteCommand /\ access = Command(Head(todo)) /\ quiet' = FALSE
  \/ quiet /\ ReadStatus /\ access = Status /\ quiet' = FALSE
  \/ /\ quiet /\ WriteRegister /\ quiet' = FALSE
     /\ access = Register(todo[2], values[todo[2]])

Accesses ==
  {None, Status, Command("START"), Command("STOP")}
    \cup (IF todo # <<>> /\ Head(todo) = "write"
          THEN {Register(todo[2], values[todo[2]])} ELSE {})

GeneratorEdge ==
  \E access \in Accesses : MM_WRITE(access) /\ STATE_LOGIC /\ Driver(access)

=============================================================================
