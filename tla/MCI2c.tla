------------------------------- MODULE MCI2c --------------------------------
(***************************************************************************)
(* A small I2C bus: bytes of three bits, so that a byte has a first, a     *)
(* middle and a last one; a device with one register, two contents for it. *)
(***************************************************************************)
EXTENDS I2c

AddrWrite == <<1, 0, 0>>
AddrRead  == <<1, 0, 1>>
OneIndex  == {<<0, 1, 1>>}
TwoWords  == {<< <<0, 1, 0>>, <<1, 1, 0>> >>, << <<1, 0, 1>>, <<0, 0, 1>> >>}

=============================================================================
