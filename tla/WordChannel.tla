----------------------------- MODULE WordChannel -----------------------------
(***************************************************************************)
(* What the clock crossing promises: pixels go in one by one and come out  *)
(* as words of two, each once and in order, until everything is cleared.   *)
(***************************************************************************)
EXTENDS Sequences, Integers

VARIABLES
  inFlight,   \* the pixels on their way
  word        \* the word delivered at the last edge of the receiver, or <<>>

channelVars == <<inFlight, word>>

ChannelInit == inFlight = <<>> /\ word = <<>>

Put ==
  /\ Len(inFlight') = Len(inFlight) + 1
  /\ SubSeq(inFlight', 1, Len(inFlight)) = inFlight
  /\ UNCHANGED word

Deliver ==
  /\ Len(inFlight) >= 2
  /\ word' = SubSeq(inFlight, 1, 2)
  /\ inFlight' = SubSeq(inFlight, 3, Len(inFlight))

Rest == word' = <<>> /\ UNCHANGED inFlight

Clear == inFlight' = <<>> /\ word' = <<>>

ChannelNext == Put \/ Deliver \/ Rest \/ Clear

ChannelSpec == ChannelInit /\ [][ChannelNext]_channelVars

=============================================================================
