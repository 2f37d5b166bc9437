------------------------------ MODULE TrainCmd ------------------------------
(***************************************************************************)
(* deliverCmd of train_cmd.c: from the words of a line to the message for  *)
(* the train center.  A line is <<command, first word, second word>>.  A   *)
(* word that names a number is that number, one that names a landmark is   *)
(* <<letters, number>>, and tr_atoi makes -1 of every other one (Junk).    *)
(***************************************************************************)
EXTENDS Integers, Sequences, Track

Junk     == -1
Rejected == [type |-> "rejected", id |-> -1, value |-> -1]

\* The nodes of a switch: the first one of its kind, and which of a pair the
\* letters name; then those of an end of the track.
\* (Mutant: the switches in the middle follow switch 18.)
SwitchLandmarkInRow(index, side) ==
    IF index <= 18 THEN 80 + (index - 1) * 2 + side
    ELSE IF index \in 153 .. 156 THEN 116 + (index - 152) * 2 + side
    ELSE Junk

SwitchLandmark(index, side) ==
    IF index <= 18 THEN 80 + (index - 1) * 2 + side
    ELSE IF index \in 153 .. 156 THEN 116 + (index - 153) * 2 + side
    ELSE Junk

EndLandmark(index, side) ==
    IF index <= 5 THEN 124 + (index - 1) * 2 + side
    ELSE IF index = 7 THEN 134 + side
    ELSE IF index \in {9, 10} THEN 136 + (index - 9) * 2 + side
    ELSE Junk

Decoders == <<"A", "B", "C", "D", "E">>

\* The index of the landmark a word names.  Nothing looks at how large the
\* number of a sensor is: A17 is B1.
Landmark(word) ==
    LET letters == word[1]
        number  == word[2]
    IN  CASE \E i \in 1 .. 5 : Decoders[i] = letters ->
                (CHOOSE i \in 1 .. 5 : Decoders[i] = letters) * 16 - 16 + number - 1
          [] letters = "BR" -> SwitchLandmark(number, 0)
          [] letters = "MR" -> SwitchLandmark(number, 1)
          [] letters = "EN" -> EndLandmark(number, 0)
          [] letters = "EX" -> EndLandmark(number, 1)
          [] OTHER          -> Junk

\* A field that the code leaves as it was is 0: nothing reads it.
Message(type, id, value) == [type |-> type, id |-> id, value |-> value]

deliverCmd(line) ==
    LET cmd    == line[1]
        first  == line[2]
        second == line[3]
    IN  CASE cmd = "tr" /\ first >= 0 /\ second \in (0 .. 30) \ {15} ->
                Message("CMD_SPEED", first, second)
          [] cmd = "rv" /\ first >= 0 -> Message("CMD_REVERSE", first, 0)
          [] cmd = "sw" /\ first >= 0 /\ second \in {"C", "S"} ->
                Message("CMD_SWITCH", first, IF second = "C" THEN SWITCH_CUR ELSE SWITCH_STR)
          [] cmd = "to" /\ Landmark(second) \in 0 .. TRACK_MAX - 1 ->
                Message("CMD_GOTO", first, Landmark(second))
          [] cmd = "mg" -> Message("CMD_MARGIN", first, second)
          [] cmd = "set" /\ Landmark(second) # Junk ->
                Message("CMD_SET", first, Landmark(second))
          [] cmd = "ob" /\ first >= 0 /\ second \in 0 .. 4 ->
                Message("CMD_ORBIT", first, second)
          [] cmd = "q" -> Message("CMD_QUIT", 0, 0)
          [] OTHER -> Rejected
=============================================================================
