-------------------------------- MODULE MCOtp --------------------------------
(* A chip cut down to twelve of its words: HARD_LOCK, LIFECYCLE, the word   *)
(* of the boot options, one word of each identity and key region, two of    *)
(* the debug key and one of the user range.                                 *)
EXTENDS OtpFactory

MCWords == {0, 1, 8, 12, 13, 24, 32, 80, 88, 96, 112}

(* A value whose only bit is the lock bit of the debug key's region, so     *)
(* that a word taken for HARD_LOCK makes a difference, and zero.            *)
MCValues == {{}, {3}}

MCFiles == {
  << <<12, {3}>>, <<13, {5}>>, <<>> >>,          \* a debug key and a blank line
  << <<13, {4}>>, <<12, {6}>>, <<13, {5}>> >>,   \* another key, word 13 twice
  << <<96, {7}>> >>,                             \* the EXIP key
  << <<80, {6}>>, <<32, {9}>> >>,                \* a hash word and a user word
  << <<32, {9}>> >>,                             \* the factory file
  << <<0, {28, 29}>> >>                          \* HARD_LOCK by hand
}
===============================================================================
