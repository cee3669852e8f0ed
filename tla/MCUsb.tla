-------------------------------- MODULE MCUsb --------------------------------
(* Two adapters with one IN endpoint each, one of which also has an OUT     *)
(* endpoint; two URBs, two channels, two echo ids.                          *)
EXTENDS UsbCapture

Rec(d, e, ty, u, st, p) == [dev |-> d, ep |-> e, type |-> ty, urb |-> u, status |-> st, len |-> 512, payload |-> p]
Fr(c, e) == [ch |-> c, echo |-> e, dlc |-> 8, fits |-> TRUE]
Odd(c, e) == [ch |-> c, echo |-> e, dlc |-> 16, fits |-> TRUE]
Cut(c, e) == [ch |-> c, echo |-> e, dlc |-> 8, fits |-> FALSE]

MCRecords == {
  Rec(1, 129, "S", "u", 0, <<>>),
  Rec(1, 129, "C", "u", 0, << Fr(0, -1), Fr(0, 7), Fr(1, 7), Cut(1, 7) >>),
  Rec(1, 129, "C", "u", -71, << Fr(0, 7) >>),
  Rec(1, 129, "C", "v", 0, << Odd(1, 7), Fr(0, 7) >>),
  Rec(1, 1, "S", "u", 0, << Fr(0, 7), Fr(1, 7) >>),
  Rec(1, 1, "C", "u", 0, <<>>),
  Rec(2, 129, "S", "u", 0, <<>>),
  Rec(2, 129, "E", "u", -19, <<>>)
}
===============================================================================
