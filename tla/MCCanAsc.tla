------------------------------ MODULE MCCanAsc ------------------------------
(* Two identifiers that alternate on one channel, one alone on another.     *)
EXTENDS CanAsc
MCIds == { [ch |-> 0, id |-> 1, period |-> 2, phase |-> 0],
            [ch |-> 0, id |-> 2, period |-> 2, phase |-> 1],
            [ch |-> 1, id |-> 3, period |-> 2, phase |-> 0] }
===============================================================================
