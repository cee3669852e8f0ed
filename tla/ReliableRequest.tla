--------------------------- MODULE ReliableRequest ---------------------------
(***************************************************************************)
(* What a user of hpmtool's command() relies on: requests are made one     *)
(* after the other; the chip executes each at most once and only in its    *)
(* turn, and a request that returns HPM_OK has been executed.  One event   *)
(* ends the promise: while it connects over a serial port the tool may     *)
(* repeat a request whose answer is still to come.                         *)
(***************************************************************************)
EXTENDS Integers, Sequences

VARIABLES turn,     \* the request being made; 0 while connecting
          executed, \* the requests the chip has carried out
          results,  \* what the requests so far returned
          trusted   \* no answer of an earlier request can still come

reqVars == <<turn, executed, results, trusted>>

Init == turn \in {0, 1} /\ executed = {} /\ results = <<>> /\ trusted = TRUE

Connect == /\ turn = 0 /\ turn' = 1
           /\ UNCHANGED <<executed, results, trusted>>

LoseTrust == /\ turn = 0 /\ trusted' = FALSE
             /\ UNCHANGED <<turn, executed, results>>

Execute == /\ turn # 0
           /\ executed \subseteq executed'
           /\ trusted => turn \notin executed /\ executed' = executed \cup {turn}
           /\ UNCHANGED <<turn, results, trusted>>

Return(r) == /\ turn # 0
             /\ (r = "ok" /\ trusted) => turn \in executed
             /\ results' = Append(results, r)
             /\ turn' = turn + 1
             /\ UNCHANGED <<executed, trusted>>

Next == Connect \/ LoseTrust \/ Execute \/ \E r \in {"ok", "error"} : Return(r)

Spec == Init /\ [][Next]_reqVars
=============================================================================
