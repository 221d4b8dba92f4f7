----------------------------- MODULE CarryReplay ------------------------------
(***************************************************************************)
(* What a history of credits says of the remainders they were paid from.   *)
(* Each recipient has a remainder below one unit; a credit adds the        *)
(* calculated amount to it and pays whole units, keeping the rest.  From   *)
(* every opening remainder the credits are replayed in order, and those    *)
(* from which they cannot have been paid drop out.                         *)
(***************************************************************************)
EXTENDS Integers

CONSTANTS Recipients, Unit

VARIABLES credits, replayed, remainders
vars == <<credits, replayed, remainders>>

Remainder == 0..(Unit - 1)

Init ==
  /\ credits = {} /\ replayed = {}
  /\ remainders = [r \in Recipients |-> Remainder]

Load ==
  /\ credits = {} /\ replayed = {}
  /\ \A c \in credits' : c.address \in Recipients
  /\ UNCHANGED <<replayed, remainders>>

Replay ==
  /\ \E c \in credits \ replayed :
       /\ replayed' = replayed \union {c}
       /\ remainders' = [remainders EXCEPT ![c.address] =
            {y \in Remainder :
               \E x \in @ : y = x + c.calculated - c.credited}]
  /\ UNCHANGED credits

Next == Load \/ Replay

Spec == Init /\ [][Next]_vars
===============================================================================
