-------------------------------- MODULE VarInt --------------------------------
(***************************************************************************)
(* rv of tools/verify_profile_vectors.py, byte by byte: how validate_      *)
(* candidate reads the counts and lengths of a serialized block.           *)
(***************************************************************************)
EXTENDS Integers, Sequences

CONSTANTS
  Lengths,         \* counts and lengths that a block may hold, below 2^16
  Following        \* what may follow one, sequences of bytes

VARIABLES length, bytes, pos, n, shift, outcome

vars == <<length, bytes, pos, n, shift, outcome>>

\* A length in the network's serialization.
CompactSize(m) == IF m < 253 THEN <<m>> ELSE <<253, m % 256, m \div 256>>

Init ==
  /\ length \in Lengths
  /\ \E f \in Following : bytes = CompactSize(length) \o f
  /\ pos = 0 /\ n = 0 /\ shift = 0 /\ outcome = "reading"

Readable == pos < Len(bytes) /\ shift <= 63

\* Seven bits, the least first, and whether more follow.
ReadByte ==
  /\ outcome = "reading" /\ Readable
  /\ LET x == bytes[pos + 1]
     IN /\ n' = n + (x % 128) * 2^shift
        /\ shift' = shift + 7
        /\ outcome' = IF x >= 128 THEN "reading" ELSE "read"
  /\ pos' = pos + 1
  /\ UNCHANGED <<length, bytes>>

Refuse ==
  /\ outcome = "reading" /\ ~Readable
  /\ outcome' = "varint"
  /\ UNCHANGED <<length, bytes, pos, n, shift>>

Next == ReadByte \/ Refuse

Spec == Init /\ [][Next]_vars
-------------------------------------------------------------------------------
(* "serialized_block is exact consensus serialization": every length that a block of  *)
(* the network holds is read as what it is.                                            *)
ReadsConsensusLengths ==
  outcome # "reading" => outcome = "read" /\ n = length
===============================================================================
