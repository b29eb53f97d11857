------------------------------ MODULE MCVbsTx ------------------------------
(* VbsTx for TLC: one non-zero value per field is enough to tell an old    *)
(* field from a new one in a mixed copy.                                   *)
EXTENDS VbsTx

CONSTANTS zero, a

MCZero == zero
MCVal == {zero, a}

(* memcpy and memset go up the struct, and next_turn writes the road       *)
(* before the glyph: all three follow the order of the members.            *)
MCFieldOrder ==
    LET members == <<"road", "icon", "dist", "lanes">>
    IN  {<<members[i], members[j]>> : <<i, j>> \in {p \in (1..4) \X (1..4) : p[1] < p[2]}}
=============================================================================
