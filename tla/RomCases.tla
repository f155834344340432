------------------------------- MODULE RomCases -------------------------------
(* For RomVerify: every slice of two regions, and an image that is right,   *)
(* has one byte wrong, or is cut short.                                     *)
EXTENDS Integers, Sequences, TLC

Main  == <<11, 12, 13, 14, 15, 16>>
Tiles == <<21, 22, 23, 24, 0, 25, 26, 27, 28, 0>>
Built == Main \o <<21, 22, 23, 24, 25, 26, 27, 28>>
MCPacked == ":tiles"
MCLayout == (":main" :> [at |-> 0, length |-> 6]) @@ (":tiles" :> [at |-> 6, length |-> 10])
Heading(tag, off) == [kind |-> "slice", tag |-> tag, off |-> off]
Bytes(data) == [kind |-> "bytes", data |-> data]
Note == [kind |-> "other"]
Cuts(tag, region) == {<<Heading(tag, a - 1), Bytes(SubSeq(region, a, b))>> : a \in 1 .. Len(region), b \in 1 .. Len(region)}
Slices == {c \in Cuts(":main", Main) \cup Cuts(":tiles", Tiles) : c[2].data # <<>>}
MCDumps == {<<Note>> \o c \o <<Note, Heading(":tiles", 3), Bytes(<<24, 0, 25>>)>> : c \in Slices}
           \cup {<<Note>>, <<Heading(":main", 0)>>, <<Heading(":eeprom", 0), Bytes(<<1>>)>>, <<Heading(":main", 0), Note>>}
MCImages == {Built} \cup {[Built EXCEPT ![i] = 0] : i \in DOMAIN Built} \cup {SubSeq(Built, 1, n) : n \in {4, 8, 13}}
=============================================================================
