---------------------------- MODULE MCC352Voices ----------------------------
(* The words the CPU writes: a key-on, a key-off that leaves the voice     *)
(* running until the execute, a word that clears everything.               *)
EXTENDS C352Voices

Word(set) == [b \in Bits |-> b \in set]
const_CpuFlags == {Word({"KEYON"}), Word({"BUSY", "KEYOFF"}), Word({})}
const_Latch    == {"V0", "E0"}
const_Free     == {}
=============================================================================
