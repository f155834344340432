------------------------------ MODULE PackCases ------------------------------
(* Trees for Packager: with ROMs in either case, ignored directories, an    *)
(* old bitstream, or something missing.                                     *)
EXTENDS Integers, Sequences, FiniteSets

CONSTANTS Missing

Core == <<"Cores", "id">>
Slot == <<"Assets", "common">>
Inst == <<"Assets", "id">>
Both == {"vol1.json", "vol2.json"}
Dirs(f) == UNION {{SubSeq(p, 1, n) : n \in 1 .. Len(p) - 1} : p \in f}
Tree(files, more) == [dirs |-> Dirs(files) \cup more, files |-> [p \in files |-> IF p[Len(p)] \in {"bitstream.rbf_r"} THEN <<7>> ELSE <<Len(p)>>]]
Good == {Append(Core, "core.json"), Append(Inst, "vol1.json"), Append(Inst, "vol2.json"), Append(Slot, "README")}
Odd  == {Append(Slot, "a.rom"), Append(Slot, "A.ROM"), Append(Slot, ".DS_Store"), <<"Cores", "old.zip", "core.json">>, Append(Core, "bitstream.rbf_r"), <<"x.mra">>}
MCTrees == {Tree(Good \cup s, {}) : s \in {t \in SUBSET Odd : Cardinality(t) <= 2}}
           \cup {Tree((Good \ {p}) \cup s, {}) : p \in Good, s \in {{}, {Append(Slot, "a.rom")}}}
           \cup {Tree(Good \ {Append(Slot, "README")}, {Slot})}
MCOld == {Missing, Tree({Append(Slot, "a.rom"), Append(Core, "stale.json")}, {})}
MCRbfs == {Missing, <<1, 18>>}
MCExtras == {[p \in {} |-> <<>>], [p \in {<<"x.mra">>} |-> <<99>>]}
=============================================================================
