------------------------------ MODULE JsonCases ------------------------------
(* Packages for CheckJson: the one of pkg/pocket in small, each of its      *)
(* files with one thing wrong in turn, in two orders.                       *)
EXTENDS Integers, Sequences, SequencesExt

CONSTANTS None, Malformed, NotHex

Opt(name, value) == [name |-> name, value |-> value]
Var(id, type, address) == [id |-> id, name |-> 5, type |-> type, address |-> address, options |-> <<>>, value |-> None,
                           defaultval |-> 0, mask |-> None, min |-> None, max |-> None, signed |-> FALSE]
On     == [Var(1, "list", "word") EXCEPT !.options = <<Opt(3, {}), Opt(4, {5})>>, !.mask = {0, 1, 31}]
Wide   == [Var(2, "check", "word") EXCEPT !.value = {0, 1}, !.mask = {5, 31}]
Left   == [Var(3, "slider_u32", "x") EXCEPT !.min = -20, !.max = 20, !.signed = TRUE]
Narrow == [Left EXCEPT !.id = 4, !.address = "width"]
Restart == [Var(0, "action", "elsewhere") EXCEPT !.value = {0}]
Menu0  == <<Restart, On, Wide, Left, Narrow>>
Menus  == {Menu0, [Menu0 EXCEPT ![2] = [Var(1, "list", "elsewhere") EXCEPT !.options = <<Opt(3, {}), Opt(4, {1})>>], ![3].address = "elsewhere"],
  [Menu0 EXCEPT ![4].id = 1], [Menu0 EXCEPT ![5].id = 3], [Menu0 EXCEPT ![2].defaultval = 2], [Menu0 EXCEPT ![2].defaultval = -1],
  [Menu0 EXCEPT ![2].defaultval = NotHex], [Menu0 EXCEPT ![2].options = <<>>], [Menu0 EXCEPT ![2].name = 9],
  [Menu0 EXCEPT ![2].options[1].name = 9], [Menu0 EXCEPT ![2].options[1].value = None], [Menu0 EXCEPT ![2].options[2].value = NotHex],
  [Menu0 EXCEPT ![2].options[2].value = {5, 31}], [Menu0 EXCEPT ![2].options[2].value = {5, 1}], [Menu0 EXCEPT ![2].options = @ \o @],
  [Menu0 EXCEPT ![2].mask = {0, 1, 5}], [Menu0 EXCEPT ![2].mask = None], [Menu0 EXCEPT ![3].mask = {0}], [Menu0 EXCEPT ![2].options[2].value = {6}],
  [Menu0 EXCEPT ![4].defaultval = 21], [Menu0 EXCEPT ![4].min = NotHex, ![4].address = "elsewhere"], [Menu0 EXCEPT ![4].signed = FALSE],
  [Menu0 EXCEPT ![4].min = -128], [Menu0 EXCEPT ![5].min = -51], [Menu0 EXCEPT ![4].address = "0xF70000.."], [Menu0 EXCEPT ![3].address = None],
  Menu0 \o <<Var(7, "check", "elsewhere"), Var(8, "check", "elsewhere")>>, Append(Menu0, Var(7, "check", "elsewhere")), SubSeq(Menu0, 3, 5)}

Slot(id, required, filename, takes_json) == [id |-> id, required |-> required, filename |-> filename, takes_json |-> takes_json, address |-> None]
Slots0 == <<Slot(0, TRUE, None, TRUE), Slot(1, TRUE, None, FALSE), Slot(2, FALSE, None, FALSE)>>
SlotSets == {Slots0, [Slots0 EXCEPT ![3].id = 0], [Slots0 EXCEPT ![3].required = TRUE], [Slots0 EXCEPT ![2].filename = "one.rom"],
             [Slots0 EXCEPT ![3].filename = "analogizer.bin"], [Slots0 EXCEPT ![3].address = "word"], <<>>}

File0(dir, base, for, keys, entries) == [dir |-> dir, base |-> base, for |-> for, ok |-> TRUE, size |-> 9, keys |-> keys, magic |-> TRUE, entries |-> entries]
Inst0(base, ids) == [File0("Assets", base, "Core", {"instance"}, [i \in 1 .. Len(ids) |-> Slot(ids[i], FALSE, "one.rom", FALSE)]) EXCEPT !.magic = FALSE]
Package(core, data, menu, video, insts) ==
  <<File0("Core", "core.json", None, {"core"}, core), File0("Core", "data.json", None, {"data"}, data),
    File0("Core", "interact.json", None, {"interact"}, menu), File0("Core", "video.json", None, {"video"}, video)>> \o insts
Inst1 == <<Inst0("vol1.json", <<1>>), Inst0("vol2.json", <<0, 1>>)>>
InstSets == {Inst1, <<>>, <<Inst0("vol1.json", <<1>>), Inst0("vol2.json", <<2>>)>>, [Inst1 EXCEPT ![2].keys = {"other"}], [Inst1 EXCEPT ![1].ok = FALSE]}
Modes0 == <<<<640, 256>>>>
Right  == Package(<<0>>, Slots0, Menu0, Modes0, Inst1)
NoBits == [Menu0 EXCEPT ![2] = [Var(1, "check", "elsewhere") EXCEPT !.value = {}], ![3].address = "elsewhere"]
Built  == {Package(<<0>>, Slots0, m, Modes0, s) : m \in Menus, s \in InstSets}
          \cup {Package(c, d, NoBits, v, s) : c \in {<<0>>, <<1>>}, d \in SlotSets, v \in {Modes0, Append(Modes0, <<320, 224>>)}, s \in InstSets}
Spoilt == {[Right EXCEPT ![i].ok = FALSE] : i \in 1 .. 4} \cup {[Right EXCEPT ![i].magic = FALSE] : i \in 1 .. 4}
          \cup {[Right EXCEPT ![i].keys = k] : i \in 1 .. 4, k \in {{"none"}, {"data", "interact", "video", "core"}}}
          \cup {[Right EXCEPT ![i].size = 99] : i \in 1 .. 6}
MCPackages == Built \cup Spoilt \cup {Reverse(p) : p \in Built} \cup {<<>>}
MCActives == {None, Malformed, <<640, 256>>}
=============================================================================
