----------------------------- MODULE CheckJson -----------------------------
(***************************************************************************)
(* tools/check_json.py: what the Pocket's firmware would refuse in a       *)
(* core's JSON files, found before it does.  The files are visited one by  *)
(* one, in the order of os.walk; then each core that has an Analogizer     *)
(* menu is looked at as a whole.                                           *)
(*                                                                         *)
(* A file is [dir, base, for, ok, size, keys, magic, entries]: `for' the  *)
(* core an instance JSON belongs to, ok that it parses, keys those of its  *)
(* object, magic whether the one under its only key is right, entries the  *)
(* array below.  A name stands for its length; a hexadecimal number is     *)
(* the set of its bits, NotHex if it is none; an address is "word"         *)
(* (0xF7000000), "x", "y", "width", another of "0xF70000.." or elsewhere.  *)
(***************************************************************************)
EXTENDS Integers, Sequences, FiniteSets, Functions

CONSTANTS
  Packages,    \* sequences of files
  Actives,     \* what --active gives: None, Malformed, or a <<width, height>>
  NAME_MAX, OPTS_MAX, SIZE_MAX, TOTAL_OPTS_MAX, VARS_MAX, ENTRIES_MAX,
  None, Malformed, NotHex

(* A package is a sequence of files; what is listed in one, a menu, its    *)
(* options or a data file's slots, is a sequence.                          *)
ASSUME PackageAssumption ==
  \A p \in Packages :
    /\ p \in Seq(Range(p))
    /\ \A f \in Range(p) :
         /\ f.base = "interact.json" => \A x \in Range(f.entries) : x.options \in Seq(Range(x.options))
         /\ f.entries \in Seq(Range(f.entries))

VARIABLES files, active, checking, at, faults
jsonVars == <<files, active, checking, at, faults>>

MAGIC == {"core.json", "data.json", "input.json", "interact.json", "variants.json", "audio.json", "video.json"}

JsonInit == files \in Packages /\ active \in Actives /\ checking = "args" /\ at = 1 /\ faults = {}

Exit(code) == checking' = code /\ UNCHANGED <<files, active, at, faults>>
Args == checking = "args" /\ Exit(IF active = Malformed \/ files = <<>> THEN "exit 2" ELSE "files")

-----------------------------------------------------------------------------
Visible(f, key) == f.ok /\ key \in f.keys
Siblings(f, base) == {g \in Range(files) : g.dir = f.dir /\ g.base = base}
Faults(f, rules) == faults' = faults \cup {<<f.dir, f.base, r>> : r \in rules}

General(f) == (IF f.size > SIZE_MAX THEN {"size"} ELSE {})
              \cup (IF f.base \in MAGIC /\ (Cardinality(f.keys) # 1 \/ ~f.magic) THEN {"magic"} ELSE {})

Hex(n)      == n # NotHex /\ n # None
Values(x)   == {x.options[i].value : i \in DOMAIN x.options} \cup {x.value}
IsInt(n)    == n # None /\ n # NotHex
Sum(f)      == FoldFunction(+, 0, f)
SlotCount(f) == IF \E g \in Siblings(f, "data.json") : Visible(g, "data")
                  THEN Len((CHOOSE g \in Siblings(f, "data.json") : TRUE).entries) ELSE 0

RuleOf(rule, broken) == IF broken THEN {rule} ELSE {}
ListRules(x) ==
  RuleOf("empty list", x.options = <<>>)
  \cup RuleOf("default", ~IsInt(x.defaultval) \/ x.defaultval \notin 0 .. (IF x.options = <<>> THEN 0 ELSE Len(x.options) - 1))
  \cup RuleOf("options", Len(x.options) > OPTS_MAX)
  \cup RuleOf("option", \E i \in DOMAIN x.options : LET o == x.options[i] IN o.name = None \/ o.value = None \/ o.name > NAME_MAX)
SliderRules(x) ==
  RuleOf("slider", ~(IsInt(x.min) /\ IsInt(x.max) /\ IsInt(x.defaultval)) \/ ~(x.min <= x.defaultval /\ x.defaultval <= x.max))
UnseenNext(v, i) == i > 1 /\ v[i - 1].id = v[i].id      \* fault variant: only the neighbour is remembered
Seen(v, i)       == \E j \in 1 .. i - 1 : v[j].id = v[i].id
VariableRules(v, i) ==
  LET x == v[i] IN
  RuleOf("bit 31", \E n \in Values(x) : Hex(n) /\ 31 \in n)
  \cup RuleOf("id", Seen(v, i)) \cup RuleOf("name", x.name > NAME_MAX)
  \cup (IF x.type = "list" THEN ListRules(x) ELSE {})
  \cup (IF x.type = "slider_u32" THEN SliderRules(x) ELSE {})
  \cup RuleOf("address", x.type # "action" /\ x.address = None)
InteractRules(f) ==
  RuleOf("variables", Len(f.entries) > VARS_MAX)
  \cup RuleOf("entries", Len(f.entries) + SlotCount(f) > ENTRIES_MAX)
  \cup RuleOf("total", Sum([i \in DOMAIN f.entries |-> Len(f.entries[i].options)]) > TOTAL_OPTS_MAX)
  \cup UNION {VariableRules(f.entries, i) : i \in DOMAIN f.entries}

VideoRules(f) == IF active = None THEN {"unchecked"} ELSE RuleOf("scaler", \E i \in DOMAIN f.entries : f.entries[i] # active)

(* A required slot without a file: the instances must each name it.        *)
InstancesOf(f) == {g \in Range(files) : g.for = f.dir}
Unnamed(s)     == s.required /\ s.filename = None /\ ~s.takes_json
Names(g, id)   == \E i \in DOMAIN g.entries : g.entries[i].id = id /\ g.entries[i].filename # None
NoneNamed(f, s) == InstancesOf(f) = {} \/ \A g \in InstancesOf(f) : ~Names(g, s.id)    \* fault variant: one instance is enough
NotNamed(f, s)  == InstancesOf(f) = {} \/ \E g \in InstancesOf(f) : ~Names(g, s.id)
DataRules(f) ==
  RuleOf("slot id", \E i \in DOMAIN f.entries : Seen(f.entries, i))
  \cup RuleOf("required", \E i \in DOMAIN f.entries : Unnamed(f.entries[i]) /\ NotNamed(f, f.entries[i]))

(* Looking up a key that is not there ends the program.                    *)
Raises(f) ==
  \/ f.base = "interact.json" /\ "interact" \notin f.keys
  \/ f.base = "video.json" /\ active # None /\ "video" \notin f.keys
  \/ f.base = "data.json" /\ "data" \notin f.keys
  \/ /\ f.base = "data.json" /\ \E i \in DOMAIN f.entries : Unnamed(f.entries[i])
     /\ \E g \in InstancesOf(f) : ~Visible(g, "instance")

Rules(f) ==
  General(f) \cup (CASE f.base = "interact.json" -> InteractRules(f)
                     [] f.base = "video.json" -> VideoRules(f)
                     [] f.base = "data.json" -> DataRules(f)
                     [] OTHER -> {})

Visiting == checking = "files" /\ at <= Len(files)
NextFile == at' = at + 1 /\ UNCHANGED <<files, active, checking>>
Unparsed == Visiting /\ ~files[at].ok /\ Faults(files[at], {"json"}) /\ NextFile
Visit    == Visiting /\ files[at].ok /\ ~Raises(files[at]) /\ Faults(files[at], Rules(files[at])) /\ NextFile
Raise    == Visiting /\ files[at].ok /\ Raises(files[at]) /\ Exit("raised")
Visited  == checking = "files" /\ at > Len(files) /\ Exit("cores")

-----------------------------------------------------------------------------
Has(dir, base, key) == \E g \in Range(files) : g.dir = dir /\ g.base = base /\ Visible(g, key)
File(dir, base)     == CHOOSE g \in Range(files) : g.dir = dir /\ g.base = base
Cores == {dir \in {f.dir : f \in Range(files)} :
            Has(dir, "core.json", "core") /\ Has(dir, "data.json", "data") /\ Has(dir, "interact.json", "interact")}
Menu(dir)   == Range(File(dir, "interact.json").entries)
Ana(dir)    == {v \in Menu(dir) : v.address = "word"}
Loaded(dir) == {s \in Range(File(dir, "data.json").entries) : s.filename = "analogizer.bin" \/ s.address = "word"}

(* What an entry at 0xF7000000 may write, those without a number left out. *)
Writes(v) == {n \in {v.options[i].value : i \in DOMAIN v.options} \cup (IF v.type = "action" THEN {} ELSE {v.value}) : Hex(n)}
Masked(dir) == {v \in Ana(dir) : Hex(v.mask)}
Enabled(dir) == \E v \in Masked(dir) : \E n \in Writes(v) : 5 \in n /\ 5 \notin v.mask
OrZero(n)    == IF n = None THEN 0 ELSE n
Position(v)  == v.type = "slider_u32" /\ v.signed /\ OrZero(v.min) \in -127 .. 0 /\ OrZero(v.max) \in 0 .. 127
Analogizer(dir) ==
  RuleOf("slot at the word", Loaded(dir) # {})
  \cup RuleOf("no mask", Masked(dir) # Ana(dir))
  \cup RuleOf("outside the mask", \E v \in Masked(dir) : \E n \in Writes(v) : n \cap v.mask # {})
  \cup RuleOf("not read", \E v \in Menu(dir) : v.address = "0xF70000..")
  \cup RuleOf("position", \E v \in Menu(dir) : v.address \in {"x", "y", "width"} /\ ~Position(v))
  \cup RuleOf("width", \E v \in Menu(dir) : v.address = "width" /\ OrZero(v.min) < -50)
  \cup RuleOf("never on", Ana(dir) # {} /\ ~Enabled(dir))
  \cup RuleOf("no power", File(dir, "core.json").entries # <<0>>)

CheckCores ==
  /\ checking = "cores" /\ checking' = "verdict"
  /\ faults' = faults \cup UNION {{<<dir, "Analogizer", r>> : r \in Analogizer(dir)} : dir \in {d \in Cores : Ana(d) \cup Loaded(d) # {}}}
  /\ UNCHANGED <<files, active, at>>
Verdict == checking = "verdict" /\ Exit(IF faults # {} THEN "exit 1" ELSE "exit 0")

JsonOver == checking \in {"exit 0", "exit 1", "exit 2", "raised"}
JsonNext == Args \/ Unparsed \/ Visit \/ Raise \/ Visited \/ CheckCores \/ Verdict \/ (JsonOver /\ UNCHANGED jsonVars)
JsonSpec == JsonInit /\ [][JsonNext]_jsonVars

-----------------------------------------------------------------------------
(* The Pocket, as the script's header tells of it: it finds an entry by    *)
(* its id, selects a list's option by its default, asks for the file of a  *)
(* slot of the instance in use, and writes the word at 0xF7000000 under an *)
(* entry's mask, whose bits it keeps.                                      *)
Written(w, n, mask) == (w \cap mask) \cup n
Found(v, id) == v[CHOOSE i \in DOMAIN v : v[i].id = id]
MenuWorks(v) ==
  \A i \in DOMAIN v : /\ Found(v, v[i].id) = v[i] /\ Cardinality({j \in DOMAIN v : v[j].id = v[i].id}) = 1
                      /\ v[i].type = "list" => v[i].defaultval + 1 \in DOMAIN v[i].options
SlotsWork(f) ==
  \A i \in DOMAIN f.entries : LET s == f.entries[i] IN
    /\ Found(f.entries, s.id) = s
    /\ s.required /\ ~s.takes_json => s.filename # None \/ (InstancesOf(f) # {} /\ \A g \in InstancesOf(f) : Names(g, s.id))
WordWorks(dir) ==
  LET bits == UNION ({n : n \in UNION {Writes(v) : v \in Ana(dir)}} \cup {v.mask : v \in Ana(dir)})
  IN  /\ \A v \in Ana(dir) : \A n \in Writes(v) : \A w \in SUBSET bits : Written(w, n, v.mask) \cap v.mask = w \cap v.mask
      /\ \E v \in Ana(dir) : \E n \in Writes(v) : \A w \in SUBSET bits : 5 \in Written(w, n, v.mask)

(* What it finds nothing against works, whatever order the files came in:  *)
(* each menu entry and slot is reached, each required file is named in     *)
(* every instance, and no entry of the Analogizer's word undoes another    *)
(* entry's bits, one of them turning the adapter on (check_json.py 17-49). *)
PassedWorks ==
  checking = "exit 0" =>
    /\ \A f \in Range(files) : /\ f.ok
                               /\ f.base = "interact.json" => MenuWorks(f.entries)
                               /\ f.base = "data.json" => SlotsWork(f)
                               /\ f.base = "video.json" => \A i \in DOMAIN f.entries : f.entries[i] = active
    /\ \A dir \in Cores : Ana(dir) # {} => WordWorks(dir) /\ File(dir, "core.json").entries = <<0>>
=============================================================================
