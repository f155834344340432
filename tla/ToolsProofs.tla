----------------------------- MODULE ToolsProofs -----------------------------
(***************************************************************************)
(* Proofs about the scripts and the reference model.                       *)
(*                                                                         *)
(* Packager, for any trees, any sets of names and any number of runs,      *)
(* stopped ones among them.  What is promised of a package that is         *)
(* reported says nothing of the one that is being made.  Checks follows    *)
(* what the backstops have seen so far; Contents follows what the release  *)
(* directory holds after each step, as an expression of pkg/pocket, the    *)
(* bitstream and the extras alone: so nothing of an earlier run can be in  *)
(* it.                                                                     *)
(*                                                                         *)
(* CheckJson, for any packages: Inspected follows the files that have been *)
(* visited, and what the rules leave over is what PassedWorks promises.    *)
(*                                                                         *)
(* C352Path, for any number of voices, any ROM and any log of writes: at   *)
(* every step of a walk the RTL's registers are those of the model's loop  *)
(* at the same voice (PathInv), though the model has already finished it.  *)
(*                                                                         *)
(* RomVerify, for any layout, any dumps and any images: RomInv follows the *)
(* manifest as a numbering of the dump's headings, and the counts as a     *)
(* verdict on its first entries; what verify_rom.py reads of a region is   *)
(* what the region holds, by GroupsInRow.                                  *)
(*                                                                         *)
(* Png, for any pictures, palettes and filters: PngInv says that both      *)
(* decoders hold the first y lines of the picture; a line is got back by   *)
(* Unfilters, for it satisfies a recursion that only one function does.    *)
(* ReportInv adds that the frame comes through a PPM and a written PNG as   *)
(* it is (PpmTaken, WrittenRead), and what a report says of both pictures.  *)
(*                                                                         *)
(* MraBuild, for any descriptions and romsets: the image so far is the     *)
(* nodes that were taken, each where it starts (Made); an interleave lays  *)
(* every byte where its digit says (WovenHolds), because the digits of the *)
(* maps divide a word among its parts.                                     *)
(***************************************************************************)
EXTENDS RomVerify, Packager, CheckJson, C352Path, Png, MraBuild, SequenceTheorems, FiniteSetTheorems, WellFoundedInduction, TLAPS

Checks ==
  /\ packaging \in {"instances", "sweep", "packaged"} => Entries(SlotDir) # {}
  /\ packaging \in {"sweep", "packaged"} => \A name \in Instances : Append(InstDir, name) \in Entries(InstDir)
  /\ packaging = "packaged" => strays = {}

(* A package that is reported holds no ROM, a ROM folder that is not empty  *)
(* and both instances (package-pocket.py 45-62).                            *)
THEOREM NoRomShippedCorrect == PackSpec => []NoRomShipped
<1>1. PackInit => Checks
  BY DEF PackInit, Checks
<1>2. Checks /\ [PackNext]_packVars => Checks'
  <2> SUFFICES ASSUME Checks, [PackNext]_packVars PROVE Checks'
    OBVIOUS
  <2>1. CASE FindRbf
    BY <2>1 DEF FindRbf, Ends, Checks
  <2>2. CASE Remove \/ Copytree \/ WriteBitstream \/ CopyExtras
    BY <2>2 DEF Remove, Copytree, WriteBitstream, CopyExtras, Then, Ends, Checks
  <2>3. CASE CheckSlot
    BY <2>3 DEF CheckSlot, Ends, Checks, Entries
  <2>4. CASE CheckInstances
    BY <2>4 DEF CheckInstances, Ends, Checks, Entries
  <2>5. CASE Sweep
    BY <2>5 DEF Sweep, Ends, Checks, Entries, strays, RomFiles
  <2>6. CASE Stopped \/ Again
    BY <2>6 DEF Stopped, Again, Checks
  <2>7. CASE UNCHANGED packVars
    BY <2>7 DEF packVars, Checks, Entries, strays, RomFiles
  <2> QED BY <2>1, <2>2, <2>3, <2>4, <2>5, <2>6, <2>7 DEF PackNext
<1>3. Checks => NoRomShipped
  BY DEF Checks, NoRomShipped, strays, RomFiles
<1> QED BY <1>1, <1>2, <1>3, PTL DEF PackSpec

-----------------------------------------------------------------------------
(* The bits of a number are the digits it is summed from.                   *)
LEMMA BitsOfSum ==
  ASSUME NEW a0 \in 0 .. 1, NEW a1 \in 0 .. 1, NEW a2 \in 0 .. 1, NEW a3 \in 0 .. 1,
         NEW a4 \in 0 .. 1, NEW a5 \in 0 .. 1, NEW a6 \in 0 .. 1, NEW a7 \in 0 .. 1,
         NEW byte, byte = a7 * 128 + a6 * 64 + a5 * 32 + a4 * 16 + a3 * 8 + a2 * 4 + a1 * 2 + a0
  PROVE  /\ Bit(byte, 0) = a0 /\ Bit(byte, 1) = a1 /\ Bit(byte, 2) = a2 /\ Bit(byte, 3) = a3
         /\ Bit(byte, 4) = a4 /\ Bit(byte, 5) = a5 /\ Bit(byte, 6) = a6 /\ Bit(byte, 7) = a7
<1>1. byte \in 0 .. 255
  OBVIOUS
<1>2. /\ byte \div 2 = a7 * 64 + a6 * 32 + a5 * 16 + a4 * 8 + a3 * 4 + a2 * 2 + a1
      /\ byte \div 4 = a7 * 32 + a6 * 16 + a5 * 8 + a4 * 4 + a3 * 2 + a2
      /\ byte \div 8 = a7 * 16 + a6 * 8 + a5 * 4 + a4 * 2 + a3
      /\ byte \div 16 = a7 * 8 + a6 * 4 + a5 * 2 + a4
  OBVIOUS
<1>3. byte \div 32 = a7 * 4 + a6 * 2 + a5 /\ byte \div 64 = a7 * 2 + a6 /\ byte \div 128 = a7
  OBVIOUS
<1>4. byte \div 1 = byte
  BY <1>1
<1>5. Bit(byte, 0) = a0 /\ Bit(byte, 1) = a1 /\ Bit(byte, 2) = a2 /\ Bit(byte, 3) = a3
  BY <1>2, <1>4 DEF Bit, Weights
<1>6. Bit(byte, 4) = a4 /\ Bit(byte, 5) = a5 /\ Bit(byte, 6) = a6 /\ Bit(byte, 7) = a7
  BY <1>2, <1>3 DEF Bit, Weights
<1> QED BY <1>5, <1>6

(* REV turns a byte's bits round, for each of the 256 bytes.                *)
LEMMA RevReverses ==
  ASSUME NEW b \in 0 .. 255
  PROVE  \A k \in 0 .. 7 : Bit(Rev(b), k) = Bit(b, 7 - k)
<1>1. /\ Bit(b, 0) \in 0 .. 1 /\ Bit(b, 1) \in 0 .. 1 /\ Bit(b, 2) \in 0 .. 1 /\ Bit(b, 3) \in 0 .. 1
      /\ Bit(b, 4) \in 0 .. 1 /\ Bit(b, 5) \in 0 .. 1 /\ Bit(b, 6) \in 0 .. 1 /\ Bit(b, 7) \in 0 .. 1
  BY DEF Bit, Weights
<1>2. Rev(b) = Bit(b, 0) * 128 + Bit(b, 1) * 64 + Bit(b, 2) * 32 + Bit(b, 3) * 16
               + Bit(b, 4) * 8 + Bit(b, 5) * 4 + Bit(b, 6) * 2 + Bit(b, 7)
  BY DEF Rev
<1>3. /\ Bit(Rev(b), 0) = Bit(b, 7) /\ Bit(Rev(b), 1) = Bit(b, 6) /\ Bit(Rev(b), 2) = Bit(b, 5) /\ Bit(Rev(b), 3) = Bit(b, 4)
      /\ Bit(Rev(b), 4) = Bit(b, 3) /\ Bit(Rev(b), 5) = Bit(b, 2) /\ Bit(Rev(b), 6) = Bit(b, 1) /\ Bit(Rev(b), 7) = Bit(b, 0)
  BY <1>1, <1>2, BitsOfSum
<1>4. SUFFICES ASSUME NEW k \in 0 .. 7 PROVE Bit(Rev(b), k) = Bit(b, 7 - k)
  OBVIOUS
<1>5. k = 0 \/ k = 1 \/ k = 2 \/ k = 3 \/ k = 4 \/ k = 5 \/ k = 6 \/ k = 7
  BY <1>4
<1> QED BY <1>3, <1>5

(* Each file of a package that is reported has the source it should, and    *)
(* none is missing (package-pocket.py 26-43).                               *)
WithBitstream == Overlay(Copy(pkg).files, [f \in {Bitstream} |-> reversed_rbf])
Whole == Overlay(WithBitstream, extras)
Contents ==
  /\ rbf \in Rbfs
  /\ packaging \in {"remove", "copy", "bitstream", "extras", "slot", "instances", "sweep", "packaged"} => rbf # Missing
  /\ packaging = "bitstream" => OUT = Copy(pkg)
  /\ packaging = "extras" => OUT = [dirs |-> Copy(pkg).dirs, files |-> WithBitstream]
  /\ packaging \in {"slot", "instances", "sweep", "packaged"} => OUT.files = Whole

THEOREM PackageExactCorrect == PackSpec => []PackageExact
<1>1. PackInit => Contents
  BY DEF PackInit, Inputs, Contents
<1>2. Contents /\ [PackNext]_packVars => Contents'
  <2> SUFFICES ASSUME Contents, [PackNext]_packVars PROVE Contents'
    OBVIOUS
  <2> USE DEF Contents
  <2>a. ASSUME UNCHANGED inputs PROVE WithBitstream' = WithBitstream /\ Whole' = Whole /\ Copy(pkg)' = Copy(pkg)
    BY <2>a DEF inputs, WithBitstream, Whole, reversed_rbf, Copy
  <2>1. CASE FindRbf
    BY <2>1 DEF FindRbf, Ends, inputs
  <2>2. CASE Remove
    BY <2>2 DEF Remove, Then, inputs
  <2>3. CASE Copytree
    BY <2>3, <2>a DEF Copytree, Then, Ends, inputs
  <2>4. CASE WriteBitstream
    <3>1. CASE Then("extras") /\ packaging = "bitstream" /\ OUT' = [OUT EXCEPT !.files = Overlay(@, [f \in {Bitstream} |-> reversed_rbf])]
      <4>1. OUT = [dirs |-> Copy(pkg).dirs, files |-> Copy(pkg).files]
        BY <3>1 DEF Copy
      <4>2. OUT' = [dirs |-> Copy(pkg).dirs, files |-> WithBitstream]
        BY <3>1, <4>1 DEF WithBitstream
      <4> QED BY <3>1, <4>2, <2>a DEF Then, inputs
    <3>2. CASE Ends("error")
      BY <3>2 DEF Ends, inputs
    <3> QED BY <2>4, <3>1, <3>2 DEF WriteBitstream
  <2>5. CASE CopyExtras
    <3>1. OUT'.files = Whole
      BY <2>5 DEF CopyExtras, Whole
    <3> QED BY <2>5, <3>1, <2>a DEF CopyExtras, Then, inputs
  <2>6. CASE CheckSlot \/ CheckInstances \/ Sweep
    BY <2>6, <2>a DEF CheckSlot, CheckInstances, Sweep, Ends, inputs
  <2>7. CASE Stopped
    BY <2>7 DEF Stopped, inputs
  <2>8. CASE Again
    BY <2>8 DEF Again
  <2>9. CASE UNCHANGED packVars
    BY <2>9, <2>a DEF packVars, inputs
  <2> QED BY <2>1, <2>2, <2>3, <2>4, <2>5, <2>6, <2>7, <2>8, <2>9 DEF PackNext
<1>3. Contents => PackageExact
  <2> SUFFICES ASSUME Contents, packaging = "packaged" PROVE PackageExact
    BY DEF PackageExact
  <2>1. OUT.files = Whole /\ rbf \in Seq(0 .. 255)
    BY RbfAssumption DEF Contents
  <2>2. BitsReversed(reversed_rbf, rbf)
    <3>1. rbf \in Seq(0 .. 255)
      BY <2>1
    <3>2. \A i \in DOMAIN rbf : rbf[i] \in 0 .. 255
      BY <3>1, ElementOfSeq, LenProperties
    <3> QED BY <3>2, RevReverses DEF BitsReversed, reversed_rbf
  <2>3. DOMAIN Whole = {p \in DOMAIN pkg.files : Copied(p)} \cup {Bitstream} \cup DOMAIN extras
    BY DEF Whole, WithBitstream, Overlay, Copy
  <2>4. ASSUME NEW p \in DOMAIN Whole
        PROVE  IF p \in DOMAIN extras THEN Whole[p] = extras[p]
               ELSE IF p = Bitstream THEN Whole[p] = reversed_rbf
               ELSE p \in DOMAIN pkg.files /\ Copied(p) /\ Whole[p] = pkg.files[p]
    BY <2>4 DEF Whole, WithBitstream, Overlay, Copy
  <2> QED BY <2>1, <2>2, <2>3, <2>4 DEF PackageExact
<1> QED BY <1>1, <1>2, <1>3, PTL DEF PackSpec

-----------------------------------------------------------------------------
(* Nothing was found against the file: it parses and breaks no rule.        *)
Faultless(f) == f.ok /\ Rules(f) = {}
Inspected ==
  /\ files \in Packages /\ at \in Nat /\ (checking = "args" => at = 1)
  /\ checking = "files" /\ faults = {} => \A i \in DOMAIN files : i < at => Faultless(files[i])
  /\ checking \in {"cores", "verdict"} /\ faults = {} => \A i \in DOMAIN files : Faultless(files[i])
  /\ checking = "verdict" /\ faults = {} => \A dir \in Cores : Ana(dir) \cup Loaded(dir) # {} => Analogizer(dir) = {}
  /\ checking = "exit 0" => /\ \A i \in DOMAIN files : Faultless(files[i])
                            /\ \A dir \in Cores : Ana(dir) \cup Loaded(dir) # {} => Analogizer(dir) = {}

(* What is found against a file depends on the files alone.                *)
LEMMA RulesSteady ==
  ASSUME UNCHANGED <<files, active>>, NEW f
  PROVE  Faultless(f)' = Faultless(f)
<1>1. \A base : Siblings(f, base)' = Siblings(f, base)
  BY DEF Siblings
<1>2. SlotCount(f)' = SlotCount(f)
  BY DEF SlotCount, Siblings, Visible
<1>3. InteractRules(f)' = InteractRules(f)
  BY <1>2 DEF InteractRules
<1>4. VideoRules(f)' = VideoRules(f)
  BY DEF VideoRules
<1>5. InstancesOf(f)' = InstancesOf(f)
  BY DEF InstancesOf
<1>6. DataRules(f)' = DataRules(f)
  <2>1. \A s : NotNamed(f, s)' = NotNamed(f, s)
    BY <1>5 DEF NotNamed
  <2> QED BY <2>1 DEF DataRules
<1> QED BY <1>3, <1>4, <1>6 DEF Faultless, Rules

(* So does what is found against a core's menu.                            *)
LEMMA CoresSteady ==
  ASSUME UNCHANGED files
  PROVE  Cores' = Cores /\ \A dir : Ana(dir)' = Ana(dir) /\ Loaded(dir)' = Loaded(dir) /\ Analogizer(dir)' = Analogizer(dir)
<1>1. \A dir, base : File(dir, base)' = File(dir, base)
  BY DEF File
<1>2. Cores' = Cores
  BY DEF Cores, Has
<1>3. \A dir : Menu(dir)' = Menu(dir)
  BY <1>1 DEF Menu
<1>4. \A dir : Ana(dir)' = Ana(dir)
  BY <1>3 DEF Ana
<1>5. \A dir : Loaded(dir)' = Loaded(dir)
  BY <1>1 DEF Loaded
<1>6. \A dir : Masked(dir)' = Masked(dir)
  BY <1>4 DEF Masked
<1>7. \A dir : Enabled(dir)' = Enabled(dir)
  BY <1>6 DEF Enabled
<1>8. \A dir : Analogizer(dir)' = Analogizer(dir)
  BY <1>1, <1>3, <1>4, <1>5, <1>6, <1>7 DEF Analogizer
<1> QED BY <1>2, <1>4, <1>5, <1>8

(* Without a repeated id, an id finds its own entry and no other.          *)
LEMMA NotSeen ==
  ASSUME NEW v, v \in Seq(Range(v)), \A i \in DOMAIN v : ~Seen(v, i), NEW i \in DOMAIN v
  PROVE  Found(v, v[i].id) = v[i] /\ {j \in DOMAIN v : v[j].id = v[i].id} = {i}
<1>1. DOMAIN v = 1 .. Len(v) /\ Len(v) \in Nat
  OBVIOUS
<1>2. ASSUME NEW j \in DOMAIN v, v[j].id = v[i].id PROVE j = i
  <2>1. CASE j < i
    <3>1. j \in 1 .. i - 1
      BY <1>1, <2>1
    <3> QED BY <1>2, <3>1 DEF Seen
  <2>2. CASE i < j
    <3>1. i \in 1 .. j - 1
      BY <1>1, <2>2
    <3> QED BY <1>2, <3>1 DEF Seen
  <2> QED BY <1>1, <2>1, <2>2
<1>3. {j \in DOMAIN v : v[j].id = v[i].id} = {i}
  BY <1>2
<1>4. (CHOOSE j \in DOMAIN v : v[j].id = v[i].id) = i
  BY <1>2
<1> QED BY <1>3, <1>4 DEF Found

(* A menu that breaks no rule works as PassedWorks says.                   *)
LEMMA MenuOfRules ==
  ASSUME NEW f, f.entries \in Seq(Range(f.entries)), \A x \in Range(f.entries) : x.options \in Seq(Range(x.options)),
         InteractRules(f) = {}
  PROVE  MenuWorks(f.entries)
<1> DEFINE v == f.entries
<1> SUFFICES ASSUME NEW i \in DOMAIN v
             PROVE  /\ Found(v, v[i].id) = v[i] /\ Cardinality({j \in DOMAIN v : v[j].id = v[i].id}) = 1
                    /\ v[i].type = "list" => v[i].defaultval + 1 \in DOMAIN v[i].options
  BY DEF MenuWorks
<1>1. \A j \in DOMAIN v : VariableRules(v, j) = {}
  BY DEF InteractRules
<1>2. \A j \in DOMAIN v : ~Seen(v, j)
  BY <1>1 DEF VariableRules, RuleOf
<1>3. Found(v, v[i].id) = v[i] /\ {j \in DOMAIN v : v[j].id = v[i].id} = {i}
  <2> HIDE DEF v
  <2> QED BY <1>2, NotSeen DEF v
<1>4. Cardinality({i}) = 1
  BY FS_Singleton
<1>5. ASSUME v[i].type = "list" PROVE v[i].defaultval + 1 \in DOMAIN v[i].options
  <2>1. ListRules(v[i]) = {}
    BY <1>1, <1>5 DEF VariableRules
  <2> DEFINE x == v[i]
  <2>2. x.options # <<>> /\ x.defaultval \in 0 .. (IF x.options = <<>> THEN 0 ELSE Len(x.options) - 1)
    BY <2>1 DEF ListRules, RuleOf
  <2>3. x.options \in Seq(Range(x.options))
    BY DEF Range
  <2> QED BY <2>2, <2>3
<1> QED BY <1>3, <1>4, <1>5

(* Data slots that break no rule work.                                     *)
LEMMA SlotsOfRules ==
  ASSUME NEW f, f.entries \in Seq(Range(f.entries)), DataRules(f) = {}
  PROVE  SlotsWork(f)
<1> DEFINE v == f.entries
<1>1. \A j \in DOMAIN v : ~Seen(v, j)
  BY DEF DataRules, RuleOf
<1>2. \A j \in DOMAIN v : ~(Unnamed(v[j]) /\ NotNamed(f, v[j]))
  BY DEF DataRules, RuleOf
<1>3. \A j \in DOMAIN v : Found(v, v[j].id) = v[j]
  <2> HIDE DEF v
  <2> QED BY <1>1, NotSeen DEF v
<1> QED BY <1>2, <1>3 DEF SlotsWork, Unnamed, NotNamed

(* The Analogizer word of a core that breaks no rule works.                *)
LEMMA WordOfRules ==
  ASSUME NEW dir, Ana(dir) # {}, Analogizer(dir) = {}
  PROVE  WordWorks(dir) /\ File(dir, "core.json").entries = <<0>>
<1>1. /\ Masked(dir) = Ana(dir) /\ Enabled(dir) /\ File(dir, "core.json").entries = <<0>>
      /\ \A v \in Masked(dir) : \A given \in Writes(v) : given \cap v.mask = {}
  BY DEF Analogizer, RuleOf
<1>2. \A v \in Ana(dir) : \A given \in Writes(v) : \A word : Written(word, given, v.mask) \cap v.mask = word \cap v.mask
  BY <1>1 DEF Written
<1>3. \E v \in Ana(dir) : \E given \in Writes(v) : \A word : 5 \in Written(word, given, v.mask)
  BY <1>1 DEF Enabled, Written
<1> QED BY <1>1, <1>2, <1>3 DEF WordWorks

(* A package that is passed works as the header says.  *)
THEOREM PassedWorksCorrect == JsonSpec => []PassedWorks
<1>1. JsonInit => Inspected
  BY DEF JsonInit, Inspected
<1>2. Inspected /\ [JsonNext]_jsonVars => Inspected'
  <2> SUFFICES ASSUME Inspected, [JsonNext]_jsonVars PROVE Inspected'
    OBVIOUS
  <2>a. UNCHANGED <<files, active>>
    BY DEF JsonNext, jsonVars, Args, Exit, Unparsed, Visit, NextFile, Raise, Visited, CheckCores, Verdict
  <2>b. \A f : Faultless(f)' = Faultless(f)
    BY <2>a, RulesSteady
  <2>c. Cores' = Cores /\ \A dir : Ana(dir)' = Ana(dir) /\ Loaded(dir)' = Loaded(dir) /\ Analogizer(dir)' = Analogizer(dir)
    BY <2>a, CoresSteady
  <2>d. DOMAIN files = 1 .. Len(files) /\ Len(files) \in Nat
    <3>1. files \in Seq(Range(files))
      BY PackageAssumption DEF Inspected
    <3> QED BY <3>1, LenProperties
  <2>1. CASE Args
    <3>1. checking' \in {"exit 2", "files"} /\ at = 1 /\ at' = 1 /\ files' = files
      BY <2>1, <2>a DEF Args, Exit, Inspected
    <3>2. \A i \in DOMAIN files : ~(i < 1)
      BY <2>d
    <3> QED BY <3>1, <3>2 DEF Inspected
  <2>2. CASE Unparsed
    <3>1. faults' # {}
      BY <2>2 DEF Unparsed, Faults
    <3> QED BY <2>2, <3>1, <2>a DEF Unparsed, Visiting, NextFile, Inspected
  <2>3. CASE Visit
    <3>1. faults' = {} => faults = {} /\ Faultless(files[at])
      <4>1. files[at].ok /\ faults' = faults \cup {<<files[at].dir, files[at].base, r>> : r \in Rules(files[at])}
        BY <2>3 DEF Visit, Faults
      <4>2. Rules(files[at]) # {} => \E r : r \in Rules(files[at])
        OBVIOUS
      <4>3. \A r \in Rules(files[at]) : <<files[at].dir, files[at].base, r>> \in faults'
        BY <4>1
      <4> QED BY <4>1, <4>2, <4>3 DEF Faultless
    <3> QED BY <2>3, <3>1, <2>a, <2>b, <2>d DEF Visit, Visiting, NextFile, Inspected
  <2>4. CASE Raise
    BY <2>4, <2>a DEF Raise, Exit, Inspected
  <2>5. CASE Visited
    BY <2>5, <2>a, <2>b, <2>d DEF Visited, Exit, Inspected
  <2>6. CASE CheckCores
    <3>1. faults' = {} => faults = {} /\ \A dir \in Cores : Ana(dir) \cup Loaded(dir) # {} => Analogizer(dir) = {}
      <4> DEFINE Adapted == {d \in Cores : Ana(d) \cup Loaded(d) # {}}
                 Found1(dir) == {<<dir, "Analogizer", r>> : r \in Analogizer(dir)}
      <4>1. faults' = faults \cup UNION {Found1(dir) : dir \in Adapted}
        BY <2>6 DEF CheckCores
      <4>2. ASSUME NEW dir \in Adapted, NEW r \in Analogizer(dir) PROVE <<dir, "Analogizer", r>> \in faults'
        BY <4>1
      <4>3. ASSUME NEW dir \in Adapted, faults' = {} PROVE Analogizer(dir) = {}
        BY <4>2, <4>3
      <4> QED BY <4>1, <4>3
    <3> QED BY <2>6, <3>1, <2>a, <2>b, <2>c DEF CheckCores, Inspected
  <2>7. CASE Verdict
    BY <2>7, <2>a, <2>b, <2>c DEF Verdict, Exit, Inspected
  <2>8. CASE UNCHANGED jsonVars
    BY <2>8, <2>a, <2>b, <2>c DEF jsonVars, Inspected
  <2> QED BY <2>1, <2>2, <2>3, <2>4, <2>5, <2>6, <2>7, <2>8 DEF JsonNext
<1>3. Inspected => PassedWorks
  <2> SUFFICES ASSUME Inspected, checking = "exit 0" PROVE PassedWorks
    BY DEF PassedWorks
  <2>1. \A i \in DOMAIN files : Faultless(files[i])
    BY DEF Inspected
  <2>2. ASSUME NEW f \in Range(files)
        PROVE  /\ f.ok
               /\ f.base = "interact.json" => MenuWorks(f.entries)
               /\ f.base = "data.json" => SlotsWork(f)
               /\ f.base = "video.json" => \A i \in DOMAIN f.entries : f.entries[i] = active
    <3>1. Faultless(f)
      BY <2>1 DEF Range
    <3>2. /\ f.entries \in Seq(Range(f.entries))
          /\ f.base = "interact.json" => \A x \in Range(f.entries) : x.options \in Seq(Range(x.options))
      BY PackageAssumption DEF Inspected
    <3>3. CASE f.base = "interact.json"
      <4>1. InteractRules(f) = {}
        BY <3>1, <3>3 DEF Faultless, Rules
      <4> QED BY <3>1, <3>2, <3>3, <4>1, MenuOfRules DEF Faultless
    <3>4. CASE f.base = "data.json"
      <4>1. DataRules(f) = {}
        BY <3>1, <3>4 DEF Faultless, Rules
      <4> QED BY <3>1, <3>2, <3>4, <4>1, SlotsOfRules DEF Faultless
    <3>5. CASE f.base = "video.json"
      <4>1. VideoRules(f) = {}
        BY <3>1, <3>5 DEF Faultless, Rules
      <4> QED BY <3>1, <3>5, <4>1 DEF Faultless, VideoRules, RuleOf
    <3> QED BY <3>1, <3>3, <3>4, <3>5 DEF Faultless
  <2>3. ASSUME NEW dir \in Cores, Ana(dir) # {}
        PROVE  WordWorks(dir) /\ File(dir, "core.json").entries = <<0>>
    BY <2>3, WordOfRules DEF Inspected
  <2> QED BY <2>2, <2>3 DEF PassedWorks
<1> QED BY <1>1, <1>2, <1>3, PTL DEF JsonSpec

-----------------------------------------------------------------------------
(* A set of numbers that is not empty has a least one.                     *)
LEMMA Least ==
  ASSUME NEW S, S \subseteq Nat, S # {}
  PROVE  \E m \in S : \A j \in S : m <= j
<1> DEFINE R == OpToRel(<, Nat)
<1>1. IsWellFoundedOn(R, Nat)
  BY NatLessThanWellFounded
<1>2. PICK m \in S : \A q \in S : ~(<<q, m>> \in R)
  BY <1>1, WFMin
<1>3. ASSUME NEW j \in S PROVE m <= j
  <2>1. ~(j < m)
    BY <1>2 DEF OpToRel
  <2> QED BY <2>1
<1> QED BY <1>3

Iteration(f, N, S, base, Step) ==
  f \in [0 .. N -> S] /\ f[0] = base /\ \A i \in 1 .. N : f[i] = Step[i][f[i - 1]]

(* Steps given one by one can all be taken: a function defined by          *)
(* recursion over 0 .. N exists.                                           *)
LEMMA Iterates ==
  ASSUME NEW N \in Nat, NEW S, NEW base \in S, NEW Step \in [1 .. N -> [S -> S]]
  PROVE  \E f : Iteration(f, N, S, base, Step)
<1> DEFINE Upto(m, f) == f \in [0 .. m -> S] /\ f[0] = base /\ \A i \in 1 .. m : f[i] = Step[i][f[i - 1]]
           Bad == {m \in 0 .. N : ~\E f \in [0 .. m -> S] : Upto(m, f)}
<1>1. SUFFICES ASSUME Bad # {} PROVE FALSE
  <2>1. N \notin Bad
    BY <1>1
  <2>2. \E f : Upto(N, f)
    BY <2>1
  <2> QED BY <2>2 DEF Iteration
<1>2. PICK m \in Bad : \A j \in Bad : m <= j
  <2>1. Bad \subseteq Nat
    OBVIOUS
  <2> HIDE DEF Bad
  <2> QED BY <1>1, <2>1, Least
<1>3. m # 0
  <2>1. Upto(0, [i \in 0 .. 0 |-> base])
    OBVIOUS
  <2> QED BY <2>1
<1>4. m - 1 \in 0 .. N /\ m - 1 \notin Bad
  <2>1. m \in 0 .. N
    BY <1>2
  <2> HIDE DEF Bad
  <2> QED BY <1>2, <1>3, <2>1
<1>5. PICK f : Upto(m - 1, f)
  BY <1>4
<1> DEFINE g == [i \in 0 .. m |-> IF i = m THEN Step[m][f[m - 1]] ELSE f[i]]
<1>6. m \in 1 .. N /\ f[m - 1] \in S
  BY <1>3, <1>5
<1>7. Step[m][f[m - 1]] \in S
  BY <1>6
<1>8. g \in [0 .. m -> S]
  BY <1>5, <1>7
<1>9. ASSUME NEW i \in 1 .. m PROVE g[i] = Step[i][g[i - 1]]
  <2>1. g[i - 1] = f[i - 1]
    BY <1>6
  <2>2. CASE i = m
    BY <2>1, <2>2
  <2>3. CASE i # m
    <3>1. i \in 1 .. m - 1 /\ g[i] = f[i]
      BY <1>6, <2>3
    <3> QED BY <1>5, <2>1, <3>1
  <2> QED BY <2>2, <2>3
<1>10. Upto(m, g)
  BY <1>5, <1>6, <1>8, <1>9
<1> QED BY <1>2, <1>8, <1>10

-----------------------------------------------------------------------------
(* What is in the model's registers. *)
Word   == 0 .. 2^16 - 1
Sample == -(2^15) .. 2^15 - 1
ModelVoices == [pos : [hi : Word, lo : Word], counter : Word, sample : Sample, last : Sample, vol_f : Word,
                cur : Int \X Int, freq : Word, flags : SUBSET Flags, bank : Word, start : Word, end : Word, loop : Word]
Chips == [v : [Voice -> ModelVoices], random : Word]

(* The voices are numbered from 0.                                         *)
LEMMA VoiceNumbers == Voice = 0 .. Voices - 1 /\ Voices \in Nat /\ Voices >= 1 /\ Last \in Voice /\ Last = Voices - 1
  BY VoicesAssumption DEF Voice, Last

(* A word as two inequalities.                                             *)
LEMMA WordIs == \A x : x \in Word <=> x \in Int /\ 0 <= x /\ x < 65536
  BY DEF Word

(* The RTL's sixteen bits are the model's s16, and s16 keeps what fits.    *)
LEMMA SixteenBits ==
  ASSUME NEW x \in Int
  PROVE  /\ Model!s16(x) \in Sample /\ Wrap16(x) \in Word /\ Wrap16(Model!s16(x)) = Wrap16(x) /\ Signed(Wrap16(x)) = Model!s16(x)
         /\ (x \in Word => Wrap16(x) = x) /\ (x \in Sample => Model!s16(x) = x)
<1> DEFINE q == x % 65536
<1>1. q \in 0 .. 2^16 - 1
  OBVIOUS
<1>2. Wrap16(x) = q /\ Model!s16(x) = IF q >= 32768 THEN q - 65536 ELSE q
  BY DEF Wrap16, Model!s16
<1>3. x \in 0 .. 2^16 - 1 => q = x
  OBVIOUS
<1>4. x \in -(2^15) .. 2^15 - 1 => q = IF x < 0 THEN x + 65536 ELSE x
  OBVIOUS
<1> HIDE DEF q
<1>5. (q - 65536) % 65536 = q /\ q % 65536 = q
  BY <1>1
<1>6. Model!s16(x) \in Sample /\ Wrap16(x) \in Word
  BY <1>1, <1>2 DEF Sample, Word
<1>7. Wrap16(Model!s16(x)) = q /\ Signed(q) = Model!s16(x)
  BY <1>1, <1>2, <1>5 DEF Wrap16, Signed
<1>8. (x \in Word => Wrap16(x) = x) /\ (x \in Sample => Model!s16(x) = x)
  BY <1>1, <1>2, <1>3, <1>4 DEF Word, Sample
<1> QED BY <1>2, <1>6, <1>7, <1>8

(* A line of the mu-law table, upright and inverted, is a word.            *)
LEMMA Levels ==
  ASSUME NEW l \in 0 .. 2^10 - 1
  PROVE  /\ 32 * l \in Word /\ 32 * l = l * 32
         /\ 32 * (2047 - l) \in Word /\ Model!Inverted(l * 32) = 32 * (2047 - l)
<1>1. 32 * l \in Word /\ 32 * l = l * 32 /\ 32 * (2047 - l) \in Word
  BY DEF Word
<1>2. (65535 - l * 32) \div 32 = 2047 - l
  OBVIOUS
<1> QED BY <1>1, <1>2 DEF Model!Inverted

(* The mu-law tables.  *)

(* A level of gen_c352_tables.py is the one before and its slope.          *)
LEMMA RampedSteps ==
  ASSUME NEW i \in 1 .. 127
  PROVE  Level(i) = Level(i - 1) + (CASE i <= 16 -> 1 [] i \in 17 .. 24 -> 2 [] i \in 25 .. 48 -> 4 [] i \in 49 .. 100 -> 8 [] OTHER -> 16)
<1>1. CASE i <= 16
  BY <1>1 DEF Level, Ramped
<1>2. CASE i \in 17 .. 24
  BY <1>2 DEF Level, Ramped
<1>3. CASE i \in 25 .. 48
  BY <1>3 DEF Level, Ramped
<1>4. CASE i \in 49 .. 100
  BY <1>4 DEF Level, Ramped
<1>5. CASE i \in 101 .. 127
  BY <1>5 DEF Level, Ramped
<1> QED BY <1>1, <1>2, <1>3, <1>4, <1>5

(* The j of c352_model.py is the level of gen_c352_tables.py.              *)
LEMMA StepsAreRamps == \A i \in 0 .. 127 : Model!J[i] = Level(i)
<1> DEFINE Slope(i) == CASE i <= 16 -> 1 [] i \in 17 .. 24 -> 2 [] i \in 25 .. 48 -> 4 [] i \in 49 .. 100 -> 8 [] OTHER -> 16
           Is(f) == f = [i \in 0 .. 127 |-> IF i = 0 THEN 0 ELSE f[i - 1] + Slope(i)]
           g == [i \in 0 .. 127 |-> Level(i)]
<1>1. Is(g)
  <2>1. Level(0) = 0
    BY DEF Level, Ramped
  <2>2. ASSUME NEW i \in 0 .. 127 PROVE g[i] = IF i = 0 THEN 0 ELSE g[i - 1] + Slope(i)
    <3>1. CASE i = 0
      BY <2>1, <3>1
    <3>2. CASE i # 0
      <4>1. i \in 1 .. 127 /\ i - 1 \in 0 .. 127
        BY <3>2
      <4>2. g[i] = Level(i) /\ g[i - 1] = Level(i - 1)
        BY <4>1
      <4>3. Level(i) = Level(i - 1) + Slope(i)
        BY <4>1, RampedSteps
      <4> QED BY <3>2, <4>2, <4>3
    <3> QED BY <3>1, <3>2
  <2> QED BY <2>2
<1>2. Model!J = CHOOSE f : Is(f)
  BY DEF Model!J
<1>3. Is(Model!J)
  <2> HIDE DEF Is, g
  <2> QED BY <1>1, <1>2
<1> DEFINE Bad == {i \in 0 .. 127 : Model!J[i] # Level(i)}
<1>4. ASSUME Bad # {} PROVE FALSE
  <2>1. Bad \subseteq Nat
    OBVIOUS
  <2>2. PICK m \in Bad : \A j \in Bad : m <= j
    <3> HIDE DEF Bad
    <3> QED BY <1>4, <2>1, Least
  <2>3. m \in 0 .. 127 /\ Model!J[m] # Level(m)
    BY <2>2
  <2>4. m # 0
    <3>1. Model!J[0] = 0
      BY <1>3
    <3> QED BY <2>3, <3>1 DEF Level, Ramped
  <2>5. Model!J[m - 1] = Level(m - 1)
    <3>1. m - 1 \notin Bad
      <4> HIDE DEF Bad
      <4> QED BY <2>2, <2>3
    <3> QED BY <2>3, <2>4, <3>1
  <2>6. Model!J[m] = Model!J[m - 1] + Slope(m)
    <3> HIDE DEF Slope
    <3> QED BY <1>3, <2>3, <2>4
  <2> QED BY <2>3, <2>4, <2>5, <2>6, RampedSteps
<1> QED BY <1>4

(* The table the RTL is given is the table of the model, byte by byte.     *)
LEMMA TablesAgree ==
  ASSUME NEW b \in 0 .. 255
  PROVE  /\ mulaw[b] \in Word /\ Model!mulaw_table[b] \in Sample
         /\ mulaw[b] = Wrap16(Model!mulaw_table[b])
<1>1. CASE b < 128
  <2>1. Model!J[b] = Level(b) /\ Level(b) \in 0 .. 2^10 - 1
    <3>1. Level(b) \in 0 .. 2^10 - 1
      BY <1>1 DEF Level, Ramped
    <3> QED BY <1>1, <3>1, StepsAreRamps
  <2>2. mulaw[b] = 32 * Level(b) /\ Model!mulaw_table[b] = Model!s16(Level(b) * 32)
    BY <1>1, <2>1 DEF mulaw, Model!mulaw_table
  <2>3. 32 * Level(b) \in Word /\ 32 * Level(b) = Level(b) * 32 /\ 32 * Level(b) \in Int
    BY <2>1, Levels DEF Word
  <2> DEFINE m == 32 * Level(b)
  <2>4. m \in Int /\ m \in Word /\ mulaw[b] = m /\ Model!mulaw_table[b] = Model!s16(m)
    BY <2>2, <2>3
  <2> HIDE DEF m
  <2> QED BY <2>4, SixteenBits
<1>2. CASE b >= 128
  <2>1. Model!J[b - 128] = Level(b - 128) /\ Level(b - 128) \in 0 .. 2^10 - 1
    <3>1. Level(b - 128) \in 0 .. 2^10 - 1
      BY <1>2 DEF Level, Ramped
    <3> QED BY <1>2, <3>1, StepsAreRamps
  <2>2. mulaw[b] = 32 * (2047 - Level(b - 128)) /\ Model!mulaw_table[b] = Model!s16(Model!Inverted(Level(b - 128) * 32))
    BY <1>2, <2>1 DEF mulaw, Model!mulaw_table
  <2>3. /\ Model!Inverted(Level(b - 128) * 32) = 32 * (2047 - Level(b - 128))
        /\ 32 * (2047 - Level(b - 128)) \in Word /\ 32 * (2047 - Level(b - 128)) \in Int
    BY <2>1, Levels DEF Word
  <2> DEFINE m == 32 * (2047 - Level(b - 128))
  <2>4. m \in Int /\ m \in Word /\ mulaw[b] = m /\ Model!mulaw_table[b] = Model!s16(m)
    BY <2>2, <2>3
  <2> HIDE DEF m
  <2> QED BY <2>4, SixteenBits
<1> QED BY <1>1, <1>2

(* The noise: sixteen bits. *)

(* A power of two is positive.                                             *)
LEMMA PowerPositive == ASSUME NEW m \in Nat PROVE 2^m \in Nat \ {0}
<1>1. IsFiniteSet(1 .. m) /\ Cardinality(1 .. m) = m
  BY FS_Interval
<1>2. IsFiniteSet(SUBSET (1 .. m)) /\ Cardinality(SUBSET (1 .. m)) = 2^m
  BY <1>1, FS_SUBSET
<1> QED BY <1>2, FS_CardinalityType, FS_EmptySet

(* The exclusive or of sixteen bits is a word.                             *)
LEMMA XorWord ==
  ASSUME NEW a \in Nat, NEW b \in Nat
  PROVE  Model!Xor(a, b) \in Word
<1> DEFINE e(i) == 2^(i - 1) * (((a \div 2^(i - 1)) + (b \div 2^(i - 1))) % 2)
           Is(f) == f = [i \in 0 .. 16 |-> IF i = 0 THEN 0 ELSE f[i - 1] + e(i)]
           N == 16
           Step == [i \in 1 .. N |-> [v \in Nat |-> v + e(i)]]
           x == CHOOSE f : Is(f)
<1>1. \A i \in 1 .. 16 : e(i) \in Nat
  <2> SUFFICES ASSUME NEW i \in 1 .. 16 PROVE e(i) \in Nat
    OBVIOUS
  <2>1. 2^(i - 1) \in Nat \ {0}
    BY PowerPositive
  <2>2. a \div 2^(i - 1) \in Nat /\ b \div 2^(i - 1) \in Nat
    BY <2>1
  <2>3. ((a \div 2^(i - 1)) + (b \div 2^(i - 1))) % 2 \in Nat
    BY <2>2
  <2> QED BY <2>1, <2>3
<1>2. Is(x)
  <2> DEFINE S == Nat
             zero == 0
  <2>1. Step \in [1 .. N -> [S -> S]] /\ N \in Nat /\ zero \in S
    BY <1>1
  <2> HIDE DEF Step, e, Is, N, S, zero
  <2>2. PICK f : Iteration(f, N, S, zero, Step)
    BY <2>1, Iterates
  <2>3. \A i \in 1 .. 16 : f[i] = f[i - 1] + e(i)
    BY <2>2 DEF Iteration, Step, N, S
  <2>4. Is(f)
    BY <2>2, <2>3 DEF Iteration, Is, N, S, zero
  <2> HIDE DEF Is
  <2> QED BY <2>4
<1>3. x[0] = 0 /\ \A i \in 1 .. 16 : x[i] = x[i - 1] + e(i)
  <2> HIDE DEF x, e
  <2> QED BY <1>2
<1> DEFINE bit(i) == ((a \div 2^(i - 1)) + (b \div 2^(i - 1))) % 2
<1>4. \A i \in 1 .. 16 : bit(i) \in 0 .. 1 /\ e(i) = 2^(i - 1) * bit(i)
  <2> SUFFICES ASSUME NEW i \in 1 .. 16 PROVE bit(i) \in 0 .. 1
    OBVIOUS
  <2>1. 2^(i - 1) \in Nat \ {0}
    BY PowerPositive
  <2>2. a \div 2^(i - 1) \in Nat /\ b \div 2^(i - 1) \in Nat
    BY <2>1
  <2> QED BY <2>2
<1> HIDE DEF x, e, bit
<1>a. \A i \in 1 .. 16 : bit(i) = 0 \/ bit(i) = 1
  BY <1>4
<1>b. \A i \in 1 .. 16 : e(i) = 0 \/ e(i) = 2^(i - 1)
  <2> SUFFICES ASSUME NEW i \in 1 .. 16 PROVE e(i) = 0 \/ e(i) = 2^(i - 1)
    OBVIOUS
  <2> DEFINE p == 2^(i - 1)
  <2>1. p \in Nat
    BY PowerPositive
  <2>2. e(i) = p * bit(i) /\ (bit(i) = 0 \/ bit(i) = 1)
    BY <1>4, <1>a
  <2> HIDE DEF p
  <2>3. p * 0 = 0 /\ p * 1 = p
    BY <2>1
  <2>4. e(i) = 0 \/ e(i) = p
    BY <2>2, <2>3
  <2> QED BY <2>4 DEF p
<1>5. x[4] \in 0 .. 2^4 - 1
  <2>0. 2^(1 - 1) = 1 /\ 2^(2 - 1) = 2 /\ 2^(3 - 1) = 4 /\ 2^(4 - 1) = 8
    OBVIOUS
  <2>1. e(1) \in {0, 1} /\ e(2) \in {0, 2} /\ e(3) \in {0, 4} /\ e(4) \in {0, 8}
    BY <1>b, <2>0
  <2>2. x[1] = x[0] + e(1) /\ x[2] = x[1] + e(2) /\ x[3] = x[2] + e(3) /\ x[4] = x[3] + e(4)
    BY <1>3
  <2>3. 2^4 = 16
    OBVIOUS
  <2> QED BY <1>3, <2>1, <2>2, <2>3
<1>6. x[8] \in 0 .. 2^8 - 1
  <2>0. 2^(5 - 1) = 16 /\ 2^(6 - 1) = 32 /\ 2^(7 - 1) = 64 /\ 2^(8 - 1) = 128
    OBVIOUS
  <2>1. e(5) \in {0, 16} /\ e(6) \in {0, 32} /\ e(7) \in {0, 64} /\ e(8) \in {0, 128}
    BY <1>b, <2>0
  <2>2. x[5] = x[4] + e(5) /\ x[6] = x[5] + e(6) /\ x[7] = x[6] + e(7) /\ x[8] = x[7] + e(8)
    BY <1>3
  <2>3. 2^8 = 256 /\ 2^4 = 16
    OBVIOUS
  <2> QED BY <1>5, <2>1, <2>2, <2>3
<1>7. x[12] \in 0 .. 2^12 - 1
  <2>0. 2^(9 - 1) = 256 /\ 2^(10 - 1) = 512 /\ 2^(11 - 1) = 1024 /\ 2^(12 - 1) = 2048
    OBVIOUS
  <2>1. e(9) \in {0, 256} /\ e(10) \in {0, 512} /\ e(11) \in {0, 1024} /\ e(12) \in {0, 2048}
    BY <1>b, <2>0
  <2>2. x[9] = x[8] + e(9) /\ x[10] = x[9] + e(10) /\ x[11] = x[10] + e(11) /\ x[12] = x[11] + e(12)
    BY <1>3
  <2>3. 2^12 = 4096 /\ 2^8 = 256
    OBVIOUS
  <2> QED BY <1>6, <2>1, <2>2, <2>3
<1>8. x[16] \in 0 .. 2^16 - 1
  <2>0. 2^(13 - 1) = 4096 /\ 2^(14 - 1) = 8192 /\ 2^(15 - 1) = 16384 /\ 2^(16 - 1) = 32768
    OBVIOUS
  <2>1. e(13) \in {0, 4096} /\ e(14) \in {0, 8192} /\ e(15) \in {0, 16384} /\ e(16) \in {0, 32768}
    BY <1>b, <2>0
  <2>2. x[13] = x[12] + e(13) /\ x[14] = x[13] + e(14) /\ x[15] = x[14] + e(15) /\ x[16] = x[15] + e(16)
    BY <1>3
  <2>3. 2^16 = 65536 /\ 2^12 = 4096
    OBVIOUS
  <2> QED BY <1>7, <2>1, <2>2, <2>3
<1> QED BY <1>8 DEF Model!Xor, x, Is, e, Word

(* The noise is a word.                                                    *)
LEMMA NoiseWord == ASSUME NEW r \in Word PROVE Model!next_random(r) \in Word
<1>1. r \in 0 .. 2^16 - 1 /\ r \div 2 \in Nat
  BY DEF Word
<1> QED BY <1>1, XorWord DEF Model!next_random

(* What a byte makes of a voice, and where it goes after it. *)
Octet  == 0 .. 255
RomOfBytes == \A a \in 0 .. 2^24 - 1 : Rom(a) \in Octet
Places == [hi : Word, lo : Word]
Place(pos) == (pos.hi % 256) * 65536 + pos.lo

(* The place of a voice of the model is one of the 24-bit addresses.       *)
LEMMA PlaceRange ==
  ASSUME NEW pos \in Places
  PROVE  /\ Place(pos) \in 0 .. 2^24 - 1 /\ Place(pos) % 65536 = pos.lo /\ Place(pos) \div 65536 = pos.hi % 256
<1> DEFINE h == pos.hi
           l == pos.lo
           b == h % 256
<1>1. h \in Int /\ l \in Int /\ 0 <= l /\ l < 65536
  BY WordIs DEF Places
<1>2. b \in 0 .. 255
  BY <1>1
<1>3. Place(pos) = b * 65536 + l
  BY DEF Place
<1> HIDE DEF h, l, b
<1>4. b * 65536 + l \in 0 .. 2^24 - 1 /\ (b * 65536 + l) % 65536 = l /\ (b * 65536 + l) \div 65536 = b
  BY <1>1, <1>2
<1> QED BY <1>3, <1>4 DEF b, h, l

(* The model's carry between its two halves is the RTL's 24-bit sum.       *)
LEMMA MovedPlace ==
  ASSUME NEW pos \in Places, NEW by \in {-1, 1}
  PROVE  Model!Moved(pos, by) \in Places /\ Place(Model!Moved(pos, by)) = Wrap24(Place(pos) + by)
<1> DEFINE h == pos.hi
           l == pos.lo
           q == (l + by) \div 65536
           m == (l + by) % 65536
           g == (h + q) % 65536
<1>1. h \in Int /\ 0 <= h /\ h < 65536 /\ l \in Int /\ 0 <= l /\ l < 65536
  BY WordIs DEF Places
<1>2. Model!Moved(pos, by) = [hi |-> g, lo |-> m]
  BY DEF Model!Moved
<1>3. m \in Int /\ 0 <= m /\ m < 65536 /\ g \in Int /\ 0 <= g /\ g < 65536
  BY <1>1
<1>4. Model!Moved(pos, by) \in Places
  <2>1. m \in Word /\ g \in Word
    BY <1>3 DEF Word
  <2> QED BY <1>2, <2>1 DEF Places
<1>5. Place(Model!Moved(pos, by)) = (g % 256) * 65536 + m /\ Place(pos) = (h % 256) * 65536 + l
  BY <1>2 DEF Place
<1>6. (g % 256) * 65536 + m = ((h % 256) * 65536 + l + by) % 16777216
  <2> DEFINE b == h % 256
  <2>1. b \in 0 .. 255 /\ q \in Int
    BY <1>1
  <2>2. g % 256 = (b + q) % 256
    <3>1. q = -1 \/ q = 0 \/ q = 1
      BY <1>1
    <3>2. \A r \in {-1, 0, 1} : ((h + r) % 65536) % 256 = ((h % 256) + r) % 256
      BY <1>1
    <3> HIDE DEF h, q
    <3> QED BY <3>1, <3>2
  <2>3. l + by = q * 65536 + m
    BY <1>1
  <2>4. b * 65536 + l + by = (b + q) * 65536 + m
    BY <2>1, <2>3, <1>1
  <2> HIDE DEF b, q, m, g
  <2>5. ((b + q) * 65536 + m) % 16777216 = ((b + q) % 256) * 65536 + m
    <3> DEFINE t == b + q
               d == t \div 256
               e == t % 256
    <3>1. t \in Int /\ t = d * 256 + e /\ e \in 0 .. 255 /\ d \in Int
      BY <2>1
    <3> HIDE DEF t, d, e
    <3>2. t * 65536 + m = d * 16777216 + (e * 65536 + m)
      BY <3>1, <1>3
    <3>3. e * 65536 + m \in 0 .. 2^24 - 1
      BY <3>1, <1>3
    <3>4. (d * 16777216 + (e * 65536 + m)) % 16777216 = e * 65536 + m
      BY <3>1, <3>3
    <3> QED BY <3>2, <3>4 DEF t, e
  <2> QED BY <2>2, <2>4, <2>5 DEF b
<1> QED BY <1>4, <1>5, <1>6 DEF Wrap24

(* The registers of a voice of the model, as the RTL holds them. *)
RtlVoice(p, c, s, l, vl, vr) == [pos |-> p, counter |-> c, sample |-> s, last |-> l, volL |-> vl, volR |-> vr]

(* A change of one field of a voice.                                       *)
LEMMA RtlFields ==
  ASSUME NEW p, NEW c, NEW s, NEW l, NEW vl, NEW vr, NEW x
  PROVE  /\ [RtlVoice(p, c, s, l, vl, vr) EXCEPT !.pos = x] = RtlVoice(x, c, s, l, vl, vr)
         /\ [RtlVoice(p, c, s, l, vl, vr) EXCEPT !.counter = x] = RtlVoice(p, x, s, l, vl, vr)
         /\ [RtlVoice(p, c, s, l, vl, vr) EXCEPT !.sample = x] = RtlVoice(p, c, x, l, vl, vr)
         /\ [RtlVoice(p, c, s, l, vl, vr) EXCEPT !.last = x] = RtlVoice(p, c, s, x, vl, vr)
         /\ [RtlVoice(p, c, s, l, vl, vr) EXCEPT !.volL = x] = RtlVoice(p, c, s, l, x, vr)
         /\ [RtlVoice(p, c, s, l, vl, vr) EXCEPT !.volR = x] = RtlVoice(p, c, s, l, vl, x)
<1>1. [RtlVoice(p, c, s, l, vl, vr) EXCEPT !.pos = x] = RtlVoice(x, c, s, l, vl, vr)
  BY DEF RtlVoice
<1>2. [RtlVoice(p, c, s, l, vl, vr) EXCEPT !.counter = x] = RtlVoice(p, x, s, l, vl, vr)
  BY DEF RtlVoice
<1>3. [RtlVoice(p, c, s, l, vl, vr) EXCEPT !.sample = x] = RtlVoice(p, c, x, l, vl, vr)
  BY DEF RtlVoice
<1>4. [RtlVoice(p, c, s, l, vl, vr) EXCEPT !.last = x] = RtlVoice(p, c, s, x, vl, vr)
  BY DEF RtlVoice
<1>5. [RtlVoice(p, c, s, l, vl, vr) EXCEPT !.volL = x] = RtlVoice(p, c, s, l, x, vr)
  BY DEF RtlVoice
<1>6. [RtlVoice(p, c, s, l, vl, vr) EXCEPT !.volR = x] = RtlVoice(p, c, s, l, vl, x)
  BY DEF RtlVoice
<1> QED BY <1>1, <1>2, <1>3, <1>4, <1>5, <1>6

Registers(f, g) == [vol_f |-> f.vol_f, freq |-> f.freq, flags |-> g, bank |-> f.bank, start |-> f.start, end |-> f.end, loop |-> f.loop]
RegsOf(mv) == Registers(mv, mv.flags)

(* A change of the flags.                                                  *)
LEMMA RegisterFlags ==
  ASSUME NEW f, NEW g, NEW x
  PROVE  [Registers(f, g) EXCEPT !.flags = x] = Registers(f, x)
  BY DEF Registers

Copies(r, v, busy, next, byte, l, t) == [r |-> r, v |-> v, busy |-> busy, next |-> next, rom_byte |-> byte, pl |-> l, pr |-> t]

(* A change of one working copy.                                           *)
LEMMA CopyFields ==
  ASSUME NEW r, NEW v, NEW busy, NEW next, NEW byte, NEW l, NEW t, NEW x
  PROVE  /\ [Copies(r, v, busy, next, byte, l, t) EXCEPT !.r = x] = Copies(x, v, busy, next, byte, l, t)
         /\ [Copies(r, v, busy, next, byte, l, t) EXCEPT !.v = x] = Copies(r, x, busy, next, byte, l, t)
         /\ [Copies(r, v, busy, next, byte, l, t) EXCEPT !.busy = x] = Copies(r, v, x, next, byte, l, t)
         /\ [Copies(r, v, busy, next, byte, l, t) EXCEPT !.next = x] = Copies(r, v, busy, x, byte, l, t)
         /\ [Copies(r, v, busy, next, byte, l, t) EXCEPT !.rom_byte = x] = Copies(r, v, busy, next, x, l, t)
         /\ [Copies(r, v, busy, next, byte, l, t) EXCEPT !.pl = x] = Copies(r, v, busy, next, byte, x, t)
         /\ [Copies(r, v, busy, next, byte, l, t) EXCEPT !.pr = x] = Copies(r, v, busy, next, byte, l, x)
<1>1. [Copies(r, v, busy, next, byte, l, t) EXCEPT !.r = x] = Copies(x, v, busy, next, byte, l, t)
  BY DEF Copies
<1>2. [Copies(r, v, busy, next, byte, l, t) EXCEPT !.v = x] = Copies(r, x, busy, next, byte, l, t)
  BY DEF Copies
<1>3. [Copies(r, v, busy, next, byte, l, t) EXCEPT !.busy = x] = Copies(r, v, x, next, byte, l, t)
  BY DEF Copies
<1>4. [Copies(r, v, busy, next, byte, l, t) EXCEPT !.next = x] = Copies(r, v, busy, x, byte, l, t)
  BY DEF Copies
<1>5. [Copies(r, v, busy, next, byte, l, t) EXCEPT !.rom_byte = x] = Copies(r, v, busy, next, x, l, t)
  BY DEF Copies
<1>6. [Copies(r, v, busy, next, byte, l, t) EXCEPT !.pl = x] = Copies(r, v, busy, next, byte, x, t)
  BY DEF Copies
<1>7. [Copies(r, v, busy, next, byte, l, t) EXCEPT !.pr = x] = Copies(r, v, busy, next, byte, l, x)
  BY DEF Copies
<1> QED BY <1>1, <1>2, <1>3, <1>4, <1>5, <1>6, <1>7

(* AsRtl, field by field.                                                  *)
LEMMA AsRtlIs == \A mv : AsRtl(mv) = RtlVoice(Place(mv.pos), mv.counter, Wrap16(mv.sample), Wrap16(mv.last), mv.cur[1], mv.cur[2])
  BY DEF AsRtl, RtlVoice, Place

(* A byte, and what a voice makes of it.  *)
Sampled(mv) ==
  LET s == Model!s8(Model!read_byte(mv.pos))
  IN  [mv EXCEPT !.last = mv.sample, !.sample = IF "MULAW" \in mv.flags THEN Model!mulaw_table[s % 256] ELSE Model!s16(s * 256)]

(* A byte is a signed sample's upper half.                                 *)
LEMMA ByteSample ==
  ASSUME NEW b \in Octet
  PROVE  /\ Model!s8(b) % 256 = b
         /\ Model!s16(Model!s8(b) * 256) \in Sample /\ Wrap16(Model!s16(Model!s8(b) * 256)) = b * 256
<1> DEFINE s == Model!s8(b)
<1>1. s \in Int /\ s = (IF b >= 128 THEN b - 256 ELSE b)
  BY DEF Model!s8, Octet
<1>2. s % 256 = b /\ s * 256 \in Int /\ (s * 256) % 65536 = b * 256
  <2>1. CASE b >= 128
    BY <1>1, <2>1 DEF Octet
  <2>2. CASE ~(b >= 128)
    BY <1>1, <2>2 DEF Octet
  <2> QED BY <2>1, <2>2
<1>3. Wrap16(s * 256) = b * 256
  BY <1>2 DEF Wrap16
<1> DEFINE x == s * 256
<1>4. x \in Int /\ Wrap16(x) = b * 256
  BY <1>2, <1>3
<1>5. Model!s16(x) \in Sample /\ Wrap16(Model!s16(x)) = b * 256
  <2> HIDE DEF x
  <2> QED BY <1>4, SixteenBits
<1> QED BY <1>2, <1>5

(* What a voice of the model makes of a byte.                              *)
LEMMA SampledVoice ==
  ASSUME RomOfBytes, NEW mv \in ModelVoices
  PROVE  /\ Rom(Place(mv.pos)) \in Octet
         /\ Sampled(mv) \in ModelVoices
         /\ Wrap16(Sampled(mv).sample) = (IF "MULAW" \in mv.flags THEN mulaw[Rom(Place(mv.pos))] ELSE Rom(Place(mv.pos)) * 256)
         /\ Wrap16(Sampled(mv).last) = Wrap16(mv.sample)
<1> DEFINE b == Rom(Place(mv.pos))
           s == Model!s8(b)
           q == IF "MULAW" \in mv.flags THEN Model!mulaw_table[s % 256] ELSE Model!s16(s * 256)
<1>1. b \in Octet
  <2>1. mv.pos \in Places
    BY DEF ModelVoices, Places
  <2>2. Place(mv.pos) \in 0 .. 2^24 - 1
    BY <2>1, PlaceRange
  <2> QED BY <2>2 DEF RomOfBytes
<1>2. Sampled(mv) = [mv EXCEPT !.last = mv.sample, !.sample = q]
  BY DEF Sampled, Model!read_byte, Place
<1>3. q \in Sample /\ Wrap16(q) = (IF "MULAW" \in mv.flags THEN mulaw[b] ELSE b * 256)
  <2> HIDE DEF b
  <2>1. Model!s8(b) % 256 = b /\ Model!s16(Model!s8(b) * 256) \in Sample /\ Wrap16(Model!s16(Model!s8(b) * 256)) = b * 256
    BY <1>1, ByteSample
  <2>2. Model!mulaw_table[b] \in Sample /\ mulaw[b] = Wrap16(Model!mulaw_table[b])
    BY <1>1, TablesAgree DEF Octet
  <2> QED BY <2>1, <2>2
<1> HIDE DEF q
<1>4. Sampled(mv) \in ModelVoices /\ Sampled(mv).sample = q /\ Sampled(mv).last = mv.sample
  BY <1>2, <1>3 DEF ModelVoices
<1> QED BY <1>1, <1>3, <1>4

(* A voice in the working copies, and its byte. *)
InWork(mv, busy, byte) == w = Copies(RegsOf(mv), AsRtl(mv), busy, mv.counter + mv.freq, byte, 0, 0)

(* The flags in the working copies are those of the voice.                 *)
LEMMA WorkFlags == ASSUME NEW mv, NEW busy, NEW byte, InWork(mv, busy, byte), NEW flag PROVE Flag(flag) <=> flag \in mv.flags
  BY DEF Flag, InWork, Copies, RegsOf, Registers

(* S_V4 and read_byte make the same of a byte.                             *)
LEMMA ByteAgrees ==
  ASSUME RomOfBytes, NEW mv \in ModelVoices, NEW busy, InWork(mv, busy, Rom(Place(mv.pos)))
  PROVE  Byte = Copies(RegsOf(mv), AsRtl(Sampled(mv)), busy, mv.counter + mv.freq, Rom(Place(mv.pos)), 0, 0)
<1> DEFINE m == Sampled(mv)
           b == Rom(Place(mv.pos))
<1>1. /\ m.pos = mv.pos /\ m.counter = mv.counter /\ m.cur = mv.cur
  BY DEF Sampled, ModelVoices
<1>2. /\ Wrap16(m.sample) = (IF Flag("MULAW") THEN mulaw[b] ELSE b * 256) /\ Wrap16(m.last) = Wrap16(mv.sample)
  BY SampledVoice, WorkFlags
<1>3. w.v = AsRtl(mv) /\ w.v.sample = Wrap16(mv.sample) /\ w.rom_byte = b
  BY DEF InWork, Copies, AsRtl
<1>4. Byte = [w EXCEPT !.v = [[w.v EXCEPT !.last = Wrap16(m.last)] EXCEPT !.sample = Wrap16(m.sample)]]
  <2> HIDE DEF m, b
  <2> QED BY <1>2, <1>3 DEF Byte
<1>5. [[w.v EXCEPT !.last = Wrap16(m.last)] EXCEPT !.sample = Wrap16(m.sample)] = AsRtl(m)
  <2> DEFINE p == Place(mv.pos)
             x == Wrap16(m.last)
             q == Wrap16(m.sample)
             z == Wrap16(mv.sample)
             u == Wrap16(mv.last)
  <2>1. w.v = RtlVoice(p, mv.counter, z, u, mv.cur[1], mv.cur[2])
    BY <1>3, AsRtlIs
  <2>2. AsRtl(m) = RtlVoice(p, mv.counter, q, x, mv.cur[1], mv.cur[2])
    BY <1>1, AsRtlIs
  <2> HIDE DEF m, b, p, x, q, z, u
  <2> DEFINE f == [w.v EXCEPT !.last = x]
  <2>3. f = RtlVoice(p, mv.counter, z, x, mv.cur[1], mv.cur[2])
    BY <2>1 DEF RtlVoice
  <2> HIDE DEF f
  <2>4. [f EXCEPT !.sample = q] = RtlVoice(p, mv.counter, q, x, mv.cur[1], mv.cur[2])
    BY <2>3 DEF RtlVoice
  <2> QED BY <2>2, <2>4 DEF f, x, q
<1>6. [w EXCEPT !.v = AsRtl(m)] = Copies(RegsOf(mv), AsRtl(m), busy, mv.counter + mv.freq, b, 0, 0)
  <2> DEFINE next == mv.counter + mv.freq
  <2>1. w = Copies(RegsOf(mv), AsRtl(mv), busy, next, b, 0, 0)
    BY DEF InWork
  <2> HIDE DEF m, b, next
  <2>2. [w EXCEPT !.v = AsRtl(m)] = Copies(RegsOf(mv), AsRtl(m), busy, next, b, 0, 0)
    BY <2>1, CopyFields
  <2> QED BY <2>2 DEF next
<1> QED BY <1>4, <1>5, <1>6

(* What changes in the working copies, and in a voice of the model. *)
Going(k, x, F)  == [k EXCEPT !.v.pos = x, !.r.flags = F]
Silent(k, x, F) == [k EXCEPT !.v.sample = x, !.r.flags = F]
Placed(k, x)    == [k EXCEPT !.v.pos = x]
Noised(k, s, x) == [k EXCEPT !.v.last = s, !.v.sample = x]

(* What the four kinds of change make of the working copies.               *)
LEMMA CopyChanges ==
  ASSUME NEW g, NEW h, NEW p, NEW c, NEW s, NEW l, NEW vl, NEW vr, NEW busy, NEW next, NEW byte, NEW x, NEW F
  PROVE  LET k == Copies(Registers(g, h), RtlVoice(p, c, s, l, vl, vr), busy, next, byte, 0, 0) IN
         /\ Going(k, x, F) = Copies(Registers(g, F), RtlVoice(x, c, s, l, vl, vr), busy, next, byte, 0, 0)
         /\ Silent(k, x, F) = Copies(Registers(g, F), RtlVoice(p, c, x, l, vl, vr), busy, next, byte, 0, 0)
         /\ Placed(k, x) = Copies(Registers(g, h), RtlVoice(x, c, s, l, vl, vr), busy, next, byte, 0, 0)
         /\ Noised(k, s, x) = Copies(Registers(g, h), RtlVoice(p, c, x, s, vl, vr), busy, next, byte, 0, 0)
<1> DEFINE k == Copies(Registers(g, h), RtlVoice(p, c, s, l, vl, vr), busy, next, byte, 0, 0)
<1> DEFINE v == RtlVoice(p, c, s, l, vl, vr)
           r == Registers(g, h)
           v1 == RtlVoice(x, c, s, l, vl, vr)
           v2 == RtlVoice(p, c, x, l, vl, vr)
           v3 == RtlVoice(p, c, s, s, vl, vr)
           v4 == RtlVoice(p, c, x, s, vl, vr)
           r1 == Registers(g, F)
<1>1. [v EXCEPT !.pos = x] = v1 /\ [v EXCEPT !.sample = x] = v2 /\ [v EXCEPT !.last = s] = v3 /\ [v3 EXCEPT !.sample = x] = v4
  <2>1. [v EXCEPT !.pos = x] = v1
    BY DEF RtlVoice
  <2>2. [v EXCEPT !.sample = x] = v2
    BY DEF RtlVoice
  <2>3. [v EXCEPT !.last = s] = v3
    BY DEF RtlVoice
  <2>4. [v3 EXCEPT !.sample = x] = v4
    BY DEF RtlVoice
  <2> QED BY <2>1, <2>2, <2>3, <2>4
<1>2. [r EXCEPT !.flags = F] = r1
  BY RegisterFlags
<1>3. k.v = v /\ k.r = r
  BY DEF Copies
<1> HIDE DEF v, r, v1, v2, v3, v4, r1
<1>4. [k EXCEPT !.v = v1] = Copies(r, v1, busy, next, byte, 0, 0) /\ [k EXCEPT !.v = v2] = Copies(r, v2, busy, next, byte, 0, 0)
      /\ [k EXCEPT !.v = v4] = Copies(r, v4, busy, next, byte, 0, 0)
  <2>1. k = Copies(r, v, busy, next, byte, 0, 0)
    BY DEF r, v
  <2> HIDE DEF k
  <2> QED BY <2>1 DEF Copies
<1> HIDE DEF k
<1>5. [Copies(r, v1, busy, next, byte, 0, 0) EXCEPT !.r = r1] = Copies(r1, v1, busy, next, byte, 0, 0)
      /\ [Copies(r, v2, busy, next, byte, 0, 0) EXCEPT !.r = r1] = Copies(r1, v2, busy, next, byte, 0, 0)
  BY DEF Copies
<1> DEFINE k1 == [k EXCEPT !.v = v1]
           k2 == [k EXCEPT !.v = v2]
<1>6. k1.r = r /\ k2.r = r
  BY <1>4 DEF Copies
<1>7. [k EXCEPT !.v.pos = x, !.r.flags = F] = [k1 EXCEPT !.r = r1]
  BY <1>1, <1>2, <1>3, <1>6
<1>8. [k EXCEPT !.v.sample = x, !.r.flags = F] = [k2 EXCEPT !.r = r1]
  BY <1>1, <1>2, <1>3, <1>6
<1>9. [k EXCEPT !.v.pos = x] = [k EXCEPT !.v = v1]
  BY <1>1, <1>3
<1>10. [k EXCEPT !.v.last = s, !.v.sample = x] = [k EXCEPT !.v = v4]
  <2>1. [[v EXCEPT !.last = s] EXCEPT !.sample = x] = v4
    <3> DEFINE f == [v EXCEPT !.last = s]
    <3>1. f = v3
      BY <1>1
    <3> HIDE DEF f
    <3>2. [f EXCEPT !.sample = x] = v4
      BY <1>1, <3>1
    <3> QED BY <3>2 DEF f
  <2> QED BY <2>1, <1>3
<1>11. [k1 EXCEPT !.r = r1] = Copies(r1, v1, busy, next, byte, 0, 0) /\ [k2 EXCEPT !.r = r1] = Copies(r1, v2, busy, next, byte, 0, 0)
  <2>1. k1 = Copies(r, v1, busy, next, byte, 0, 0) /\ k2 = Copies(r, v2, busy, next, byte, 0, 0)
    BY <1>4
  <2> HIDE DEF k1, k2
  <2> QED BY <1>5, <2>1
<1> QED BY <1>3, <1>4, <1>7, <1>8, <1>9, <1>10, <1>11 DEF k, v, r, v1, v2, v4, r1, Going, Silent, Placed, Noised

Becomes(f, m, F, Q, S) ==
  /\ f \in ModelVoices /\ RegsOf(f) = Registers(m, F)
  /\ AsRtl(f) = RtlVoice(Place(Q), m.counter, Wrap16(S), Wrap16(m.last), m.cur[1], m.cur[2])

(* A voice with other flags, elsewhere.                                    *)
LEMMA GoingVoice ==
  ASSUME NEW m \in ModelVoices, NEW F \in SUBSET Flags, NEW Q \in Places, NEW f, f = [m EXCEPT !.flags = F, !.pos = Q]
  PROVE  Becomes(f, m, F, Q, m.sample)
<1>1. f \in ModelVoices
  BY DEF ModelVoices, Places
<1>2. /\ f.pos = Q /\ f.flags = F /\ f.counter = m.counter /\ f.sample = m.sample /\ f.last = m.last /\ f.cur = m.cur
      /\ f.vol_f = m.vol_f /\ f.freq = m.freq /\ f.bank = m.bank /\ f.start = m.start /\ f.end = m.end /\ f.loop = m.loop
  BY DEF ModelVoices
<1> QED BY <1>1, <1>2, AsRtlIs DEF RegsOf, Registers, Becomes

(* A voice elsewhere.                                                      *)
LEMMA PlacedVoice ==
  ASSUME NEW m \in ModelVoices, NEW Q \in Places, NEW f, f = [m EXCEPT !.pos = Q]
  PROVE  Becomes(f, m, m.flags, Q, m.sample)
<1>1. f \in ModelVoices
  BY DEF ModelVoices, Places
<1>2. /\ f.pos = Q /\ f.flags = m.flags /\ f.counter = m.counter /\ f.sample = m.sample /\ f.last = m.last /\ f.cur = m.cur
      /\ f.vol_f = m.vol_f /\ f.freq = m.freq /\ f.bank = m.bank /\ f.start = m.start /\ f.end = m.end /\ f.loop = m.loop
  BY DEF ModelVoices
<1> QED BY <1>1, <1>2, AsRtlIs DEF RegsOf, Registers, Becomes

(* A voice with another sample.                                            *)
LEMMA SilentVoice ==
  ASSUME NEW m \in ModelVoices, NEW F \in SUBSET Flags, NEW S \in Sample, NEW f, f = [m EXCEPT !.flags = F, !.sample = S]
  PROVE  Becomes(f, m, F, m.pos, S)
<1>1. f \in ModelVoices
  BY DEF ModelVoices
<1>2. /\ f.pos = m.pos /\ f.flags = F /\ f.counter = m.counter /\ f.sample = S /\ f.last = m.last /\ f.cur = m.cur
      /\ f.vol_f = m.vol_f /\ f.freq = m.freq /\ f.bank = m.bank /\ f.start = m.start /\ f.end = m.end /\ f.loop = m.loop
  BY DEF ModelVoices
<1> QED BY <1>1, <1>2, AsRtlIs DEF RegsOf, Registers, Becomes

(* Where a voice goes after its byte. *)
Bytes(f, g, p, s, l, mv, busy, byte) ==
  Copies(Registers(f, g), RtlVoice(p, mv.counter, s, l, mv.cur[1], mv.cur[2]), busy, mv.counter + mv.freq, byte, 0, 0)
Resumed(f, mv, busy, byte) == Copies(RegsOf(f), AsRtl(f), busy, mv.counter + mv.freq, byte, 0, 0)

(* Ping-pong, loop, link, end or the next byte: S_V4 goes where            *)
(* c352_model.py's fetch goes.                                             *)
LEMMA AfterByte ==
  ASSUME RomOfBytes, NEW mv \in ModelVoices, NEW busy, InWork(mv, busy, Rom(Place(mv.pos))), "NOISE" \notin mv.flags
  PROVE  LET f == Model!after_byte(Sampled(mv))
             taken == CASE Flag("LOOP") /\ Flag("REVERSE")    -> PingPong
                        [] ~(Flag("LOOP") /\ Flag("REVERSE")) -> IF ~At("end") THEN Moved ELSE IF Flag("LOOP") THEN Looped ELSE Ended
         IN  f \in ModelVoices /\ taken = Resumed(f, mv, busy, Rom(Place(mv.pos)))
<1> DEFINE byte == Rom(Place(mv.pos))
           m == Sampled(mv)
           f == Model!after_byte(m)
           taken == CASE Flag("LOOP") /\ Flag("REVERSE")    -> PingPong
                      [] ~(Flag("LOOP") /\ Flag("REVERSE")) -> IF ~At("end") THEN Moved ELSE IF Flag("LOOP") THEN Looped ELSE Ended
           q == Wrap16(m.sample)
           x == Wrap16(m.last)
           vl == mv.cur[1]
           vr == mv.cur[2]
           next == mv.counter + mv.freq
<1>1. m \in ModelVoices
  BY SampledVoice
<1>2. /\ m.pos = mv.pos /\ m.flags = mv.flags /\ m.counter = mv.counter /\ m.cur = mv.cur /\ m.vol_f = mv.vol_f /\ m.freq = mv.freq
      /\ m.bank = mv.bank /\ m.start = mv.start /\ m.end = mv.end /\ m.loop = mv.loop
  BY DEF Sampled, ModelVoices
<1>3. m.pos \in Places /\ m.pos.hi \in Word /\ m.pos.lo \in Word /\ m.flags \in SUBSET Flags /\ m.loop \in Word /\ m.start \in Word /\ m.end \in Word
  BY <1>1 DEF ModelVoices, Places
<1>4. Byte = Copies(Registers(m, m.flags), RtlVoice(Place(m.pos), m.counter, q, x, m.cur[1], m.cur[2]), busy, next, byte, 0, 0)
  <2>1. AsRtl(m) = RtlVoice(Place(m.pos), m.counter, q, x, m.cur[1], m.cur[2])
    BY AsRtlIs
  <2>2. RegsOf(mv) = Registers(m, m.flags)
    BY <1>2 DEF RegsOf, Registers
  <2>3. Byte = Copies(RegsOf(mv), AsRtl(m), busy, next, byte, 0, 0)
    BY ByteAgrees
  <2> HIDE DEF m, q, x, next, byte
  <2> QED BY <2>1, <2>2, <2>3
<1>5. \A flag : Flag(flag) <=> flag \in m.flags
  BY WorkFlags, <1>2
<1>6. (At("end") <=> m.pos.lo = m.end) /\ (At("loop") <=> m.pos.lo = m.loop) /\ w.r.start = m.start /\ w.r.loop = m.loop
  <2>1. w.v.pos = Place(mv.pos) /\ w.r["end"] = mv.end /\ w.r["loop"] = mv.loop /\ w.r.start = mv.start /\ w.r.loop = mv.loop
    BY DEF InWork, Copies, RegsOf, Registers, AsRtl, Place
  <2>2. Place(m.pos) % 65536 = m.pos.lo
    BY <1>3, PlaceRange
  <2> QED BY <1>2, <2>1, <2>2 DEF At
<1>7. Byte.v.pos = Place(m.pos) /\ Byte.r.flags = m.flags /\ Place(m.pos) \div 65536 = m.pos.hi % 256
  BY <1>3, <1>4, PlaceRange DEF Copies, RtlVoice, Registers
<1>8. m.counter = mv.counter /\ m.cur[1] = vl /\ m.cur[2] = vr /\ m.counter + m.freq = next
  BY <1>2
<1> HIDE DEF m, q, x, vl, vr, next, byte
<1>9. Model!Moved(m.pos, -1) \in Places /\ Model!Moved(m.pos, 1) \in Places
      /\ Place(Model!Moved(m.pos, -1)) = Wrap24(Place(m.pos) - 1) /\ Place(Model!Moved(m.pos, 1)) = Wrap24(Place(m.pos) + 1)
  <2>1. Place(m.pos) \in 0 .. 2^24 - 1
    BY <1>3, PlaceRange
  <2>2. Place(m.pos) - 1 = Place(m.pos) + (-1)
    BY <2>1
  <2> QED BY <1>3, <2>2, MovedPlace
<1>10. CASE Flag("LOOP") /\ Flag("REVERSE")
  <2> DEFINE F == IF Ldir THEN m.flags \cup {"LDIR"} ELSE m.flags \ {"LDIR"}
             Q == Model!Moved(m.pos, IF Ldir THEN -1 ELSE 1)
  <2>1. F \in SUBSET Flags /\ Q \in Places /\ Place(Q) = Wrap24(IF Ldir THEN Place(m.pos) - 1 ELSE Place(m.pos) + 1)
    BY <1>3, <1>9 DEF Flags
  <2>2. f = [m EXCEPT !.flags = F, !.pos = Q]
    <3>1. Ldir <=> (IF "LDIR" \in m.flags THEN m.pos.lo # m.loop ELSE m.pos.lo = m.end)
      BY <1>5, <1>6 DEF Ldir
    <3>2. {"LOOP", "REVERSE"} \subseteq m.flags
      BY <1>10, <1>5
    <3> QED BY <3>1, <3>2 DEF Model!after_byte
  <2>3. taken = Going(Byte, Place(Q), F)
    <3>0. taken = [Byte EXCEPT !.v.pos = Place(Q), !.r.flags = F]
      <4>1. taken = PingPong
        BY <1>10
      <4> HIDE DEF taken, Q
      <4>2. taken = [Byte EXCEPT !.v.pos = Wrap24(IF Ldir THEN Byte.v.pos - 1 ELSE Byte.v.pos + 1),
                                 !.r.flags = IF Ldir THEN Byte.r.flags \cup {"LDIR"} ELSE Byte.r.flags \ {"LDIR"}]
        BY <4>1 DEF PingPong
      <4>3. Wrap24(IF Ldir THEN Byte.v.pos - 1 ELSE Byte.v.pos + 1) = Place(Q)
        BY <2>1, <1>7
      <4>4. (IF Ldir THEN Byte.r.flags \cup {"LDIR"} ELSE Byte.r.flags \ {"LDIR"}) = F
        BY <1>7
      <4> HIDE DEF F
      <4> QED BY <4>2, <4>3, <4>4
    <3> QED BY <3>0 DEF Going
  <2> HIDE DEF F, Q, taken, f
  <2>4. taken = Copies(Registers(m, F), RtlVoice(Place(Q), m.counter, q, x, m.cur[1], m.cur[2]), busy, next, byte, 0, 0)
    BY <1>4, <2>3, CopyChanges
  <2>5. f \in ModelVoices /\ RegsOf(f) = Registers(m, F) /\ AsRtl(f) = RtlVoice(Place(Q), m.counter, q, x, m.cur[1], m.cur[2])
    <3>1. Becomes(f, m, F, Q, m.sample)
      BY <1>1, <2>1, <2>2, GoingVoice
    <3> QED BY <3>1 DEF Becomes, q, x
  <2> QED BY <2>4, <2>5 DEF Resumed, next, byte, taken, f, m
<1>11. CASE ~(Flag("LOOP") /\ Flag("REVERSE"))
  <2>1. ~({"LOOP", "REVERSE"} \subseteq m.flags)
    BY <1>11, <1>5
  <2>2. CASE ~At("end")
    <3> DEFINE Q == Model!Moved(m.pos, IF Flag("REVERSE") THEN -1 ELSE 1)
    <3>1. Q \in Places /\ Place(Q) = Wrap24(IF Flag("REVERSE") THEN Place(m.pos) - 1 ELSE Place(m.pos) + 1)
      BY <1>9
    <3>2. f = [m EXCEPT !.pos = Q]
      BY <1>5, <1>6, <2>1, <2>2 DEF Model!after_byte
    <3>3. taken = Placed(Byte, Place(Q))
      <4>1. taken = Moved
        BY <1>11, <2>2
      <4> HIDE DEF Q, taken
      <4>2. taken = [Byte EXCEPT !.v.pos = Wrap24(IF Flag("REVERSE") THEN Byte.v.pos - 1 ELSE Byte.v.pos + 1)]
        BY <4>1 DEF Moved
      <4>3. Wrap24(IF Flag("REVERSE") THEN Byte.v.pos - 1 ELSE Byte.v.pos + 1) = Place(Q)
        BY <3>1, <1>7
      <4> QED BY <4>2, <4>3 DEF Placed
    <3> HIDE DEF Q, taken, f
    <3>4. taken = Copies(Registers(m, m.flags), RtlVoice(Place(Q), m.counter, q, x, m.cur[1], m.cur[2]), busy, next, byte, 0, 0)
      BY <1>4, <3>3, CopyChanges
    <3>5. f \in ModelVoices /\ RegsOf(f) = Registers(m, m.flags) /\ AsRtl(f) = RtlVoice(Place(Q), m.counter, q, x, m.cur[1], m.cur[2])
      <4>1. Becomes(f, m, m.flags, Q, m.sample)
        BY <1>1, <3>1, <3>2, PlacedVoice
      <4> QED BY <4>1 DEF Becomes, q, x
    <3> QED BY <3>4, <3>5 DEF Resumed, next, byte, taken, f, m
  <2>3. CASE At("end") /\ Flag("LOOP")
    <3> DEFINE h == IF "LINK" \in m.flags THEN m.start ELSE m.pos.hi % 256
               Q == [hi |-> h, lo |-> m.loop]
               F == m.flags \cup {"LOOPHIST"}
    <3>1. Q \in Places /\ F \in SUBSET Flags
      <4>1. m.pos.hi % 256 \in Word
        BY <1>3, WordIs
      <4> QED BY <1>3, <4>1 DEF Places, Flags
    <3>2. f = [m EXCEPT !.flags = F, !.pos = Q]
      BY <1>5, <1>6, <2>1, <2>3 DEF Model!after_byte
    <3>3. taken = Going(Byte, Place(Q), F)
      <4>1. taken = Looped
        BY <1>11, <2>3
      <4>2. Place(Q) = (IF Flag("LINK") THEN w.r.start % 256 ELSE Place(m.pos) \div 65536) * 65536 + w.r.loop
        <5>1. (m.pos.hi % 256) % 256 = m.pos.hi % 256
          BY <1>3, WordIs
        <5> QED BY <5>1, <1>5, <1>6, <1>7 DEF Place
      <4> HIDE DEF Q, F, taken
      <4> DEFINE e == (IF Flag("LINK") THEN w.r.start % 256 ELSE Byte.v.pos \div 65536) * 65536 + w.r.loop
                 g == Byte.r.flags \cup {"LOOPHIST"}
      <4>3. taken = Going(Byte, e, g)
        BY <4>1 DEF Looped, Going
      <4>4. g = F
        BY <1>7 DEF F
      <4>5. e = Place(Q)
        BY <4>2, <1>7
      <4> HIDE DEF e, g
      <4> QED BY <4>3, <4>4, <4>5
    <3> HIDE DEF F, Q, taken, f
    <3>4. taken = Copies(Registers(m, F), RtlVoice(Place(Q), m.counter, q, x, m.cur[1], m.cur[2]), busy, next, byte, 0, 0)
      BY <1>4, <3>3, CopyChanges
    <3>5. f \in ModelVoices /\ RegsOf(f) = Registers(m, F) /\ AsRtl(f) = RtlVoice(Place(Q), m.counter, q, x, m.cur[1], m.cur[2])
      <4>1. Becomes(f, m, F, Q, m.sample)
        BY <1>1, <3>1, <3>2, GoingVoice
      <4> QED BY <4>1 DEF Becomes, q, x
    <3> QED BY <3>4, <3>5 DEF Resumed, next, byte, taken, f, m
  <2>4. CASE At("end") /\ ~Flag("LOOP")
    <3> DEFINE F == (m.flags \cup {"KEYOFF"}) \ {"BUSY"}
    <3>1. F \in SUBSET Flags /\ 0 \in Sample /\ Wrap16(0) = 0
      BY <1>3 DEF Flags, Sample, Wrap16
    <3>2. f = [m EXCEPT !.flags = F, !.sample = 0]
      BY <1>5, <1>6, <2>1, <2>4 DEF Model!after_byte
    <3>3. taken = Silent(Byte, 0, F)
      <4>1. taken = Ended
        BY <1>11, <2>4
      <4> HIDE DEF taken
      <4>2. taken = [Byte EXCEPT !.v.sample = 0, !.r.flags = (Byte.r.flags \cup {"KEYOFF"}) \ {"BUSY"}]
        BY <4>1 DEF Ended
      <4>3. (Byte.r.flags \cup {"KEYOFF"}) \ {"BUSY"} = F
        BY <1>7
      <4> QED BY <4>2, <4>3 DEF Silent
    <3> HIDE DEF F, taken, f
    <3>4. taken = Copies(Registers(m, F), RtlVoice(Place(m.pos), m.counter, 0, x, m.cur[1], m.cur[2]), busy, next, byte, 0, 0)
      BY <1>4, <3>3, CopyChanges
    <3>5. f \in ModelVoices /\ RegsOf(f) = Registers(m, F) /\ AsRtl(f) = RtlVoice(Place(m.pos), m.counter, 0, x, m.cur[1], m.cur[2])
      <4>1. Becomes(f, m, F, m.pos, 0)
        BY <1>1, <3>1, <3>2, SilentVoice
      <4> QED BY <4>1, <3>1 DEF Becomes, x
    <3> QED BY <3>4, <3>5 DEF Resumed, next, byte, taken, f, m
  <2> QED BY <2>2, <2>3, <2>4
<1> QED BY <1>10, <1>11

(* What a step leaves alone in a voice. *)
Kept(f, mv) ==
  /\ f.counter = mv.counter /\ f.cur = mv.cur /\ f.vol_f = mv.vol_f /\ f.freq = mv.freq
  /\ f.bank = mv.bank /\ f.start = mv.start /\ f.end = mv.end /\ f.loop = mv.loop

(* Nothing of this changes counter, volumes, pitch or bounds.              *)
LEMMA AfterByteKeeps ==
  ASSUME NEW m \in ModelVoices
  PROVE  Kept(Model!after_byte(m), m)
<1> DEFINE f == Model!after_byte(m)
<1>4. ASSUME {"LOOP", "REVERSE"} \subseteq m.flags PROVE Kept(f, m)
  <2> DEFINE ldir == IF "LDIR" \in m.flags THEN m.pos.lo # m.loop ELSE m.pos.lo = m.end
             F == IF ldir THEN m.flags \cup {"LDIR"} ELSE m.flags \ {"LDIR"}
             Q == Model!Moved(m.pos, IF ldir THEN -1 ELSE 1)
  <2>1. f = [m EXCEPT !.flags = F, !.pos = Q]
    BY <1>4 DEF Model!after_byte
  <2> HIDE DEF f, F, Q
  <2> QED BY <2>1 DEF ModelVoices, Kept
<1>5. ASSUME ~({"LOOP", "REVERSE"} \subseteq m.flags) /\ m.pos.lo # m.end PROVE Kept(f, m)
  <2> DEFINE Q == Model!Moved(m.pos, IF "REVERSE" \in m.flags THEN -1 ELSE 1)
  <2>1. f = [m EXCEPT !.pos = Q]
    BY <1>5 DEF Model!after_byte
  <2> HIDE DEF f, Q
  <2> QED BY <2>1 DEF ModelVoices, Kept
<1>6. ASSUME ~({"LOOP", "REVERSE"} \subseteq m.flags) /\ m.pos.lo = m.end /\ "LOOP" \in m.flags PROVE Kept(f, m)
  <2> DEFINE Q == [hi |-> IF "LINK" \in m.flags THEN m.start ELSE m.pos.hi % 256, lo |-> m.loop]
             F == m.flags \cup {"LOOPHIST"}
  <2>1. f = [m EXCEPT !.flags = F, !.pos = Q]
    BY <1>6 DEF Model!after_byte
  <2> HIDE DEF f, F, Q
  <2> QED BY <2>1 DEF ModelVoices, Kept
<1>7. ASSUME ~({"LOOP", "REVERSE"} \subseteq m.flags) /\ m.pos.lo = m.end /\ "LOOP" \notin m.flags PROVE Kept(f, m)
  <2> DEFINE F == (m.flags \cup {"KEYOFF"}) \ {"BUSY"}
  <2>1. f = [m EXCEPT !.flags = F, !.sample = 0]
    BY <1>7 DEF Model!after_byte
  <2> HIDE DEF f, F
  <2> QED BY <2>1 DEF ModelVoices, Kept
<1> QED BY <1>4, <1>5, <1>6, <1>7

(* What the RTL takes is what the model fetches. *)
Fetches(mv) == mv.counter + mv.freq >= 65536
Fetched(mv, noise) == IF Fetches(mv) THEN Model!fetch(mv, noise) ELSE mv

(* What S_V4 takes, noise or byte, is what the model fetches.              *)
LEMMA TakenAgrees ==
  ASSUME RomOfBytes, NEW mv \in ModelVoices, NEW busy, NEW byte, InWork(mv, busy, byte), random \in Word,
         Fetches(mv) /\ "NOISE" \notin mv.flags => byte = Rom(Place(mv.pos))
  PROVE  LET f == Fetched(mv, random) IN
         f \in ModelVoices /\ Kept(f, mv) /\ Taken = Resumed(f, mv, busy, byte)
<1> DEFINE f == Fetched(mv, random)
<1>1. w.next = mv.counter + mv.freq /\ w.next \in Int /\ (Flag("NOISE") <=> "NOISE" \in mv.flags)
  <2>1. mv.counter \in Int /\ mv.freq \in Int
    BY WordIs DEF ModelVoices
  <2> QED BY <2>1, WorkFlags DEF InWork, Copies
<1>2. CASE ~Fetches(mv)
  <2>1. Taken = w
    BY <1>1, <1>2 DEF Fetches, Taken
  <2>2. f = mv
    BY <1>2 DEF Fetched
  <2> QED BY <2>1, <2>2 DEF Kept, Resumed, InWork
<1>3. CASE Fetches(mv) /\ "NOISE" \in mv.flags
  <2> DEFINE x == Model!next_random(random)
             q == Model!s16(x)
  <2>1. x \in Word /\ x \in Int
    BY NoiseWord, WordIs
  <2>2. nr = x
    BY DEF nr, Model!next_random
  <2>3. f = [mv EXCEPT !.last = mv.sample, !.sample = q]
    BY <1>3 DEF Fetched, Model!fetch
  <2>4. q \in Sample /\ Wrap16(q) = x
    <3> HIDE DEF x
    <3> QED BY <2>1, SixteenBits
  <2>5. Taken = Noised(w, w.v.sample, x)
    <3>1. Taken = Noise
      BY <1>1, <1>3 DEF Fetches, Taken
    <3> HIDE DEF x
    <3> QED BY <3>1, <2>2 DEF Noise, Noised
  <2> HIDE DEF x, q
  <2>6. f \in ModelVoices
    <3> HIDE DEF f
    <3> QED BY <2>3, <2>4 DEF ModelVoices
  <2>7. /\ f.pos = mv.pos /\ f.flags = mv.flags /\ f.sample = q /\ f.last = mv.sample /\ Kept(f, mv)
    <3> HIDE DEF f
    <3> QED BY <2>3 DEF ModelVoices, Kept
  <2> DEFINE z == Wrap16(mv.sample)
             u == Wrap16(mv.last)
             P == Place(mv.pos)
             next == mv.counter + mv.freq
  <2>8. AsRtl(f) = RtlVoice(P, mv.counter, x, z, mv.cur[1], mv.cur[2]) /\ RegsOf(f) = Registers(mv, mv.flags)
    BY <2>4, <2>7, AsRtlIs DEF RegsOf, Registers, Kept
  <2>9. w = Copies(Registers(mv, mv.flags), RtlVoice(P, mv.counter, z, u, mv.cur[1], mv.cur[2]), busy, next, byte, 0, 0) /\ w.v.sample = z
    BY AsRtlIs DEF InWork, RegsOf, Copies, RtlVoice
  <2> HIDE DEF f, z, u, P, next
  <2>10. Taken = Copies(Registers(mv, mv.flags), RtlVoice(P, mv.counter, x, z, mv.cur[1], mv.cur[2]), busy, next, byte, 0, 0)
    BY <2>5, <2>9, CopyChanges
  <2> QED BY <2>6, <2>7, <2>8, <2>10 DEF Resumed, next, f
<1>4. CASE Fetches(mv) /\ "NOISE" \notin mv.flags
  <2> DEFINE taken == CASE Flag("LOOP") /\ Flag("REVERSE")    -> PingPong
                        [] ~(Flag("LOOP") /\ Flag("REVERSE")) -> IF ~At("end") THEN Moved ELSE IF Flag("LOOP") THEN Looped ELSE Ended
  <2>1. Taken = taken
    BY <1>1, <1>4 DEF Fetches, Taken
  <2>2. f = Model!after_byte(Sampled(mv))
    BY <1>4 DEF Fetched, Model!fetch, Sampled
  <2>3. byte = Rom(Place(mv.pos))
    BY <1>4
  <2>4. f \in ModelVoices /\ taken = Resumed(f, mv, busy, byte)
    <3> HIDE DEF f, taken
    <3> QED BY <1>4, <2>2, <2>3, AfterByte DEF taken
  <2>5. Kept(f, Sampled(mv)) /\ Kept(Sampled(mv), mv)
    <3>1. Sampled(mv) \in ModelVoices
      BY SampledVoice
    <3>2. Kept(Sampled(mv), mv)
      BY DEF Sampled, ModelVoices, Kept
    <3> QED BY <2>2, <3>1, <3>2, AfterByteKeeps
  <2> HIDE DEF taken, f
  <2> QED BY <2>1, <2>4, <2>5 DEF Kept, f
<1> QED BY <1>2, <1>3, <1>4

(* The counter and the ramps. *)
Counted(k, c, a, b) == [k EXCEPT !.v.counter = c, !.v.volL = a, !.v.volR = b]

(* The counter and the volumes in the working copies.                      *)
LEMMA CountedCopy ==
  ASSUME NEW r, NEW p, NEW d, NEW s, NEW l, NEW vl, NEW vr, NEW busy, NEW next, NEW byte, NEW c, NEW a, NEW b
  PROVE  Counted(Copies(r, RtlVoice(p, d, s, l, vl, vr), busy, next, byte, 0, 0), c, a, b)
         = Copies(r, RtlVoice(p, c, s, l, a, b), busy, next, byte, 0, 0)
<1> DEFINE k == Copies(r, RtlVoice(p, d, s, l, vl, vr), busy, next, byte, 0, 0)
           v == RtlVoice(p, d, s, l, vl, vr)
           v1 == RtlVoice(p, c, s, l, vl, vr)
           v2 == RtlVoice(p, c, s, l, a, vr)
           v3 == RtlVoice(p, c, s, l, a, b)
<1>1. [v EXCEPT !.counter = c] = v1
  BY DEF RtlVoice
<1>2. [v1 EXCEPT !.volL = a] = v2
  BY DEF RtlVoice
<1>3. [v2 EXCEPT !.volR = b] = v3
  BY DEF RtlVoice
<1>4. k.v = v /\ k = Copies(r, v, busy, next, byte, 0, 0)
  BY DEF Copies
<1> HIDE DEF v, v1, v2, v3, k
<1>5. [k EXCEPT !.v = v3] = Copies(r, v3, busy, next, byte, 0, 0)
  BY <1>4 DEF Copies
<1>6. Counted(k, c, a, b) = [k EXCEPT !.v = [[[k.v EXCEPT !.counter = c] EXCEPT !.volL = a] EXCEPT !.volR = b]]
  BY <1>4 DEF Counted, Copies
<1>7. [[[v EXCEPT !.counter = c] EXCEPT !.volL = a] EXCEPT !.volR = b] = v3
  <2> DEFINE f == [v EXCEPT !.counter = c]
             g == [f EXCEPT !.volL = a]
  <2>1. f = v1
    BY <1>1
  <2> HIDE DEF f
  <2>2. g = v2
    BY <1>2, <2>1
  <2> HIDE DEF g
  <2>3. [g EXCEPT !.volR = b] = v3
    BY <1>3, <2>2
  <2> QED BY <2>3 DEF f, g
<1>8. Counted(k, c, a, b) = [k EXCEPT !.v = v3]
  BY <1>4, <1>6, <1>7
<1> QED BY <1>5, <1>8 DEF k, v3, v

CountedTo(f, c, cur) == [f EXCEPT !.counter = c, !.cur = cur]

(* A voice with another counter and other volumes.                         *)
LEMMA CountedVoice ==
  ASSUME NEW f \in ModelVoices, NEW c \in Word, NEW cur \in Int \X Int, NEW t, t = CountedTo(f, c, cur)
  PROVE  /\ t \in ModelVoices /\ RegsOf(t) = RegsOf(f) /\ t.flags = f.flags /\ t.counter = c /\ t.cur = cur /\ t.sample = f.sample /\ t.last = f.last
         /\ t.vol_f = f.vol_f /\ t.freq = f.freq /\ t.bank = f.bank /\ t.start = f.start /\ t.end = f.end /\ t.loop = f.loop
         /\ AsRtl(t) = RtlVoice(Place(f.pos), c, Wrap16(f.sample), Wrap16(f.last), cur[1], cur[2])
<1>1. t \in ModelVoices
  BY DEF ModelVoices, CountedTo
<1>2. /\ t.pos = f.pos /\ t.flags = f.flags /\ t.counter = c /\ t.cur = cur /\ t.sample = f.sample /\ t.last = f.last
      /\ t.vol_f = f.vol_f /\ t.freq = f.freq /\ t.bank = f.bank /\ t.start = f.start /\ t.end = f.end /\ t.loop = f.loop
  BY DEF ModelVoices, CountedTo
<1> QED BY <1>1, <1>2, AsRtlIs DEF RegsOf, Registers

(* What the registers of a voice become is what its flags become. *)
Stepped(mv, noise) == Model!stepped(mv, noise)

(* After S_V4 the working copies are the voice the model has stepped.      *)
LEMMA CountAgrees ==
  ASSUME RomOfBytes, NEW mv \in ModelVoices, NEW busy \in BOOLEAN, NEW byte, InWork(mv, busy, byte), random \in Word,
         busy <=> "BUSY" \in mv.flags, busy /\ Fetches(mv) /\ "NOISE" \notin mv.flags => byte = Rom(Place(mv.pos)), V4
  PROVE  LET t == Stepped(mv, random) IN
         /\ t.v \in ModelVoices /\ t.random \in Word /\ RegsOf(t.v) = Registers(mv, t.v.flags)
         /\ w' = Copies(RegsOf(t.v), AsRtl(t.v), busy, mv.counter + mv.freq, byte, 0, 0) /\ random' = t.random
         /\ (~busy => t.v = mv)
<1> DEFINE t == Stepped(mv, random)
           next == mv.counter + mv.freq
           f == Fetched(mv, random)
<1>1. w.busy = busy /\ w.next = next /\ next \in Int /\ next >= 0 /\ w.r.vol_f = mv.vol_f /\ w.v.counter = mv.counter /\ (Flag("NOISE") <=> "NOISE" \in mv.flags)
  <2>1. mv.counter \in Int /\ mv.freq \in Int /\ mv.counter >= 0 /\ mv.freq >= 0
    BY WordIs DEF ModelVoices
  <2>2. w.busy = busy /\ w.next = next /\ w.r.vol_f = mv.vol_f /\ w.v.counter = mv.counter
    BY DEF InWork, Copies, RegsOf, Registers, AsRtl
  <2> QED BY <2>1, <2>2, WorkFlags
<1>2. CASE ~busy
  <2>1. t = [v |-> mv, s |-> 0, random |-> random]
    BY <1>2 DEF Stepped, Model!stepped
  <2>2. w' = w /\ random' = random
    <3> HIDE DEF next
    <3> QED BY <1>1, <1>2 DEF V4
  <2>3. t.v = mv /\ t.random = random
    <3> HIDE DEF t
    <3> QED BY <2>1
  <2> HIDE DEF t
  <2> QED BY <2>2, <2>3 DEF InWork, RegsOf, t
<1>3. CASE busy
  <2>1. f \in ModelVoices /\ Kept(f, mv) /\ Taken = Resumed(f, mv, busy, byte)
    BY <1>3, TakenAgrees
  <2> DEFINE ramps == next \div 32768 # mv.counter \div 32768
             a == IF ramps THEN ramp(f.cur[1], mv.vol_f \div 256) ELSE f.cur[1]
             b == IF ramps THEN ramp(f.cur[2], mv.vol_f % 256) ELSE f.cur[2]
             c == next % 65536
             cur == IF ramps THEN <<Model!Towards(f.cur[1], mv.vol_f \div 256), Model!Towards(f.cur[2], mv.vol_f % 256)>> ELSE f.cur
             n2 == IF Fetches(mv) /\ "NOISE" \in mv.flags THEN Model!next_random(random) ELSE random
             g == CountedTo(f, c, cur)
  <2>2. f.cur \in Int \X Int /\ mv.vol_f \in Int
    BY <2>1, WordIs DEF ModelVoices
  <2>3. c \in Word
    <3>1. c \in Int /\ 0 <= c /\ c < 65536
      BY <1>1
    <3> QED BY <3>1, WordIs
  <2>4. cur = <<a, b>> /\ cur \in Int \X Int /\ cur[1] = a /\ cur[2] = b
    <3>1. mv.vol_f \div 256 \in Int /\ mv.vol_f % 256 \in Int
      BY <2>2
    <3>2. f.cur = <<f.cur[1], f.cur[2]>> /\ f.cur[1] \in Int /\ f.cur[2] \in Int
      BY <2>2
    <3>3. cur = <<a, b>>
      BY <3>2 DEF ramp, Model!Towards
    <3>4. a \in Int /\ b \in Int
      BY <3>1, <3>2 DEF ramp
    <3> HIDE DEF a, b, cur
    <3> QED BY <3>3, <3>4
  <2>5. t.v = g /\ t.random = n2
    <3>1. t.v = [f EXCEPT !.counter = c, !.cur = IF ramps THEN <<Model!Towards(f.cur[1], mv.vol_f \div 256), Model!Towards(f.cur[2], mv.vol_f % 256)>> ELSE f.cur]
      BY <1>3 DEF Stepped, Model!stepped, Fetched, Fetches
    <3>2. t.random = n2
      BY <1>3 DEF Stepped, Model!stepped, Fetches
    <3> QED BY <3>1, <3>2 DEF CountedTo
  <2>6. n2 \in Word
    BY NoiseWord
  <2>7. random' = n2
    <3>1. nr = Model!next_random(random)
      BY DEF nr, Model!next_random
    <3> QED BY <1>1, <1>3, <3>1 DEF V4, Fetches
  <2>8. w' = Counted(Taken, c, a, b)
    <3>1. Ramps <=> ramps
      BY <1>1 DEF Ramps
    <3>2. Taken.v.volL = f.cur[1] /\ Taken.v.volR = f.cur[2]
      BY <2>1 DEF Resumed, Copies, AsRtl
    <3>3. Wrap16(w.next) = c
      BY <1>1 DEF Wrap16
    <3> DEFINE x == IF Ramps THEN ramp(Taken.v.volL, w.r.vol_f \div 256) ELSE Taken.v.volL
               q == IF Ramps THEN ramp(Taken.v.volR, w.r.vol_f % 256) ELSE Taken.v.volR
               d == Wrap16(w.next)
    <3>4. w' = [Taken EXCEPT !.v.counter = d, !.v.volL = x, !.v.volR = q]
      BY <1>1, <1>3 DEF V4
    <3>5. x = a /\ q = b /\ d = c
      <4> HIDE DEF f, ramps
      <4> QED BY <1>1, <3>1, <3>2, <3>3
    <3> HIDE DEF x, q, d, a, b, c
    <3> QED BY <3>4, <3>5 DEF Counted
  <2> DEFINE P == Place(f.pos)
             S == Wrap16(f.sample)
             L == Wrap16(f.last)
  <2>9. Taken = Copies(RegsOf(f), RtlVoice(P, f.counter, S, L, f.cur[1], f.cur[2]), busy, next, byte, 0, 0)
    BY <2>1, AsRtlIs DEF Resumed
  <2>10. /\ g \in ModelVoices /\ RegsOf(g) = RegsOf(f) /\ g.flags = f.flags /\ AsRtl(g) = RtlVoice(P, c, S, L, cur[1], cur[2])
    <3> HIDE DEF f, c, cur
    <3> QED BY <2>1, <2>3, <2>4, CountedVoice
  <2>11. RegsOf(g) = Registers(mv, g.flags)
    BY <2>1, <2>10 DEF RegsOf, Registers, Kept
  <2> HIDE DEF f, g, a, b, c, cur, P, S, L, n2, next, t
  <2>12. w' = Copies(RegsOf(f), RtlVoice(P, c, S, L, a, b), busy, next, byte, 0, 0)
    BY <2>8, <2>9, CountedCopy
  <2> QED BY <1>3, <2>4, <2>5, <2>6, <2>7, <2>10, <2>11, <2>12 DEF next, t
<1> QED BY <1>2, <1>3

(* The sample of a voice. *)
SampleOf(v) == IF "FILTER" \in v.flags THEN v.sample ELSE Model!s16(v.last + (Model!Scaled(v.counter, v.sample - v.last) % 65536))

(* The widths of a voice's registers as inequalities.                      *)
LEMMA Widths ==
  ASSUME NEW v \in ModelVoices
  PROVE  /\ v.sample \in Sample /\ v.last \in Sample /\ v.sample \in Int /\ v.last \in Int
         /\ v.counter \in Int /\ v.counter >= 0 /\ v.freq \in Int /\ v.freq >= 0 /\ v.cur[1] \in Int /\ v.cur[2] \in Int
<1>1. v.sample \in Sample /\ v.last \in Sample /\ v.counter \in Word /\ v.freq \in Word /\ v.cur \in Int \X Int
  BY DEF ModelVoices
<1>2. \A x \in Sample : x \in Int
  BY DEF Sample
<1>3. v.cur[1] \in Int /\ v.cur[2] \in Int
  BY <1>1
<1> QED BY <1>1, <1>2, <1>3, WordIs

(* A sum of two words is the same sixteen bits as the sum of the numbers.  *)
LEMMA Interpolated ==
  ASSUME NEW a \in Int, NEW b \in Int
  PROVE  Signed(Wrap16(Wrap16(a) + Wrap16(b))) = Model!s16(a + Wrap16(b))
<1> DEFINE x == a + Wrap16(b)
<1>1. x \in Int
  BY DEF Wrap16
<1>2. Wrap16(Wrap16(a) + Wrap16(b)) = Wrap16(x)
  BY DEF Wrap16
<1> HIDE DEF x
<1>3. Signed(Wrap16(x)) = Model!s16(x)
  BY <1>1, SixteenBits
<1> QED BY <1>2, <1>3 DEF x

(* The product of 34 bits, halved, is the model's product: both sides hear *)
(* the same share of the sample.                                           *)
LEMMA MixAgrees ==
  ASSUME NEW v \in ModelVoices, NEW busy \in BOOLEAN, NEW next, NEW byte, w = Copies(RegsOf(v), AsRtl(v), busy, next, byte, 0, 0), Mix
  PROVE  LET s == IF busy THEN SampleOf(v) ELSE 0 IN
         /\ s \in Int
         /\ \E l \in Int, r \in Int :
              /\ w' = Copies(RegsOf(v), AsRtl(v), busy, next, byte, l, r)
              /\ l \div 256 = Model!Heard(s, "PHASEFL" \in v.flags, v.cur[1])
              /\ r \div 256 = Model!Heard(s, "PHASEFR" \in v.flags, v.cur[2])
<1> DEFINE s == IF busy THEN SampleOf(v) ELSE 0
<1>1. /\ w.busy = busy /\ w.v.sample = Wrap16(v.sample) /\ w.v.last = Wrap16(v.last) /\ w.v.counter = v.counter
      /\ w.v.volL = v.cur[1] /\ w.v.volR = v.cur[2] /\ w.r.flags = v.flags
  BY DEF Copies, AsRtl, RegsOf, Registers
<1>2. v.sample \in Sample /\ v.last \in Sample /\ v.sample \in Int /\ v.last \in Int /\ v.counter \in Int /\ v.cur[1] \in Int /\ v.cur[2] \in Int
  BY Widths
<1>3. Signed(w.v.sample) = v.sample /\ Signed(w.v.last) = v.last
  BY <1>1, <1>2, SixteenBits
<1>4. w_s = s /\ s \in Int
  <2>1. CASE ~busy
    BY <1>1, <2>1 DEF w_s
  <2>2. CASE busy /\ "FILTER" \in v.flags
    <3>1. s = v.sample
      BY <2>2 DEF SampleOf
    <3>2. w_s = Signed(w.v.sample)
      <4> HIDE DEF s
      <4> QED BY <1>1, <2>2 DEF w_s, Flag
    <3> HIDE DEF s
    <3> QED BY <1>2, <1>3, <3>1, <3>2
  <2>3. CASE busy /\ "FILTER" \notin v.flags
    <3> DEFINE d == v.sample - v.last
               b == Model!Scaled(v.counter, d)
    <3>1. d \in Int /\ w_diff = d
      BY <1>2, <1>3 DEF w_diff
    <3>2. b \in Int /\ High(w.v.counter, w_diff) = Wrap16(b)
      <4>1. b \in Int
        BY <1>2 DEF Model!Scaled
      <4>2. High(v.counter, d) = Wrap16(b)
        BY DEF High, Model!Scaled
      <4> QED BY <1>1, <3>1, <4>1, <4>2
    <3>3. s = Model!s16(v.last + (b % 65536))
      BY <2>3 DEF SampleOf
    <3>4. w_s = Signed(Wrap16(Wrap16(v.last) + Wrap16(b)))
      <4> HIDE DEF d, b
      <4> QED BY <1>1, <2>3, <3>2 DEF w_s, Flag
    <3>5. Model!s16(v.last + (b % 65536)) \in Int
      <4> HIDE DEF b
      <4>1. v.last + (b % 65536) \in Int
        BY <1>2, <3>2
      <4> QED BY <4>1 DEF Model!s16
    <3> HIDE DEF b, s
    <3>6. Signed(Wrap16(Wrap16(v.last) + Wrap16(b))) = Model!s16(v.last + Wrap16(b))
      BY <1>2, <3>2, Interpolated
    <3>7. Wrap16(b) = b % 65536
      BY DEF Wrap16
    <3> QED BY <3>3, <3>4, <3>5, <3>6, <3>7
  <2> QED BY <2>1, <2>2, <2>3
<1> DEFINE l == (IF Flag("PHASEFL") THEN -w_s ELSE w_s) * w.v.volL
           r == (IF Flag("PHASEFR") THEN -w_s ELSE w_s) * w.v.volR
<1>5. w' = Copies(RegsOf(v), AsRtl(v), busy, next, byte, l, r)
  <2>1. w' = [[w EXCEPT !.pl = l] EXCEPT !.pr = r]
    BY DEF Mix
  <2> DEFINE k == [w EXCEPT !.pl = l]
  <2> HIDE DEF l, r
  <2>2. k = Copies(RegsOf(v), AsRtl(v), busy, next, byte, l, 0)
    BY DEF Copies
  <2> HIDE DEF k
  <2>3. [k EXCEPT !.pr = r] = Copies(RegsOf(v), AsRtl(v), busy, next, byte, l, r)
    BY <2>2 DEF Copies
  <2> QED BY <2>1, <2>3 DEF k
<1>6. /\ l = (IF "PHASEFL" \in v.flags THEN -s ELSE s) * v.cur[1] /\ r = (IF "PHASEFR" \in v.flags THEN -s ELSE s) * v.cur[2]
  <2> HIDE DEF s
  <2> QED BY <1>1, <1>4 DEF Flag
<1>7. l \in Int /\ r \in Int
  <2> HIDE DEF s
  <2> QED BY <1>2, <1>4, <1>6
<1>8. l \div 256 = Model!Heard(s, "PHASEFL" \in v.flags, v.cur[1]) /\ r \div 256 = Model!Heard(s, "PHASEFR" \in v.flags, v.cur[2])
  <2> HIDE DEF s, l, r
  <2> QED BY <1>6 DEF Model!Heard
<1> HIDE DEF l, r, s
<1> QED BY <1>4, <1>5, <1>7, <1>8 DEF s

(* The sample a step of the model gives.                                   *)
LEMMA SteppedSample ==
  ASSUME NEW mv, NEW noise
  PROVE  Stepped(mv, noise).s = IF "BUSY" \in mv.flags THEN SampleOf(Stepped(mv, noise).v) ELSE 0
<1>1. CASE "BUSY" \notin mv.flags
  BY <1>1 DEF Stepped, Model!stepped
<1>2. CASE "BUSY" \in mv.flags
  BY <1>2 DEF Stepped, Model!stepped, SampleOf
<1> QED BY <1>1, <1>2

(* A voice stays within its widths. *)

(* A voice stays within its widths after a byte.                           *)
LEMMA AfterByteTyped ==
  ASSUME NEW m \in ModelVoices
  PROVE  Model!after_byte(m) \in ModelVoices
<1> DEFINE f == Model!after_byte(m)
<1>0. m.pos \in Places /\ m.pos.hi \in Word /\ m.pos.lo \in Word /\ m.flags \in SUBSET Flags /\ m.loop \in Word /\ m.start \in Word
  BY DEF ModelVoices, Places
<1>1. Model!Moved(m.pos, -1) \in Places /\ Model!Moved(m.pos, 1) \in Places
  BY <1>0, MovedPlace
<1>4. ASSUME {"LOOP", "REVERSE"} \subseteq m.flags PROVE f \in ModelVoices
  <2> DEFINE ldir == IF "LDIR" \in m.flags THEN m.pos.lo # m.loop ELSE m.pos.lo = m.end
             F == IF ldir THEN m.flags \cup {"LDIR"} ELSE m.flags \ {"LDIR"}
             Q == Model!Moved(m.pos, IF ldir THEN -1 ELSE 1)
  <2>1. f = [m EXCEPT !.flags = F, !.pos = Q]
    BY <1>4 DEF Model!after_byte
  <2>2. F \in SUBSET Flags /\ Q \in Places
    BY <1>0, <1>1 DEF Flags
  <2> HIDE DEF f, F, Q
  <2> QED BY <2>1, <2>2 DEF ModelVoices, Places
<1>5. ASSUME ~({"LOOP", "REVERSE"} \subseteq m.flags) /\ m.pos.lo # m.end PROVE f \in ModelVoices
  <2> DEFINE Q == Model!Moved(m.pos, IF "REVERSE" \in m.flags THEN -1 ELSE 1)
  <2>1. f = [m EXCEPT !.pos = Q]
    BY <1>5 DEF Model!after_byte
  <2>2. Q \in Places
    BY <1>1
  <2> HIDE DEF f, Q
  <2> QED BY <2>1, <2>2 DEF ModelVoices, Places
<1>6. ASSUME ~({"LOOP", "REVERSE"} \subseteq m.flags) /\ m.pos.lo = m.end /\ "LOOP" \in m.flags PROVE f \in ModelVoices
  <2> DEFINE Q == [hi |-> IF "LINK" \in m.flags THEN m.start ELSE m.pos.hi % 256, lo |-> m.loop]
             F == m.flags \cup {"LOOPHIST"}
  <2>1. f = [m EXCEPT !.flags = F, !.pos = Q]
    BY <1>6 DEF Model!after_byte
  <2>2. F \in SUBSET Flags /\ Q \in Places
    <3>1. m.pos.hi % 256 \in Word
      BY <1>0, WordIs
    <3> QED BY <1>0, <3>1 DEF Flags, Places
  <2> HIDE DEF f, F, Q
  <2> QED BY <2>1, <2>2 DEF ModelVoices, Places
<1>7. ASSUME ~({"LOOP", "REVERSE"} \subseteq m.flags) /\ m.pos.lo = m.end /\ "LOOP" \notin m.flags PROVE f \in ModelVoices
  <2> DEFINE F == (m.flags \cup {"KEYOFF"}) \ {"BUSY"}
  <2>1. f = [m EXCEPT !.flags = F, !.sample = 0]
    BY <1>7 DEF Model!after_byte
  <2>2. F \in SUBSET Flags /\ 0 \in Sample
    BY <1>0 DEF Flags, Sample
  <2> HIDE DEF f, F
  <2> QED BY <2>1, <2>2 DEF ModelVoices
<1> QED BY <1>4, <1>5, <1>6, <1>7

(* A voice stays within its widths after a fetch.                          *)
LEMMA FetchedTyped ==
  ASSUME RomOfBytes, NEW mv \in ModelVoices, NEW noise \in Word
  PROVE  Fetched(mv, noise) \in ModelVoices /\ Kept(Fetched(mv, noise), mv)
<1> DEFINE f == Fetched(mv, noise)
<1>1. CASE ~Fetches(mv)
  BY <1>1 DEF Fetched, Kept
<1>2. CASE Fetches(mv) /\ "NOISE" \in mv.flags
  <2> DEFINE x == Model!next_random(noise)
             q == Model!s16(x)
  <2>1. x \in Word /\ x \in Int
    BY NoiseWord, WordIs
  <2>2. f = [mv EXCEPT !.last = mv.sample, !.sample = q]
    BY <1>2 DEF Fetched, Model!fetch
  <2>3. q \in Sample
    <3> HIDE DEF x
    <3> QED BY <2>1, SixteenBits
  <2> HIDE DEF x, q
  <2>4. f \in ModelVoices
    <3> HIDE DEF f
    <3> QED BY <2>2, <2>3 DEF ModelVoices
  <2>5. Kept(f, mv)
    <3> HIDE DEF f
    <3> QED BY <2>2 DEF ModelVoices, Kept
  <2> QED BY <2>4, <2>5
<1>3. CASE Fetches(mv) /\ "NOISE" \notin mv.flags
  <2>1. f = Model!after_byte(Sampled(mv))
    BY <1>3 DEF Fetched, Model!fetch, Sampled
  <2>2. Sampled(mv) \in ModelVoices
    BY SampledVoice
  <2>3. Kept(Sampled(mv), mv)
    BY DEF Sampled, ModelVoices, Kept
  <2>4. f \in ModelVoices /\ Kept(f, Sampled(mv))
    <3> HIDE DEF f
    <3> QED BY <2>1, <2>2, AfterByteTyped, AfterByteKeeps
  <2> HIDE DEF f
  <2> QED BY <2>3, <2>4 DEF Kept, f
<1> QED BY <1>1, <1>2, <1>3

Share(s, inverted, cur) == Model!Heard(s, inverted, cur)
ToLeft(t)  == Share(t.s, "PHASEFL" \in t.v.flags, t.v.cur[1])
ToRight(t) == Share(t.s, "PHASEFR" \in t.v.flags, t.v.cur[2])

(* A voice stays within its widths after a step, and its shares are numbers.*)
LEMMA SteppedTyped ==
  ASSUME RomOfBytes, NEW mv \in ModelVoices, NEW noise \in Word
  PROVE  LET t == Stepped(mv, noise) IN
         /\ t.v \in ModelVoices /\ t.random \in Word
         /\ ToLeft(t) \in Int /\ ToRight(t) \in Int
<1> DEFINE t == Stepped(mv, noise)
           f == Fetched(mv, noise)
           next == mv.counter + mv.freq
<1>1. t.v \in ModelVoices /\ t.random \in Word
  <2>1. CASE "BUSY" \notin mv.flags
    BY <2>1 DEF Stepped, Model!stepped
  <2>2. CASE "BUSY" \in mv.flags
    <3> DEFINE ramps == next \div 32768 # mv.counter \div 32768
               c == next % 65536
               cur == IF ramps THEN <<Model!Towards(f.cur[1], mv.vol_f \div 256), Model!Towards(f.cur[2], mv.vol_f % 256)>> ELSE f.cur
    <3>1. f \in ModelVoices
      BY FetchedTyped
    <3>2. t.v = CountedTo(f, c, cur)
      BY <2>2 DEF Stepped, Model!stepped, Fetched, Fetches, CountedTo
    <3>3. c \in Word
      <4>1. mv.counter \in Int /\ mv.freq \in Int
        BY WordIs DEF ModelVoices
      <4>2. c \in Int /\ 0 <= c /\ c < 65536
        BY <4>1
      <4> QED BY <4>2, WordIs
    <3>4. cur \in Int \X Int
      <4>1. mv.vol_f \in Int /\ f.cur \in Int \X Int
        BY <3>1, WordIs DEF ModelVoices
      <4>2. mv.vol_f \div 256 \in Int /\ mv.vol_f % 256 \in Int /\ f.cur[1] \in Int /\ f.cur[2] \in Int
        BY <4>1
      <4> HIDE DEF f, ramps
      <4> QED BY <4>1, <4>2 DEF Model!Towards
    <3>5. t.v \in ModelVoices
      <4> HIDE DEF t, f, c, cur
      <4> QED BY <3>1, <3>2, <3>3, <3>4, CountedVoice
    <3>6. t.random \in Word
      <4>1. t.random = IF Fetches(mv) /\ "NOISE" \in mv.flags THEN Model!next_random(noise) ELSE noise
        BY <2>2 DEF Stepped, Model!stepped, Fetches
      <4> QED BY <4>1, NoiseWord
    <3> QED BY <3>5, <3>6
  <2> QED BY <2>1, <2>2
<1>2. t.s = IF "BUSY" \in mv.flags THEN SampleOf(t.v) ELSE 0
  BY SteppedSample
<1> HIDE DEF t
<1>3. t.v.sample \in Int /\ t.v.last \in Int /\ t.v.counter \in Int /\ t.v.cur[1] \in Int /\ t.v.cur[2] \in Int
  BY <1>1, Widths
<1>4. SampleOf(t.v) \in Int
  <2> DEFINE d == t.v.sample - t.v.last
             b == Model!Scaled(t.v.counter, d)
             x == t.v.last + (b % 65536)
  <2>1. b \in Int
    BY <1>3 DEF Model!Scaled
  <2>2. x \in Int
    <3> HIDE DEF b
    <3> QED BY <1>3, <2>1
  <2>3. Model!s16(x) \in Int
    <3> HIDE DEF x
    <3> QED BY <2>2 DEF Model!s16
  <2>4. SampleOf(t.v) = IF "FILTER" \in t.v.flags THEN t.v.sample ELSE Model!s16(x)
    BY DEF SampleOf
  <2> HIDE DEF x
  <2> QED BY <1>3, <2>3, <2>4
<1>5. t.s \in Int
  BY <1>2, <1>4
<1>6. ASSUME NEW s \in Int, NEW bit, NEW set, NEW c \in Int PROVE Share(s, bit \in set, c) \in Int
  <2> DEFINE p == IF bit \in set THEN -s ELSE s
  <2>1. p \in Int
    OBVIOUS
  <2>2. Share(s, bit \in set, c) = (p * c) \div 256
    BY DEF Share, Model!Heard
  <2> HIDE DEF p
  <2>3. p * c \in Int
    BY <2>1
  <2> QED BY <2>2, <2>3
<1>7. ToLeft(t) \in Int /\ ToRight(t) \in Int
  <2>1. ToLeft(t) \in Int
    BY <1>3, <1>5, <1>6 DEF ToLeft
  <2>2. ToRight(t) \in Int
    BY <1>3, <1>5, <1>6 DEF ToRight
  <2> QED BY <2>1, <2>2
<1> QED BY <1>1, <1>7 DEF t

(* A step changes nothing in the registers but the flags, and nothing      *)
(* at all in a voice that is not busy.                                     *)
LEMMA SteppedKeeps ==
  ASSUME RomOfBytes, NEW mv \in ModelVoices, NEW noise \in Word
  PROVE  LET t == Stepped(mv, noise) IN
         RegsOf(t.v) = Registers(mv, t.v.flags) /\ ("BUSY" \notin mv.flags => t.v = mv)
<1> DEFINE t == Stepped(mv, noise)
           f == Fetched(mv, noise)
           next == mv.counter + mv.freq
           ramps == next \div 32768 # mv.counter \div 32768
           c == next % 65536
           cur == IF ramps THEN <<Model!Towards(f.cur[1], mv.vol_f \div 256), Model!Towards(f.cur[2], mv.vol_f % 256)>> ELSE f.cur
<1>1. CASE "BUSY" \notin mv.flags
  BY <1>1 DEF Stepped, Model!stepped, RegsOf
<1>2. CASE "BUSY" \in mv.flags
  <2>1. f \in ModelVoices /\ Kept(f, mv)
    BY FetchedTyped
  <2>2. t.v = [f EXCEPT !.counter = c, !.cur = cur]
    BY <1>2 DEF Stepped, Model!stepped, Fetched, Fetches
  <2> HIDE DEF t, f, c, cur
  <2>3. t.v.vol_f = mv.vol_f /\ t.v.freq = mv.freq /\ t.v.bank = mv.bank /\ t.v.start = mv.start /\ t.v.end = mv.end /\ t.v.loop = mv.loop
    BY <2>1, <2>2 DEF Kept, ModelVoices
  <2> QED BY <1>2, <2>3 DEF t, RegsOf, Registers
<1> QED BY <1>1, <1>2

(* The model's sample, voice by voice. *)
Sums == [chip : Chips, l : Int, r : Int]
Onward(b, u) ==
  LET t == Stepped(b.chip.v[u], b.chip.random)
  IN  [chip |-> [v |-> [b.chip.v EXCEPT ![u] = t.v], random |-> t.random],
       l |-> b.l + ToLeft(t),
       r |-> b.r + ToRight(t)]
Before(c) == [chip |-> c, l |-> 0, r |-> 0]

(* One voice further the sums are numbers.                                 *)
LEMMA OnwardTyped ==
  ASSUME RomOfBytes, NEW b \in Sums, NEW u \in Voice
  PROVE  Onward(b, u) \in Sums
<1> DEFINE t == Stepped(b.chip.v[u], b.chip.random)
           x == ToLeft(t)
           q == ToRight(t)
           c == [v |-> [b.chip.v EXCEPT ![u] = t.v], random |-> t.random]
<1>1. b.chip \in Chips /\ b.l \in Int /\ b.r \in Int
  BY DEF Sums
<1>2. b.chip.v \in [Voice -> ModelVoices] /\ b.chip.random \in Word /\ b.chip.v[u] \in ModelVoices
  BY <1>1 DEF Chips
<1>3. t.v \in ModelVoices /\ t.random \in Word /\ x \in Int /\ q \in Int
  BY <1>2, SteppedTyped
<1>4. Onward(b, u) = [chip |-> c, l |-> b.l + x, r |-> b.r + q]
  BY DEF Onward
<1> HIDE DEF t, x, q
<1>5. c \in Chips
  BY <1>2, <1>3 DEF Chips
<1> HIDE DEF c
<1> QED BY <1>1, <1>3, <1>4, <1>5 DEF Sums

(* The model's loop over the voices, unrolled: before voice u it has       *)
(* stepped the voices below u.                                             *)
LEMMA Walks ==
  ASSUME RomOfBytes, NEW c \in Chips
  PROVE  /\ \A k \in 0 .. Voices : Model!walked(c)[k] \in Sums
         /\ Model!walked(c)[0] = Before(c)
         /\ \A u \in Voice : Model!walked(c)[u + 1] = Onward(Model!walked(c)[u], u)
<1> DEFINE Is(f) == f = [n_1 \in 0 .. Voices |-> IF n_1 = 0 THEN Before(c) ELSE Onward(f[n_1 - 1], n_1 - 1)]
           N == Voices
           S == Sums
           base == Before(c)
           Step == [i \in 1 .. N |-> [b \in S |-> Onward(b, i - 1)]]
           x == CHOOSE f : Is(f)
<1>1. Voices \in Nat /\ Voices >= 1 /\ \A i \in 1 .. Voices : i - 1 \in Voice
  BY VoiceNumbers
<1>2. base \in S
  BY DEF Before, Sums
<1>3. Step \in [1 .. N -> [S -> S]]
  BY <1>1, OnwardTyped
<1>4. PICK f : Iteration(f, N, S, base, Step)
  <2> HIDE DEF Step, S, N, base
  <2>1. N \in Nat
    BY <1>1 DEF N
  <2> QED BY <1>2, <1>3, <2>1, Iterates
<1>5. f \in [0 .. Voices -> Sums] /\ f[0] = Before(c) /\ \A i \in 1 .. Voices : f[i] = Onward(f[i - 1], i - 1)
  <2>1. f \in [0 .. N -> S] /\ f[0] = base /\ \A i \in 1 .. N : f[i] = Step[i][f[i - 1]]
    BY <1>4 DEF Iteration
  <2>2. ASSUME NEW i \in 1 .. N PROVE f[i] = Onward(f[i - 1], i - 1)
    <3>1. f[i - 1] \in S
      BY <1>1, <2>1
    <3>2. Step[i][f[i - 1]] = Onward(f[i - 1], i - 1)
      BY <3>1
    <3> QED BY <2>1, <3>2
  <2> QED BY <2>1, <2>2
<1>6. Is(f)
  BY <1>1, <1>5
<1>7. Is(x)
  <2> HIDE DEF Is
  <2> QED BY <1>6
<1>8. Model!walked(c) = x
  BY DEF Model!walked, x, Is, Before, Onward, Stepped, Share, ToLeft, ToRight
<1> HIDE DEF x
<1>9. x = [n_1 \in 0 .. Voices |-> IF n_1 = 0 THEN Before(c) ELSE Onward(x[n_1 - 1], n_1 - 1)]
  BY <1>7
<1>10. x[0] = Before(c) /\ \A u \in Voice : x[u + 1] = Onward(x[u], u)
  <2>1. x[0] = Before(c)
    BY <1>1, <1>9
  <2>2. ASSUME NEW u \in Voice PROVE x[u + 1] = Onward(x[u], u)
    <3>1. u + 1 \in 0 .. Voices /\ u + 1 # 0 /\ (u + 1) - 1 = u
      BY VoiceNumbers
    <3>2. x[u + 1] = IF u + 1 = 0 THEN Before(c) ELSE Onward(x[(u + 1) - 1], (u + 1) - 1)
      BY <1>9, <3>1
    <3> QED BY <3>1, <3>2
  <2> QED BY <2>1, <2>2
<1>11. \A k \in 0 .. Voices : x[k] \in Sums
  <2> DEFINE Bad == {k \in 0 .. Voices : x[k] \notin Sums}
  <2>1. ASSUME Bad # {} PROVE FALSE
    <3>1. Bad \subseteq Nat
      OBVIOUS
    <3>2. PICK m \in Bad : \A j \in Bad : m <= j
      <4> HIDE DEF Bad
      <4> QED BY <2>1, <3>1, Least
    <3>3. m \in 0 .. Voices /\ x[m] \notin Sums
      BY <3>2
    <3>4. m # 0
      BY <1>2, <1>10, <3>3
    <3>5. m - 1 \in 0 .. Voices /\ m - 1 \in Voice /\ (m - 1) + 1 = m
      BY <1>1, <3>3, <3>4, VoiceNumbers
    <3>6. x[m - 1] \in Sums
      <4>1. m - 1 \notin Bad
        <5> HIDE DEF Bad
        <5> QED BY <3>2, <3>3
      <4> QED BY <3>5, <4>1
    <3>7. x[m] = Onward(x[m - 1], m - 1)
      BY <1>10, <3>5
    <3> QED BY <3>3, <3>5, <3>6, <3>7, OnwardTyped
  <2> QED BY <2>1
<1> QED BY <1>8, <1>10, <1>11

(* The RTL's registers and voices are those of the model c. *)
Keyed(c, bit) == {u \in Voice : bit \in c.v[u].flags}
Same(c) ==
  /\ regs = [u \in Voice |-> RegsOf(c.v[u])] /\ vs = [u \in Voice |-> AsRtl(c.v[u])]
  /\ on_v = Keyed(c, "KEYON") /\ off_v = Keyed(c, "KEYOFF")

(* When the flags are written back on_v and off_v follow them.             *)
LEMMA FollowingFlags ==
  ASSUME NEW c \in Chips, NEW u \in Voice, NEW nv \in ModelVoices, RegsOf(nv) = Registers(c.v[u], nv.flags), Same(c),
         vs' = [vs EXCEPT ![u] = AsRtl(nv)], FollowFlags(u, nv.flags),
         NEW d, d.v = [c.v EXCEPT ![u] = nv]
  PROVE  Same(d)'
<1>1. c.v \in [Voice -> ModelVoices]
  BY DEF Chips
<1>2. \A x \in Voice : d.v[x] = IF x = u THEN nv ELSE c.v[x]
  BY <1>1
<1>3. vs' = [x \in Voice |-> AsRtl(d.v[x])]
  BY <1>2 DEF Same
<1>4. regs' = [x \in Voice |-> RegsOf(d.v[x])]
  <2>1. regs' = [regs EXCEPT ![u].flags = nv.flags] /\ regs = [x \in Voice |-> RegsOf(c.v[x])]
    BY DEF FollowFlags, Same
  <2>2. regs[u] = Registers(c.v[u], c.v[u].flags)
    BY <2>1 DEF RegsOf
  <2>3. [regs[u] EXCEPT !.flags = nv.flags] = RegsOf(nv)
    BY <2>2 DEF Registers
  <2>4. regs' = [regs EXCEPT ![u] = RegsOf(nv)]
    <3>1. regs' = [regs EXCEPT ![u] = [regs[u] EXCEPT !.flags = nv.flags]]
      BY <2>1
    <3> QED BY <2>3, <3>1
  <2> QED BY <1>2, <2>1, <2>4
<1>5. on_v' = Keyed(d, "KEYON")
  <2>1. on_v' = IF "KEYON" \in nv.flags THEN on_v \cup {u} ELSE on_v \ {u}
    BY DEF FollowFlags
  <2> QED BY <1>2, <2>1 DEF Same, Keyed
<1>6. off_v' = Keyed(d, "KEYOFF")
  <2>1. off_v' = IF "KEYOFF" \in nv.flags THEN off_v \cup {u} ELSE off_v \ {u}
    BY DEF FollowFlags
  <2> QED BY <1>2, <2>1 DEF Same, Keyed
<1>7. Same(d)' <=> /\ regs' = [x \in Voice |-> RegsOf(d.v[x])] /\ vs' = [x \in Voice |-> AsRtl(d.v[x])]
                   /\ on_v' = Keyed(d, "KEYON") /\ off_v' = Keyed(d, "KEYOFF")
  BY DEF Same
<1> QED BY <1>3, <1>4, <1>5, <1>6, <1>7

(* The execute pass, voice by voice. *)
Executed(mv) == Model!executed(mv)
TurnedOn(mv)  == "KEYON" \in mv.flags
TurnedOff(mv) == "KEYOFF" \in mv.flags
FlagsExecuted(mv) ==
  LET h == IF TurnedOn(mv) THEN (mv.flags \cup {"BUSY"}) \ {"KEYON", "LOOPHIST"} ELSE mv.flags
  IN  IF TurnedOff(mv) THEN h \ {"BUSY", "KEYOFF"} ELSE h
Restarted(mv) ==
  IF TurnedOn(mv) THEN RtlVoice((mv.bank % 256) * 65536 + mv.start, 65535, 0, 0, 0, 0)
  ELSE IF TurnedOff(mv) THEN RtlVoice(Place(mv.pos), 65535, Wrap16(mv.sample), Wrap16(mv.last), mv.cur[1], mv.cur[2])
  ELSE AsRtl(mv)

(* What the execute pass makes of a voice.                                 *)
LEMMA ExecutedVoice ==
  ASSUME NEW mv \in ModelVoices
  PROVE  LET e == Executed(mv) IN
         /\ e \in ModelVoices /\ e.flags = FlagsExecuted(mv) /\ RegsOf(e) = Registers(mv, e.flags) /\ AsRtl(e) = Restarted(mv)
         /\ (~TurnedOn(mv) /\ ~TurnedOff(mv) => e = mv)
<1> DEFINE F == (mv.flags \cup {"BUSY"}) \ {"KEYON", "LOOPHIST"}
           P == [hi |-> mv.bank, lo |-> mv.start]
           zero == 0
           full == 65535
           quiet == <<0, 0>>
           on == [mv EXCEPT !.pos = P, !.sample = zero, !.last = zero, !.counter = full, !.flags = F, !.cur = quiet]
           a == IF TurnedOn(mv) THEN on ELSE mv
           G == a.flags \ {"BUSY", "KEYOFF"}
           off == [a EXCEPT !.flags = G, !.counter = full]
           e == Executed(mv)
<1>1. F \in SUBSET Flags /\ P \in Places /\ 0 \in Sample /\ 65535 \in Word /\ <<0, 0>> \in Int \X Int /\ Wrap16(0) = 0
  <2>1. mv.flags \in SUBSET Flags /\ mv.bank \in Word /\ mv.start \in Word
    BY DEF ModelVoices
  <2>2. 0 \in Sample /\ 65535 \in Word /\ <<0, 0>> \in Int \X Int /\ Wrap16(0) = 0
    BY DEF Sample, Word, Wrap16
  <2> QED BY <2>1, <2>2 DEF Flags, Places
<1>0. F \in SUBSET Flags /\ P \in Places /\ zero \in Sample /\ full \in Word /\ quiet \in Int \X Int
  BY <1>1
<1> HIDE DEF F, P, zero, full, quiet
<1>2. on \in ModelVoices
  BY <1>0 DEF ModelVoices, Places
<1>3. /\ on.pos = P /\ on.sample = zero /\ on.last = zero /\ on.counter = full /\ on.flags = F /\ on.cur = quiet
      /\ on.vol_f = mv.vol_f /\ on.freq = mv.freq /\ on.bank = mv.bank /\ on.start = mv.start /\ on.end = mv.end /\ on.loop = mv.loop
  BY DEF ModelVoices
<1> HIDE DEF on
<1>4. a \in ModelVoices /\ (TurnedOff(mv) <=> "KEYOFF" \in a.flags)
  BY <1>2, <1>3 DEF TurnedOff, F
<1>5. e = IF TurnedOff(mv) THEN off ELSE a
  BY <1>4 DEF Executed, Model!executed, Model!keyed_on, Model!keyed_off, on, F, P, TurnedOn, zero, full, quiet
<1>6. /\ a.vol_f = mv.vol_f /\ a.freq = mv.freq /\ a.bank = mv.bank /\ a.start = mv.start /\ a.end = mv.end /\ a.loop = mv.loop
  BY <1>3
<1>7. a.flags = (IF TurnedOn(mv) THEN F ELSE mv.flags) /\ (~TurnedOn(mv) => a = mv)
  BY <1>3
<1>8. TurnedOn(mv) => Place(a.pos) = (mv.bank % 256) * 65536 + mv.start /\ a.sample = 0 /\ a.last = 0 /\ a.counter = 65535 /\ a.cur[1] = 0 /\ a.cur[2] = 0
  BY <1>3 DEF Place, P, zero, full, quiet
<1> HIDE DEF a
<1>9. G \in SUBSET Flags
  BY <1>4 DEF ModelVoices
<1> HIDE DEF G
<1>10. off \in ModelVoices
  BY <1>0, <1>4, <1>9 DEF ModelVoices
<1>11. /\ off.pos = a.pos /\ off.sample = a.sample /\ off.last = a.last /\ off.counter = full /\ off.flags = G /\ off.cur = a.cur
       /\ off.vol_f = a.vol_f /\ off.freq = a.freq /\ off.bank = a.bank /\ off.start = a.start /\ off.end = a.end /\ off.loop = a.loop
  BY <1>4 DEF ModelVoices
<1> HIDE DEF off, e
<1>12. e \in ModelVoices
  BY <1>4, <1>5, <1>10
<1>13. e.flags = FlagsExecuted(mv)
  BY <1>5, <1>7, <1>11 DEF FlagsExecuted, F, G
<1>14. RegsOf(e) = Registers(mv, e.flags)
  BY <1>5, <1>6, <1>11 DEF RegsOf, Registers
<1>15. AsRtl(e) = Restarted(mv)
  <2>1. AsRtl(e) = RtlVoice(Place(e.pos), e.counter, Wrap16(e.sample), Wrap16(e.last), e.cur[1], e.cur[2])
    BY AsRtlIs
  <2>2. CASE TurnedOn(mv)
    <3>1. Place(e.pos) = (mv.bank % 256) * 65536 + mv.start /\ e.counter = 65535 /\ e.sample = 0 /\ e.last = 0 /\ e.cur[1] = 0 /\ e.cur[2] = 0
      BY <1>5, <1>8, <1>11, <2>2 DEF full
    <3> QED BY <1>1, <2>1, <2>2, <3>1 DEF Restarted
  <2>3. CASE ~TurnedOn(mv) /\ TurnedOff(mv)
    BY <1>5, <1>7, <1>11, <2>1, <2>3 DEF Restarted, full
  <2>4. CASE ~TurnedOn(mv) /\ ~TurnedOff(mv)
    BY <1>5, <1>7, <2>4 DEF Restarted
  <2> QED BY <2>2, <2>3, <2>4
<1> QED BY <1>5, <1>7, <1>12, <1>13, <1>14, <1>15 DEF e

Half(c, u) == [v |-> [x \in Voice |-> IF x < u THEN Executed(c.v[x]) ELSE c.v[x]], random |-> c.random]

(* Half way through the execute pass the voices are within their widths.   *)
LEMMA HalfTyped ==
  ASSUME NEW c \in Chips, NEW u \in 0 .. Voices
  PROVE  Half(c, u) \in Chips
<1>1. \A x \in Voice : c.v[x] \in ModelVoices /\ Executed(c.v[x]) \in ModelVoices
  BY ExecutedVoice DEF Chips
<1>2. c.random \in Word
  BY DEF Chips
<1>3. [x \in Voice |-> IF x < u THEN Executed(c.v[x]) ELSE c.v[x]] \in [Voice -> ModelVoices]
  BY <1>1
<1> QED BY <1>2, <1>3 DEF Half, Chips

(* The execute pass of the model, voice by voice.                          *)
LEMMA Halves ==
  ASSUME NEW c \in Chips
  PROVE  /\ Half(c, 0).v = c.v
         /\ Half(c, Voices) = Model!execute(c)
         /\ \A u \in Voice : Half(c, u).v[u] = c.v[u] /\ Half(c, u + 1).v = [Half(c, u).v EXCEPT ![u] = Executed(c.v[u])]
<1>1. c.v \in [Voice -> ModelVoices] /\ c = [v |-> c.v, random |-> c.random]
  BY DEF Chips
<1>2. \A x \in Voice : x \in Int /\ ~(x < 0) /\ x < Voices
  BY VoiceNumbers
<1>3. Half(c, 0).v = c.v
  BY <1>1, <1>2 DEF Half
<1>4. Half(c, Voices) = Model!execute(c)
  <2>1. Half(c, Voices).v = [x \in Voice |-> Executed(c.v[x])]
    BY <1>2 DEF Half
  <2>2. Model!execute(c) = [c EXCEPT !.v = [x \in Voice |-> Executed(c.v[x])]]
    BY DEF Model!execute, Executed, Voice
  <2> DEFINE all == [x \in Voice |-> Executed(c.v[x])]
  <2> HIDE DEF all
  <2>3. [c EXCEPT !.v = all] = [v |-> all, random |-> c.random]
    BY <1>1
  <2> QED BY <2>1, <2>2, <2>3 DEF Half, all
<1>5. ASSUME NEW u \in Voice PROVE Half(c, u).v[u] = c.v[u] /\ Half(c, u + 1).v = [Half(c, u).v EXCEPT ![u] = Executed(c.v[u])]
  <2>1. u \in Int /\ \A x \in Voice : (x < u + 1 <=> x < u \/ x = u) /\ ~(u < u)
    BY <1>2
  <2> QED BY <2>1 DEF Half
<1> QED BY <1>3, <1>4, <1>5

(* S_E2 makes of its voice what the model makes of it.                     *)
LEMMA VoiceExecutes ==
  ASSUME NEW c \in Chips, NEW u \in Voice, u = eng_voice, Same(Half(c, u)), snap_on = Keyed(c, "KEYON"), snap_off = Keyed(c, "KEYOFF"), E
  PROVE  Same(Half(c, u + 1))'
<1> DEFINE mv == c.v[u]
           e == Executed(mv)
           h == Half(c, u)
           d == Half(c, u + 1)
<1>1. mv \in ModelVoices /\ h \in Chips /\ h.v[u] = mv /\ d.v = [h.v EXCEPT ![u] = e]
  <2>1. mv \in ModelVoices
    BY DEF Chips
  <2>2. u \in 0 .. Voices
    BY VoiceNumbers
  <2>3. h \in Chips
    BY <2>2, HalfTyped
  <2> QED BY <2>1, <2>3, Halves
<1>2. /\ e \in ModelVoices /\ e.flags = FlagsExecuted(mv) /\ RegsOf(e) = Registers(mv, e.flags) /\ AsRtl(e) = Restarted(mv)
      /\ (~TurnedOn(mv) /\ ~TurnedOff(mv) => e = mv)
  BY <1>1, ExecutedVoice
<1>3. (u \in snap_on <=> TurnedOn(mv)) /\ (u \in snap_off <=> TurnedOff(mv))
  BY DEF Keyed, TurnedOn, TurnedOff
<1>4. regs[u] = RegsOf(mv) /\ vs[u] = AsRtl(mv) /\ regs[u].flags = mv.flags /\ regs[u].bank = mv.bank /\ regs[u].start = mv.start
  BY <1>1 DEF Same, RegsOf, Registers
<1> HIDE DEF mv, e, h, d
<1>5. CASE TurnedOn(mv) \/ TurnedOff(mv)
  <2>1. FollowFlags(u, e.flags)
    BY <1>2, <1>3, <1>4, <1>5 DEF E, FlagsExecuted
  <2>2. [(IF TurnedOn(mv) THEN KeyedOn ELSE vs[u]) EXCEPT !.counter = 65535] = AsRtl(e)
    <3>1. CASE TurnedOn(mv)
      <4> DEFINE P == (mv.bank % 256) * 65536 + mv.start
      <4>1. KeyedOn = RtlVoice(P, 0, 0, 0, 0, 0)
        BY <1>4 DEF KeyedOn, NoState, RtlVoice
      <4>2. AsRtl(e) = RtlVoice(P, 65535, 0, 0, 0, 0)
        BY <1>2, <3>1 DEF Restarted
      <4> HIDE DEF P
      <4>3. [KeyedOn EXCEPT !.counter = 65535] = RtlVoice(P, 65535, 0, 0, 0, 0)
        BY <4>1 DEF RtlVoice
      <4> QED BY <3>1, <4>2, <4>3
    <3>2. CASE ~TurnedOn(mv)
      <4> DEFINE P == Place(mv.pos)
                 s == Wrap16(mv.sample)
                 l == Wrap16(mv.last)
      <4>1. vs[u] = RtlVoice(P, mv.counter, s, l, mv.cur[1], mv.cur[2])
        BY <1>4, AsRtlIs
      <4>2. AsRtl(e) = RtlVoice(P, 65535, s, l, mv.cur[1], mv.cur[2])
        BY <1>2, <1>5, <3>2 DEF Restarted
      <4> HIDE DEF P, s, l
      <4>3. [vs[u] EXCEPT !.counter = 65535] = RtlVoice(P, 65535, s, l, mv.cur[1], mv.cur[2])
        BY <4>1 DEF RtlVoice
      <4> QED BY <3>2, <4>2, <4>3
    <3> QED BY <3>1, <3>2
  <2>3. vs' = [vs EXCEPT ![u] = AsRtl(e)]
    <3> DEFINE k == [(IF TurnedOn(mv) THEN KeyedOn ELSE vs[u]) EXCEPT !.counter = 65535]
    <3>1. vs' = [vs EXCEPT ![u] = k]
      BY <1>3, <1>5 DEF E
    <3>2. k = AsRtl(e)
      BY <2>2
    <3> HIDE DEF k
    <3> QED BY <3>1, <3>2
  <2>4. Same(h) /\ RegsOf(e) = Registers(h.v[u], e.flags)
    BY <1>1, <1>2 DEF h
  <2>5. Same(d)'
    BY <1>1, <1>2, <2>1, <2>3, <2>4, FollowingFlags
  <2> QED BY <2>5 DEF d
<1>6. CASE ~TurnedOn(mv) /\ ~TurnedOff(mv)
  <2>1. UNCHANGED <<vs, regs, on_v, off_v>>
    BY <1>3, <1>6 DEF E
  <2>2. d.v = h.v
    <3>1. h.v \in [Voice -> ModelVoices]
      BY <1>1 DEF Chips
    <3>2. e = h.v[u]
      BY <1>1, <1>2, <1>6
    <3> QED BY <1>1, <3>1, <3>2
  <2>3. Same(h)
    BY DEF h
  <2>4. Same(d)'
    BY <2>1, <2>2, <2>3 DEF Same, Keyed
  <2> QED BY <2>4 DEF d
<1> QED BY <1>5, <1>6

(* The end of a voice's step. *)

(* S_DONE writes back the voice that was stepped and adds its shares.      *)
LEMMA VoiceSteps ==
  ASSUME NEW c \in Chips, NEW u \in Voice, u = eng_voice, Same(c), NEW nv \in ModelVoices, RegsOf(nv) = Registers(c.v[u], nv.flags),
         NEW busy, ~busy => nv = c.v[u], NEW next, NEW byte, NEW l, NEW r, w = Copies(RegsOf(nv), AsRtl(nv), busy, next, byte, l, r),
         Done, NEW d, d.v = [c.v EXCEPT ![u] = nv]
  PROVE  /\ Same(d)' /\ acc' = <<acc[1] + l \div 256, acc[2] + r \div 256>>
<1>1. w.v = AsRtl(nv) /\ w.busy = busy /\ w.r.flags = nv.flags /\ w.pl = l /\ w.pr = r
  BY DEF Copies, RegsOf, Registers
<1>2. vs' = [vs EXCEPT ![u] = AsRtl(nv)] /\ acc' = <<acc[1] + l \div 256, acc[2] + r \div 256>>
  BY <1>1 DEF Done
<1>3. CASE busy
  <2>1. FollowFlags(u, nv.flags)
    BY <1>1, <1>3 DEF Done
  <2> QED BY <1>2, <2>1, FollowingFlags
<1>4. CASE ~busy
  <2>1. UNCHANGED <<regs, on_v, off_v>>
    BY <1>1, <1>4 DEF Done
  <2>2. c.v \in [Voice -> ModelVoices]
    BY DEF Chips
  <2>3. d.v = c.v
    BY <1>4, <2>2
  <2>4. vs' = vs
    BY <1>2, <1>4 DEF Same
  <2> QED BY <1>2, <2>1, <2>3, <2>4 DEF Same, Keyed
<1> QED BY <1>3, <1>4

(* A write of the CPU. *)

(* A register write reaches both sides.                                    *)
LEMMA WriteAgrees ==
  ASSUME NEW c \in Chips, Same(c), NEW u \in Voice, NEW e,
         \/ e.reg \in Words /\ e.data \in Word
         \/ e.reg = "flags" /\ e.data \in SUBSET Flags,
         e.voice = u, e = log[due], Write
  PROVE  Model!write(c, u, e.reg, e.data) \in Chips /\ Same(Model!write(c, u, e.reg, e.data))'
         /\ Model!write(c, u, e.reg, e.data).random = c.random
<1> DEFINE mv == c.v[u]
           reg == e.reg
           data == e.data
           nv == [mv EXCEPT ![reg] = data]
           d == Model!write(c, u, reg, data)
<1>1. mv \in ModelVoices /\ c.v \in [Voice -> ModelVoices] /\ c.random \in Word /\ c = [v |-> c.v, random |-> c.random]
  BY DEF Chips
<1>2. reg # "execute" /\ reg \in Words \cup {"flags"}
  BY DEF Words
<1>3. d = [v |-> [c.v EXCEPT ![u] = nv], random |-> c.random]
  <2>1. d = [c EXCEPT !.v = [c.v EXCEPT ![u] = nv]]
    BY <1>1 DEF Model!write
  <2> DEFINE V == [c.v EXCEPT ![u] = nv]
  <2> HIDE DEF V
  <2>2. [c EXCEPT !.v = V] = [v |-> V, random |-> c.random]
    BY <1>1
  <2> QED BY <2>1, <2>2 DEF V
<1> HIDE DEF d, mv
<1> HIDE DEF data, reg
<1>4. /\ nv \in ModelVoices /\ AsRtl(nv) = AsRtl(mv)
      /\ RegsOf(nv) = [RegsOf(mv) EXCEPT ![reg] = data]
      /\ nv.flags = IF reg = "flags" THEN data ELSE mv.flags
  <2> SUFFICES ASSUME NEW f, f = nv
               PROVE  /\ f \in ModelVoices /\ AsRtl(f) = AsRtl(mv)
                      /\ RegsOf(f) = [RegsOf(mv) EXCEPT ![reg] = data]
                      /\ f.flags = IF reg = "flags" THEN data ELSE mv.flags
    OBVIOUS
  <2>1. reg = "flags" => data \in SUBSET Flags
    BY DEF data, reg, Words
  <2>2. reg # "flags" => data \in Word
    BY DEF data, reg, Words
  <2>3. CASE reg = "flags"
    <3>1. f = [mv EXCEPT !.flags = data]
      BY <2>3
    <3>2. f \in ModelVoices
      BY <1>1, <2>1, <2>3, <3>1 DEF ModelVoices
    <3>3. /\ f.pos = mv.pos /\ f.counter = mv.counter /\ f.sample = mv.sample /\ f.last = mv.last /\ f.cur = mv.cur
          /\ f.flags = data /\ f.vol_f = mv.vol_f /\ f.freq = mv.freq /\ f.bank = mv.bank /\ f.start = mv.start /\ f.end = mv.end /\ f.loop = mv.loop
      BY <1>1, <3>1 DEF ModelVoices
    <3>4. RegsOf(f) = [RegsOf(mv) EXCEPT !.flags = data]
      BY <3>3 DEF RegsOf, Registers
    <3> QED BY <2>3, <3>2, <3>3, <3>4 DEF AsRtl
  <2>4. CASE reg = "vol_f"
    <3>1. f = [mv EXCEPT !.vol_f = data]
      BY <2>4
    <3>2. f \in ModelVoices
      BY <1>1, <2>2, <2>4, <3>1 DEF ModelVoices
    <3>3. /\ f.pos = mv.pos /\ f.counter = mv.counter /\ f.sample = mv.sample /\ f.last = mv.last /\ f.cur = mv.cur
          /\ f.flags = mv.flags /\ f.vol_f = data /\ f.freq = mv.freq /\ f.bank = mv.bank /\ f.start = mv.start /\ f.end = mv.end /\ f.loop = mv.loop
      BY <1>1, <3>1 DEF ModelVoices
    <3>4. RegsOf(f) = [RegsOf(mv) EXCEPT !.vol_f = data]
      BY <3>3 DEF RegsOf, Registers
    <3> QED BY <2>4, <3>2, <3>3, <3>4 DEF AsRtl
  <2>5. CASE reg = "freq"
    <3>1. f = [mv EXCEPT !.freq = data]
      BY <2>5
    <3>2. f \in ModelVoices
      BY <1>1, <2>2, <2>5, <3>1 DEF ModelVoices
    <3>3. /\ f.pos = mv.pos /\ f.counter = mv.counter /\ f.sample = mv.sample /\ f.last = mv.last /\ f.cur = mv.cur
          /\ f.flags = mv.flags /\ f.vol_f = mv.vol_f /\ f.freq = data /\ f.bank = mv.bank /\ f.start = mv.start /\ f.end = mv.end /\ f.loop = mv.loop
      BY <1>1, <3>1 DEF ModelVoices
    <3>4. RegsOf(f) = [RegsOf(mv) EXCEPT !.freq = data]
      BY <3>3 DEF RegsOf, Registers
    <3> QED BY <2>5, <3>2, <3>3, <3>4 DEF AsRtl
  <2>6. CASE reg = "bank"
    <3>1. f = [mv EXCEPT !.bank = data]
      BY <2>6
    <3>2. f \in ModelVoices
      BY <1>1, <2>2, <2>6, <3>1 DEF ModelVoices
    <3>3. /\ f.pos = mv.pos /\ f.counter = mv.counter /\ f.sample = mv.sample /\ f.last = mv.last /\ f.cur = mv.cur
          /\ f.flags = mv.flags /\ f.vol_f = mv.vol_f /\ f.freq = mv.freq /\ f.bank = data /\ f.start = mv.start /\ f.end = mv.end /\ f.loop = mv.loop
      BY <1>1, <3>1 DEF ModelVoices
    <3>4. RegsOf(f) = [RegsOf(mv) EXCEPT !.bank = data]
      BY <3>3 DEF RegsOf, Registers
    <3> QED BY <2>6, <3>2, <3>3, <3>4 DEF AsRtl
  <2>7. CASE reg = "start"
    <3>1. f = [mv EXCEPT !.start = data]
      BY <2>7
    <3>2. f \in ModelVoices
      BY <1>1, <2>2, <2>7, <3>1 DEF ModelVoices
    <3>3. /\ f.pos = mv.pos /\ f.counter = mv.counter /\ f.sample = mv.sample /\ f.last = mv.last /\ f.cur = mv.cur
          /\ f.flags = mv.flags /\ f.vol_f = mv.vol_f /\ f.freq = mv.freq /\ f.bank = mv.bank /\ f.start = data /\ f.end = mv.end /\ f.loop = mv.loop
      BY <1>1, <3>1 DEF ModelVoices
    <3>4. RegsOf(f) = [RegsOf(mv) EXCEPT !.start = data]
      BY <3>3 DEF RegsOf, Registers
    <3> QED BY <2>7, <3>2, <3>3, <3>4 DEF AsRtl
  <2>8. CASE reg = "end"
    <3>1. f = [mv EXCEPT !.end = data]
      BY <2>8
    <3>2. f \in ModelVoices
      BY <1>1, <2>2, <2>8, <3>1 DEF ModelVoices
    <3>3. /\ f.pos = mv.pos /\ f.counter = mv.counter /\ f.sample = mv.sample /\ f.last = mv.last /\ f.cur = mv.cur
          /\ f.flags = mv.flags /\ f.vol_f = mv.vol_f /\ f.freq = mv.freq /\ f.bank = mv.bank /\ f.start = mv.start /\ f.end = data /\ f.loop = mv.loop
      BY <1>1, <3>1 DEF ModelVoices
    <3>4. RegsOf(f) = [RegsOf(mv) EXCEPT !.end = data]
      BY <3>3 DEF RegsOf, Registers
    <3> QED BY <2>8, <3>2, <3>3, <3>4 DEF AsRtl
  <2>9. CASE reg = "loop"
    <3>1. f = [mv EXCEPT !.loop = data]
      BY <2>9
    <3>2. f \in ModelVoices
      BY <1>1, <2>2, <2>9, <3>1 DEF ModelVoices
    <3>3. /\ f.pos = mv.pos /\ f.counter = mv.counter /\ f.sample = mv.sample /\ f.last = mv.last /\ f.cur = mv.cur
          /\ f.flags = mv.flags /\ f.vol_f = mv.vol_f /\ f.freq = mv.freq /\ f.bank = mv.bank /\ f.start = mv.start /\ f.end = mv.end /\ f.loop = data
      BY <1>1, <3>1 DEF ModelVoices
    <3>4. RegsOf(f) = [RegsOf(mv) EXCEPT !.loop = data]
      BY <3>3 DEF RegsOf, Registers
    <3> QED BY <2>9, <3>2, <3>3, <3>4 DEF AsRtl
  <2> QED BY <1>2, <2>3, <2>4, <2>5, <2>6, <2>7, <2>8, <2>9 DEF Words
<1> HIDE DEF nv
<1>5. d \in Chips /\ d.random = c.random /\ d.v = [c.v EXCEPT ![u] = nv] /\ \A x \in Voice : d.v[x] = IF x = u THEN nv ELSE c.v[x]
  BY <1>1, <1>3, <1>4 DEF Chips
<1>6. vs' = [x \in Voice |-> AsRtl(d.v[x])]
  BY <1>4, <1>5 DEF Write, Same, mv
<1>7. regs' = [x \in Voice |-> RegsOf(d.v[x])]
  <2>1. regs' = [regs EXCEPT ![u] = [regs[u] EXCEPT ![reg] = data]]
    BY <1>2 DEF Write, reg, data
  <2>2. regs = [x \in Voice |-> RegsOf(c.v[x])] /\ regs[u] = RegsOf(mv)
    BY DEF Same, mv
  <2> QED BY <1>4, <1>5, <2>1, <2>2
<1>8. ASSUME NEW bit, NEW set, NEW mirrored, set = Keyed(c, bit), mirrored = Mirror(set, bit, e) PROVE mirrored = Keyed(d, bit)
  <2>1. mirrored = IF reg # "flags" THEN set ELSE IF bit \in data THEN set \cup {u} ELSE set \ {u}
    BY <1>8 DEF Mirror, reg, data
  <2> QED BY <1>4, <1>5, <1>8, <2>1 DEF Keyed, mv
<1>9. on_v' = Keyed(d, "KEYON") /\ off_v' = Keyed(d, "KEYOFF")
  <2>1. on_v' = Mirror(on_v, "KEYON", e) /\ off_v' = Mirror(off_v, "KEYOFF", e)
    BY <1>2 DEF Write, reg
  <2> QED BY <1>8, <2>1 DEF Same
<1>10. Same(d)' <=> /\ regs' = [x \in Voice |-> RegsOf(d.v[x])] /\ vs' = [x \in Voice |-> AsRtl(d.v[x])]
                    /\ on_v' = Keyed(d, "KEYON") /\ off_v' = Keyed(d, "KEYOFF")
  BY DEF Same
<1> QED BY <1>5, <1>6, <1>7, <1>9, <1>10 DEF d, reg, data

Stages == {"IDLE", "E", "V1", "V3", "FETCH", "V4", "MIX", "DONE"}
PathTyped ==
  /\ due \in Nat \ {0} /\ n \in Nat /\ log \in Logs /\ chip \in Chips /\ random \in Word /\ eng_voice \in Voice /\ engine \in Stages
  /\ exec_pending \in BOOLEAN /\ pend_sample \in BOOLEAN
Control == (engine # "IDLE" => ~exec_pending /\ ~pend_sample) /\ ~(exec_pending /\ pend_sample)
Together == Same(chip) /\ random = chip.random /\ out = expected
Executing(c, u) ==
  /\ chip = Model!execute(c) /\ Same(Half(c, u)) /\ snap_on = Keyed(c, "KEYON") /\ snap_off = Keyed(c, "KEYOFF")
  /\ random = c.random /\ out = expected
Sampling(c) ==
  LET all == Model!walked(c)[Voices] IN chip = all.chip /\ expected = <<Model!s16(all.l \div 8), Model!s16(all.r \div 8)>>
Latched(mv)  == \E busy \in BOOLEAN : w = Copies(RegsOf(mv), AsRtl(mv), busy, 0, 0, 0, 0)
Asking(mv)   == \E busy \in BOOLEAN : (busy <=> "BUSY" \in mv.flags) /\ InWork(mv, busy, 0)
Given(mv) ==
  \E busy \in BOOLEAN, byte \in Octet :
    /\ busy <=> "BUSY" \in mv.flags
    /\ InWork(mv, busy, byte)
    /\ busy /\ Fetches(mv) /\ "NOISE" \notin mv.flags => byte = Rom(Place(mv.pos))
Counting(mv, t) ==
  \E busy \in BOOLEAN, byte \in Octet : (busy <=> "BUSY" \in mv.flags) /\ w = Copies(RegsOf(t.v), AsRtl(t.v), busy, mv.counter + mv.freq, byte, 0, 0)
Mixed(mv, t) ==
  \E busy \in BOOLEAN, byte \in Octet, l \in Int, r \in Int :
    /\ busy <=> "BUSY" \in mv.flags
    /\ w = Copies(RegsOf(t.v), AsRtl(t.v), busy, mv.counter + mv.freq, byte, l, r)
    /\ l \div 256 = ToLeft(t)
    /\ r \div 256 = ToRight(t)
AtVoice(b, u) ==
  LET mv == b.chip.v[u]
      t  == Stepped(mv, b.chip.random)
  IN  /\ Same(b.chip) /\ acc = <<b.l, b.r>>
      /\ random = IF engine \in {"MIX", "DONE"} THEN t.random ELSE b.chip.random
      /\ engine = "V3"    => Latched(mv)
      /\ engine = "FETCH" => Asking(mv)
      /\ engine = "V4"    => Given(mv)
      /\ engine = "MIX"   => Counting(mv, t)
      /\ engine = "DONE"  => Mixed(mv, t)
Walk == {"V1", "V3", "FETCH", "V4", "MIX", "DONE"}
PathInv ==
  /\ PathTyped /\ Control
  /\ Resting => Together
  /\ engine = "IDLE" /\ exec_pending => \E c \in Chips : Executing(c, 0)
  /\ engine = "IDLE" /\ pend_sample => \E c \in Chips : Sampling(c) /\ Same(c) /\ random = c.random
  /\ engine = "E" => \E c \in Chips, u \in Voice : u = eng_voice /\ Executing(c, u)
  /\ engine \in Walk => \E c \in Chips, u \in Voice : u = eng_voice /\ Sampling(c) /\ AtVoice(Model!walked(c)[u], u)

(* Same is about the voices.                                               *)
LEMMA SameVoicesOf == ASSUME NEW c, NEW d, Same(c), d.v = c.v PROVE Same(d)
  BY DEF Same, Keyed

(* Same depends on the RAMs and the key registers.                         *)
LEMMA SameStays == ASSUME NEW c, Same(c), UNCHANGED <<regs, vs, on_v, off_v>> PROVE Same(c)'
  BY DEF Same

(* The next entry of the log is an entry.                                  *)
LEMMA LogEntry == ASSUME log \in Logs, due \in Nat \ {0}, due <= Len(log) PROVE log[due] \in LogEntries
<1>1. log \in Seq(LogEntries)
  BY LogAssumption
<1>2. due \in 1 .. Len(log)
  BY <1>1
<1> QED BY <1>1, <1>2

(* The invariant holds after the reset.                                    *)
LEMMA PathInitInv == ASSUME PathInit PROVE PathInv
<1> DEFINE R == [v |-> [u \in Voice |-> Model!NewVoice], random |-> 4660]
<1>1. chip = R
  BY DEF PathInit, Model!Reset, Voice
<1>2. Model!NewVoice \in ModelVoices
  <2>1. 0 \in Word /\ 0 \in Sample /\ <<0, 0>> \in Int \X Int /\ {} \in SUBSET Flags
    BY DEF Word, Sample
  <2> DEFINE zero == 0
             quiet == <<0, 0>>
             none == {}
             P == [hi |-> zero, lo |-> zero]
  <2>2. zero \in Word /\ zero \in Sample /\ quiet \in Int \X Int /\ none \in SUBSET Flags
    BY <2>1
  <2>3. Model!NewVoice = [pos |-> P, counter |-> zero, sample |-> zero, last |-> zero, vol_f |-> zero, cur |-> quiet,
                          freq |-> zero, flags |-> none, bank |-> zero, start |-> zero, end |-> zero, loop |-> zero]
    BY DEF Model!NewVoice
  <2> HIDE DEF zero, quiet, none
  <2> QED BY <2>2, <2>3 DEF ModelVoices
<1>3. chip \in Chips
  <2>1. 4660 \in Word
    BY DEF Word
  <2> DEFINE f == [u \in Voice |-> Model!NewVoice]
             seed == 4660
  <2>2. f \in [Voice -> ModelVoices]
    BY <1>2
  <2> HIDE DEF f
  <2>3. seed \in Word
    BY <2>1
  <2> HIDE DEF seed
  <2>4. [v |-> f, random |-> seed] \in Chips
    BY <2>2, <2>3 DEF Chips
  <2> QED BY <1>1, <2>4 DEF f, seed
<1>4. \A u \in Voice : chip.v[u] = Model!NewVoice
  BY <1>1
<1>5. RegsOf(Model!NewVoice) = NoRegs /\ AsRtl(Model!NewVoice) = NoState /\ Model!NewVoice.flags = {}
  BY DEF RegsOf, Registers, NoRegs, Model!NewVoice, AsRtl, NoState, Wrap16
<1>6. Same(chip)
  BY <1>4, <1>5 DEF Same, Keyed, PathInit
<1>7. chip.random = 4660 /\ random = 4660 /\ random \in Word
  BY <1>1 DEF PathInit, Word
<1>8. eng_voice \in Voice
  BY VoiceNumbers DEF PathInit, Voice
<1>9. Together
  BY <1>6, <1>7 DEF Together, PathInit
<1>10. PathTyped /\ Control /\ engine = "IDLE" /\ ~exec_pending /\ ~pend_sample
  <2>1. due \in Nat \ {0} /\ n \in Nat /\ log \in Logs /\ engine = "IDLE" /\ engine \in Stages
    BY DEF PathInit, Stages
  <2>2. exec_pending = FALSE /\ pend_sample = FALSE
    BY DEF PathInit
  <2>3. exec_pending \in BOOLEAN /\ pend_sample \in BOOLEAN /\ ~exec_pending /\ ~pend_sample
    BY <2>2
  <2> HIDE DEF R
  <2> QED BY <1>3, <1>7, <1>8, <2>1, <2>3 DEF PathTyped, Control
<1> QED BY <1>9, <1>10 DEF PathInv, Walk

(* Register writes, and the writes of 0x202, keep the invariant.           *)
LEMMA WriteInv == ASSUME PathInv, Write PROVE PathInv'
<1> DEFINE e == log[due]
<1>1. /\ Resting /\ Due /\ due' = due + 1 /\ chip \in Chips /\ Together /\ due \in Nat \ {0} /\ log \in Logs
      /\ UNCHANGED <<log, n, vs, pend_sample, engine, eng_voice, w, acc, random, out, expected>>
  BY DEF PathInv, PathTyped, Write
<1>2. e \in LogEntries
  BY <1>1, LogEntry DEF Due
<1>3. engine = "IDLE" /\ ~exec_pending /\ ~pend_sample
  BY <1>1 DEF Resting
<1>4. CASE e.reg = "execute"
  <2>1. PICK c \in Chips : c = chip
    BY <1>1
  <2>2. /\ exec_pending' = TRUE /\ snap_on' = on_v /\ snap_off' = off_v /\ chip' = Model!execute(c) /\ UNCHANGED <<regs, on_v, off_v>>
    BY <1>4, <2>1 DEF Write
  <2>3. Model!execute(c) \in Chips /\ Same(Half(c, 0))'
    <3>1. Same(Half(c, 0))
      BY <1>1, <2>1, Halves, SameVoicesOf DEF Together
    <3>2. Half(c, Voices) \in Chips
      BY HalfTyped, VoiceNumbers
    <3> QED BY <1>1, <2>2, <3>1, <3>2, Halves, SameStays
  <2>4. Executing(c, 0)'
    BY <1>1, <2>1, <2>2, <2>3 DEF Executing, Together, Same
  <2> QED BY <1>1, <1>3, <2>2, <2>3, <2>4 DEF PathInv, PathTyped, Control, Resting, Walk
<1>5. CASE e.reg # "execute"
  <2>1. PICK c \in Chips, u \in Voice, k \in LogEntries : c = chip /\ u = e.voice /\ k = e
    BY <1>1, <1>2, <1>5 DEF LogEntries, Voice, Last
  <2>2. \/ k.reg \in Words /\ k.data \in Word
        \/ k.reg = "flags" /\ k.data \in SUBSET Flags
    BY <1>2, <1>5, <2>1 DEF LogEntries, Word
  <2> DEFINE d == Model!write(c, u, k.reg, k.data)
  <2>3. chip' = d /\ UNCHANGED <<exec_pending, snap_on, snap_off>>
    BY <1>5, <2>1 DEF Write
  <2>4. d \in Chips /\ Same(d)' /\ d.random = c.random
    BY <1>1, <2>1, <2>2, WriteAgrees DEF Together
  <2> HIDE DEF d
  <2>5. Together'
    BY <1>1, <2>1, <2>3, <2>4 DEF Together, Same
  <2> QED BY <1>1, <1>3, <2>3, <2>4, <2>5 DEF PathInv, PathTyped, Control, Resting, Walk
<1> QED BY <1>4, <1>5

(* So does a sample tick, with which the model has gone ahead.             *)
LEMMA TickInv == ASSUME RomOfBytes, PathInv, Tick PROVE PathInv'
<1>1. PICK c \in Chips : c = chip
  BY DEF PathInv, PathTyped
<1> DEFINE all == Model!walked(c)[Voices]
           left == Model!s16(all.l \div 8)
           right == Model!s16(all.r \div 8)
<1>2. chip' = all.chip /\ expected' = <<left, right>> /\ pend_sample' = TRUE /\ n' = n + 1 /\ Resting /\ Together
      /\ UNCHANGED <<log, due, regs, vs, keys, exec_pending, engine, eng_voice, w, acc, random, out>>
  BY <1>1 DEF Tick, Model!step, PathInv
<1>3. all \in Sums
  BY Walks, VoiceNumbers
<1>4. all.chip \in Chips
  BY <1>3 DEF Sums
<1>5. Sampling(c)' /\ Same(c)' /\ random' = c.random
  <2> HIDE DEF all, left, right
  <2>1. Same(c)'
    BY <1>1, <1>2, SameStays DEF Together, keys
  <2>2. Sampling(c)'
    BY <1>2 DEF Sampling, all, left, right
  <2> QED BY <1>1, <1>2, <2>1, <2>2 DEF Together
<1> HIDE DEF all
<1> QED BY <1>2, <1>4, <1>5 DEF PathInv, PathTyped, Control, Resting, Walk

(* So does the start of a walk or of an execute pass.                      *)
LEMMA IdleInv == ASSUME RomOfBytes, PathInv, Idle PROVE PathInv'
<1>1. engine = "IDLE" /\ eng_voice' = 0 /\ UNCHANGED <<log, due, n, regs, vs, on_v, off_v, snap_on, snap_off, w, random, out, chip, expected>>
  BY DEF Idle, Begin, cpu, keys, model
<1>2. 0 \in Voice
  BY VoiceNumbers
<1>3. CASE engine' = "E" /\ exec_pending /\ exec_pending' = FALSE /\ UNCHANGED <<pend_sample, acc>>
  <2>1. PICK c \in Chips : Executing(c, 0)
    BY <1>1, <1>3 DEF PathInv
  <2>2. Executing(c, 0)'
    BY <1>1, <1>3, <2>1 DEF Executing, Same
  <2> QED BY <1>1, <1>2, <1>3, <2>2 DEF PathInv, PathTyped, Control, Resting, Walk, Stages
<1>4. CASE engine' = "V1" /\ ~exec_pending /\ pend_sample /\ pend_sample' = FALSE /\ acc' = <<0, 0>> /\ UNCHANGED exec_pending
  <2>1. PICK c \in Chips : Sampling(c) /\ Same(c) /\ random = c.random
    BY <1>1, <1>4 DEF PathInv
  <2> DEFINE b == Model!walked(c)[0]
  <2>2. b.chip = c /\ b.l = 0 /\ b.r = 0
    <3>1. b = Before(c)
      BY Walks
    <3> HIDE DEF b
    <3> QED BY <3>1 DEF Before
  <2>3. Sampling(c)' /\ Same(c)'
    BY <1>1, <2>1, SameStays DEF Sampling
  <2> HIDE DEF b
  <2>4. AtVoice(b, 0)'
    BY <1>1, <1>4, <2>1, <2>2, <2>3 DEF AtVoice
  <2> QED BY <1>1, <1>2, <1>4, <2>3, <2>4 DEF PathInv, PathTyped, Control, Resting, Walk, Stages, b
<1> QED BY <1>3, <1>4 DEF Idle, Begin

(* So does a voice of the execute pass.                                    *)
LEMMA ExecuteInv == ASSUME PathInv, E PROVE PathInv'
<1>1. PICK c \in Chips, u \in Voice : u = eng_voice /\ Executing(c, u)
  BY DEF PathInv, E
<1>2. Same(Half(c, u + 1))'
  BY <1>1, VoiceExecutes DEF Executing
<1>3. engine = "E" /\ ~exec_pending /\ ~pend_sample /\ UNCHANGED <<log, due, n, snap_on, snap_off, exec_pending, pend_sample, w, acc, random, out, chip, expected>>
  BY DEF E, PathInv, Control, cpu, model
<1>4. CASE u = Last
  <2>1. engine' = "IDLE" /\ eng_voice' = 0
    BY <1>1, <1>4 DEF E
  <2>2. u + 1 = Voices /\ 0 \in Voice
    BY <1>4, VoiceNumbers
  <2>3. Half(c, u + 1) = chip /\ chip.random = c.random
    <3>1. Half(c, Voices) = Model!execute(c)
      BY Halves
    <3>2. Half(c, Voices).random = c.random
      BY DEF Half
    <3> QED BY <1>1, <2>2, <3>1, <3>2 DEF Executing
  <2>4. Together'
    BY <1>1, <1>2, <1>3, <2>3 DEF Together, Executing, Same
  <2> QED BY <1>3, <2>1, <2>2, <2>4 DEF PathInv, PathTyped, Control, Resting, Walk, Stages
<1>5. CASE u # Last
  <2>1. engine' = "E" /\ eng_voice' = u + 1
    BY <1>1, <1>3, <1>5 DEF E
  <2>2. u + 1 \in Voice
    BY <1>5, VoiceNumbers
  <2>3. Executing(c, u + 1)'
    BY <1>1, <1>2, <1>3 DEF Executing
  <2> QED BY <1>3, <2>1, <2>2, <2>3 DEF PathInv, PathTyped, Control, Resting, Walk, Stages
<1> QED BY <1>4, <1>5

(* What the steps of a voice leave alone. *)
VoiceSteady == UNCHANGED <<log, due, n, regs, vs, on_v, off_v, snap_on, snap_off, exec_pending, pend_sample, acc, out, chip, expected, eng_voice>>

(* Inside a walk it is enough to look at the voice that is stepped.        *)
LEMMA Inner ==
  ASSUME PathInv, engine \in Walk, VoiceSteady
  PROVE  \E c \in Chips, u \in Voice :
           /\ u = eng_voice /\ Sampling(c) /\ AtVoice(Model!walked(c)[u], u) /\ Sampling(c)'
           /\ (AtVoice(Model!walked(c)[u], u)' /\ engine' \in Walk /\ random' \in Word => PathInv')
<1>1. PICK c \in Chips, u \in Voice : u = eng_voice /\ Sampling(c) /\ AtVoice(Model!walked(c)[u], u)
  BY DEF PathInv
<1>2. Sampling(c)' /\ u = eng_voice'
  BY <1>1 DEF Sampling, VoiceSteady
<1>3. engine # "IDLE" /\ ~exec_pending /\ ~pend_sample /\ PathTyped
  BY DEF PathInv, Control, Walk
<1>4. ASSUME AtVoice(Model!walked(c)[u], u)', engine' \in Walk, random' \in Word PROVE PathInv'
  <2>1. PathTyped' /\ Control' /\ ~Resting' /\ engine' # "IDLE" /\ engine' # "E"
    BY <1>3, <1>4 DEF PathTyped, VoiceSteady, Walk, Stages, Control, Resting
  <2> QED BY <1>2, <1>4, <2>1 DEF PathInv
<1> QED BY <1>1, <1>2, <1>4

(* What the model has before a voice is within its widths.                 *)
LEMMA BeforeVoice ==
  ASSUME RomOfBytes, NEW c \in Chips, NEW u \in Voice
  PROVE  LET b == Model!walked(c)[u] IN
         b \in Sums /\ b.chip \in Chips /\ b.chip.v[u] \in ModelVoices /\ b.chip.random \in Word /\ b.l \in Int /\ b.r \in Int
<1>1. u \in 0 .. Voices
  BY VoiceNumbers
<1> DEFINE b == Model!walked(c)[u]
<1>2. b \in Sums
  BY <1>1, Walks
<1> HIDE DEF b
<1>3. b.chip \in Chips /\ b.l \in Int /\ b.r \in Int
  BY <1>2 DEF Sums
<1>4. b.chip.v[u] \in ModelVoices /\ b.chip.random \in Word
  BY <1>3 DEF Chips
<1> QED BY <1>2, <1>3, <1>4 DEF b

(* Latching a voice keeps the invariant.                                   *)
LEMMA V1Inv == ASSUME RomOfBytes, PathInv, V1 PROVE PathInv'
<1>1. engine = "V1" /\ engine' = "V3" /\ w' = Latch /\ VoiceSteady /\ random' = random
  BY DEF V1, Inside, Walking, VoiceSteady, cpu, keys, model
<1>2. PICK c \in Chips, u \in Voice :
           /\ u = eng_voice /\ Sampling(c) /\ AtVoice(Model!walked(c)[u], u) /\ Sampling(c)'
           /\ (AtVoice(Model!walked(c)[u], u)' /\ engine' \in Walk /\ random' \in Word => PathInv')
  BY <1>1, Inner DEF Walk
<1> DEFINE b == Model!walked(c)[u]
           mv == b.chip.v[u]
<1>3. AtVoice(b, u)
  BY <1>2
<1> HIDE DEF b
<1>4. Same(b.chip) /\ acc = <<b.l, b.r>> /\ random = b.chip.random
  BY <1>1, <1>3 DEF AtVoice
<1>5. Latched(mv)'
  <2> DEFINE r == RegsOf(mv)
             v == AsRtl(mv)
             zero == 0
             no == FALSE
  <2>1. regs[u] = r /\ vs[u] = v
    BY <1>4 DEF Same
  <2>2. NoWork = Copies(NoRegs, NoState, no, zero, zero, zero, zero)
    BY DEF NoWork, Copies
  <2>3. no \in BOOLEAN
    OBVIOUS
  <2> DEFINE k == [NoWork EXCEPT !.r = r]
  <2>4. w' = [k EXCEPT !.v = v]
    BY <1>1, <1>2, <2>1 DEF Latch
  <2> HIDE DEF r, v, zero, no
  <2>5. k = Copies(r, NoState, no, zero, zero, zero, zero)
    BY <2>2 DEF Copies
  <2> HIDE DEF k
  <2>6. w' = Copies(r, v, no, zero, zero, zero, zero)
    BY <2>4, <2>5 DEF Copies
  <2>7. \E busy \in BOOLEAN : w' = Copies(r, v, busy, 0, 0, 0, 0)
    BY <2>3, <2>6 DEF zero
  <2> QED BY <2>7 DEF Latched, r, v
<1>6. AtVoice(b, u)'
  BY <1>1, <1>4, <1>5, SameStays DEF AtVoice, VoiceSteady
<1>7. random' \in Word
  BY <1>1 DEF PathInv, PathTyped
<1> QED BY <1>1, <1>2, <1>6, <1>7 DEF b, Walk

(* So does S_V3, which decides whether a byte is fetched.                  *)
LEMMA V3Inv == ASSUME RomOfBytes, PathInv, V3 PROVE PathInv'
<1>1. engine = "V3" /\ VoiceSteady /\ random' = random
  BY DEF V3, Inside, Walking, VoiceSteady, cpu, keys, model
<1>2. PICK c \in Chips, u \in Voice :
           /\ u = eng_voice /\ Sampling(c) /\ AtVoice(Model!walked(c)[u], u) /\ Sampling(c)'
           /\ (AtVoice(Model!walked(c)[u], u)' /\ engine' \in Walk /\ random' \in Word => PathInv')
  BY <1>1, Inner DEF Walk
<1> DEFINE b == Model!walked(c)[u]
           mv == b.chip.v[u]
           next == mv.counter + mv.freq
           busy == "BUSY" \in mv.flags
<1>3. AtVoice(b, u)
  BY <1>2
<1> HIDE DEF b
<1>4. Same(b.chip) /\ acc = <<b.l, b.r>> /\ random = b.chip.random /\ Latched(mv)
  BY <1>1, <1>3 DEF AtVoice
<1>5. PICK no \in BOOLEAN : w = Copies(RegsOf(mv), AsRtl(mv), no, 0, 0, 0, 0)
  BY <1>4 DEF Latched
<1>6. w.v.counter + w.r.freq = next /\ ("BUSY" \in w.r.flags <=> busy) /\ w.r.flags = mv.flags
  BY <1>5 DEF Copies, AsRtl, RegsOf, Registers
<1>7. \E yes \in BOOLEAN : (yes <=> busy) /\ InWork(mv, yes, 0)'
  <2>0. PICK yes \in BOOLEAN : yes = ("BUSY" \in w.r.flags)
    <3>1. ("BUSY" \in w.r.flags) \in BOOLEAN
      OBVIOUS
    <3> QED BY <3>1, Zenon
  <2>1. PICK x : x = w.v.counter + w.r.freq
    OBVIOUS
  <2> DEFINE r == RegsOf(mv)
             v == AsRtl(mv)
             zero == 0
             k == [w EXCEPT !.next = x]
  <2>2. w' = [k EXCEPT !.busy = yes] /\ w = Copies(r, v, no, zero, zero, zero, zero)
    <3>1. w' = [w EXCEPT !.next = x, !.busy = yes]
      BY <2>0, <2>1 DEF V3
    <3>2. w = Copies(r, v, no, zero, zero, zero, zero)
      BY <1>5
    <3> HIDE DEF r, v, zero, k
    <3>3. w' = [k EXCEPT !.busy = yes]
      BY <3>1 DEF k
    <3> QED BY <3>2, <3>3
  <2>3. x = next /\ (yes <=> busy)
    BY <1>6, <2>0, <2>1
  <2> HIDE DEF r, v, zero, next
  <2>4. k = Copies(r, v, no, x, zero, zero, zero)
    BY <2>2 DEF Copies
  <2> HIDE DEF k
  <2>5. w' = Copies(r, v, yes, next, zero, zero, zero)
    BY <2>2, <2>3, <2>4 DEF Copies
  <2>6. InWork(mv, yes, 0)'
    BY <2>5 DEF InWork, r, v, next, zero
  <2> QED BY <2>3, <2>6
<1>8. PICK yes \in BOOLEAN : (yes <=> busy) /\ InWork(mv, yes, 0)'
  BY <1>7
<1>9. engine' = (IF busy /\ Fetches(mv) /\ "NOISE" \notin mv.flags THEN "FETCH" ELSE "V4")
  BY <1>6 DEF V3, Fetches
<1>10. engine' = "FETCH" => Asking(mv)'
  BY <1>8 DEF Asking
<1>11. engine' = "V4" => Given(mv)'
  <2>1. engine' = "V4" => ~(yes /\ Fetches(mv) /\ "NOISE" \notin mv.flags)
    BY <1>8, <1>9
  <2>2. 0 \in Octet
    BY DEF Octet
  <2> QED BY <1>8, <2>1, <2>2 DEF Given
<1>12. AtVoice(b, u)'
  BY <1>1, <1>4, <1>9, <1>10, <1>11, SameStays DEF AtVoice, VoiceSteady
<1>13. random' \in Word
  BY <1>1 DEF PathInv, PathTyped
<1> QED BY <1>2, <1>9, <1>12, <1>13 DEF b, Walk

(* So does the fetch.                                                      *)
LEMMA FetchInv == ASSUME RomOfBytes, PathInv, Fetch PROVE PathInv'
<1>1. engine = "FETCH" /\ engine' = "V4" /\ VoiceSteady /\ random' = random
  BY DEF Fetch, Inside, Walking, VoiceSteady, cpu, keys, model
<1>2. PICK c \in Chips, u \in Voice :
           /\ u = eng_voice /\ Sampling(c) /\ AtVoice(Model!walked(c)[u], u) /\ Sampling(c)'
           /\ (AtVoice(Model!walked(c)[u], u)' /\ engine' \in Walk /\ random' \in Word => PathInv')
  BY <1>1, Inner DEF Walk
<1> DEFINE b == Model!walked(c)[u]
           mv == b.chip.v[u]
<1>3. AtVoice(b, u)
  BY <1>2
<1> HIDE DEF b
<1>4. Same(b.chip) /\ acc = <<b.l, b.r>> /\ random = b.chip.random /\ Asking(mv)
  BY <1>1, <1>3 DEF AtVoice
<1>5. PICK busy \in BOOLEAN : (busy <=> "BUSY" \in mv.flags) /\ InWork(mv, busy, 0)
  BY <1>4 DEF Asking
<1>6. w' = [w EXCEPT !.rom_byte = Rom(Place(mv.pos))]
  <2>1. w.v = AsRtl(mv)
    BY <1>5 DEF InWork, Copies
  <2>2. AsRtl(mv).pos = Place(mv.pos)
    BY AsRtlIs DEF RtlVoice
  <2>3. w' = [w EXCEPT !.rom_byte = Rom(w.v.pos)]
    BY DEF Fetch
  <2> QED BY <2>1, <2>2, <2>3
<1>7. InWork(mv, busy, Rom(Place(mv.pos)))'
  <2> DEFINE x == Rom(Place(mv.pos))
             zero == 0
             next == mv.counter + mv.freq
             r == RegsOf(mv)
             v == AsRtl(mv)
  <2>1. w = Copies(r, v, busy, next, zero, zero, zero) /\ w' = [w EXCEPT !.rom_byte = x]
    BY <1>5, <1>6 DEF InWork
  <2> HIDE DEF x, zero, next, r, v
  <2>2. w' = Copies(r, v, busy, next, x, zero, zero)
    BY <2>1 DEF Copies
  <2> QED BY <2>2 DEF InWork, x, zero, next, r, v
<1>8. Given(mv)'
  <2>1. mv \in ModelVoices
    BY <1>2, BeforeVoice DEF b
  <2>2. Rom(Place(mv.pos)) \in Octet
    <3> HIDE DEF mv
    <3> QED BY <2>1, SampledVoice
  <2> DEFINE x == Rom(Place(mv.pos))
  <2>3. PICK byte \in Octet : byte = x
    BY <2>2
  <2>4. InWork(mv, busy, byte)'
    <3>1. w' = Copies(RegsOf(mv), AsRtl(mv), busy, mv.counter + mv.freq, byte, 0, 0)
      BY <1>7, <2>3 DEF InWork
    <3> QED BY <3>1 DEF InWork
  <2> QED BY <1>5, <2>3, <2>4 DEF Given
<1>9. AtVoice(b, u)'
  BY <1>1, <1>4, <1>8, SameStays DEF AtVoice, VoiceSteady
<1>10. random' \in Word
  BY <1>1 DEF PathInv, PathTyped
<1> QED BY <1>1, <1>2, <1>9, <1>10 DEF b, Walk

(* So does S_V4.                                                           *)
LEMMA V4Inv == ASSUME RomOfBytes, PathInv, V4 PROVE PathInv'
<1>1. engine = "V4" /\ engine' = "MIX" /\ VoiceSteady
  BY DEF V4, Inside, Walking, VoiceSteady, cpu, keys, model
<1>2. PICK c \in Chips, u \in Voice :
           /\ u = eng_voice /\ Sampling(c) /\ AtVoice(Model!walked(c)[u], u) /\ Sampling(c)'
           /\ (AtVoice(Model!walked(c)[u], u)' /\ engine' \in Walk /\ random' \in Word => PathInv')
  BY <1>1, Inner DEF Walk
<1> DEFINE b == Model!walked(c)[u]
           mv == b.chip.v[u]
<1>3. AtVoice(b, u) /\ mv \in ModelVoices
  BY <1>2, BeforeVoice
<1> HIDE DEF b
<1>4. PICK noise : noise = b.chip.random
  OBVIOUS
<1> DEFINE t == Stepped(mv, noise)
<1>5. Same(b.chip) /\ acc = <<b.l, b.r>> /\ random = noise /\ Given(mv) /\ random \in Word
  BY <1>1, <1>3, <1>4 DEF AtVoice, PathInv, PathTyped
<1>6. PICK busy \in BOOLEAN, byte \in Octet :
        /\ busy <=> "BUSY" \in mv.flags
        /\ InWork(mv, busy, byte)
        /\ busy /\ Fetches(mv) /\ "NOISE" \notin mv.flags => byte = Rom(Place(mv.pos))
  BY <1>5 DEF Given
<1>7. t.random \in Word /\ w' = Copies(RegsOf(t.v), AsRtl(t.v), busy, mv.counter + mv.freq, byte, 0, 0) /\ random' = t.random
  <2> HIDE DEF mv
  <2> QED BY <1>3, <1>5, <1>6, CountAgrees
<1> HIDE DEF mv, t
<1>8. Counting(mv, t)'
  BY <1>6, <1>7 DEF Counting
<1>9. AtVoice(b, u)'
  BY <1>1, <1>4, <1>5, <1>7, <1>8, SameStays DEF AtVoice, VoiceSteady, mv, t
<1> QED BY <1>1, <1>2, <1>7, <1>9 DEF b, Walk

(* What S_MUL has to give.                                                 *)
LEMMA MixedTo ==
  ASSUME NEW mv, NEW t, NEW busy \in BOOLEAN, NEW byte \in Octet, NEW l \in Int, NEW r \in Int, busy <=> "BUSY" \in mv.flags,
         w' = Copies(RegsOf(t.v), AsRtl(t.v), busy, mv.counter + mv.freq, byte, l, r), l \div 256 = ToLeft(t), r \div 256 = ToRight(t)
  PROVE  Mixed(mv, t)'
<1>1. ToLeft(t)' = ToLeft(t) /\ ToRight(t)' = ToRight(t)
  BY DEF ToLeft, ToRight, Share, Model!Heard
<1> QED BY <1>1 DEF Mixed

(* So does S_MUL.                                                          *)
LEMMA MixInv == ASSUME RomOfBytes, PathInv, Mix PROVE PathInv'
<1>1. engine = "MIX" /\ engine' = "DONE" /\ VoiceSteady /\ random' = random
  BY DEF Mix, Inside, Walking, VoiceSteady, cpu, keys, model
<1>2. PICK c \in Chips, u \in Voice :
           /\ u = eng_voice /\ Sampling(c) /\ AtVoice(Model!walked(c)[u], u) /\ Sampling(c)'
           /\ (AtVoice(Model!walked(c)[u], u)' /\ engine' \in Walk /\ random' \in Word => PathInv')
  BY <1>1, Inner DEF Walk
<1> DEFINE b == Model!walked(c)[u]
           mv == b.chip.v[u]
           noise == b.chip.random
           t == Stepped(mv, noise)
<1>3. AtVoice(b, u) /\ mv \in ModelVoices /\ noise \in Word
  BY <1>2, BeforeVoice
<1> HIDE DEF b
<1>4. Same(b.chip) /\ acc = <<b.l, b.r>> /\ random = t.random /\ Counting(mv, t)
  BY <1>1, <1>3 DEF AtVoice
<1> HIDE DEF mv, noise
<1>5. t.v \in ModelVoices /\ t.s = IF "BUSY" \in mv.flags THEN SampleOf(t.v) ELSE 0
  BY <1>3, SteppedTyped, SteppedSample
<1> HIDE DEF t
<1>6. PICK busy \in BOOLEAN, byte \in Octet : (busy <=> "BUSY" \in mv.flags) /\ w = Copies(RegsOf(t.v), AsRtl(t.v), busy, mv.counter + mv.freq, byte, 0, 0)
  BY <1>4 DEF Counting
<1>7. PICK l \in Int, r \in Int :
              /\ w' = Copies(RegsOf(t.v), AsRtl(t.v), busy, mv.counter + mv.freq, byte, l, r)
              /\ l \div 256 = Model!Heard(IF busy THEN SampleOf(t.v) ELSE 0, "PHASEFL" \in t.v.flags, t.v.cur[1])
              /\ r \div 256 = Model!Heard(IF busy THEN SampleOf(t.v) ELSE 0, "PHASEFR" \in t.v.flags, t.v.cur[2])
  BY <1>5, <1>6, MixAgrees
<1>8. (IF busy THEN SampleOf(t.v) ELSE 0) = t.s
  BY <1>5, <1>6
<1>9. Mixed(mv, t)'
  <2>1. l \div 256 = ToLeft(t)
    BY <1>7, <1>8 DEF Share, ToLeft
  <2>2. r \div 256 = ToRight(t)
    BY <1>7, <1>8 DEF Share, ToRight
  <2> QED BY <1>6, <1>7, <2>1, <2>2, MixedTo
<1>10. AtVoice(b, u)'
  BY <1>1, <1>4, <1>9, SameStays DEF AtVoice, VoiceSteady, mv, t, noise
<1>11. random' \in Word
  BY <1>1 DEF PathInv, PathTyped
<1> QED BY <1>1, <1>2, <1>10, <1>11 DEF b, Walk

(* So does the end of a voice, the last one's with the output.             *)
LEMMA DoneInv == ASSUME RomOfBytes, PathInv, Done PROVE PathInv'
<1>1. engine = "DONE" /\ UNCHANGED <<log, due, n, snap_on, snap_off, exec_pending, pend_sample, w, random, chip, expected>>
  BY DEF Done, cpu, model
<1>2. PICK c \in Chips, u \in Voice : u = eng_voice /\ Sampling(c) /\ AtVoice(Model!walked(c)[u], u)
  BY <1>1 DEF PathInv, Walk
<1> DEFINE b == Model!walked(c)[u]
           mv == b.chip.v[u]
           noise == b.chip.random
           t == Stepped(mv, noise)
           x == ToLeft(t)
           q == ToRight(t)
           nb == Model!walked(c)[u + 1]
<1>3. AtVoice(b, u) /\ mv \in ModelVoices /\ noise \in Word /\ b.chip \in Chips /\ b.l \in Int /\ b.r \in Int
  BY <1>2, BeforeVoice
<1>4. nb = Onward(b, u) /\ nb \in Sums
  <2>1. u + 1 \in 0 .. Voices
    BY VoiceNumbers
  <2> QED BY <2>1, Walks
<1> HIDE DEF b, nb
<1>5. Same(b.chip) /\ acc = <<b.l, b.r>> /\ random = t.random /\ Mixed(mv, t)
  BY <1>1, <1>3 DEF AtVoice
<1>6. nb.chip.v = [b.chip.v EXCEPT ![u] = t.v] /\ nb.chip.random = t.random /\ nb.l = b.l + x /\ nb.r = b.r + q
  BY <1>4 DEF Onward
<1>7. t.v \in ModelVoices /\ RegsOf(t.v) = Registers(b.chip.v[u], t.v.flags) /\ ("BUSY" \notin mv.flags => t.v = mv)
  BY <1>3, SteppedTyped, SteppedKeeps
<1> HIDE DEF mv, noise, t, x, q
<1>8. PICK busy \in BOOLEAN, byte \in Octet, l \in Int, r \in Int :
    /\ busy <=> "BUSY" \in mv.flags
    /\ w = Copies(RegsOf(t.v), AsRtl(t.v), busy, mv.counter + mv.freq, byte, l, r)
    /\ l \div 256 = x
    /\ r \div 256 = q
  BY <1>5 DEF Mixed, x, q
<1>9. Same(nb.chip)' /\ acc' = <<b.l + x, b.r + q>>
  <2>1. ~busy => t.v = b.chip.v[u]
    BY <1>7, <1>8 DEF mv
  <2>2. Same(nb.chip)' /\ acc' = <<acc[1] + l \div 256, acc[2] + r \div 256>>
    BY <1>2, <1>3, <1>5, <1>6, <1>7, <1>8, <2>1, VoiceSteps
  <2>3. acc[1] = b.l /\ acc[2] = b.r
    BY <1>5
  <2> QED BY <1>8, <2>2, <2>3
<1>10. ~exec_pending /\ ~pend_sample /\ PathTyped /\ random = nb.chip.random
  BY <1>1, <1>5, <1>6 DEF PathInv, Control
<1>11. CASE u = Last
  <2>1. engine' = "IDLE" /\ eng_voice' = eng_voice
    BY <1>2, <1>11 DEF Done
  <2>2. nb = Model!walked(c)[Voices]
    BY <1>11, VoiceNumbers DEF nb
  <2>3. chip = nb.chip /\ expected = <<Model!s16(nb.l \div 8), Model!s16(nb.r \div 8)>>
    BY <1>2, <2>2 DEF Sampling
  <2>4. out' = <<Signed(Wrap16((b.l + x) \div 8)), Signed(Wrap16((b.r + q) \div 8))>>
    <3>1. out' = <<Signed(Wrap16(acc'[1] \div 8)), Signed(Wrap16(acc'[2] \div 8))>>
      BY <1>2, <1>11 DEF Done
    <3>2. acc'[1] = b.l + x /\ acc'[2] = b.r + q
      BY <1>9
    <3> QED BY <3>1, <3>2
  <2>5. out' = expected
    <3>1. nb.l \in Int /\ nb.r \in Int
      BY <1>4 DEF Sums
    <3> DEFINE p == nb.l \div 8
               s == nb.r \div 8
    <3>2. p \in Int /\ s \in Int
      BY <3>1
    <3>3. out' = <<Signed(Wrap16(p)), Signed(Wrap16(s))>> /\ expected = <<Model!s16(p), Model!s16(s)>>
      BY <1>6, <2>3, <2>4
    <3> HIDE DEF p, s
    <3> QED BY <3>2, <3>3, SixteenBits
  <2>6. Together'
    BY <1>1, <1>9, <1>10, <2>3, <2>5 DEF Together, Same
  <2> QED BY <1>1, <1>10, <2>1, <2>6 DEF PathInv, PathTyped, Control, Resting, Walk, Stages
<1>12. CASE u # Last
  <2>1. engine' = "V1" /\ eng_voice' = u + 1
    BY <1>2, <1>12 DEF Done
  <2>2. u + 1 \in Voice
    BY <1>12, VoiceNumbers
  <2>3. AtVoice(nb, u + 1)'
    BY <1>1, <1>6, <1>9, <1>10, <2>1 DEF AtVoice
  <2>4. Sampling(c)'
    BY <1>1, <1>2 DEF Sampling
  <2> QED BY <1>1, <1>10, <2>1, <2>2, <2>3, <2>4 DEF PathInv, PathTyped, Control, Resting, Walk, Stages, nb
<1> QED BY <1>11, <1>12

(* Every step keeps the invariant.                                         *)
LEMMA PathStep == ASSUME RomOfBytes, PathInv, [PathNext]_pathVars PROVE PathInv'
<1>1. CASE UNCHANGED pathVars
  <2>1. /\ log' = log /\ due' = due /\ n' = n /\ regs' = regs /\ vs' = vs /\ on_v' = on_v /\ off_v' = off_v /\ snap_on' = snap_on /\ snap_off' = snap_off
        /\ exec_pending' = exec_pending /\ pend_sample' = pend_sample /\ engine' = engine /\ eng_voice' = eng_voice
        /\ w' = w /\ acc' = acc /\ random' = random /\ out' = out /\ chip' = chip /\ expected' = expected
    BY <1>1 DEF pathVars, cpu, keys, model
  <2>2. \A c : Same(c)' <=> Same(c)
    BY <2>1 DEF Same
  <2>3. \A c, u : Executing(c, u)' <=> Executing(c, u)
    BY <2>1, <2>2 DEF Executing
  <2>4. \A c : Sampling(c)' <=> Sampling(c)
    BY <2>1 DEF Sampling
  <2>5. \A mv : (Latched(mv)' <=> Latched(mv)) /\ (Asking(mv)' <=> Asking(mv)) /\ (Given(mv)' <=> Given(mv))
    BY <2>1 DEF Latched, Asking, Given, InWork
  <2>6. \A mv, t : (Counting(mv, t)' <=> Counting(mv, t)) /\ (Mixed(mv, t)' <=> Mixed(mv, t))
    BY <2>1 DEF Counting, Mixed
  <2>7. \A b, u : AtVoice(b, u)' <=> AtVoice(b, u)
    BY <2>1, <2>2, <2>5, <2>6 DEF AtVoice
  <2>8. PathTyped' /\ Control' /\ (Resting' <=> Resting) /\ (Together' <=> Together)
    BY <2>1, <2>2 DEF PathInv, PathTyped, Control, Resting, Together, Same
  <2> QED BY <2>1, <2>2, <2>3, <2>4, <2>7, <2>8 DEF PathInv
<1> QED BY <1>1, WriteInv, TickInv, IdleInv, V1Inv, V3Inv, FetchInv, V4Inv, MixInv, DoneInv, ExecuteInv DEF PathNext

(* Between samples the RTL's output, its noise and every voice are the      *)
(* model's (what main of c352_model.py counts the differences of), for any  *)
(* number of voices, any log of writes and any ROM of bytes.                *)
THEOREM SameSampleCorrect == ASSUME RomOfBytes PROVE PathSpec => []SameSample
<1>1. PathInv => SameSample
  BY DEF PathInv, Together, SameSample, SameVoices, Same, RegsOf, Registers
<1>2. PathInv /\ [PathNext]_pathVars => PathInv'
  BY PathStep
<1>3. PathInit => PathInv
  BY PathInitInv
<1> QED BY <1>1, <1>2, <1>3, PTL DEF PathSpec

-----------------------------------------------------------------------------
(* A sequence that is one followed by another is their concatenation.      *)
LEMMA Joined ==
  ASSUME NEW S, NEW a \in Seq(S), NEW b \in Seq(S), NEW c \in Seq(S), Len(c) = Len(a) + Len(b),
         \A k \in 1 .. Len(a) : c[k] = a[k], \A k \in 1 .. Len(b) : c[Len(a) + k] = b[k]
  PROVE  c = a \o b
<1>1. /\ a \o b \in Seq(S) /\ Len(a \o b) = Len(a) + Len(b)
      /\ \A k \in 1 .. Len(a) : (a \o b)[k] = a[k]
      /\ \A k \in 1 .. Len(b) : (a \o b)[Len(a) + k] = b[k]
  OBVIOUS
<1> DEFINE d == a \o b
<1>2. Len(a) \in Nat /\ Len(b) \in Nat
  OBVIOUS
<1> HIDE DEF d
<1>3. ASSUME NEW k \in 1 .. Len(c) PROVE c[k] = d[k]
  <2>1. CASE k <= Len(a)
    BY <1>1, <1>2, <2>1 DEF d
  <2>2. CASE k > Len(a)
    <3>1. PICK j \in 1 .. Len(b) : k = Len(a) + j
      <4>1. k - Len(a) \in 1 .. Len(b)
        BY <1>2, <2>2
      <4>2. k = Len(a) + (k - Len(a))
        BY <1>2
      <4> QED BY <4>1, <4>2
    <3> QED BY <1>1, <3>1 DEF d
  <2> QED BY <1>2, <2>1, <2>2
<1>4. d \in Seq(S) /\ Len(d) = Len(c)
  BY <1>1 DEF d
<1>5. c = d
  BY <1>3, <1>4
<1> QED BY <1>5 DEF d

(* Division by five, and the group and place it gives back.                *)
LEMMA Fifths ==
  ASSUME NEW x \in Nat
  PROVE  x \div 5 \in Nat /\ x % 5 \in 0 .. 4 /\ x = 5 * (x \div 5) + (x % 5)
OBVIOUS

LEMMA Divided ==
  ASSUME NEW h \in Nat, NEW r \in 0 .. 4
  PROVE  (5 * h + r) \div 5 = h /\ (5 * h + r) % 5 = r
<1>1. PICK x \in Nat : x = 5 * h + r
  OBVIOUS
<1>2. x \div 5 \in Nat /\ x % 5 \in 0 .. 4 /\ x = 5 * (x \div 5) + (x % 5)
  BY Fifths
<1>3. x \div 5 = h /\ x % 5 = r
  BY <1>1, <1>2
<1> QED BY <1>1, <1>3

(* A function on 1 .. count is a sequence of that length.                  *)
LEMMA LongSeq ==
  ASSUME NEW count \in Nat, NEW T, NEW q \in [1 .. count -> T]
  PROVE  q \in Seq(T) /\ Len(q) = count
OBVIOUS

(* Groups of five joined in a row: where each place of the row is from.    *)
(* By the least group whose sum would differ.                              *)
LEMMA GroupsInRow ==
  ASSUME NEW N \in Nat, NEW s, s \in [1 .. N -> [1 .. 5 -> Int]]
  PROVE  Seqs!FlattenSeq(s) = [k \in 1 .. 5 * N |-> s[1 + (k - 1) \div 5][1 + ((k - 1) % 5)]]
<1> DEFINE F(i) == [k \in 1 .. 5 * i |-> s[1 + (k - 1) \div 5][1 + ((k - 1) % 5)]]
           all == [i \in 1 .. N |-> F(i)]
           Is(f) == f = [i \in 1 .. N |-> IF i = 1 THEN s[i] ELSE f[i - 1] \o s[i]]
           g == CHOOSE f : Is(f)
<1>1. Len(s) = N /\ s \in Seq([1 .. 5 -> Int])
  OBVIOUS
<1>2. \A k \in Nat \ {0} : (k - 1) \div 5 \in Nat /\ (k - 1) % 5 \in 0 .. 4 /\ k - 1 = 5 * ((k - 1) \div 5) + ((k - 1) % 5)
  OBVIOUS
<1>3. ASSUME NEW i \in 0 .. N PROVE F(i) \in Seq(Int) /\ Len(F(i)) = 5 * i
  <2>1. \A k \in 1 .. 5 * i : 1 + (k - 1) \div 5 \in 1 .. N /\ 1 + ((k - 1) % 5) \in 1 .. 5
    BY <1>2
  <2>2. 5 * i \in Nat /\ F(i) \in [1 .. 5 * i -> Int]
    <3>1. ASSUME NEW k \in 1 .. 5 * i PROVE s[1 + (k - 1) \div 5][1 + ((k - 1) % 5)] \in Int
      <4>1. PICK p \in 1 .. N, r \in 1 .. 5 : p = 1 + (k - 1) \div 5 /\ r = 1 + ((k - 1) % 5)
        BY <2>1
      <4>2. s[p] \in [1 .. 5 -> Int]
        OBVIOUS
      <4>3. s[p][r] \in Int
        BY <4>2
      <4> QED BY <4>1, <4>3
    <3> QED BY <3>1
  <2> HIDE DEF F
  <2> QED BY <2>2, LongSeq
<1>4. ASSUME NEW i \in 1 .. N PROVE F(i) = IF i = 1 THEN s[i] ELSE F(i - 1) \o s[i]
  <2>1. PICK h \in 0 .. N : i = h + 1 /\ h = i - 1 /\ (i = 1 <=> h = 0)
    OBVIOUS
  <2> DEFINE a == F(h)
             b == s[i]
             c == F(i)
  <2>2. (\A k \in 1 .. 5 * h : c[k] = a[k]) /\ (\A k \in 1 .. 5 : c[5 * h + k] = b[k])
    <3>1. ASSUME NEW k \in 1 .. 5 PROVE c[5 * h + k] = b[k]
      <4>1. k - 1 \in 0 .. 4 /\ 5 * h + k - 1 = 5 * h + (k - 1) /\ 1 + (k - 1) = k /\ 1 + h = i /\ 5 * h + k \in 1 .. 5 * i
        BY <2>1
      <4>2. (5 * h + k - 1) \div 5 = h /\ (5 * h + k - 1) % 5 = k - 1
        <5>1. PICK r \in 0 .. 4 : r = k - 1
          BY <4>1
        <5>2. (5 * h + r) \div 5 = h /\ (5 * h + r) % 5 = r
          <6>1. h \in Nat
            OBVIOUS
          <6> QED BY <6>1, Divided
        <5>3. 5 * h + k - 1 = 5 * h + r
          BY <4>1, <5>1
        <5> QED BY <5>1, <5>2, <5>3
      <4>3. c[5 * h + k] = s[1 + (5 * h + k - 1) \div 5][1 + ((5 * h + k - 1) % 5)]
        BY <4>1
      <4> HIDE DEF c
      <4> QED BY <4>1, <4>2, <4>3
    <3>2. \A k \in 1 .. 5 * h : k \in 1 .. 5 * i
      BY <2>1
    <3>3. ASSUME NEW k \in 1 .. 5 * h PROVE c[k] = a[k]
      BY <3>2
    <3> HIDE DEF a, b, c
    <3> QED BY <3>1, <3>3
  <2>3. b \in Seq(Int) /\ Len(b) = 5
    <3>1. s[i] \in [1 .. 5 -> Int]
      OBVIOUS
    <3> QED BY <3>1, LongSeq
  <2>4. a \in Seq(Int) /\ c \in Seq(Int) /\ Len(a) = 5 * h /\ Len(c) = 5 * h + 5
    <3>1. i \in 0 .. N /\ h \in 0 .. N
      OBVIOUS
    <3>2. F(i) \in Seq(Int) /\ Len(F(i)) = 5 * i /\ F(h) \in Seq(Int) /\ Len(F(h)) = 5 * h
      BY <1>3, <3>1
    <3>3. 5 * i = 5 * h + 5
      BY <2>1
    <3> QED BY <3>2, <3>3
  <2>5. h = 0 => a = <<>>
    <3> HIDE DEF a
    <3> QED BY <2>4
  <2> HIDE DEF a, b, c
  <2>6. c = a \o b
    <3>1. Len(c) = Len(a) + Len(b) /\ (\A k \in 1 .. Len(a) : c[k] = a[k]) /\ (\A k \in 1 .. Len(b) : c[Len(a) + k] = b[k])
      BY <2>2, <2>3, <2>4
    <3> QED BY <2>3, <2>4, <3>1, Joined
  <2>7. h = 0 => c = b
    BY <2>3, <2>5, <2>6, ConcatEmptySeq
  <2>8. c = IF h = 0 THEN b ELSE a \o b
    BY <2>6, <2>7
  <2> HIDE DEF F
  <2>9. a = F(i - 1)
    BY <2>1 DEF a
  <2>10. c = IF i = 1 THEN b ELSE F(i - 1) \o b
    BY <2>1, <2>8, <2>9
  <2> QED BY <2>10 DEF b, c
<1>5. Is(all)
  <2> HIDE DEF F
  <2>1. \A i \in 1 .. N : i # 1 => all[i - 1] = F(i - 1)
    OBVIOUS
  <2> QED BY <1>4, <2>1
<1>6. Is(g)
  <2> HIDE DEF Is, all
  <2> QED BY <1>5
<1>7. CASE N = 0
  <2>1. Seqs!FlattenSeq(s) = s
    BY <1>1, <1>7 DEF Seqs!FlattenSeq
  <2> QED BY <1>7, <2>1
<1>8. CASE N # 0
  <2>1. Seqs!FlattenSeq(s) = g[N]
    BY <1>1, <1>8 DEF Seqs!FlattenSeq
  <2> DEFINE Bad == {i \in 1 .. N : g[i] # F(i)}
  <2>2. ASSUME Bad # {} PROVE FALSE
    <3>1. Bad \subseteq Nat
      OBVIOUS
    <3>2. PICK m \in Bad : \A j \in Bad : m <= j
      <4> HIDE DEF Bad
      <4> QED BY <2>2, <3>1, Least
    <3>3. m \in 1 .. N /\ g[m] # F(m)
      BY <3>2
    <3>4. g[m] = IF m = 1 THEN s[m] ELSE g[m - 1] \o s[m]
      <4> HIDE DEF g
      <4> QED BY <1>6, <3>3
    <3>5. CASE m = 1
      <4> HIDE DEF F, g
      <4> QED BY <1>4, <3>3, <3>4, <3>5
    <3>6. CASE m # 1
      <4>1. m - 1 \in 1 .. N /\ m - 1 \notin Bad
        <5>1. m - 1 \in 1 .. N
          BY <3>3, <3>6
        <5> HIDE DEF Bad
        <5> QED BY <3>2, <3>3, <5>1
      <4>2. g[m - 1] = F(m - 1)
        <5> HIDE DEF F, g
        <5> QED BY <4>1
      <4> HIDE DEF F, g
      <4> QED BY <1>4, <3>3, <3>4, <3>6, <4>2
    <3> QED BY <3>5, <3>6
  <2>3. g[N] = F(N)
    <3>1. N \in 1 .. N
      BY <1>8
    <3> HIDE DEF F, g
    <3> QED BY <2>2, <3>1
  <2> QED BY <2>1, <2>3
<1> QED BY <1>7, <1>8

(* A part of a sequence, place by place; and sequences that agree there.   *)
LEMMA Cut ==
  ASSUME NEW S, NEW s \in Seq(S), NEW o \in Nat, NEW L \in Nat, o + L <= Len(s)
  PROVE  /\ SubSeq(s, o + 1, o + L) \in Seq(S) /\ Len(SubSeq(s, o + 1, o + L)) = L
         /\ \A k \in 1 .. L : SubSeq(s, o + 1, o + L)[k] = s[o + k]
OBVIOUS

LEMMA SameSeq ==
  ASSUME NEW S, NEW a \in Seq(S), NEW b \in Seq(S), Len(a) = Len(b), \A k \in 1 .. Len(a) : a[k] = b[k]
  PROVE  a = b
OBVIOUS

(* What the image holds at a place, and past its end.                      *)
LEMMA HeldIs ==
  ASSUME img \in Seq(Octets), NEW k \in Nat \ {0}
  PROVE  Held(k) \in Int /\ (k <= Len(img) => Held(k) = img[k]) /\ (k > Len(img) => Held(k) = -1)
<1>1. CASE k <= Len(img)
  <2>1. k \in 1 .. Len(img)
    BY <1>1
  <2>2. img[k] \in Octets
    BY <2>1
  <2>3. Octets \subseteq Int
    BY DEF Octets
  <2>4. Len(img) \in Nat
    OBVIOUS
  <2>5. k \in Nat /\ ~(k > Len(img))
    BY <1>1, <2>4
  <2>6. Held(k) = img[k]
    BY <1>1 DEF Held
  <2>7. img[k] \in Int
    BY <2>2, <2>3
  <2> QED BY <2>5, <2>6, <2>7
<1>2. CASE ~(k <= Len(img))
  <2>1. Len(img) \in Nat
    OBVIOUS
  <2> QED BY <1>2, <2>1 DEF Held
<1> QED BY <1>1, <1>2

(* verify_rom.py reads a slice of a region that is a straight copy as the  *)
(* region has it, or shorter where the image ends first.                   *)
LEMMA StraightTells ==
  ASSUME NEW t \in DOMAIN LAYOUT, t # Packed, NEW o \in Nat, NEW d \in Seq(Octets), o + Len(d) <= LAYOUT[t].length,
         img \in Seq(Octets), NEW m, m.tag = t, m.off = o, m.length = Len(d)
  PROVE  slice_bytes(m) = d <=> SubSeq(RegionOf(t), o + 1, o + Len(d)) = d
<1> DEFINE base == LAYOUT[t].at
           L == Len(d)
           N == Len(img)
           hi == IF base + o + L < N THEN base + o + L ELSE N
           reg == [k \in 1 .. LAYOUT[t].length |-> Held(base + k)]
           cut == SubSeq(reg, o + 1, o + L)
           sl == SubSeq(img, base + o + 1, hi)
<1>1. base \in Nat /\ LAYOUT[t].length \in Nat /\ L \in Nat /\ N \in Nat
  BY LayoutAssumption
<1>2. slice_bytes(m) = sl
  BY DEF slice_bytes
<1>3. RegionOf(t) = reg
  BY DEF RegionOf
<1>4. \A k \in Nat \ {0} : Held(k) \in Int /\ (k <= N => Held(k) = img[k]) /\ (k > N => Held(k) = -1)
  BY HeldIs
<1>5. reg \in Seq(Int) /\ Len(reg) = LAYOUT[t].length
  <2>1. reg \in [1 .. LAYOUT[t].length -> Int]
    BY <1>1, <1>4
  <2> HIDE DEF reg
  <2> QED BY <1>1, <2>1, LongSeq
<1>6. cut \in Seq(Int) /\ Len(cut) = L /\ \A k \in 1 .. L : cut[k] = reg[o + k]
  <2>1. PICK r \in Seq(Int), len \in Nat : r = reg /\ len = L /\ o + len <= Len(r)
    <3> HIDE DEF reg
    <3> QED BY <1>1, <1>5
  <2>2. /\ SubSeq(r, o + 1, o + len) \in Seq(Int) /\ Len(SubSeq(r, o + 1, o + len)) = len
        /\ \A k \in 1 .. len : SubSeq(r, o + 1, o + len)[k] = r[o + k]
    <3> HIDE DEF reg, cut, L, N, base, hi, sl
    <3> QED BY <2>1, Cut
  <2>3. cut = SubSeq(r, o + 1, o + len)
    BY <2>1
  <2> HIDE DEF reg, cut, L
  <2> QED BY <2>1, <2>2, <2>3
<1>7. \A k \in 1 .. L : cut[k] = Held(base + o + k)
  <2>1. \A k \in 1 .. L : o + k \in 1 .. LAYOUT[t].length /\ base + (o + k) = base + o + k
    BY <1>1
  <2> HIDE DEF cut
  <2> QED BY <1>1, <1>6, <2>1
<1>8. CASE base + o + L <= N
  <2>1. sl \in Seq(Octets) /\ Len(sl) = L /\ \A k \in 1 .. L : sl[k] = img[base + o + k]
    <3>1. hi = (base + o) + L /\ base + o \in Nat
      <4> HIDE DEF base, L, N
      <4> QED BY <1>1, <1>8
    <3>2. (base + o) + L <= N /\ sl = SubSeq(img, (base + o) + 1, (base + o) + L)
      <4> HIDE DEF base, L, N, hi
      <4> QED BY <1>1, <1>8, <3>1
    <3> DEFINE place == base + o
    <3>3. place \in Nat /\ place + L <= N /\ sl = SubSeq(img, place + 1, place + L)
      BY <3>1, <3>2
    <3> HIDE DEF place, L, sl
    <3>4. Len(sl) = L /\ sl \in Seq(Octets) /\ \A k \in 1 .. L : sl[k] = img[place + k]
      BY <1>1, <3>3, Cut
    <3> QED BY <3>4 DEF place
  <2>2. \A k \in 1 .. L : cut[k] = sl[k]
    <3>1. \A k \in 1 .. L : base + o + k \in Nat \ {0} /\ base + o + k <= N
      BY <1>1, <1>8
    <3> HIDE DEF cut, sl, base
    <3> QED BY <1>4, <1>7, <2>1, <3>1
  <2>3. sl = cut
    <3>1. sl \in Seq(Int)
      <4>1. Octets \subseteq Int
        BY DEF Octets
      <4>2. \A k \in 1 .. L : sl[k] \in Int
        <5>1. \A k \in 1 .. L : sl[k] \in Octets
          <6> HIDE DEF sl, L
          <6> QED BY <2>1
        <5> HIDE DEF sl, L
        <5> QED BY <4>1, <5>1
      <4>3. sl = [k \in 1 .. L |-> sl[k]]
        <5> HIDE DEF sl
        <5> QED BY <2>1
      <4> HIDE DEF sl
      <4>4. sl \in [1 .. L -> Int]
        BY <4>2, <4>3
      <4> QED BY <1>1, <4>4, LongSeq
    <3> HIDE DEF cut, sl
    <3> QED BY <1>6, <2>1, <2>2, <3>1, SameSeq
  <2> QED BY <1>2, <1>3, <2>3
<1>9. CASE base + o + L > N /\ L = 0
  <2>1. Len(sl) = 0 /\ sl \in Seq(Octets)
    <3>1. hi = N
      <4> HIDE DEF base, L, N
      <4> QED BY <1>1, <1>9
    <3>2. sl = SubSeq(img, base + o + 1, N)
      BY <3>1
    <3> HIDE DEF base, L, sl
    <3> QED BY <1>1, <1>9, <3>2
  <2>2. d = <<>> /\ sl = <<>> /\ cut = <<>>
    <3> HIDE DEF sl, cut
    <3> QED BY <1>6, <1>9, <2>1
  <2> QED BY <1>2, <1>3, <2>2
<1>10. CASE base + o + L > N /\ L # 0
  <2>1. Len(sl) < L
    <3>1. hi = N
      <4> HIDE DEF base, L, N
      <4> QED BY <1>1, <1>10
    <3>2. sl = SubSeq(img, base + o + 1, N)
      BY <3>1
    <3> HIDE DEF base, L, sl
    <3> QED BY <1>1, <1>10, <3>2
  <2>2. cut[L] = -1 /\ d[L] \in Octets
    <3>1. L \in 1 .. L /\ d[L] \in Octets
      BY <1>1, <1>10
    <3> DEFINE place == base + o + L
    <3>2. cut[L] = Held(place)
      <4> HIDE DEF cut, L, base
      <4> QED BY <1>7, <3>1
    <3>3. place \in Nat \ {0} /\ place > N
      <4> HIDE DEF N, base, L
      <4> QED BY <1>1, <1>10
    <3> HIDE DEF place, cut, L, N, base
    <3> QED BY <1>4, <3>1, <3>2, <3>3
  <2>3. cut # d /\ sl # d
    <3>1. -1 \notin Octets
      BY DEF Octets
    <3>2. Len(sl) # L
      <4> HIDE DEF sl, L
      <4> QED BY <1>1, <2>1
    <3> HIDE DEF cut, sl
    <3> QED BY <2>2, <3>1, <3>2
  <2> QED BY <1>2, <1>3, <2>3
<1> QED BY <1>1, <1>8, <1>9, <1>10

(* verify_rom.py puts the groups of the packed region together as they were:*)
(* byte r of it is the r % 5 th of group r \div 5, or zero.                *)
LEMMA PackedTells ==
  ASSUME Packed \in DOMAIN LAYOUT, NEW o \in Nat, NEW d \in Seq(Octets), o + Len(d) <= LAYOUT[Packed].length,
         img \in Seq(Octets), NEW m, m.tag = Packed, m.off = o, m.length = Len(d), InImage(m)
  PROVE  slice_bytes(m) = d <=> SubSeq(RegionOf(Packed), o + 1, o + Len(d)) = d
<1> DEFINE base == LAYOUT[Packed].at
           total == LAYOUT[Packed].length
           G == total \div 5
           L == Len(d)
           rows == [g \in 1 .. G |-> Group(g, base)]
           reg == [k \in 1 .. total |-> rows[1 + (k - 1) \div 5][1 + ((k - 1) % 5)]]
           cut == SubSeq(reg, o + 1, o + L)
           Datum(r) == IF r % 5 = 4 THEN 0 ELSE img[Where(r, base) + 1]
           sl == [i \in 1 .. L |-> Datum(o + i - 1)]
<1>1. base \in Nat /\ total \in Nat /\ L \in Nat /\ G \in Nat /\ total = 5 * G
  <2>1. base \in Nat /\ total \in Nat /\ total % 5 = 0 /\ L \in Nat
    BY LayoutAssumption
  <2> HIDE DEF base, total
  <2> QED BY <2>1, Fifths
<1>2. slice_bytes(m) = sl
  BY DEF slice_bytes
<1>3. \A k \in Nat \ {0} : Held(k) \in Int /\ (k <= Len(img) => Held(k) = img[k])
  BY HeldIs
<1>4. rows \in [1 .. G -> [1 .. 5 -> Int]]
  <2>1. ASSUME NEW g \in 1 .. G PROVE Group(g, base) \in [1 .. 5 -> Int]
    <3>1. ASSUME NEW k \in 1 .. 5 PROVE base + 4 * g - 4 + k \in Nat \ {0}
      <4>1. base \in Nat /\ g \in Nat \ {0}
        BY <1>1
      <4> HIDE DEF base, G
      <4> QED BY <4>1
    <3> HIDE DEF base
    <3>2. \A k \in 1 .. 5 : Held(base + 4 * g - 4 + k) \in Int
      <4>1. ASSUME NEW k \in 1 .. 5 PROVE Held(base + 4 * g - 4 + k) \in Int
        <5> DEFINE place == base + 4 * g - 4 + k
        <5>1. place \in Nat \ {0}
          BY <3>1
        <5> HIDE DEF place
        <5>2. Held(place) \in Int
          BY <1>3, <5>1
        <5> QED BY <5>2 DEF place
      <4> QED BY <4>1
    <3> QED BY <3>2 DEF Group
  <2> HIDE DEF base, G
  <2> QED BY <2>1
<1>5. RegionOf(Packed) = reg
  <2>1. RegionOf(Packed) = Seqs!FlattenSeq(rows)
    BY DEF RegionOf
  <2> HIDE DEF rows, total, G
  <2> QED BY <1>1, <1>4, <2>1, GroupsInRow
<1>6. ASSUME NEW r \in 0 .. total - 1
      PROVE  /\ r \div 5 \in Nat /\ r % 5 \in 0 .. 4 /\ r = 5 * (r \div 5) + (r % 5) /\ 1 + r \div 5 \in 1 .. G
             /\ reg[r + 1] = Group(1 + r \div 5, base)[1 + (r % 5)]
             /\ reg[r + 1] \in Int
  <2>1. r \div 5 \in Nat /\ r % 5 \in 0 .. 4 /\ r = 5 * (r \div 5) + (r % 5)
    <3>1. r \in Nat
      BY <1>1
    <3> QED BY <3>1, Fifths
  <2>2. 1 + r \div 5 \in 1 .. G /\ 1 + (r % 5) \in 1 .. 5 /\ r + 1 \in 1 .. total /\ r + 1 - 1 = r
    BY <1>1, <2>1
  <2>3. reg[r + 1] = rows[1 + r \div 5][1 + (r % 5)]
    <3>1. PICK k \in 1 .. total : k = r + 1 /\ k - 1 = r
      BY <2>2
    <3>2. reg[k] = rows[1 + (k - 1) \div 5][1 + ((k - 1) % 5)]
      <4> HIDE DEF rows, total
      <4> QED OBVIOUS
    <3> HIDE DEF rows, total, reg
    <3> QED BY <3>1, <3>2
  <2>4. rows[1 + r \div 5] = Group(1 + r \div 5, base)
    <3> HIDE DEF base, G
    <3> QED BY <2>2
  <2>5. rows[1 + r \div 5] \in [1 .. 5 -> Int]
    <3> HIDE DEF rows, G
    <3> QED BY <1>4, <2>2
  <2>6. rows[1 + r \div 5][1 + (r % 5)] \in Int
    <3> HIDE DEF rows
    <3> QED BY <2>2, <2>5
  <2> HIDE DEF reg, rows
  <2> QED BY <2>1, <2>2, <2>3, <2>4, <2>6
<1>7. reg \in Seq(Int) /\ Len(reg) = total
  <2>1. reg \in [1 .. total -> Int]
    <3>1. ASSUME NEW k \in 1 .. total PROVE rows[1 + (k - 1) \div 5][1 + ((k - 1) % 5)] \in Int
      <4>1. PICK r \in 0 .. total - 1 : r = k - 1 /\ k = r + 1
        BY <1>1
      <4>2. reg[k] \in Int
        <5> HIDE DEF reg, total
        <5> QED BY <1>6, <4>1
      <4> HIDE DEF rows, total
      <4> QED BY <4>2
    <3> HIDE DEF rows, total
    <3> QED BY <3>1
  <2>2. total \in Nat
    BY <1>1
  <2> HIDE DEF reg, total
  <2> QED BY <2>1, <2>2, LongSeq
<1>8. cut \in Seq(Int) /\ Len(cut) = L /\ \A k \in 1 .. L : cut[k] = reg[o + k]
  <2>1. o + L <= total /\ L \in Nat
    BY <1>1
  <2> HIDE DEF reg, total, L
  <2> QED BY <1>7, <2>1, Cut
<1>9. ASSUME NEW k \in 1 .. L PROVE cut[k] = sl[k]
  <2>1. PICK r \in 0 .. total - 1 : r = o + k - 1 /\ r + 1 = o + k
    BY <1>1
  <2>2. cut[k] = Group(1 + r \div 5, base)[1 + (r % 5)]
    <3>1. cut[k] = reg[r + 1]
      <4> HIDE DEF cut, reg, total
      <4> QED BY <1>8, <2>1
    <3>2. reg[r + 1] = Group(1 + r \div 5, base)[1 + (r % 5)]
      <4> HIDE DEF reg, total, base
      <4> QED BY <1>6
    <3> HIDE DEF cut, reg, base
    <3> QED BY <3>1, <3>2
  <2>3. sl[k] = Datum(r)
    <3> HIDE DEF Datum
    <3> QED BY <2>1
  <2>4. CASE r % 5 = 4
    <3>1. Group(1 + r \div 5, base)[5] = 0
      BY DEF Group
    <3> HIDE DEF cut, sl, base
    <3> QED BY <2>2, <2>3, <2>4, <3>1
  <2>5. CASE r % 5 # 4
    <3>1. PICK g \in 1 .. G, j \in 1 .. 4 : g = 1 + r \div 5 /\ j = 1 + (r % 5)
      <4>1. 1 + r \div 5 \in 1 .. G /\ 1 + (r % 5) \in 1 .. 4
        <5>1. r % 5 \in 0 .. 4 /\ 1 + r \div 5 \in 1 .. G
          BY <1>6
        <5> HIDE DEF G, total
        <5> QED BY <2>5, <5>1
      <4> QED BY <4>1
    <3>2. Group(g, base)[j] = Held(base + 4 * g - 4 + j)
      <4> HIDE DEF base
      <4> QED BY DEF Group
    <3>3. base + 4 * g - 4 + j = Where(r, base) + 1
      <4>1. r \div 5 = g - 1 /\ r % 5 = j - 1
        BY <1>6, <3>1
      <4> HIDE DEF base, G
      <4> QED BY <1>1, <4>1 DEF Where
    <3>4. Where(r, base) < Len(img)
      <4>1. r \in Spread(m)
        <5>1. k - 1 \in 0 .. m.length - 1 /\ m.off + (k - 1) = r
          BY <1>1, <2>1
        <5> QED BY <2>5, <5>1 DEF Spread
      <4> QED BY <4>1 DEF InImage
    <3>5. Held(Where(r, base) + 1) = img[Where(r, base) + 1]
      <4>1. Where(r, base) + 1 \in Nat \ {0}
        <5> HIDE DEF base, G
        <5> QED BY <1>1, <3>1, <3>3
      <4> DEFINE p == Where(r, base) + 1
      <4>2. p \in Nat \ {0} /\ p <= Len(img)
        <5> DEFINE z == Where(r, base)
        <5>1. z < Len(img) /\ z + 1 \in Nat \ {0} /\ Len(img) \in Nat
          BY <3>4, <4>1
        <5>2. z \in Int
          <6> HIDE DEF base, G, total
          <6> QED BY <1>1, <1>6 DEF Where
        <5> HIDE DEF z
        <5>3. z + 1 <= Len(img)
          BY <5>1, <5>2
        <5> QED BY <4>1, <5>3 DEF z
      <4> HIDE DEF p
      <4>3. Held(p) = img[p]
        BY <1>3, <4>2
      <4> QED BY <4>3 DEF p
    <3> HIDE DEF cut, sl, base
    <3> QED BY <2>2, <2>3, <2>5, <3>1, <3>2, <3>3, <3>5
  <2> QED BY <2>4, <2>5
<1>10. sl = cut
  <2>1. cut \in [1 .. L -> Int]
    <3> HIDE DEF cut
    <3> QED BY <1>8
  <2>2. sl = [k \in 1 .. L |-> cut[k]]
    <3> HIDE DEF cut, Datum
    <3> QED BY <1>9
  <2> HIDE DEF sl, cut
  <2> QED BY <2>1, <2>2
<1> QED BY <1>2, <1>5, <1>10

(* The headings before a line, and the manifest as an entry for each of them:*)
(* some numbering of the headings gives the entries in the manifest's order.*)
Headings == {j \in DOMAIN dump : dump[j].kind = "slice"}
Headed(l) == {j \in Headings : j < l}
Entry(j) == [tag |-> dump[j].tag, off |-> dump[j].off, length |-> Len(dump[j + 1].data), want |-> dump[j + 1].data]
Numbers(f, l) ==
  /\ f \in [1 .. Len(manifest) -> Headed(l)]
  /\ \A i, k \in 1 .. Len(manifest) : f[i] = f[k] => i = k
  /\ \A j \in Headed(l) : \E i \in 1 .. Len(manifest) : f[i] = j
  /\ \A i \in 1 .. Len(manifest) : manifest[i] = Entry(f[i])
Numbered(l) ==
  /\ \A j \in Headed(l) : j < Len(dump) /\ dump[j + 1].kind = "bytes"
  /\ \E f : Numbers(f, l)
(* Compared follows the entries that have been counted; Right is the code's*)
(* comparison.  Of each entry that passed, the slice was in the image.     *)
Right(m) == slice_bytes(m) = m.want
RomEntries == {Entry(j) : j \in Headings}
Verifying == {"verify", "differs", "matches"}
Compared ==
  /\ Numbered(Len(dump) + 1)
  /\ line <= Len(manifest) + 1 /\ checked = line - 1
  /\ bad = 0 <=> \A i \in 1 .. line - 1 : Right(manifest[i])
  /\ \A i \in 1 .. line - 1 : InImage(manifest[i])
RomInv ==
  /\ dump \in Dumps /\ img \in Images /\ job \in {"reduce", "error"} \cup Verifying
  /\ manifest \in Seq(RomEntries) /\ line \in Nat \ {0} /\ checked \in Nat /\ bad \in Nat
  /\ job = "reduce" => Numbered(line) /\ checked = 0 /\ bad = 0
  /\ job \in Verifying => Compared
  /\ job \in {"differs", "matches"} => line = Len(manifest) + 1 /\ (job = "matches" <=> bad = 0)

(* What a line, and a dump, is.                                            *)
LEMMA LineIs ==
  ASSUME NEW x \in Lines
  PROVE  /\ x.kind = "slice" => x.off \in Nat
         /\ x.kind = "bytes" => x.data \in Seq(Octets)
BY DEF Lines

LEMMA DumpIs ==
  ASSUME dump \in Dumps
  PROVE  /\ dump \in Seq(Lines) /\ DOMAIN dump = 1 .. Len(dump) /\ Len(dump) \in Nat
         /\ \A j \in 1 .. Len(dump) : dump[j] \in Lines
<1>1. dump \in Seq(Lines)
  BY DumpAssumption
<1>2. dump \in Seq(Lines) => DOMAIN dump = 1 .. Len(dump) /\ Len(dump) \in Nat /\ \A j \in 1 .. Len(dump) : dump[j] \in Lines
  OBVIOUS
<1> QED BY <1>1, <1>2

(* A run starts with nothing in the manifest.                              *)
LEMMA RomInvInit == RomInit => RomInv
<1> SUFFICES ASSUME RomInit PROVE RomInv
  OBVIOUS
<1>1. dump \in Dumps /\ img \in Images /\ job = "reduce" /\ line = 1 /\ manifest = <<>> /\ checked = 0 /\ bad = 0
  BY DEF RomInit
<1>2. DOMAIN dump = 1 .. Len(dump)
  BY <1>1, DumpIs
<1>3. Headed(1) = {}
  BY <1>2 DEF Headed, Headings
<1>4. Len(manifest) = 0 /\ manifest \in Seq(RomEntries)
  BY <1>1
<1>5. \E f : Numbers(f, 1)
  <2>1. [i \in {} |-> 0] \in [1 .. 0 -> {}]
    OBVIOUS
  <2>2. Numbers([i \in {} |-> 0], 1)
    BY <1>3, <1>4, <2>1 DEF Numbers
  <2> QED BY <2>2
<1>6. Numbered(1)
  BY <1>3, <1>5 DEF Numbered
<1> QED BY <1>1, <1>4, <1>6 DEF RomInv, Verifying

(* What is said of the dump, the image and the manifest stays while they do.*)
LEMMA DumpKept ==
  ASSUME UNCHANGED <<dump, img>>
  PROVE  /\ Headings' = Headings /\ RomEntries' = RomEntries
         /\ \A l : Headed(l)' = Headed(l)
         /\ \A j : Entry(j)' = Entry(j)
         /\ \A m : InImage(m)' = InImage(m) /\ (Right(m)' <=> Right(m))
<1>1. dump' = dump /\ img' = img
  OBVIOUS
<1>2. Headings' = Headings /\ \A j : Entry(j)' = Entry(j)
  BY <1>1 DEF Headings, Entry
<1>3. RomEntries' = RomEntries /\ \A l : Headed(l)' = Headed(l)
  BY <1>2 DEF RomEntries, Headed
<1>4. \A m : slice_bytes(m)' = slice_bytes(m)
  BY <1>1 DEF slice_bytes, Where
<1>5. \A m : InImage(m)' = InImage(m)
  BY <1>1 DEF InImage, Spread, Where
<1> QED BY <1>2, <1>3, <1>4, <1>5 DEF Right

LEMMA EntryKept ==
  ASSUME UNCHANGED <<img, manifest>>, NEW i
  PROVE  (InImage(manifest[i])' <=> InImage(manifest[i])) /\ (Right(manifest[i])' <=> Right(manifest[i]))
<1>1. InImage(manifest[i])' <=> InImage(manifest[i])
  BY DEF InImage, Spread, Where
<1>2. slice_bytes(manifest[i])' = slice_bytes(manifest[i])
  BY DEF slice_bytes, Where
<1> QED BY <1>1, <1>2 DEF Right

LEMMA NumberedKept ==
  ASSUME UNCHANGED <<dump, manifest>>
  PROVE  Numbered(Len(dump) + 1)' <=> Numbered(Len(dump) + 1)
<1>1. Headed(Len(dump) + 1)' = Headed(Len(dump) + 1) /\ \A j : Entry(j)' = Entry(j)
  BY DEF Headed, Headings, Entry
<1> QED BY <1>1 DEF Numbered, Numbers

LEMMA ComparedKept ==
  ASSUME UNCHANGED <<dump, img, line, manifest, checked, bad>>
  PROVE  Compared' <=> Compared
<1>1. Numbered(Len(dump) + 1)' <=> Numbered(Len(dump) + 1)
  BY NumberedKept
<1>2. /\ (\A i \in 1 .. line - 1 : Right(manifest[i]))' <=> \A i \in 1 .. line - 1 : Right(manifest[i])
      /\ (\A i \in 1 .. line - 1 : InImage(manifest[i]))' <=> \A i \in 1 .. line - 1 : InImage(manifest[i])
  BY EntryKept
<1> QED BY <1>1, <1>2 DEF Compared

(* A heading adds its entry, and skips the line of its bytes.              *)
LEMMA SliceInv == RomInv /\ Slice => RomInv'
<1> SUFFICES ASSUME RomInv, Slice PROVE RomInv'
  OBVIOUS
<1> DEFINE count == Len(manifest)
<1>1. /\ job = "reduce" /\ line \in 1 .. Len(dump) /\ line < Len(dump) /\ dump[line].kind = "slice" /\ dump[line + 1].kind = "bytes"
      /\ manifest' = Append(manifest, Entry(line)) /\ line' = line + 2
      /\ dump' = dump /\ img' = img /\ job' = job /\ checked' = checked /\ bad' = bad
  BY DumpIs DEF RomInv, Slice, Reading, HasBytes, Entry
<1>2. DOMAIN dump = 1 .. Len(dump) /\ Len(dump) \in Nat
  BY DumpIs DEF RomInv
<1>3. line \in Headings /\ line + 1 \notin Headings
  BY <1>1, <1>2 DEF Headings
<1>4. Headed(line + 2) = Headed(line) \cup {line} /\ line \notin Headed(line)
  <2>1. Headings \subseteq Nat
    BY <1>2 DEF Headings
  <2>2. ASSUME NEW j \in Headings PROVE j < line + 2 <=> (j < line \/ j = line)
    <3>1. j \in Nat /\ line \in Nat /\ j # line + 1
      BY <1>1, <1>2, <1>3, <2>1
    <3> QED BY <3>1
  <2>3. ~(line < line)
    BY <1>1, <1>2
  <2> QED BY <1>3, <2>2, <2>3 DEF Headed
<1>5. /\ manifest \in Seq(RomEntries) /\ count \in Nat /\ Entry(line) \in RomEntries
  BY <1>3 DEF RomInv, RomEntries
<1>6. manifest' \in Seq(RomEntries) /\ Len(manifest') = count + 1 /\ manifest'[count + 1] = Entry(line) /\ \A i \in 1 .. count : manifest'[i] = manifest[i]
  BY <1>1, <1>5
<1>7. PICK f : Numbers(f, line)
  BY <1>1 DEF RomInv, Numbered
<1> DEFINE g == [i \in 1 .. count + 1 |-> IF i = count + 1 THEN line ELSE f[i]]
<1>8. /\ f \in [1 .. count -> Headed(line)]
      /\ \A i, k \in 1 .. count : f[i] = f[k] => i = k
      /\ \A j \in Headed(line) : \E i \in 1 .. count : f[i] = j
      /\ \A i \in 1 .. count : manifest[i] = Entry(f[i])
  BY <1>7 DEF Numbers
<1> HIDE DEF count
<1>9. g[count + 1] = line /\ \A i \in 1 .. count : g[i] = f[i]
  BY <1>5
<1>10. 1 .. count + 1 = (1 .. count) \cup {count + 1}
  BY <1>5
<1> HIDE DEF g
<1>11. g \in [1 .. count + 1 -> Headed(line + 2)]
  <2>1. \A i \in 1 .. count + 1 : g[i] \in Headed(line + 2)
    BY <1>4, <1>8, <1>9, <1>10
  <2> QED BY <2>1 DEF g
<1>12. \A i, k \in 1 .. count + 1 : g[i] = g[k] => i = k
  <2>1. \A i \in 1 .. count : g[i] # line
    BY <1>4, <1>8, <1>9
  <2> QED BY <1>8, <1>9, <1>10, <2>1
<1>13. \A j \in Headed(line + 2) : \E i \in 1 .. count + 1 : g[i] = j
  BY <1>4, <1>8, <1>9, <1>10
<1>14. \A i \in 1 .. count + 1 : manifest'[i] = Entry(g[i])
  BY <1>6, <1>8, <1>9, <1>10
<1>15. Headed(line)' = Headed(line + 2) /\ RomEntries' = RomEntries /\ \A j : Entry(j)' = Entry(j)
  <2>1. Headed(line)' = Headed(line + 2)
    BY <1>1 DEF Headed, Headings
  <2> QED BY <1>1, <2>1, DumpKept
<1>16. \E h : Numbers(h, line)'
  <2>1. Len(manifest)' = count + 1
    BY <1>6
  <2>2. PICK h : h = g
    OBVIOUS
  <2>3. Numbers(h, line)'
    <3>1. /\ h \in [1 .. count + 1 -> Headed(line + 2)]
          /\ \A i, k \in 1 .. count + 1 : h[i] = h[k] => i = k
          /\ \A j \in Headed(line + 2) : \E i \in 1 .. count + 1 : h[i] = j
          /\ \A i \in 1 .. count + 1 : manifest'[i] = Entry(h[i])
      BY <1>11, <1>12, <1>13, <1>14, <2>2
    <3> QED BY <1>15, <2>1, <3>1 DEF Numbers
  <2> QED BY <2>3
<1>17. \A j \in Headed(line + 2) : j < Len(dump) /\ dump[j + 1].kind = "bytes"
  BY <1>1, <1>4 DEF RomInv, Numbered
<1>18. Numbered(line)'
  BY <1>1, <1>15, <1>16, <1>17 DEF Numbered
<1>19. line' \in Nat \ {0}
  BY <1>1, <1>2
<1> QED BY <1>1, <1>6, <1>15, <1>18, <1>19 DEF RomInv, Verifying

(* A line that is no heading adds nothing.                                 *)
LEMMA OtherInv == RomInv /\ Other => RomInv'
<1> SUFFICES ASSUME RomInv, Other PROVE RomInv'
  OBVIOUS
<1>1. /\ job = "reduce" /\ line \in 1 .. Len(dump) /\ dump[line].kind # "slice" /\ line' = line + 1
      /\ dump' = dump /\ img' = img /\ job' = job /\ manifest' = manifest /\ checked' = checked /\ bad' = bad
  BY DumpIs DEF RomInv, Other, Reading
<1>2. DOMAIN dump = 1 .. Len(dump) /\ Len(dump) \in Nat
  BY DumpIs DEF RomInv
<1>3. Headed(line + 1) = Headed(line)
  <2>1. Headings \subseteq Nat /\ line \notin Headings
    BY <1>1, <1>2 DEF Headings
  <2>2. ASSUME NEW j \in Headings PROVE j < line + 1 <=> j < line
    <3>1. j \in Nat /\ line \in Nat /\ j # line
      BY <1>1, <1>2, <2>1
    <3> QED BY <3>1
  <2> QED BY <2>2 DEF Headed
<1>4. Headed(line)' = Headed(line) /\ RomEntries' = RomEntries /\ \A j : Entry(j)' = Entry(j)
  <2>1. Headed(line)' = Headed(line + 1)
    BY <1>1 DEF Headed, Headings
  <2> QED BY <1>1, <1>3, <2>1, DumpKept
<1>5. Numbered(line)
  BY <1>1 DEF RomInv
<1>6. Numbered(line)'
  BY <1>1, <1>4, <1>5 DEF Numbered, Numbers
<1>7. line' \in Nat \ {0}
  BY <1>1, <1>2
<1> QED BY <1>1, <1>4, <1>6, <1>7 DEF RomInv, Verifying

(* A run that ends in an error leaves the rest.                            *)
LEMMA StopsInv == RomInv /\ Stops("error") => RomInv'
<1> SUFFICES ASSUME RomInv, Stops("error") PROVE RomInv'
  OBVIOUS
<1>1. job' = "error" /\ UNCHANGED <<dump, img, line, manifest, checked, bad>>
  BY DEF Stops
<1>2. RomEntries' = RomEntries
  BY <1>1, DumpKept
<1> QED BY <1>1, <1>2 DEF RomInv, Verifying

(* The manifest is verified from its first entry, when it has all headings.*)
LEMMA ManifestInv == RomInv /\ Manifest => RomInv'
<1> SUFFICES ASSUME RomInv, Manifest PROVE RomInv'
  OBVIOUS
<1>1. CASE manifest = <<>> /\ Stops("error")
  BY <1>1, StopsInv
<1>2. CASE manifest # <<>> /\ job' = "verify" /\ line' = 1 /\ UNCHANGED <<dump, img, manifest, checked, bad>>
  <2>1. job = "reduce" /\ line > Len(dump) /\ Numbered(line) /\ checked = 0 /\ bad = 0 /\ line \in Nat
    BY DEF RomInv, Manifest
  <2>2. DOMAIN dump = 1 .. Len(dump) /\ Len(dump) \in Nat
    BY DumpIs DEF RomInv
  <2>3. Headed(line) = Headed(Len(dump) + 1)
    <3>1. Headings \subseteq 1 .. Len(dump)
      BY <2>2 DEF Headings
    <3>2. ASSUME NEW j \in Headings PROVE j < line /\ j < Len(dump) + 1
      BY <2>1, <2>2, <3>1
    <3> QED BY <3>2 DEF Headed
  <2>4. Numbered(Len(dump) + 1)
    BY <2>1, <2>3 DEF Numbered, Numbers
  <2>5. dump' = dump /\ Headed(Len(dump) + 1)' = Headed(Len(dump) + 1) /\ RomEntries' = RomEntries /\ \A j : Entry(j)' = Entry(j)
    <3>1. Headed(Len(dump) + 1)' = Headed(Len(dump) + 1)
      BY <1>2 DEF Headed, Headings
    <3> QED BY <1>2, <3>1, DumpKept
  <2>6. Numbered(Len(dump) + 1)'
    BY <1>2, <2>4, <2>5 DEF Numbered, Numbers
  <2>7. Len(manifest)' \in Nat /\ line' <= Len(manifest)' + 1 /\ checked' = line' - 1 /\ bad' = 0
    BY <1>2, <2>1 DEF RomInv
  <2>8. 1 .. line' - 1 = {}
    BY <1>2
  <2>9. Compared'
    BY <2>6, <2>7, <2>8 DEF Compared
  <2> QED BY <1>2, <2>1, <2>5, <2>9 DEF RomInv, Verifying
<1> QED BY <1>1, <1>2 DEF Manifest

(* An entry is counted, and counted as bad unless it is the image's.       *)
LEMMA CompareInv == RomInv /\ Compare => RomInv'
<1> SUFFICES ASSUME RomInv, Compare PROVE RomInv'
  OBVIOUS
<1> DEFINE m == manifest[line]
<1>1. CASE ~InImage(m) /\ Stops("error")
  BY <1>1, StopsInv
<1>2. CASE /\ InImage(m) /\ checked' = checked + 1
           /\ bad' = IF slice_bytes(m) = m.want THEN bad ELSE bad + 1
           /\ line' = line + 1 /\ UNCHANGED <<dump, img, job, manifest>>
  <2>1. job = "verify" /\ line <= Len(manifest) /\ line \in Nat \ {0} /\ Len(manifest) \in Nat /\ checked \in Nat /\ bad \in Nat
    BY DEF RomInv, Compare
  <2>2. Compared
    BY <2>1 DEF RomInv, Verifying
  <2>3. /\ dump' = dump /\ manifest' = manifest /\ Headed(Len(dump) + 1)' = Headed(Len(dump) + 1) /\ RomEntries' = RomEntries
        /\ \A j : Entry(j)' = Entry(j)
    <3>1. Headed(Len(dump) + 1)' = Headed(Len(dump) + 1)
      BY <1>2 DEF Headed, Headings
    <3> QED BY <1>2, <3>1, DumpKept
  <2>4. Numbered(Len(dump) + 1)'
    BY <2>2, <2>3 DEF Compared, Numbered, Numbers
  <2>5. 1 .. line' - 1 = (1 .. line - 1) \cup {line}
    BY <1>2, <2>1
  <2>6. line' <= Len(manifest)' + 1 /\ checked' = line' - 1 /\ bad' \in Nat /\ line' \in Nat \ {0} /\ checked' \in Nat
    BY <1>2, <2>1, <2>2 DEF Compared
  <2>7. bad' = 0 <=> bad = 0 /\ Right(m)
    BY <1>2, <2>1 DEF Right
  <2>8. bad' = 0 <=> \A i \in 1 .. line' - 1 : Right(manifest[i])
    <3> HIDE DEF m
    <3>1. bad' = 0 <=> (\A i \in 1 .. line - 1 : Right(manifest[i])) /\ Right(m)
      BY <2>2, <2>7 DEF Compared
    <3> USE DEF m
    <3> QED BY <2>5, <3>1
  <2>9. \A i \in 1 .. line' - 1 : InImage(manifest[i])
    BY <1>2, <2>2, <2>5 DEF Compared
  <2>10. /\ (\A i \in 1 .. line - 1 : Right(manifest[i]))' <=> \A i \in 1 .. line' - 1 : Right(manifest[i])
         /\ (\A i \in 1 .. line - 1 : InImage(manifest[i]))' <=> \A i \in 1 .. line' - 1 : InImage(manifest[i])
    BY <1>2, EntryKept
  <2>11. Compared'
    BY <2>4, <2>6, <2>8, <2>9, <2>10 DEF Compared
  <2> QED BY <1>2, <2>1, <2>3, <2>6, <2>11 DEF RomInv, Verifying
<1> QED BY <1>1, <1>2 DEF Compare

(* The verdict is on all of them.                                          *)
LEMMA JudgeInv == RomInv /\ Judge => RomInv'
<1> SUFFICES ASSUME RomInv, Judge PROVE RomInv'
  OBVIOUS
<1>1. /\ job = "verify" /\ line > Len(manifest) /\ job' = (IF bad > 0 THEN "differs" ELSE "matches")
      /\ dump' = dump /\ img' = img /\ line' = line /\ manifest' = manifest /\ checked' = checked /\ bad' = bad
  BY DEF Judge, Stops
<1>2. Compared /\ line \in Nat /\ Len(manifest) \in Nat /\ bad \in Nat
  BY <1>1 DEF RomInv, Verifying
<1>3. line = Len(manifest) + 1
  BY <1>1, <1>2 DEF Compared
<1>4. RomEntries' = RomEntries
  BY <1>1, DumpKept
<1>7. Compared'
  BY <1>1, <1>2, ComparedKept
<1>8. job' = "matches" <=> bad' = 0
  BY <1>1, <1>2
<1>9. job' \in Verifying /\ job' # "reduce"
  BY <1>1 DEF Verifying
<1> QED BY <1>1, <1>3, <1>4, <1>7, <1>8, <1>9 DEF RomInv

(* The manifest, the counts and the verdict, in every state of a run.      *)
THEOREM RomInvHolds == RomSpec => []RomInv
<1>1. RomInv /\ UNCHANGED romVars => RomInv'
  <2> SUFFICES ASSUME RomInv, UNCHANGED romVars PROVE RomInv'
    OBVIOUS
  <2>1. UNCHANGED <<dump, img, job, line, manifest, checked, bad>>
    BY DEF romVars
  <2>2. RomEntries' = RomEntries /\ (Compared' <=> Compared)
    BY <2>1, DumpKept, ComparedKept
  <2>3. Numbered(line)' <=> Numbered(line)
    <3>1. Headed(line)' = Headed(line) /\ \A j : Entry(j)' = Entry(j)
      BY <2>1 DEF Headed, Headings, Entry
    <3> QED BY <2>1, <3>1 DEF Numbered, Numbers
  <2> QED BY <2>1, <2>2, <2>3 DEF RomInv, Verifying
<1>2. RomInv /\ RomNext => RomInv'
  <2> SUFFICES ASSUME RomInv, RomNext PROVE RomInv'
    OBVIOUS
  <2>1. CASE Slice
    BY <2>1, SliceInv
  <2>2. CASE Other
    BY <2>2, OtherInv
  <2>3. CASE Headless
    BY <2>3, StopsInv DEF Headless
  <2>4. CASE Manifest
    BY <2>4, ManifestInv
  <2>5. CASE Compare
    BY <2>5, CompareInv
  <2>6. CASE Judge
    BY <2>6, JudgeInv
  <2>7. CASE UNCHANGED romVars
    BY <1>1, <2>7
  <2> QED BY <2>1, <2>2, <2>3, <2>4, <2>5, <2>6, <2>7 DEF RomNext
<1> QED BY <1>1, <1>2, RomInvInit, PTL DEF RomSpec

(* An entry is the image's just when its slice of the dump is in the region.*)
LEMMA EntryTells ==
  ASSUME RomInv, NEW j \in Headings, j < Len(dump), dump[j + 1].kind = "bytes", InImage(Entry(j))
  PROVE  Right(Entry(j)) <=> Matches(j)
<1> DEFINE t == dump[j].tag
           o == dump[j].off
           d == dump[j + 1].data
           m == Entry(j)
<1>1. dump \in Dumps /\ img \in Seq(Octets)
  BY ImageAssumption DEF RomInv
<1>2. j \in 1 .. Len(dump) - 1 /\ j + 1 \in 1 .. Len(dump) /\ dump[j].kind = "slice" /\ dump[j] \in Lines /\ dump[j + 1] \in Lines
  <2>1. j \in 1 .. Len(dump) /\ dump[j].kind = "slice" /\ Len(dump) \in Nat
    BY <1>1, DumpIs DEF Headings
  <2>2. j \in 1 .. Len(dump) - 1 /\ j + 1 \in 1 .. Len(dump)
    BY <2>1
  <2> QED BY <1>1, <2>1, <2>2, DumpIs
<1>3. o \in Nat /\ d \in Seq(Octets)
  BY <1>2, LineIs
<1>4. m.tag = t /\ m.off = o /\ m.length = Len(d) /\ m.want = d
  BY DEF Entry
<1>5. t \in DOMAIN LAYOUT
  BY <1>4 DEF InImage
<1>6. o + Len(d) <= LAYOUT[t].length
  BY <1>1, <1>2, <1>5, DumpAssumption
<1>7. slice_bytes(m) = d <=> SubSeq(RegionOf(t), o + 1, o + Len(d)) = d
  <2>1. CASE t = Packed
    <3> HIDE DEF m, d, o, t
    <3>1. m.tag = Packed /\ Packed \in DOMAIN LAYOUT /\ o + Len(d) <= LAYOUT[Packed].length /\ InImage(m)
      <4>1. InImage(m)
        BY DEF m
      <4> QED BY <1>4, <1>5, <1>6, <2>1, <4>1
    <3>2. slice_bytes(m) = d <=> SubSeq(RegionOf(Packed), o + 1, o + Len(d)) = d
      BY <1>1, <1>3, <1>4, <3>1, PackedTells, SMTT(10)
    <3> QED BY <2>1, <3>2
  <2>2. CASE t # Packed
    <3> HIDE DEF m, d, o, t
    <3> QED BY <1>1, <1>3, <1>4, <1>5, <1>6, <2>2, StraightTells
  <2> QED BY <2>1, <2>2
<1> QED BY <1>4, <1>7 DEF Right, Matches

(* verify_rom.py says that all slices match exactly when the regions of the*)
(* image have each slice of the dump where it begins, and counts them all  *)
(* (make_region_manifest.py 20-37, verify_rom.py 41-75).                   *)
THEOREM VerdictExactCorrect == RomSpec => []VerdictExact
<1>1. RomInv => VerdictExact
  <2> SUFFICES ASSUME RomInv, job \in {"differs", "matches"}
               PROVE  /\ job = "matches" <=> \A i \in Headings : Matches(i)
                      /\ checked = Cardinality(Headings)
    BY DEF VerdictExact, Headings
  <2>1. Compared /\ line = Len(manifest) + 1 /\ (job = "matches" <=> bad = 0) /\ Len(manifest) \in Nat
    BY DEF RomInv, Verifying
  <2>2. Headed(Len(dump) + 1) = Headings
    <3>1. DOMAIN dump = 1 .. Len(dump) /\ Len(dump) \in Nat
      BY DumpIs DEF RomInv
    <3> QED BY <3>1 DEF Headed, Headings
  <2>3. PICK f : Numbers(f, Len(dump) + 1)
    BY <2>1 DEF Compared, Numbered
  <2> DEFINE N == Len(manifest)
  <2>4. /\ f \in [1 .. N -> Headings]
        /\ \A i, k \in 1 .. N : f[i] = f[k] => i = k
        /\ \A j \in Headings : \E i \in 1 .. N : f[i] = j
        /\ \A i \in 1 .. N : manifest[i] = Entry(f[i])
    BY <2>2, <2>3 DEF Numbers
  <2>5. line - 1 = N
    BY <2>1
  <2>6. checked = N /\ (bad = 0 <=> \A i \in 1 .. N : Right(manifest[i])) /\ \A i \in 1 .. N : InImage(manifest[i])
    BY <2>1, <2>5 DEF Compared
  <2>7. \A j \in Headings : j < Len(dump) /\ dump[j + 1].kind = "bytes"
    BY <2>1, <2>2 DEF Compared, Numbered
  <2> HIDE DEF N
  <2>8. \A j \in Headings : Right(Entry(j)) <=> Matches(j)
    BY <2>4, <2>6, <2>7, EntryTells
  <2>9. (\A i \in 1 .. N : Right(manifest[i])) <=> \A j \in Headings : Matches(j)
    BY <2>4, <2>8
  <2>10. Cardinality(Headings) = N
    <3>1. f \in Bijection(1 .. N, Headings)
      BY <2>4 DEF Bijection, Injection, Surjection, IsInjective
    <3>2. ExistsBijection(1 .. N, Headings)
      BY <3>1 DEF ExistsBijection
    <3>3. N \in Nat
      BY <2>1 DEF N
    <3> QED BY <3>2, <3>3, FS_CountingElements
  <2> QED BY <2>1, <2>6, <2>9, <2>10
<1> QED BY <1>1, RomInvHolds, PTL

-----------------------------------------------------------------------------
(* Sequences joined: any function that joins them one by one ends with it. *)
Joining(f, num, T, s) ==
  f \in [0 .. num -> Seq(T)] /\ f[0] = <<>> /\ \A i \in 1 .. num : f[i] = f[i - 1] \o s[i]

LEMMA JoiningIs ==
  ASSUME NEW num \in Nat, NEW T, NEW s \in [1 .. num -> Seq(T)], NEW f, Joining(f, num, T, s)
  PROVE  Joins!FlattenSeq(s) = f[num]
<1> DEFINE Is(d) == d = [i \in 1 .. num |-> IF i = 1 THEN s[i] ELSE d[i - 1] \o s[i]]
           g == CHOOSE d : Is(d)
           part == [i \in 1 .. num |-> f[i]]
<1>1. Len(s) = num /\ s \in Seq(Seq(T))
  OBVIOUS
<1>2. ASSUME NEW i \in 1 .. num PROVE f[i] = IF i = 1 THEN s[i] ELSE f[i - 1] \o s[i]
  <2>1. s[i] \in Seq(T)
    OBVIOUS
  <2>2. f[i] = f[i - 1] \o s[i] /\ f[0] = <<>>
    BY DEF Joining
  <2>3. i = 1 => f[i] = <<>> \o s[i]
    BY <2>2
  <2>4. <<>> \o s[i] = s[i]
    BY <2>1, ConcatEmptySeq
  <2> QED BY <2>2, <2>3, <2>4
<1>3. Is(part)
  <2>1. \A i \in 1 .. num : i # 1 => part[i - 1] = f[i - 1]
    OBVIOUS
  <2> QED BY <1>2, <2>1
<1>4. Is(g)
  <2> HIDE DEF Is, part
  <2> QED BY <1>3
<1>5. CASE num = 0
  <2>1. Joins!FlattenSeq(s) = s
    BY <1>1, <1>5 DEF Joins!FlattenSeq
  <2> QED BY <1>1, <1>5, <2>1 DEF Joining
<1>6. CASE num # 0
  <2>1. Joins!FlattenSeq(s) = g[num]
    BY <1>1, <1>6 DEF Joins!FlattenSeq
  <2> DEFINE Bad == {i \in 1 .. num : g[i] # f[i]}
  <2>2. ASSUME Bad # {} PROVE FALSE
    <3>1. Bad \subseteq Nat
      OBVIOUS
    <3>2. PICK m \in Bad : \A j \in Bad : m <= j
      <4> HIDE DEF Bad
      <4> QED BY <2>2, <3>1, Least
    <3>3. m \in 1 .. num /\ g[m] # f[m]
      BY <3>2
    <3>4. g[m] = IF m = 1 THEN s[m] ELSE g[m - 1] \o s[m]
      <4> HIDE DEF g
      <4> QED BY <1>4, <3>3
    <3>5. m # 1 => g[m - 1] = f[m - 1]
      <4> HIDE DEF g
      <4> QED BY <3>2, <3>3
    <3> HIDE DEF g, Bad
    <3> QED BY <1>2, <3>3, <3>4, <3>5
  <2>3. num \in 1 .. num
    BY <1>6
  <2> HIDE DEF g
  <2> QED BY <2>1, <2>2, <2>3
<1> QED BY <1>5, <1>6

LEMMA Joinable ==
  ASSUME NEW num \in Nat, NEW T, NEW s \in [1 .. num -> Seq(T)]
  PROVE  \E f : Joining(f, num, T, s)
<1> DEFINE Step == [i \in 1 .. num |-> [x \in Seq(T) |-> x \o s[i]]]
<1>1. Step \in [1 .. num -> [Seq(T) -> Seq(T)]]
  OBVIOUS
<1>2. <<>> \in Seq(T)
  OBVIOUS
<1>3. PICK f : Iteration(f, num, Seq(T), <<>>, Step)
  <2> HIDE DEF Step
  <2> QED BY <1>1, <1>2, Iterates
<1>4. ASSUME NEW i \in 1 .. num PROVE f[i] = f[i - 1] \o s[i]
  <2>1. i - 1 \in 0 .. num
    OBVIOUS
  <2>2. f[i - 1] \in Seq(T)
    BY <1>3, <2>1 DEF Iteration
  <2> QED BY <1>3, <2>2 DEF Iteration
<1> QED BY <1>3, <1>4 DEF Iteration, Joining

(* One more: it goes behind the others.                                    *)
LEMMA JoinedOn ==
  ASSUME NEW num \in Nat, NEW T, NEW s \in [1 .. num + 1 -> Seq(T)]
  PROVE  /\ Joins!FlattenSeq([l \in 1 .. num |-> s[l]]) \in Seq(T)
         /\ Joins!FlattenSeq(s) = Joins!FlattenSeq([l \in 1 .. num |-> s[l]]) \o s[num + 1]
<1> DEFINE r == [l \in 1 .. num |-> s[l]]
<1>1. PICK f : Joining(f, num + 1, T, s)
  BY Joinable
<1> DEFINE h == [i \in 0 .. num |-> f[i]]
<1>2. r \in [1 .. num -> Seq(T)]
  OBVIOUS
<1>3. Joining(h, num, T, r)
  <2>1. \A i \in 1 .. num : i - 1 \in 0 .. num /\ i \in 1 .. num + 1
    OBVIOUS
  <2>2. \A i \in 0 .. num : i \in 0 .. num + 1
    OBVIOUS
  <2>3. f \in [0 .. num + 1 -> Seq(T)] /\ f[0] = <<>> /\ \A i \in 1 .. num + 1 : f[i] = f[i - 1] \o s[i]
    BY <1>1 DEF Joining
  <2>4. h \in [0 .. num -> Seq(T)] /\ h[0] = <<>>
    BY <2>2, <2>3
  <2>5. ASSUME NEW i \in 1 .. num PROVE h[i] = h[i - 1] \o r[i]
    <3>1. h[i] = f[i] /\ h[i - 1] = f[i - 1] /\ r[i] = s[i]
      BY <2>1
    <3> QED BY <2>1, <2>3, <3>1
  <2> HIDE DEF h, r
  <2> QED BY <2>4, <2>5 DEF Joining
<1>4. Joins!FlattenSeq(r) = h[num] /\ h[num] = f[num] /\ f[num] \in Seq(T)
  <2>1. Joins!FlattenSeq(r) = h[num]
    <3> HIDE DEF r, h
    <3> QED BY <1>2, <1>3, JoiningIs
  <2> QED BY <1>1, <2>1 DEF Joining
<1>5. Joins!FlattenSeq(s) = f[num + 1]
  <2>1. num + 1 \in Nat
    OBVIOUS
  <2> QED BY <1>1, <2>1, JoiningIs
<1>6. f[num + 1] = f[num] \o s[num + 1]
  <2>1. num + 1 \in 1 .. num + 1 /\ (num + 1) - 1 = num
    OBVIOUS
  <2>2. f[num + 1] = f[(num + 1) - 1] \o s[num + 1]
    BY <1>1, <2>1 DEF Joining
  <2> QED BY <2>1, <2>2
<1> QED BY <1>4, <1>5, <1>6

LEMMA Concatenated ==
  ASSUME NEW S, NEW a \in Seq(S), NEW b \in Seq(S)
  PROVE  /\ a \o b \in Seq(S) /\ Len(a \o b) = Len(a) + Len(b)
         /\ \A k \in 1 .. Len(a) : (a \o b)[k] = a[k]
         /\ \A k \in 1 .. Len(b) : (a \o b)[Len(a) + k] = b[k]
OBVIOUS

(* Rows of one width joined: the place of a byte.                          *)
LEMMA RowPlace ==
  ASSUME NEW K \in Nat, NEW m \in Nat, NEW l \in 0 .. m - 1, NEW j \in 1 .. K
  PROVE  l * K + j \in 1 .. m * K
<1>1. PICK d \in Nat : m = l + 1 + d
  <2>1. m - l - 1 \in Nat /\ m = l + 1 + (m - l - 1)
    OBVIOUS
  <2> QED BY <2>1
<1>2. l * K \in Nat /\ d * K \in Nat
  OBVIOUS
<1>3. m * K = l * K + K + d * K
  BY <1>1
<1> QED BY <1>2, <1>3

InRows(flat, num, K, s) == Len(flat) = num * K /\ \A l \in 0 .. num - 1, j \in 1 .. K : flat[l * K + j] = s[l + 1][j]

LEMMA RowsJoined ==
  ASSUME NEW num \in Nat, NEW K \in Nat, NEW T, NEW s \in [1 .. num -> Seq(T)], \A l \in 1 .. num : Len(s[l]) = K
  PROVE  Joins!FlattenSeq(s) \in Seq(T) /\ InRows(Joins!FlattenSeq(s), num, K, s)
<1>1. PICK f : Joining(f, num, T, s)
  BY Joinable
<1>2. Joins!FlattenSeq(s) = f[num]
  BY <1>1, JoiningIs
<1> DEFINE Rows(m) == /\ f[m] \in Seq(T) /\ Len(f[m]) = m * K
                      /\ \A l \in 0 .. m - 1, j \in 1 .. K : f[m][l * K + j] = s[l + 1][j]
           Bad == {m \in 0 .. num : ~Rows(m)}
<1>3. Rows(0)
  <2>1. f[0] = <<>> /\ 0 * K = 0
    BY <1>1 DEF Joining
  <2> QED BY <2>1
<1>4. ASSUME NEW m \in 0 .. num - 1, Rows(m) PROVE Rows(m + 1)
  <2> DEFINE a == f[m]
             b == s[m + 1]
             c == f[m + 1]
  <2>1. m + 1 \in 1 .. num /\ m \in Nat
    OBVIOUS
  <2>2. c = a \o b /\ a \in Seq(T) /\ b \in Seq(T) /\ Len(b) = K /\ Len(a) = m * K
    <3>1. (m + 1) - 1 = m
      OBVIOUS
    <3>2. f[m + 1] = f[(m + 1) - 1] \o s[m + 1]
      BY <1>1, <2>1 DEF Joining
    <3> QED BY <1>4, <2>1, <3>1, <3>2
  <2>3. \A l \in 0 .. m - 1, j \in 1 .. K : a[l * K + j] = s[l + 1][j]
    BY <1>4
  <2>4. (m + 1) * K = m * K + K /\ m * K \in Nat
    BY <2>1
  <2> HIDE DEF a, b, c
  <2>5. /\ c \in Seq(T) /\ Len(c) = (m + 1) * K
        /\ (\A k \in 1 .. m * K : c[k] = a[k]) /\ (\A k \in 1 .. K : c[m * K + k] = b[k])
    <3>1. PICK d : d = a \o b
      OBVIOUS
    <3>2. a \in Seq(T) /\ b \in Seq(T)
      BY <2>2
    <3>3. d \in Seq(T) /\ Len(d) = Len(a) + Len(b) /\ (\A k \in 1 .. Len(a) : d[k] = a[k]) /\ (\A k \in 1 .. Len(b) : d[Len(a) + k] = b[k])
      BY <3>1, <3>2, Concatenated
    <3>4. c = d
      BY <2>2, <3>1
    <3> QED BY <2>2, <2>4, <3>3, <3>4
  <2>6. ASSUME NEW l \in 0 .. m, NEW j \in 1 .. K PROVE c[l * K + j] = s[l + 1][j]
    <3>1. CASE l = m
      BY <2>5, <3>1 DEF b
    <3>2. CASE l # m
      <4>1. l \in 0 .. m - 1
        BY <3>2
      <4>2. l * K + j \in 1 .. m * K
        BY <2>1, <4>1, RowPlace
      <4> QED BY <2>3, <2>5, <4>1, <4>2
    <3> QED BY <3>1, <3>2
  <2>7. \A l \in 0 .. (m + 1) - 1 : l \in 0 .. m
    BY <2>1
  <2> QED BY <2>5, <2>6, <2>7 DEF c
<1>5. ASSUME Bad # {} PROVE FALSE
  <2>1. Bad \subseteq Nat
    OBVIOUS
  <2>2. PICK m \in Bad : \A j \in Bad : m <= j
    <3> HIDE DEF Bad
    <3> QED BY <1>5, <2>1, Least
  <2>3. m \in 0 .. num /\ ~Rows(m)
    BY <2>2
  <2> HIDE DEF Rows
  <2>4. m # 0
    BY <1>3, <2>3
  <2>5. PICK h \in 0 .. num - 1 : m = h + 1
    <3>1. m - 1 \in 0 .. num - 1 /\ m = (m - 1) + 1
      BY <2>3, <2>4
    <3> QED BY <3>1
  <2>6. Rows(h)
    <3>1. h \in 0 .. num /\ ~(m <= h)
      BY <2>5
    <3> QED BY <2>2, <3>1
  <2> QED BY <1>4, <2>3, <2>5, <2>6
<1>6. Rows(num)
  <2> HIDE DEF Rows
  <2> QED BY <1>2, <1>5
<1>7. f[num] \in Seq(T) /\ InRows(f[num], num, K, s)
  BY <1>6 DEF InRows
<1> QED BY <1>2, <1>7

-----------------------------------------------------------------------------
(* The nearest of three is what the decoders pick.                         *)
LEMMA NearIsPaeth ==
  ASSUME NEW a \in Tones, NEW b \in Tones, NEW c \in Tones
  PROVE  Near(a, b, c) = Paeth(a, b, c) /\ Near(a, b, c) \in Tones
<1> DEFINE d(v) == Magnitude(a + b - c - v)
           order == <<a, b, c>>
           Best(i) == \A j \in 1 .. 3 : d(order[i]) < d(order[j]) \/ (d(order[i]) = d(order[j]) /\ i <= j)
           best == CHOOSE i \in 1 .. 3 : Best(i)
<1>1. Near(a, b, c) = order[best]
  BY DEF Near
<1>2. order[1] = a /\ order[2] = b /\ order[3] = c
  OBVIOUS
<1>3. d(a) \in Nat /\ d(b) \in Nat /\ d(c) \in Nat
  BY DEF Magnitude, Tones
<1>4. d(a) = Abs(a + b - c - a) /\ d(b) = Abs(a + b - c - b) /\ d(c) = Abs(a + b - c - c)
  BY DEF Magnitude, Abs
<1> DEFINE first == IF d(a) <= d(b) /\ d(a) <= d(c) THEN 1 ELSE IF d(b) <= d(c) THEN 2 ELSE 3
<1>5. Paeth(a, b, c) = order[first]
  <2> DEFINE pa == Abs(a + b - c - a)
             pb == Abs(a + b - c - b)
             pc == Abs(a + b - c - c)
  <2>1. Paeth(a, b, c) = IF pa <= pb /\ pa <= pc THEN a ELSE IF pb <= pc THEN b ELSE c
    BY DEF Paeth, Tones
  <2>2. d(a) = pa /\ d(b) = pb /\ d(c) = pc
    BY <1>4
  <2> HIDE DEF d, pa, pb, pc
  <2> HIDE DEF order
  <2> QED BY <1>2, <2>1, <2>2
<1>6. first \in 1 .. 3 /\ Best(first)
  <2> HIDE DEF d, order
  <2>1. \A j \in 1 .. 3 : j = 1 \/ j = 2 \/ j = 3
    OBVIOUS
  <2> QED BY <1>2, <1>3, <2>1
<1>7. \A i \in 1 .. 3 : Best(i) => i = first
  <2> HIDE DEF d, order
  <2>1. \A j \in 1 .. 3 : j = 1 \/ j = 2 \/ j = 3
    OBVIOUS
  <2> QED BY <1>2, <1>3, <2>1
<1>8. best = first
  <2> HIDE DEF Best, first
  <2> QED BY <1>6, <1>7
<1>9. order[first] \in Tones
  <2>1. order[1] \in Tones /\ order[2] \in Tones /\ order[3] \in Tones
    OBVIOUS
  <2> HIDE DEF order
  <2> QED BY <2>1
<1> QED BY <1>1, <1>5, <1>8, <1>9

LEMMA Byted ==
  ASSUME NEW x \in Tones, NEW p \in Int
  PROVE  (((x - p) % 256) + p) % 256 = x /\ (x - p) % 256 \in Tones
<1>1. PICK q \in Int, r \in 0 .. 255 : x - p = 256 * q + r /\ r = (x - p) % 256
  <2>1. \A z \in Int : z = 256 * (z \div 256) + (z % 256) /\ z % 256 \in 0 .. 255 /\ z \div 256 \in Int
    OBVIOUS
  <2>2. x - p \in Int
    BY DEF Tones
  <2> QED BY <2>1, <2>2
<1>2. r + p = x - 256 * q
  BY <1>1 DEF Tones
<1>3. (x - 256 * q) % 256 = x
  BY DEF Tones
<1> QED BY <1>1, <1>2, <1>3 DEF Tones

(* A decoder undoes the filter that an encoder chose for a line: the line  *)
(* itself satisfies the decoder's recursion, which only one function does. *)
LEMMA Unfilters ==
  ASSUME NEW len \in Nat, NEW bpp \in Nat \ {0}, NEW ln \in [1 .. len -> Tones], NEW up \in [1 .. len -> Tones], NEW ft \in 0 .. 4
  PROVE  unfilter(ft, Coded(ft, ln, up, bpp), up, bpp) = ln
<1> DEFINE code == Coded(ft, ln, up, bpp)
           Next(res, i) == LET a == IF i > bpp THEN res[i - bpp] ELSE 0
                               c == IF i > bpp THEN up[i - bpp] ELSE 0
                           IN  (code[i] + (CASE ft = 0 -> 0 [] ft = 1 -> a [] ft = 2 -> up[i] [] ft = 3 -> (a + up[i]) \div 2
                                             [] ft = 4 -> Paeth(a, up[i], c))) % 256
           Is(res) == res = [i \in DOMAIN code |-> Next(res, i)]
           g == CHOOSE res : Is(res)
<1>1. DOMAIN code = 1 .. len
  BY DEF Coded
<1>2. unfilter(ft, code, up, bpp) = g
  BY DEF unfilter
<1>3. ASSUME NEW i \in 1 .. len PROVE Next(ln, i) = ln[i]
  <2> DEFINE a == IF i > bpp THEN ln[i - bpp] ELSE 0
             c == IF i > bpp THEN up[i - bpp] ELSE 0
             p == CASE ft = 0 -> 0 [] ft = 1 -> a [] ft = 2 -> up[i] [] ft = 3 -> (a + up[i]) \div 2 [] ft = 4 -> Paeth(a, up[i], c)
  <2>1. ln[i] \in Tones /\ up[i] \in Tones /\ a \in Tones /\ c \in Tones
    <3>1. i > bpp => i - bpp \in 1 .. len
      OBVIOUS
    <3>2. (\A k \in 1 .. len : ln[k] \in Tones /\ up[k] \in Tones) /\ 0 \in Tones
      <4>1. 0 \in Tones
        BY DEF Tones
      <4> HIDE DEF code, g
      <4> QED BY <4>1
    <3> HIDE DEF code, g
    <3>3. CASE i > bpp
      <4>1. i - bpp \in 1 .. len
        BY <3>1, <3>3
      <4>2. ln[i - bpp] \in Tones /\ up[i - bpp] \in Tones
        BY <3>2, <4>1
      <4>3. a = ln[i - bpp] /\ c = up[i - bpp]
        BY <3>3
      <4> QED BY <3>2, <4>2, <4>3
    <3>4. CASE ~(i > bpp)
      BY <3>2, <3>4
    <3> QED BY <3>3, <3>4
  <2>2. code[i] = (ln[i] - Predicted(ft, ln, up, bpp, i)) % 256
    BY DEF Coded
  <2>3. Predicted(ft, ln, up, bpp, i) = p /\ p \in Int
    <3>1. Predicted(ft, ln, up, bpp, i) = CASE ft = 1 -> a [] ft = 2 -> up[i] [] ft = 3 -> (a + up[i]) \div 2 [] ft = 4 -> Near(a, up[i], c) [] OTHER -> 0
      BY DEF Predicted
    <3>2. Near(a, up[i], c) = Paeth(a, up[i], c) /\ Near(a, up[i], c) \in Tones
      <4> HIDE DEF a, c
      <4> QED BY <2>1, NearIsPaeth
    <3>3. ft = 0 \/ ft = 1 \/ ft = 2 \/ ft = 3 \/ ft = 4
      OBVIOUS
    <3>4. a \in Int /\ up[i] \in Int /\ (a + up[i]) \div 2 \in Int /\ Paeth(a, up[i], c) \in Int
      <4> HIDE DEF a, c
      <4>1. a \in Tones /\ up[i] \in Tones /\ Paeth(a, up[i], c) \in Tones
        BY <2>1, <3>2
      <4>2. \A t \in Tones : t \in Int
        BY DEF Tones
      <4>3. a \in Int /\ up[i] \in Int /\ Paeth(a, up[i], c) \in Int
        BY <4>1, <4>2
      <4> QED BY <4>3
    <3> HIDE DEF a, c
    <3> QED BY <3>1, <3>2, <3>3, <3>4
  <2>4. Next(ln, i) = (code[i] + p) % 256
    OBVIOUS
  <2> HIDE DEF p, code, Next
  <2> QED BY <2>1, <2>2, <2>3, <2>4, Byted
<1>4. Is(ln)
  <2> HIDE DEF Next, code
  <2> QED BY <1>1, <1>3
<1>5. Is(g)
  <2> HIDE DEF Is
  <2> QED BY <1>4
<1> DEFINE Bad == {i \in 1 .. len : g[i] # ln[i]}
<1>6. ASSUME Bad # {} PROVE FALSE
  <2>1. PICK m \in Bad : \A j \in Bad : m <= j
    <3>1. Bad \subseteq Nat
      OBVIOUS
    <3> HIDE DEF Bad
    <3> QED BY <1>6, <3>1, Least
  <2>2. m \in 1 .. len /\ g[m] # ln[m]
    BY <2>1
  <2>3. m > bpp => g[m - bpp] = ln[m - bpp]
    <3>1. m > bpp => m - bpp \in 1 .. len /\ m - bpp < m
      BY <2>2
    <3> HIDE DEF g
    <3> QED BY <2>1, <2>2, <3>1
  <2>4. g[m] = Next(g, m)
    <3> HIDE DEF g, Next, code
    <3> QED BY <1>1, <1>5, <2>2
  <2>5. Next(g, m) = Next(ln, m)
    <3> HIDE DEF g, code
    <3> QED BY <2>3
  <2> HIDE DEF g, Next
  <2> QED BY <1>3, <2>2, <2>4, <2>5
<1>7. g = ln
  <2>1. \A i \in 1 .. len : g[i] = ln[i]
    BY <1>6
  <2>2. g = [i \in 1 .. len |-> g[i]]
    <3> HIDE DEF g, Next, code
    <3>1. g = [i \in 1 .. len |-> Next(g, i)]
      BY <1>1, <1>5
    <3> QED BY <3>1
  <2> HIDE DEF g
  <2> QED BY <2>1, <2>2
<1> QED BY <1>2, <1>7

-----------------------------------------------------------------------------
(* A snapshot that is to be read.                                          *)
Ct(s)  == The(s.file, "IHDR").ct
Bpp(s) == Channels(Ct(s))
PaletteOf(s) == IF Ct(s) = 3 THEN The(s.file, "PLTE").body ELSE <<>>
Pitch(s) == s.w * Bpp(s)
Drawn(s, l) == Colours(s.lines[l], PaletteOf(s), Ct(s), s.w)

LEMMA SceneIs ==
  ASSUME NEW s \in Scenes, ~s.odd
  PROVE  /\ s.w \in Nat \ {0} /\ s.h \in Nat \ {0} /\ Ct(s) \in {2, 3, 6}
         /\ The(s.file, "IHDR").w = s.w /\ The(s.file, "IHDR").h = s.h
         /\ The(s.file, "IHDR").bd = 8 /\ The(s.file, "IHDR").il = 0
         /\ Bpp(s) = nch(Ct(s)) /\ Bpp(s) \in Nat \ {0} /\ Pitch(s) \in Nat
         /\ s.lines \in [1 .. s.h -> [1 .. Pitch(s) -> Tones]] /\ s.filters \in [1 .. s.h -> 0 .. 4]
         /\ PaletteOf(s) \in Seq(Tones)
         /\ (Ct(s) = 3 => PaletteOf(s) = The(s.file, "PLTE").body /\ \A l \in 1 .. s.h, x \in 1 .. s.w : 3 * s.lines[l][x] + 3 <= Len(PaletteOf(s)))
         /\ Idat(s.file) = Stream(s.lines, s.filters, Bpp(s)) /\ Idat(UpToEnd(s.file)) = Stream(s.lines, s.filters, Bpp(s))
         /\ s.shot = Shown(s.lines, PaletteOf(s), Ct(s), s.w)
<1>1. s.w \in Nat \ {0} /\ s.h \in Nat \ {0} /\ Encodes(s)
  BY SceneAssumption
<1>2. Ct(s) \in {2, 3, 6}
  BY <1>1 DEF Encodes, Ct
<1>3. Bpp(s) = nch(Ct(s)) /\ Bpp(s) \in Nat \ {0}
  BY <1>2 DEF Bpp, Channels, nch
<1>4. Pitch(s) \in Nat
  BY <1>1, <1>3 DEF Pitch
<1>5. /\ The(s.file, "IHDR").w = s.w /\ The(s.file, "IHDR").h = s.h
      /\ The(s.file, "IHDR").bd = 8 /\ The(s.file, "IHDR").il = 0
      /\ s.lines \in [1 .. s.h -> [1 .. Pitch(s) -> Tones]] /\ s.filters \in [1 .. s.h -> 0 .. 4]
      /\ PaletteOf(s) \in Seq(Tones)
      /\ s.shot = Shown(s.lines, PaletteOf(s), Ct(s), s.w)
  BY <1>1 DEF Encodes, Ct, Bpp, Pitch, PaletteOf
<1>6. Ct(s) = 3 => PaletteOf(s) = The(s.file, "PLTE").body /\ \A l \in 1 .. s.h, x \in 1 .. s.w : 3 * s.lines[l][x] + 3 <= Len(PaletteOf(s))
  BY <1>1 DEF Encodes, Ct, PaletteOf
<1>7. Idat(s.file) = Stream(s.lines, s.filters, Bpp(s)) /\ Idat(UpToEnd(s.file)) = Stream(s.lines, s.filters, Bpp(s))
  BY <1>1 DEF Encodes, Ct, Bpp
<1> QED BY <1>1, <1>2, <1>3, <1>4, <1>5, <1>6, <1>7

(* Three bytes of a sequence, as the slice of the script.                  *)
LEMMA Three ==
  ASSUME NEW S, NEW s \in Seq(S), NEW o \in Nat, o + 3 <= Len(s)
  PROVE  Clip(s, o + 1, o + 3) = <<s[o + 1], s[o + 2], s[o + 3]>> /\ <<s[o + 1], s[o + 2], s[o + 3]>> \in Seq(S)
<1> DEFINE a == SubSeq(s, o + 1, o + 3)
           b == <<s[o + 1], s[o + 2], s[o + 3]>>
<1>1. a \in Seq(S) /\ Len(a) = 3 /\ \A k \in 1 .. 3 : a[k] = s[o + k]
  <2>1. PICK L \in Nat : L = 3 /\ o + L <= Len(s)
    OBVIOUS
  <2>2. /\ SubSeq(s, o + 1, o + L) \in Seq(S) /\ Len(SubSeq(s, o + 1, o + L)) = L
        /\ \A k \in 1 .. L : SubSeq(s, o + 1, o + L)[k] = s[o + k]
    BY <2>1, Cut
  <2> QED BY <2>1, <2>2
<1>2. b \in Seq(S) /\ Len(b) = 3 /\ b[1] = s[o + 1] /\ b[2] = s[o + 2] /\ b[3] = s[o + 3]
  OBVIOUS
<1>3. Clip(s, o + 1, o + 3) = a
  <2>1. (IF o + 3 < Len(s) THEN o + 3 ELSE Len(s)) = o + 3
    OBVIOUS
  <2> QED BY <2>1 DEF Clip
<1> HIDE DEF a, b
<1>4. a = b
  <2>1. \A k \in 1 .. 3 : k = 1 \/ k = 2 \/ k = 3
    OBVIOUS
  <2>2. a[1] = b[1] /\ a[2] = b[2] /\ a[3] = b[3]
    BY <1>1, <1>2
  <2>3. \A k \in 1 .. Len(a) : a[k] = b[k]
    BY <1>1, <2>1, <2>2
  <2> QED BY <1>1, <1>2, <2>3, SameSeq
<1> QED BY <1>2, <1>3, <1>4 DEF b

(* The colour the scripts take for a pixel is the standard's.              *)
LEMMA PixelRead ==
  ASSUME NEW s \in Scenes, ~s.odd, NEW l \in 1 .. s.h, NEW x \in 1 .. s.w
  PROVE  /\ Colour(s.lines[l], PaletteOf(s), Ct(s), x) \in Seq(Tones)
         /\ (Ct(s) = 2 => Clip(s.lines[l], x * 3 - 2, x * 3) = Colour(s.lines[l], PaletteOf(s), Ct(s), x))
         /\ (Ct(s) = 3 => Clip(PaletteOf(s), s.lines[l][x] * 3 + 1, s.lines[l][x] * 3 + 3) = Colour(s.lines[l], PaletteOf(s), Ct(s), x))
         /\ (Ct(s) = 6 => Clip(s.lines[l], x * 4 - 3, x * 4 - 1) = Colour(s.lines[l], PaletteOf(s), Ct(s), x))
<1> DEFINE ln == s.lines[l]
           p == PaletteOf(s)
<1>1. s.w \in Nat /\ Ct(s) \in {2, 3, 6} /\ Pitch(s) \in Nat /\ ln \in [1 .. Pitch(s) -> Tones] /\ p \in Seq(Tones)
  BY SceneIs
<1>2. ln \in Seq(Tones) /\ Len(ln) = Pitch(s)
  <2> HIDE DEF ln
  <2> QED BY <1>1, LongSeq
<1>3. CASE Ct(s) = 2
  <2>1. Pitch(s) = 3 * s.w
    BY <1>1, <1>3 DEF Pitch, Bpp, Channels
  <2>2. PICK o \in Nat : o = 3 * x - 3 /\ o + 3 <= Len(ln)
    <3>1. 3 * x - 3 \in Nat /\ (3 * x - 3) + 3 <= 3 * s.w
      BY <1>1
    <3> HIDE DEF ln
    <3> QED BY <1>2, <2>1, <3>1
  <2>3. o + 1 = x * 3 - 2 /\ o + 3 = x * 3 /\ o + 1 = 3 * x - 2 /\ o + 2 = 3 * x - 1 /\ o + 3 = 3 * x
    BY <2>2
  <2>4. Colour(ln, p, Ct(s), x) = <<ln[o + 1], ln[o + 2], ln[o + 3]>>
    BY <1>3, <2>3 DEF Colour
  <2>5. Clip(ln, o + 1, o + 3) = Colour(ln, p, Ct(s), x) /\ Colour(ln, p, Ct(s), x) \in Seq(Tones)
    <3> HIDE DEF ln, p
    <3> QED BY <1>2, <2>2, <2>4, Three
  <2>6. Clip(ln, x * 3 - 2, x * 3) = Colour(ln, p, Ct(s), x)
    <3> HIDE DEF ln, p
    <3> QED BY <2>3, <2>5
  <2>7. Ct(s) # 6 /\ Ct(s) # 3
    BY <1>3
  <2> QED BY <2>5, <2>6, <2>7
<1>4. CASE Ct(s) = 3
  <2>1. Pitch(s) = s.w
    BY <1>1, <1>4 DEF Pitch, Bpp, Channels
  <2>2. PICK o \in Nat : o = 3 * ln[x] /\ o + 3 <= Len(p)
    <3>1. ln[x] \in Tones
      BY <1>1, <2>1
    <3>2. 3 * ln[x] + 3 <= Len(p)
      BY <1>4, SceneIs
    <3> HIDE DEF ln, p
    <3>3. 3 * ln[x] \in Nat
      BY <3>1 DEF Tones
    <3> QED BY <3>2, <3>3
  <2>3. o + 1 = ln[x] * 3 + 1 /\ o + 3 = ln[x] * 3 + 3 /\ o + 1 = 3 * ln[x] + 1 /\ o + 2 = 3 * ln[x] + 2 /\ o + 3 = 3 * ln[x] + 3
    <3>1. PICK t \in Int : t = ln[x]
      <4>1. ln[x] \in Tones
        BY <1>1, <2>1
      <4> QED BY <4>1 DEF Tones
    <3>2. o + 1 = t * 3 + 1 /\ o + 3 = t * 3 + 3 /\ o + 1 = 3 * t + 1 /\ o + 2 = 3 * t + 2 /\ o + 3 = 3 * t + 3
      BY <2>2, <3>1
    <3> HIDE DEF ln, p
    <3> QED BY <3>1, <3>2
  <2>4. Colour(ln, p, Ct(s), x) = <<p[o + 1], p[o + 2], p[o + 3]>>
    BY <1>4, <2>3 DEF Colour
  <2>5. Clip(p, o + 1, o + 3) = Colour(ln, p, Ct(s), x) /\ Colour(ln, p, Ct(s), x) \in Seq(Tones)
    <3> HIDE DEF ln, p
    <3> QED BY <1>1, <2>2, <2>4, Three
  <2>6. Clip(p, ln[x] * 3 + 1, ln[x] * 3 + 3) = Colour(ln, p, Ct(s), x)
    <3> HIDE DEF ln, p
    <3> QED BY <2>3, <2>5
  <2>7. Ct(s) # 2 /\ Ct(s) # 6
    BY <1>4
  <2> QED BY <2>5, <2>6, <2>7
<1>5. CASE Ct(s) = 6
  <2>1. Pitch(s) = 4 * s.w
    BY <1>1, <1>5 DEF Pitch, Bpp, Channels
  <2>2. PICK o \in Nat : o = 4 * x - 4 /\ o + 3 <= Len(ln)
    <3>1. 4 * x - 4 \in Nat /\ (4 * x - 4) + 3 <= 4 * s.w
      BY <1>1
    <3> HIDE DEF ln
    <3> QED BY <1>2, <2>1, <3>1
  <2>3. o + 1 = x * 4 - 3 /\ o + 3 = x * 4 - 1 /\ o + 1 = 4 * x - 3 /\ o + 2 = 4 * x - 2 /\ o + 3 = 4 * x - 1
    BY <2>2
  <2>4. Colour(ln, p, Ct(s), x) = <<ln[o + 1], ln[o + 2], ln[o + 3]>>
    BY <1>5, <2>3 DEF Colour
  <2>5. Clip(ln, o + 1, o + 3) = Colour(ln, p, Ct(s), x) /\ Colour(ln, p, Ct(s), x) \in Seq(Tones)
    <3> HIDE DEF ln, p
    <3> QED BY <1>2, <2>2, <2>4, Three
  <2>6. Clip(ln, x * 4 - 3, x * 4 - 1) = Colour(ln, p, Ct(s), x)
    <3> HIDE DEF ln, p
    <3> QED BY <2>3, <2>5
  <2>7. Ct(s) # 2 /\ Ct(s) # 3
    BY <1>5
  <2> QED BY <2>5, <2>6, <2>7
<1> QED BY <1>1, <1>3, <1>4, <1>5

LEMMA LineColours ==
  ASSUME NEW s \in Scenes, ~s.odd, NEW l \in 1 .. s.h
  PROVE  Rgb(s.file, s.w, s.lines[l]) = Drawn(s, l) /\ Drawn(s, l) \in Seq(Tones)
<1> DEFINE ct == Ct(s)
           p == The(s.file, "PLTE").body
           ln == s.lines[l]
           rgb(x) == CASE ct = 2 -> Clip(ln, x * 3 - 2, x * 3)
                       [] ct = 3 -> Clip(p, ln[x] * 3 + 1, ln[x] * 3 + 3)
                       [] ct = 6 -> Clip(ln, x * 4 - 3, x * 4 - 1)
           each == [x \in 1 .. s.w |-> Colour(ln, PaletteOf(s), ct, x)]
<1>1. ct \in {2, 3, 6} /\ (ct = 3 => PaletteOf(s) = p) /\ s.w \in Nat
  BY SceneIs
<1>2. ASSUME NEW x \in 1 .. s.w PROVE rgb(x) = Colour(ln, PaletteOf(s), ct, x) /\ Colour(ln, PaletteOf(s), ct, x) \in Seq(Tones)
  BY <1>1, PixelRead
<1>3. each \in [1 .. s.w -> Seq(Tones)]
  <2> HIDE DEF ct, p, ln
  <2> QED BY <1>2
<1>4. Rgb(s.file, s.w, ln) = Joins!FlattenSeq([x \in 1 .. s.w |-> rgb(x)])
  BY DEF Rgb, Each, Ct
<1>5. [x \in 1 .. s.w |-> rgb(x)] = each
  <2> HIDE DEF ct, p, ln, rgb
  <2> QED BY <1>2
<1>6. Drawn(s, l) = Joins!FlattenSeq(each)
  BY DEF Drawn, Colours
<1>7. Joins!FlattenSeq(each) \in Seq(Tones)
  <2>1. PICK f : Joining(f, s.w, Tones, each)
    <3> HIDE DEF each
    <3> QED BY <1>1, <1>3, Joinable
  <2>2. Joins!FlattenSeq(each) = f[s.w]
    <3> HIDE DEF each
    <3> QED BY <1>1, <1>3, <2>1, JoiningIs
  <2> QED BY <1>1, <2>1, <2>2 DEF Joining
<1> QED BY <1>4, <1>5, <1>6, <1>7

(* The line above, of noughts above the first.                             *)
Up(s, l) == IF l = 0 THEN Zeros(Pitch(s)) ELSE s.lines[l]

LEMMA AboveIs ==
  ASSUME NEW s \in Scenes, ~s.odd, NEW l \in 1 .. s.h
  PROVE  Above(s.lines, l) = Up(s, l - 1) /\ Above(s.lines, l) \in [1 .. Pitch(s) -> Tones]
<1>1. s.h \in Nat \ {0} /\ Pitch(s) \in Nat /\ s.lines \in [1 .. s.h -> [1 .. Pitch(s) -> Tones]]
  BY SceneIs
<1>2. CASE l = 1
  <2>1. DOMAIN s.lines[1] = 1 .. Pitch(s)
    BY <1>1
  <2>2. Above(s.lines, l) = [i \in 1 .. Pitch(s) |-> 0]
    BY <1>2, <2>1 DEF Above
  <2>3. 0 \in Tones
    BY DEF Tones
  <2>4. Up(s, l - 1) = [i \in 1 .. Pitch(s) |-> 0]
    BY <1>2 DEF Up, Zeros
  <2> QED BY <2>2, <2>3, <2>4
<1>3. CASE l # 1
  <2>1. l - 1 # 0 /\ l - 1 \in 1 .. s.h
    BY <1>1, <1>3
  <2>2. Above(s.lines, l) = s.lines[l - 1] /\ Up(s, l - 1) = s.lines[l - 1]
    BY <1>3, <2>1 DEF Above, Up
  <2> QED BY <1>1, <2>1, <2>2
<1> QED BY <1>2, <1>3

LEMMA PredictedInt ==
  ASSUME NEW s \in Scenes, ~s.odd, NEW i \in 1 .. s.h, NEW k \in 1 .. Pitch(s)
  PROVE  Predicted(s.filters[i], s.lines[i], Above(s.lines, i), Bpp(s), k) \in Int
<1> DEFINE ln == s.lines[i]
           up == Above(s.lines, i)
           bpp == Bpp(s)
           a == IF k > bpp THEN ln[k - bpp] ELSE 0
           c == IF k > bpp THEN up[k - bpp] ELSE 0
<1>1. ln \in [1 .. Pitch(s) -> Tones] /\ up \in [1 .. Pitch(s) -> Tones] /\ bpp \in Nat \ {0} /\ Pitch(s) \in Nat
  BY SceneIs, AboveIs
<1>2. a \in Tones /\ c \in Tones /\ up[k] \in Tones
  <2>1. k > bpp => k - bpp \in 1 .. Pitch(s)
    <3> HIDE DEF bpp
    <3> QED BY <1>1
  <2>2. 0 \in Tones
    BY DEF Tones
  <2> HIDE DEF ln, up, bpp
  <2> QED BY <1>1, <2>1, <2>2
<1>3. Predicted(s.filters[i], ln, up, bpp, k) =
        CASE s.filters[i] = 1 -> a [] s.filters[i] = 2 -> up[k] [] s.filters[i] = 3 -> (a + up[k]) \div 2
          [] s.filters[i] = 4 -> Near(a, up[k], c) [] OTHER -> 0
  BY DEF Predicted
<1>4. Near(a, up[k], c) \in Tones
  <2> HIDE DEF a, c, up
  <2> QED BY <1>2, NearIsPaeth
<1>5. a \in Int /\ up[k] \in Int /\ Near(a, up[k], c) \in Int /\ (a + up[k]) \div 2 \in Int
  <2> HIDE DEF a, c, up
  <2>1. \A t \in Tones : t \in Int
    BY DEF Tones
  <2>2. a \in Int /\ up[k] \in Int /\ Near(a, up[k], c) \in Int
    BY <1>2, <1>4, <2>1
  <2> QED BY <2>2
<1> HIDE DEF a, c, up, ln, bpp
<1>6. Predicted(s.filters[i], ln, up, bpp, k) \in Int
  BY <1>3, <1>5
<1> QED BY <1>6 DEF ln, up, bpp

(* Lines behind their filters: what a decoder finds for each.              *)
LEMMA LinePlace ==
  ASSUME NEW num \in Nat, NEW P \in Nat, NEW l \in 0 .. num - 1
  PROVE  \E o \in Nat : /\ (l + 1) * (P + 1) = o + P /\ l * (P + 1) + 2 = o + 1 /\ o + P <= num * (P + 1)
                        /\ \A j \in 1 .. P : j + 1 \in 1 .. P + 1 /\ o + j = l * (P + 1) + (j + 1)
<1>1. PICK h \in Nat, k \in Nat : h = l /\ k = P + 1
  OBVIOUS
<1>2. PICK q \in Nat : num = h + 1 + q
  <2>1. num - h - 1 \in Nat /\ num = h + 1 + (num - h - 1)
    BY <1>1
  <2> QED BY <2>1
<1>3. PICK b \in Nat, c \in Nat : b = h * k /\ c = q * k
  OBVIOUS
<1>4. (h + 1) * k = b + k /\ num * k = b + k + c
  BY <1>2, <1>3
<1>5. l * (P + 1) = b /\ (l + 1) * (P + 1) = b + k /\ num * (P + 1) = b + k + c
  BY <1>1, <1>3, <1>4
<1> WITNESS b + 1 \in Nat
<1> QED BY <1>1, <1>5

Behind(filter, code) == Joins!FlattenSeq([i \in DOMAIN code |-> <<filter[i]>> \o code[i]])
Lined(raw, num, P, filter, code) ==
  /\ num \in Nat /\ P \in Nat /\ filter \in [1 .. num -> Int] /\ code \in [1 .. num -> Seq(Int)]
  /\ (\A i \in 1 .. num : Len(code[i]) = P) /\ raw = Behind(filter, code)
LEMMA FilteredLine ==
  ASSUME NEW raw, NEW num, NEW P, NEW filter, NEW code, Lined(raw, num, P, filter, code), NEW l \in 0 .. num - 1
  PROVE  Filter(raw, P, l) = filter[l + 1] /\ Line(raw, P, l) = code[l + 1]
<1>2. /\ num \in Nat /\ P \in Nat /\ filter \in [1 .. num -> Int] /\ code \in [1 .. num -> Seq(Int)]
      /\ (\A i \in 1 .. num : Len(code[i]) = P) /\ raw = Behind(filter, code)
  BY DEF Lined
<1> USE <1>2
<1> DEFINE rows == [i \in 1 .. num |-> <<filter[i]>> \o code[i]]
           K == P + 1
<1>1. K \in Nat
  OBVIOUS
<1>3. ASSUME NEW i \in 1 .. num
      PROVE  /\ rows[i] \in Seq(Int) /\ Len(rows[i]) = K /\ rows[i][1] = filter[i]
             /\ \A k \in 1 .. P : rows[i][k + 1] = code[i][k]
  <2>1. PICK f \in Int, c \in Seq(Int) : f = filter[i] /\ c = code[i] /\ Len(c) = P
    <3>1. filter[i] \in Int /\ code[i] \in Seq(Int) /\ Len(code[i]) = P
      OBVIOUS
    <3> QED BY <3>1
  <2>2. <<f>> \in Seq(Int) /\ Len(<<f>>) = 1 /\ <<f>>[1] = f
    OBVIOUS
  <2>3. rows[i] = <<f>> \o c
    BY <2>1
  <2> DEFINE head == <<f>>
  <2>4. PICK r : r = head \o c
    OBVIOUS
  <2> HIDE DEF head
  <2>5. r \in Seq(Int) /\ Len(r) = Len(head) + Len(c) /\ (\A k \in 1 .. Len(head) : r[k] = head[k]) /\ (\A k \in 1 .. Len(c) : r[Len(head) + k] = c[k])
    BY <2>2, <2>4, Concatenated DEF head
  <2>6. Len(head) = 1 /\ head[1] = f /\ Len(c) = P /\ P \in Nat
    BY <1>1, <2>1, <2>2 DEF head
  <2>7. r \in Seq(Int) /\ Len(r) = P + 1 /\ r[1] = f /\ \A k \in 1 .. P : r[k + 1] = c[k]
    <3>1. \A k \in 1 .. P : 1 + k = k + 1
      BY <2>6
    <3> QED BY <2>5, <2>6, <3>1
  <2>8. r = rows[i]
    BY <2>3, <2>4 DEF head
  <2> HIDE DEF rows
  <2> QED BY <2>1, <2>7, <2>8
<1>4. raw = Joins!FlattenSeq(rows)
  <2>1. DOMAIN code = 1 .. num
    OBVIOUS
  <2> QED BY <2>1 DEF Behind
<1>5. rows \in [1 .. num -> Seq(Int)]
  <2>1. rows = [i \in 1 .. num |-> rows[i]]
    OBVIOUS
  <2> HIDE DEF rows
  <2> QED BY <1>3, <2>1
<1>6. raw \in Seq(Int) /\ Len(raw) = num * K /\ \A i \in 0 .. num - 1, j \in 1 .. K : raw[i * K + j] = rows[i + 1][j]
  <2>1. \A i \in 1 .. num : Len(rows[i]) = K
    BY <1>3
  <2>2. PICK h \in Nat, k \in Nat : h = num /\ k = K
    BY <1>1
  <2> HIDE DEF rows, K
  <2>3. rows \in [1 .. h -> Seq(Int)] /\ \A i \in 1 .. h : Len(rows[i]) = k
    BY <1>5, <2>1, <2>2
  <2>4. PICK flat, pieces : flat = Joins!FlattenSeq(pieces) /\ pieces = rows
    OBVIOUS
  <2>5. flat \in Seq(Int) /\ Len(flat) = h * k /\ \A i \in 0 .. h - 1, j \in 1 .. k : flat[i * k + j] = pieces[i + 1][j]
    <3>1. pieces \in [1 .. h -> Seq(Int)] /\ \A i \in 1 .. h : Len(pieces[i]) = k
      BY <2>3, <2>4
    <3>2. Joins!FlattenSeq(pieces) \in Seq(Int) /\ InRows(Joins!FlattenSeq(pieces), h, k, pieces)
      BY <3>1, RowsJoined
    <3> QED BY <2>4, <3>2 DEF InRows
  <2> QED BY <1>4, <2>2, <2>4, <2>5
<1>7. l + 1 \in 1 .. num
  BY <1>1
<1>8. Filter(raw, P, l) = filter[l + 1]
  <2>1. Filter(raw, P, l) = raw[l * K + 1]
    BY DEF Filter
  <2>2. 1 \in 1 .. K
    BY <1>1
  <2> HIDE DEF rows, K
  <2> QED BY <1>3, <1>6, <1>7, <2>1, <2>2
<1>9. Line(raw, P, l) = code[l + 1]
  <2>1. PICK o \in Nat : /\ (l + 1) * K = o + P /\ l * K + 2 = o + 1 /\ o + P <= num * K
                         /\ \A j \in 1 .. P : j + 1 \in 1 .. K /\ o + j = l * K + (j + 1)
    BY LinePlace
  <2>3. Line(raw, P, l) = SubSeq(raw, o + 1, o + P)
    <3>1. Line(raw, P, l) = SubSeq(raw, l * K + 2, (l + 1) * K)
      BY DEF Line
    <3> HIDE DEF K
    <3> QED BY <2>1, <3>1
  <2>4. o + P <= Len(raw)
    <3> HIDE DEF K
    <3> QED BY <1>6, <2>1
  <2> HIDE DEF rows
  <2> DEFINE cut == SubSeq(raw, o + 1, o + P)
  <2>5. cut \in Seq(Int) /\ Len(cut) = P /\ \A j \in 1 .. P : cut[j] = raw[o + j]
    <3>1. PICK r \in Seq(Int) : r = raw
      BY <1>6
    <3>2. PICK L \in Nat : L = P
      OBVIOUS
    <3>3. o + L <= Len(r)
      BY <2>4, <3>1, <3>2
    <3>4. /\ SubSeq(r, o + 1, o + L) \in Seq(Int) /\ Len(SubSeq(r, o + 1, o + L)) = L
          /\ \A j \in 1 .. L : SubSeq(r, o + 1, o + L)[j] = r[o + j]
      BY <3>3, Cut
    <3> QED BY <3>1, <3>2, <3>4
  <2>6. ASSUME NEW j \in 1 .. P PROVE cut[j] = code[l + 1][j]
    <3>1. j + 1 \in 1 .. K /\ o + j = l * K + (j + 1)
      BY <2>1
    <3>2. raw[l * K + (j + 1)] = rows[l + 1][j + 1]
      <4> HIDE DEF K
      <4> QED BY <1>6, <3>1
    <3> HIDE DEF cut, K
    <3> QED BY <1>3, <1>7, <2>5, <3>1, <3>2
  <2>7. cut = code[l + 1]
    <3>1. code[l + 1] \in Seq(Int) /\ Len(code[l + 1]) = P
      BY <1>7
    <3> HIDE DEF cut
    <3> QED BY <2>5, <2>6, <3>1, SameSeq
  <2> QED BY <2>3, <2>7
<1> QED BY <1>8, <1>9

(* What stands in the stream for a line.                                   *)
LEMMA StreamLine ==
  ASSUME NEW s \in Scenes, ~s.odd, NEW l \in 0 .. s.h - 1, NEW raw, raw = Stream(s.lines, s.filters, Bpp(s))
  PROVE  /\ Filter(raw, Pitch(s), l) = s.filters[l + 1]
         /\ Line(raw, Pitch(s), l) = Coded(s.filters[l + 1], s.lines[l + 1], Above(s.lines, l + 1), Bpp(s))
<1> DEFINE code(i) == Coded(s.filters[i], s.lines[i], Above(s.lines, i), Bpp(s))
           codes == [i \in 1 .. s.h |-> code(i)]
           P == Pitch(s)
<1>1. s.h \in Nat /\ P \in Nat /\ s.lines \in [1 .. s.h -> [1 .. P -> Tones]] /\ s.filters \in [1 .. s.h -> 0 .. 4]
  BY SceneIs
<1>2. ASSUME NEW i \in 1 .. s.h
      PROVE  code(i) \in Seq(Int) /\ Len(code(i)) = P
  <2> DEFINE c == code(i)
             ln == s.lines[i]
  <2>1. DOMAIN ln = 1 .. P
    BY <1>1
  <2>2. c \in [1 .. P -> Int]
    <3>1. c = [k \in 1 .. P |-> (ln[k] - Predicted(s.filters[i], ln, Above(s.lines, i), Bpp(s), k)) % 256]
      BY <2>1 DEF Coded
    <3>2. ASSUME NEW k \in 1 .. P PROVE (ln[k] - Predicted(s.filters[i], ln, Above(s.lines, i), Bpp(s), k)) % 256 \in Int
      <4>1. Predicted(s.filters[i], ln, Above(s.lines, i), Bpp(s), k) \in Int
        <5> HIDE DEF code, codes
        <5> QED BY PredictedInt
      <4>2. ln[k] \in Int
        <5>1. ln \in [1 .. P -> Tones]
          BY <1>1
        <5> HIDE DEF code, codes, ln, P
        <5>2. ln[k] \in Tones
          BY <5>1
        <5> QED BY <5>2 DEF Tones
      <4> HIDE DEF ln
      <4> QED BY <4>1, <4>2
    <3> HIDE DEF c, ln
    <3> QED BY <3>1, <3>2
  <2> HIDE DEF c
  <2>3. c \in Seq(Int) /\ Len(c) = P
    BY <1>1, <2>2, LongSeq
  <2> QED BY <2>3 DEF c
<1> HIDE DEF code
<1>3. codes \in [1 .. s.h -> Seq(Int)] /\ \A i \in 1 .. s.h : Len(codes[i]) = P
  BY <1>2
<1>4. s.filters \in [1 .. s.h -> Int]
  <2>1. \A i \in 1 .. s.h : s.filters[i] \in Int
    <3>1. \A i \in 1 .. s.h : s.filters[i] \in 0 .. 4
      BY <1>1
    <3> QED BY <3>1
  <2> QED BY <1>1, <2>1
<1>5. raw = Behind(s.filters, codes)
  <2>1. DOMAIN s.lines = 1 .. s.h
    BY <1>1
  <2>2. raw = Joins!FlattenSeq([i \in 1 .. s.h |-> <<s.filters[i]>> \o code(i)])
    BY <2>1 DEF Stream, code
  <2>3. [i \in 1 .. s.h |-> <<s.filters[i]>> \o code(i)] = [i \in 1 .. s.h |-> <<s.filters[i]>> \o codes[i]]
    OBVIOUS
  <2>4. DOMAIN codes = 1 .. s.h
    OBVIOUS
  <2> HIDE DEF codes
  <2> QED BY <2>2, <2>3, <2>4 DEF Behind
<1>6. l + 1 \in 1 .. s.h /\ codes[l + 1] = code(l + 1)
  BY <1>1
<1>7. Filter(raw, P, l) = s.filters[l + 1] /\ Line(raw, P, l) = codes[l + 1]
  <2>1. PICK h, pitch, fl, cd, r : h = s.h /\ pitch = P /\ fl = s.filters /\ cd = codes /\ r = raw
    OBVIOUS
  <2> HIDE DEF codes, P
  <2>2. Lined(r, h, pitch, fl, cd)
    BY <1>1, <1>3, <1>4, <1>5, <2>1 DEF Lined
  <2>3. PICK m \in 0 .. h - 1 : m = l
    BY <2>1
  <2>4. Filter(r, pitch, m) = fl[m + 1] /\ Line(r, pitch, m) = cd[m + 1]
    BY <2>2, FilteredLine
  <2> QED BY <2>1, <2>3, <2>4
<1> QED BY <1>6, <1>7 DEF code

-----------------------------------------------------------------------------
(* The first l lines, and a decoder that has read them.                    *)
FirstLines(s, l)   == Joins!FlattenSeq([i \in 1 .. l |-> Drawn(s, i)])
Reader(prev, pixels) == [refused |-> FALSE, prev |-> prev, img |-> pixels]
ReadSoFar(s, l) == Reader(Up(s, l), FirstLines(s, l))

LEMMA SameFields ==
  ASSUME NEW a, NEW b, DOMAIN a = DOMAIN b, a = [k \in DOMAIN a |-> a[k]], b = [k \in DOMAIN b |-> b[k]], \A k \in DOMAIN a : a[k] = b[k]
  PROVE  a = b
OBVIOUS

Took(reader, decoded, next) == [reader EXCEPT !.prev = decoded, !.img = next]
LEMMA ReaderFields ==
  ASSUME NEW prev, NEW pixels, NEW decoded, NEW next
  PROVE  Took(Reader(prev, pixels), decoded, next) = Reader(decoded, next)
<1>0. PICK a : a = [Reader(prev, pixels) EXCEPT !.prev = decoded, !.img = next]
  OBVIOUS
<1>1. PICK b : b = Reader(decoded, next)
  OBVIOUS
<1>2. DOMAIN a = {"refused", "prev", "img"} /\ DOMAIN b = {"refused", "prev", "img"}
  BY <1>0, <1>1 DEF Reader
<1>3. a["refused"] = FALSE /\ a["prev"] = decoded /\ a["img"] = next
  BY <1>0 DEF Reader
<1>4. b["refused"] = FALSE /\ b["prev"] = decoded /\ b["img"] = next
  BY <1>1 DEF Reader
<1>5. a = [k \in DOMAIN a |-> a[k]]
  BY <1>0 DEF Reader
<1>6. b = [k \in DOMAIN b |-> b[k]]
  BY <1>1 DEF Reader
<1>7. \A k \in DOMAIN a : a[k] = b[k]
  BY <1>2, <1>3, <1>4
<1>8. a = b
  BY <1>2, <1>5, <1>6, <1>7, SameFields
<1> QED BY <1>0, <1>1, <1>8 DEF Took

LEMMA NoLines == ASSUME NEW s PROVE FirstLines(s, 0) = <<>>
<1> DEFINE none == [i \in 1 .. 0 |-> Drawn(s, i)]
<1>1. none = <<>> /\ Len(<<>>) = 0
  OBVIOUS
<1>2. FirstLines(s, 0) = Joins!FlattenSeq(<<>>)
  BY <1>1 DEF FirstLines
<1> QED BY <1>1, <1>2 DEF Joins!FlattenSeq

LEMMA MoreLines ==
  ASSUME NEW s \in Scenes, ~s.odd, NEW l \in 0 .. s.h - 1
  PROVE  FirstLines(s, l + 1) = FirstLines(s, l) \o Drawn(s, l + 1)
<1> DEFINE all == [i \in 1 .. l + 1 |-> Drawn(s, i)]
<1>1. l \in Nat /\ \A i \in 1 .. l + 1 : i \in 1 .. s.h
  BY SceneIs
<1>2. all \in [1 .. l + 1 -> Seq(Tones)]
  BY <1>1, LineColours
<1>3. [i \in 1 .. l |-> all[i]] = [i \in 1 .. l |-> Drawn(s, i)] /\ all[l + 1] = Drawn(s, l + 1)
  <2>1. \A i \in 1 .. l : i \in 1 .. l + 1
    BY <1>1
  <2> QED BY <1>1, <2>1
<1>4. Joins!FlattenSeq(all) = Joins!FlattenSeq([i \in 1 .. l |-> all[i]]) \o all[l + 1]
  <2> HIDE DEF all
  <2> QED BY <1>1, <1>2, JoinedOn
<1> QED BY <1>3, <1>4 DEF FirstLines

(* A decoder takes one more line.                                          *)
LEMMA LineTaken ==
  ASSUME NEW s \in Scenes, ~s.odd, NEW l \in 0 .. s.h - 1, NEW raw, raw = Stream(s.lines, s.filters, Bpp(s))
  PROVE  LET ft == Filter(raw, Pitch(s), l)
             ln == Line(raw, Pitch(s), l)
         IN  /\ ft \in 0 .. 4
             /\ unfilter(ft, ln, Up(s, l), Bpp(s)) = s.lines[l + 1]
             /\ row(ft, ln, Up(s, l), Bpp(s)) = s.lines[l + 1]
<1> DEFINE ft == Filter(raw, Pitch(s), l)
           ln == Line(raw, Pitch(s), l)
<1>1. l + 1 \in 1 .. s.h /\ (l + 1) - 1 = l
  BY SceneIs
<1>2. Pitch(s) \in Nat /\ Bpp(s) \in Nat \ {0} /\ s.lines[l + 1] \in [1 .. Pitch(s) -> Tones] /\ s.filters[l + 1] \in 0 .. 4
  BY <1>1, SceneIs
<1>3. Above(s.lines, l + 1) = Up(s, l) /\ Up(s, l) \in [1 .. Pitch(s) -> Tones]
  BY <1>1, AboveIs
<1>4. ft = s.filters[l + 1] /\ ln = Coded(s.filters[l + 1], s.lines[l + 1], Up(s, l), Bpp(s))
  BY <1>3, StreamLine
<1> HIDE DEF ft, ln
<1>5. unfilter(ft, ln, Up(s, l), Bpp(s)) = s.lines[l + 1]
  <2>1. PICK pitch, bpp, drawn, up, fl : pitch = Pitch(s) /\ bpp = Bpp(s) /\ drawn = s.lines[l + 1] /\ up = Up(s, l) /\ fl = s.filters[l + 1]
    OBVIOUS
  <2>2. /\ pitch \in Nat /\ bpp \in Nat \ {0} /\ drawn \in [1 .. pitch -> Tones] /\ fl \in 0 .. 4
        /\ up \in [1 .. pitch -> Tones]
    BY <1>2, <1>3, <2>1
  <2>3. unfilter(fl, Coded(fl, drawn, up, bpp), up, bpp) = drawn
    BY <2>2, Unfilters
  <2> QED BY <1>4, <2>1, <2>3
<1>6. row(ft, ln, Up(s, l), Bpp(s)) = unfilter(ft, ln, Up(s, l), Bpp(s))
  <2>1. (IF ft \in 1 .. 4 THEN ft ELSE 0) = ft
    BY <1>2, <1>4
  <2> QED BY <2>1 DEF row
<1> QED BY <1>2, <1>4, <1>5, <1>6 DEF ft, ln

(* A snapshot is read in step by both decoders: what each has is the       *)
(* first y lines of the picture.  pngio has refused an odd one, or not yet *)
(* met the line whose filter is odd.                                       *)
OddLine(l) == Filter(Idat(UpToEnd(scene.file)), stride, l) > 4
PngInv ==
  /\ scene \in Scenes /\ y \in 0 .. hdr.h
  /\ step \in {"convert", "open", "lines", "compare", "done", "error"}
  /\ step \in {"convert", "open"} => y = 0
  /\ step \in {"compare", "done"} => y = hdr.h
  /\ step \in {"lines", "compare", "done", "error"} =>
       IF scene.odd THEN pngio.refused \/ (~Refused(hdr) /\ \A l \in 0 .. y - 1 : ~OddLine(l))
       ELSE pngio = ReadSoFar(scene, y) /\ own = ReadSoFar(scene, y)
  /\ step = "error" => scene.odd /\ (pngio.refused \/ y = hdr.h)

LEMMA PngInitInv == PngInit => PngInv
<1> SUFFICES ASSUME PngInit PROVE PngInv
  OBVIOUS
<1>1. scene \in Scenes /\ step = "convert" /\ y = 0
  BY DEF PngInit
<1>2. hdr.h \in Nat
  BY <1>1, SceneAssumption DEF hdr
<1> QED BY <1>1, <1>2 DEF PngInv

LEMMA OpenInv == ASSUME PngInv, Open PROVE PngInv'
<1>1. /\ scene' = scene /\ y' = y /\ y = 0 /\ step' = IF hdr.ct \in {2, 3, 6} THEN "lines" ELSE "error"
      /\ pngio' = IF Refused(hdr) THEN [NoReader EXCEPT !.refused = TRUE] ELSE [NoReader EXCEPT !.prev = Zeros(stride)]
      /\ own' = IF hdr.ct \in {2, 3, 6} THEN [NoReader EXCEPT !.prev = Zeros(stride)] ELSE NoReader
  BY DEF PngInv, Open
<1>2. hdr' = hdr /\ stride' = stride
  BY <1>1 DEF hdr, stride
<1>3. scene \in Scenes /\ hdr.h \in Nat
  BY SceneAssumption DEF PngInv, hdr
<1>4. [NoReader EXCEPT !.refused = TRUE].refused
  BY DEF NoReader
<1>5. CASE scene.odd
  <2>1. pngio'.refused \/ ~Refused(hdr)
    BY <1>1, <1>4
  <2>2. hdr.ct \notin {2, 3, 6} => Refused(hdr)
    BY DEF Refused
  <2>3. y' = 0 /\ \A l \in 0 .. y' - 1 : FALSE
    BY <1>1
  <2>4. (\A l \in 0 .. y - 1 : ~OddLine(l))'
    BY <2>3
  <2>5. (Refused(hdr))' <=> Refused(hdr)
    BY <1>2
  <2>6. step' = "error" => pngio'.refused
    BY <1>1, <2>1, <2>2
  <2>7. step' \in {"lines", "error"} /\ y' \in 0 .. hdr'.h
    BY <1>1, <1>2, <1>3
  <2> QED BY <1>1, <1>3, <1>5, <2>1, <2>4, <2>5, <2>6, <2>7 DEF PngInv
<1>6. CASE ~scene.odd
  <2>1. hdr.ct \in {2, 3, 6} /\ ~Refused(hdr) /\ stride = Pitch(scene)
    BY <1>3, <1>6, SceneIs DEF Refused, hdr, Ct, stride, Pitch
  <2>2. [NoReader EXCEPT !.prev = Zeros(stride)] = ReadSoFar(scene, 0)
    <3>1. FirstLines(scene, 0) = <<>> /\ Up(scene, 0) = Zeros(stride)
      BY <2>1, NoLines DEF Up
    <3>2. [NoReader EXCEPT !.prev = Zeros(stride)] = Reader(Zeros(stride), <<>>)
      <4>1. PICK z, a : z = Zeros(stride) /\ a = [NoReader EXCEPT !.prev = z]
        OBVIOUS
      <4>2. a = Took(Reader(<<>>, <<>>), z, <<>>)
        <5>1. Reader(<<>>, <<>>).img = <<>> /\ NoReader = Reader(<<>>, <<>>)
          BY DEF Reader, NoReader
        <5>2. PICK r : r = Reader(<<>>, <<>>)
          OBVIOUS
        <5>3. [r EXCEPT !.prev = z] = [r EXCEPT !.prev = z, !.img = r.img]
          BY <5>2 DEF Reader
        <5> QED BY <4>1, <5>1, <5>2, <5>3 DEF Took
      <4> QED BY <4>1, <4>2, ReaderFields
    <3> QED BY <3>1, <3>2 DEF ReadSoFar
  <2>3. step' = "lines" /\ pngio' = ReadSoFar(scene, 0) /\ own' = ReadSoFar(scene, 0)
    BY <1>1, <2>1, <2>2
  <2>4. y' \in 0 .. hdr'.h
    BY <1>1, <1>2, <1>3
  <2> QED BY <1>1, <1>3, <1>6, <2>3, <2>4 DEF PngInv
<1> QED BY <1>5, <1>6

LEMMA ReadLineInv == ASSUME PngInv, ReadLine PROVE PngInv'
<1> DEFINE raw  == Idat(UpToEnd(scene.file))
           all  == Idat(scene.file)
           ft   == Filter(raw, stride, y)
           ln == Line(raw, stride, y)
<1>1. /\ scene' = scene /\ step' = "lines" /\ step = "lines" /\ y < hdr.h /\ y' = y + 1
      /\ pngio' = IF pngio.refused THEN pngio
                  ELSE IF ft > 4 THEN [NoReader EXCEPT !.refused = TRUE]
                  ELSE Read(pngio, unfilter(ft, ln, pngio.prev, nch(hdr.ct)))
      /\ own' = Read(own, row(Filter(all, stride, y), Line(all, stride, y), own.prev, nch(hdr.ct)))
  BY DEF ReadLine
<1>2. hdr' = hdr /\ stride' = stride
  BY <1>1 DEF hdr, stride
<1>3. scene \in Scenes /\ hdr.h \in Nat /\ y \in 0 .. hdr.h /\ y \in Nat
  BY SceneAssumption DEF PngInv, hdr
<1>4. y' \in 0 .. hdr'.h
  BY <1>1, <1>2, <1>3
<1>5. CASE scene.odd
  <2>1. pngio.refused \/ (~Refused(hdr) /\ \A l \in 0 .. y - 1 : ~OddLine(l))
    BY <1>1, <1>5 DEF PngInv
  <2>2. OddLine(y) <=> ft > 4
    BY DEF OddLine
  <2>3. pngio'.refused \/ (~pngio.refused /\ ~OddLine(y))
    <3>1. [NoReader EXCEPT !.refused = TRUE].refused
      BY DEF NoReader
    <3> HIDE DEF ft
    <3>2. CASE pngio.refused
      BY <1>1, <3>2
    <3>3. CASE ~pngio.refused
      BY <1>1, <2>2, <3>1, <3>3
    <3> QED BY <3>2, <3>3
  <2>4. \A l \in 0 .. y' - 1 : l \in 0 .. y - 1 \/ l = y
    BY <1>1, <1>3
  <2>5. \A l : OddLine(l)' <=> OddLine(l)
    BY <1>1, <1>2 DEF OddLine
  <2>6. pngio'.refused \/ (~Refused(hdr)' /\ \A l \in 0 .. y' - 1 : ~OddLine(l)')
    BY <1>2, <2>1, <2>3, <2>4, <2>5
  <2> QED BY <1>1, <1>3, <1>4, <1>5, <2>6 DEF PngInv
<1>6. CASE ~scene.odd
  <2>1. y \in 0 .. scene.h - 1 /\ stride = Pitch(scene) /\ nch(hdr.ct) = Bpp(scene) /\ hdr.w = scene.w /\ y + 1 \in 1 .. scene.h
    <3>1. hdr.h = scene.h /\ hdr.w = scene.w /\ nch(hdr.ct) = Bpp(scene)
      BY <1>3, <1>6, SceneIs DEF hdr, Ct
    <3> QED BY <1>1, <1>3, <3>1 DEF stride, Pitch
  <2>2. raw = Stream(scene.lines, scene.filters, Bpp(scene)) /\ all = raw
    BY <1>3, <1>6, SceneIs
  <2>3. pngio = ReadSoFar(scene, y) /\ own = ReadSoFar(scene, y)
    BY <1>1, <1>6 DEF PngInv
  <2>4. pngio.refused = FALSE /\ pngio.prev = Up(scene, y) /\ own.prev = Up(scene, y)
    BY <2>3 DEF ReadSoFar, Reader
  <2> HIDE DEF raw, all
  <2>5. /\ ft \in 0 .. 4
        /\ unfilter(ft, ln, Up(scene, y), Bpp(scene)) = scene.lines[y + 1]
        /\ row(ft, ln, Up(scene, y), Bpp(scene)) = scene.lines[y + 1]
    BY <1>3, <1>6, <2>1, <2>2, LineTaken
  <2>6. pngio' = Read(pngio, scene.lines[y + 1]) /\ own' = Read(own, scene.lines[y + 1])
    <3>1. ~(ft > 4)
      BY <2>5
    <3> HIDE DEF ft, ln
    <3>2. Filter(all, stride, y) = ft /\ Line(all, stride, y) = ln
      BY <2>2 DEF ft, ln
    <3> QED BY <1>1, <2>1, <2>4, <2>5, <3>1, <3>2
  <2>7. Read(ReadSoFar(scene, y), scene.lines[y + 1]) = ReadSoFar(scene, y + 1)
    <3>1. Rgb(scene.file, scene.w, scene.lines[y + 1]) = Drawn(scene, y + 1)
      BY <1>3, <1>6, <2>1, LineColours
    <3>2. FirstLines(scene, y + 1) = FirstLines(scene, y) \o Drawn(scene, y + 1)
      BY <1>3, <1>6, <2>1, MoreLines
    <3>3. Up(scene, y + 1) = scene.lines[y + 1]
      BY <1>3 DEF Up
    <3>4. Read(ReadSoFar(scene, y), scene.lines[y + 1]) = [ReadSoFar(scene, y) EXCEPT !.prev = scene.lines[y + 1], !.img = @ \o Drawn(scene, y + 1)]
      BY <2>1, <3>1 DEF Read
    <3>5. @ = Reader(scene.lines[y + 1], FirstLines(scene, y) \o Drawn(scene, y + 1))
      <4>1. PICK r, d, more : r = ReadSoFar(scene, y) /\ d = scene.lines[y + 1] /\ more = Drawn(scene, y + 1)
        OBVIOUS
      <4>2. PICK up, pixels : up = Up(scene, y) /\ pixels = FirstLines(scene, y)
        OBVIOUS
      <4>3. r = Reader(up, pixels) /\ r.img = pixels
        BY <4>1, <4>2 DEF ReadSoFar, Reader
      <4>4. PICK next : next = pixels \o more
        OBVIOUS
      <4>5. [r EXCEPT !.prev = d, !.img = @ \o more] = [r EXCEPT !.prev = d, !.img = next]
        BY <4>3, <4>4
      <4>6. Took(r, d, next) = Reader(d, next)
        BY <4>3, ReaderFields
      <4> QED BY <4>1, <4>2, <4>4, <4>5, <4>6 DEF Took
    <3> QED BY <3>2, <3>3, <3>4, <3>5 DEF ReadSoFar
  <2>8. pngio' = ReadSoFar(scene, y + 1) /\ own' = ReadSoFar(scene, y + 1)
    BY <2>3, <2>6, <2>7
  <2>9. pngio' = ReadSoFar(scene', y') /\ own' = ReadSoFar(scene', y')
    BY <1>1, <2>8
  <2> QED BY <1>1, <1>3, <1>4, <1>6, <2>9 DEF PngInv
<1> QED BY <1>5, <1>6

LEMMA PngStep == ASSUME PngInv, [PngNext]_pngVars PROVE PngInv'
<1>1. ASSUME UNCHANGED <<scene, y, pngio, own>>,
             step' \in {"convert", "open", "lines", "compare", "done", "error"},
             step' \in {"convert", "open"} => y = 0,
             step' \in {"compare", "done"} => y = hdr.h,
             step' \in {"lines", "compare", "done", "error"} => step \in {"lines", "compare", "done", "error"},
             step' = "error" => scene.odd /\ (pngio.refused \/ y = hdr.h)
      PROVE  PngInv'
  <2>1. hdr' = hdr /\ stride' = stride /\ (Refused(hdr)' <=> Refused(hdr))
    BY <1>1 DEF hdr, stride
  <2>2. \A l : OddLine(l)' <=> OddLine(l)
    BY <1>1, <2>1 DEF OddLine
  <2> QED BY <1>1, <2>1, <2>2 DEF PngInv
<1>2. CASE Convert
  <2>1. step = "convert" /\ step' = "open" /\ UNCHANGED <<scene, y, pngio, own>>
    BY <1>2 DEF Convert
  <2> QED BY <1>1, <2>1 DEF PngInv
<1>3. CASE Frame
  <2>1. step = "lines" /\ y = hdr.h /\ step' = "compare" /\ UNCHANGED <<scene, y, pngio, own>>
    BY <1>3 DEF Frame
  <2> QED BY <1>1, <2>1 DEF PngInv
<1>4. CASE Comparing
  <2>1. step = "compare" /\ UNCHANGED <<scene, y, pngio, own>> /\ y = hdr.h
    BY <1>4 DEF Comparing, PngInv
  <2>2. step' = IF <<scene.w, scene.h>> = <<hdr.w, hdr.h>> THEN "done" ELSE "error"
    BY <1>4 DEF Comparing
  <2>3. ~scene.odd => <<scene.w, scene.h>> = <<hdr.w, hdr.h>>
    BY SceneIs DEF PngInv, hdr
  <2> QED BY <1>1, <2>1, <2>2, <2>3 DEF PngInv
<1>5. CASE UNCHANGED pngVars
  <2>1. UNCHANGED <<scene, y, pngio, own, step>>
    BY <1>5 DEF pngVars
  <2> QED BY <1>1, <2>1 DEF PngInv
<1> QED BY <1>2, <1>3, <1>4, <1>5, OpenInv, ReadLineInv DEF PngNext

LEMMA PictureTold == ASSUME PngInv PROVE PictureRead
<1>1. scene \in Scenes /\ hdr.h \in Nat /\ y \in Nat
  BY SceneAssumption DEF PngInv, hdr
<1>2. ASSUME step = "done", ~scene.odd PROVE pngio.img = scene.shot /\ own.img = scene.shot
  <2>1. y = scene.h /\ pngio = ReadSoFar(scene, y) /\ own = ReadSoFar(scene, y)
    BY <1>1, <1>2, SceneIs DEF PngInv, hdr
  <2>2. scene.shot = FirstLines(scene, scene.h)
    <3>1. DOMAIN scene.lines = 1 .. scene.h
      BY <1>1, <1>2, SceneIs
    <3>2. scene.shot = Shown(scene.lines, PaletteOf(scene), Ct(scene), scene.w)
      BY <1>1, <1>2, SceneIs
    <3> QED BY <3>1, <3>2 DEF Shown, FirstLines, Drawn
  <2> QED BY <2>1, <2>2 DEF ReadSoFar, Reader
<1>3. ASSUME step \in {"done", "error"}, scene.odd, ~pngio.refused PROVE <<scene.w, scene.h>> # <<hdr.w, hdr.h>>
  <2>1. y = hdr.h /\ ~Refused(hdr) /\ \A l \in 0 .. hdr.h - 1 : ~OddLine(l)
    BY <1>3 DEF PngInv
  <2>2. Unreadable(scene)
    BY <1>1, <1>3, SceneAssumption
  <2>3. Channels(hdr.ct) = nch(hdr.ct) /\ hdr.bd = 8 /\ hdr.il = 0 /\ hdr.ct \in {2, 3, 6}
    BY <2>1 DEF Refused, Channels, nch
  <2>4. (\E l \in 0 .. hdr.h - 1 : OddLine(l)) \/ hdr.w # scene.w \/ hdr.h # scene.h
    BY <2>2, <2>3 DEF Unreadable, OddLine, Filter, stride, hdr
  <2> QED BY <2>1, <2>4
<1> QED BY <1>2, <1>3 DEF PictureRead

(* Both decoders give back the picture that was encoded, in each colour    *)
(* type and with any filter on each line, and pngio refuses what it cannot *)
(* read (pngio.py 33-34, 80), for any picture of any size.                 *)
THEOREM PictureReadCorrect == PngSpec => []PictureRead
<1>1. PngInit => PngInv
  BY PngInitInv
<1>2. PngInv /\ [PngNext]_pngVars => PngInv'
  BY PngStep
<1>3. PngInv => PictureRead
  BY PictureTold
<1> QED BY <1>1, <1>2, <1>3, PTL DEF PngSpec

-----------------------------------------------------------------------------
(* The parts of a finite set: their sizes add up to its own.  By the least  *)
(* set of parts whose sum would differ.                                     *)
LEMMA PartsAddUp ==
  ASSUME NEW S, IsFiniteSet(S), NEW part, NEW counts,
         counts = [c \in {part[p] : p \in S} |-> Cardinality({p \in S : part[p] = c})]
  PROVE  FoldFunction(+, 0, counts) = Cardinality(S)
<1> DEFINE D == {part[p] : p \in S}
           Within(t) == {p \in S : part[p] \in t}
           One(t) == CHOOSE x \in t : TRUE
           Is(f) == f = [t \in SUBSET D |-> IF t = {} THEN 0 ELSE counts[One(t)] + f[t \ {One(t)}]]
           iter == CHOOSE f : Is(f)
           g == [t \in SUBSET D |-> Cardinality(Within(t))]
<1>1. FoldFunction(+, 0, counts) = iter[D]
  <2>1. DOMAIN counts = D
    OBVIOUS
  <2> QED BY <2>1 DEF FoldFunction, FoldFunctionOnSet, MapThenFoldSet
<1>2. IsFiniteSet(D)
  <2> DEFINE f == [p \in S |-> part[p]]
  <2>1. f \in Surjection(S, D)
    BY DEF Surjection
  <2> HIDE DEF f, D
  <2> QED BY <2>1, FS_Surjection
<1>3. ASSUME NEW t \in SUBSET D PROVE IsFiniteSet(Within(t)) /\ Cardinality(Within(t)) \in Nat
  <2>1. Within(t) \in SUBSET S
    OBVIOUS
  <2> HIDE DEF Within, D
  <2> QED BY <2>1, FS_Subset, FS_CardinalityType
<1>4. ASSUME NEW t \in SUBSET D, t # {}
      PROVE  /\ One(t) \in t /\ t \ {One(t)} \in SUBSET D
             /\ Cardinality(Within(t)) = counts[One(t)] + Cardinality(Within(t \ {One(t)}))
  <2>1. One(t) \in t
    <3> HIDE DEF D, Within, g, iter, Is
    <3> QED BY <1>4
  <2>2. PICK x : x = One(t)
    OBVIOUS
  <2> HIDE DEF One
  <2>3. x \in D /\ t \ {x} \in SUBSET D /\ {x} \in SUBSET D
    BY <2>1, <2>2
  <2>4. counts[x] = Cardinality(Within({x}))
    <3>1. counts[x] = Cardinality({p \in S : part[p] = x})
      BY <2>3
    <3>2. {p \in S : part[p] = x} = Within({x})
      OBVIOUS
    <3> QED BY <3>1, <3>2
  <2>5. Within({x}) \cup Within(t \ {x}) = Within(t) /\ Within({x}) \cap Within(t \ {x}) = {}
    BY <2>1, <2>2
  <2> HIDE DEF Within, D
  <2>6. Cardinality(Within(t)) = Cardinality(Within({x})) + Cardinality(Within(t \ {x})) - Cardinality({})
    BY <1>3, <2>3, <2>5, FS_Union
  <2>7. Cardinality(Within({x})) \in Nat /\ Cardinality(Within(t \ {x})) \in Nat /\ Cardinality({}) = 0
    BY <1>3, <2>3, FS_EmptySet
  <2> QED BY <2>1, <2>2, <2>3, <2>4, <2>6, <2>7
<1>5. Cardinality(Within({})) = 0
  <2>1. Within({}) = {}
    OBVIOUS
  <2> QED BY <2>1, FS_EmptySet
<1>6. Is(g)
  <2>1. ASSUME NEW t \in SUBSET D
        PROVE  Cardinality(Within(t)) = IF t = {} THEN 0 ELSE counts[One(t)] + g[t \ {One(t)}]
    <3>1. t # {} => g[t \ {One(t)}] = Cardinality(Within(t \ {One(t)}))
      <4> HIDE DEF D, Within, One
      <4> QED BY <1>4
    <3> HIDE DEF D, Within, One, g
    <3> QED BY <1>4, <1>5, <3>1
  <2> HIDE DEF D, Within, One
  <2> QED BY <2>1
<1>7. Is(iter)
  <2> HIDE DEF Is, g
  <2> QED BY <1>6
<1>8. ASSUME NEW t \in SUBSET D PROVE iter[t] = IF t = {} THEN 0 ELSE counts[One(t)] + iter[t \ {One(t)}]
  <2> HIDE DEF iter, D, One
  <2> QED BY <1>7
<1>9. ASSUME NEW t \in SUBSET D PROVE g[t] = Cardinality(Within(t))
  OBVIOUS
<1> HIDE DEF iter, g, Is
<1> DEFINE Bad == {t \in SUBSET D : iter[t] # Cardinality(Within(t))}
           Sizes == {Cardinality(t) : t \in Bad}
<1>10. ASSUME NEW t \in SUBSET D PROVE IsFiniteSet(t) /\ Cardinality(t) \in Nat
  <2> HIDE DEF D
  <2> QED BY <1>2, FS_Subset, FS_CardinalityType
<1>11. ASSUME Bad # {} PROVE FALSE
  <2>1. Sizes \subseteq Nat /\ Sizes # {}
    <3> HIDE DEF D, Within
    <3> QED BY <1>10, <1>11
  <2>2. PICK m \in Sizes : \A j \in Sizes : m <= j
    <3> HIDE DEF Sizes
    <3> QED BY <2>1, Least
  <2>3. PICK t \in Bad : Cardinality(t) = m
    OBVIOUS
  <2>4. t \in SUBSET D /\ iter[t] # Cardinality(Within(t))
    OBVIOUS
  <2>5. t # {}
    <3> HIDE DEF D, Within, One
    <3> QED BY <1>5, <1>8, <2>4
  <2>6. PICK r : r = t \ {One(t)}
    OBVIOUS
  <2>7. r \in SUBSET D /\ iter[t] = counts[One(t)] + iter[r] /\ Cardinality(Within(t)) = counts[One(t)] + Cardinality(Within(r))
    <3> HIDE DEF D, Within, One
    <3> QED BY <1>4, <1>8, <2>4, <2>5, <2>6
  <2>8. r \notin Bad
    <3>1. Cardinality(r) = Cardinality(t) - 1 /\ Cardinality(t) \in Nat
      <4> HIDE DEF D, Within, One, Bad
      <4> QED BY <1>4, <1>10, <2>4, <2>5, <2>6, FS_RemoveElement
    <3>2. r \in Bad => Cardinality(r) \in Sizes
      OBVIOUS
    <3> HIDE DEF D, Within, One, Bad, Sizes
    <3> QED BY <2>2, <2>3, <3>1, <3>2
  <2>9. iter[r] = Cardinality(Within(r))
    BY <2>7, <2>8
  <2> HIDE DEF D, Within, One, Bad
  <2> QED BY <2>4, <2>7, <2>9
<1>12. iter[D] = Cardinality(Within(D)) /\ Within(D) = S
  <2>1. D \in SUBSET D /\ D \notin Bad
    BY <1>11
  <2>2. Within(D) = S
    OBVIOUS
  <2> QED BY <2>1, <2>2
<1> QED BY <1>1, <1>12

LEMMA WholeBytes == ASSUME NEW q \in Seq(Tones) PROVE q \in Seq(Int) /\ Len(q) \in Nat /\ \A k \in 1 .. Len(q) : q[k] \in Tones
<1>1. PICK L \in Nat : L = Len(q)
  OBVIOUS
<1>2. q \in [1 .. L -> Tones]
  BY <1>1
<1>3. q = [k \in 1 .. L |-> q[k]] /\ \A k \in 1 .. L : q[k] \in Tones
  BY <1>2
<1>4. \A k \in 1 .. L : q[k] \in Int
  <2>1. \A t \in Tones : t \in Int
    BY DEF Tones
  <2> QED BY <1>3, <2>1
<1>5. q \in [1 .. L -> Int]
  BY <1>3, <1>4
<1> QED BY <1>1, <1>3, <1>5, LongSeq

(* A PPM's three newlines, before the first byte of the picture.           *)
PpmHeaded(d) == d \in Seq(Int) /\ Len(d) >= 8 /\ \A i \in 1 .. 8 : d[i] = NL <=> i \in {3, 6, 8}
LEMMA HeadNewlines ==
  ASSUME NEW d, PpmHeaded(d)
  PROVE  Len(d) \in Nat /\ Newlines(d) \subseteq 1 .. Len(d) /\ {3, 6, 8} \subseteq Newlines(d)
         /\ \A j \in Newlines(d) : j \in {3, 6, 8} \/ j > 8
<1>1. PICK L \in Nat : L = Len(d) /\ L >= 8 /\ DOMAIN d = 1 .. L
  BY DEF PpmHeaded
<1>2. Newlines(d) = {i \in 1 .. L : d[i] = NL}
  BY <1>1 DEF Newlines
<1>3. (\A j \in 1 .. L : j \in 1 .. 8 \/ j > 8) /\ \A j \in 1 .. 8 : j \in 1 .. L
  BY <1>1
<1>4. 3 \in 1 .. 8 /\ 6 \in 1 .. 8 /\ 8 \in 1 .. 8
  OBVIOUS
<1>5. \A i \in 1 .. 8 : d[i] = NL <=> i \in {3, 6, 8}
  BY DEF PpmHeaded
<1> QED BY <1>1, <1>2, <1>3, <1>4, <1>5

LEMMA NewlinePlaces ==
  ASSUME NEW d, PpmHeaded(d)
  PROVE  Newline(d, 1) = 3 /\ Newline(d, 2) = 6 /\ Newline(d, 3) = 8
<1> DEFINE N == Newlines(d)
           Upto(i) == {j \in N : j <= i}
<1>1. Len(d) \in Nat /\ N \subseteq 1 .. Len(d) /\ 3 \in N /\ 6 \in N /\ 8 \in N /\ \A j \in N : j \in {3, 6, 8} \/ j > 8
  BY HeadNewlines
<1> HIDE DEF N
<1>2. Upto(3) = {3} /\ Upto(6) = {3, 6} /\ Upto(8) = {3, 6, 8}
  <2>1. \A j \in N : j \in Int /\ (j <= 3 <=> j = 3) /\ (j <= 6 <=> j \in {3, 6}) /\ (j <= 8 <=> j \in {3, 6, 8})
    <3>1. \A j \in N : j \in Int /\ (j = 3 \/ j = 6 \/ j = 8 \/ j > 8)
      BY <1>1
    <3> QED BY <3>1
  <2> QED BY <1>1, <2>1
<1>3. Cardinality(Upto(3)) = 1 /\ Cardinality(Upto(6)) = 2 /\ Cardinality(Upto(8)) = 3
  <2>1. IsFiniteSet({3}) /\ Cardinality({3}) = 1
    BY FS_Singleton
  <2>2. {3, 6} = {3} \cup {6} /\ {3, 6, 8} = {3, 6} \cup {8}
    OBVIOUS
  <2>3. IsFiniteSet({3, 6}) /\ Cardinality({3, 6}) = 2
    <3>1. 6 \notin {3}
      OBVIOUS
    <3>2. IsFiniteSet({3} \cup {6}) /\ Cardinality({3} \cup {6}) = 1 + 1
      BY <2>1, <3>1, FS_AddElement
    <3>3. 1 + 1 = 2
      OBVIOUS
    <3>4. {3} \cup {6} = {3, 6}
      OBVIOUS
    <3> QED BY <3>2, <3>3, <3>4, Zenon
  <2>4. IsFiniteSet({3, 6, 8}) /\ Cardinality({3, 6, 8}) = 3
    <3>1. PICK both : both = {3, 6}
      OBVIOUS
    <3>2. 8 \notin both /\ {3, 6, 8} = both \cup {8}
      BY <3>1
    <3>3. IsFiniteSet(both) /\ Cardinality(both) = 2
      BY <2>3, <3>1
    <3>4. IsFiniteSet(both \cup {8}) /\ Cardinality(both \cup {8}) = 3
      <4>1. /\ IsFiniteSet(both \cup {8})
            /\ Cardinality(both \cup {8}) = IF 8 \in both THEN Cardinality(both) ELSE Cardinality(both) + 1
        BY <3>3, FS_AddElement
      <4> QED BY <3>2, <3>3, <4>1
    <3> QED BY <3>2, <3>4
  <2> QED BY <1>2, <2>1, <2>3, <2>4
<1>4. ASSUME NEW i \in N, i \notin {3, 6, 8} PROVE Cardinality(Upto(i)) >= 4
  <2>1. i > 8 /\ i \in 1 .. Len(d)
    BY <1>1, <1>4
  <2>a. \A j \in N : j \in Int
    BY <1>1
  <2>2. Upto(8) \cup {i} \in SUBSET Upto(i)
    <3>1. \A j \in N : j <= 8 => j <= i
      BY <2>1, <2>a
    <3>2. i <= i
      BY <2>1
    <3> QED BY <3>1, <3>2
  <2>3. Upto(i) \in SUBSET (1 .. Len(d)) /\ Upto(8) \in SUBSET (1 .. Len(d)) /\ i \notin Upto(8)
    <3>1. ~(i <= 8)
      BY <2>1
    <3> QED BY <1>1, <3>1
  <2>4. IsFiniteSet(1 .. Len(d))
    BY <1>1, FS_Interval
  <2> HIDE DEF Upto
  <2>5. IsFiniteSet(Upto(i)) /\ IsFiniteSet(Upto(8)) /\ Cardinality(Upto(i)) \in Nat
    BY <2>3, <2>4, FS_Subset, FS_CardinalityType
  <2>6. Cardinality(Upto(8) \cup {i}) = 3 + 1
    BY <1>3, <2>3, <2>5, FS_AddElement
  <2>7. Cardinality(Upto(8) \cup {i}) <= Cardinality(Upto(i))
    BY <2>2, <2>5, FS_Subset
  <2> QED BY <2>5, <2>6, <2>7
<1>5. \A i \in N : /\ Cardinality(Upto(i)) = 1 <=> i = 3
                   /\ Cardinality(Upto(i)) = 2 <=> i = 6
                   /\ Cardinality(Upto(i)) = 3 <=> i = 8
  <2>1. ASSUME NEW i \in N
        PROVE  /\ Cardinality(Upto(i)) = 1 <=> i = 3
               /\ Cardinality(Upto(i)) = 2 <=> i = 6
               /\ Cardinality(Upto(i)) = 3 <=> i = 8
    <3> HIDE DEF Upto
    <3>1. CASE i \in {3, 6, 8}
      BY <1>3, <3>1
    <3>2. CASE i \notin {3, 6, 8}
      <4>1. Cardinality(Upto(i)) >= 4
        BY <1>4, <3>2
      <4> QED BY <3>2, <4>1
    <3> QED BY <3>1, <3>2
  <2> HIDE DEF Upto
  <2> QED BY <2>1
<1>6. /\ Newline(d, 1) = CHOOSE i \in N : Cardinality(Upto(i)) = 1
      /\ Newline(d, 2) = CHOOSE i \in N : Cardinality(Upto(i)) = 2
      /\ Newline(d, 3) = CHOOSE i \in N : Cardinality(Upto(i)) = 3
  BY DEF Newline, N
<1> HIDE DEF Upto
<1> QED BY <1>1, <1>5, <1>6

(* What ppm2png and diff_frames take from a PPM.                           *)
LEMMA PpmTaken ==
  ASSUME NEW wd \in Nat \ {0, NL}, NEW ht \in Nat \ {0, NL}, NEW rgb \in Seq(Tones), Len(rgb) = wd * ht * 3
  PROVE  Pixels(Ppm(wd, ht, rgb)) = rgb /\ ppm2png(Ppm(wd, ht, rgb)) = write(wd, ht, rgb)
<1> DEFINE head == <<80, 54, NL, wd, ht, NL, 255, NL>>
           d == Ppm(wd, ht, rgb)
<1>1. rgb \in Seq(Int) /\ Len(rgb) \in Nat
  BY WholeBytes
<1>2. head \in Seq(Int) /\ Len(head) = 8 /\ head[3] = NL /\ head[6] = NL /\ head[8] = NL
      /\ head[1] = 80 /\ head[2] = 54 /\ head[4] = wd /\ head[5] = ht /\ head[7] = 255
  BY DEF NL
<1>3. d = head \o rgb
  BY DEF Ppm
<1> HIDE DEF head, d
<1>4. /\ d \in Seq(Int) /\ Len(d) = 8 + Len(rgb)
      /\ (\A i \in 1 .. 8 : d[i] = head[i]) /\ \A k \in 1 .. Len(rgb) : d[8 + k] = rgb[k]
  <2>1. PICK a \in Seq(Int), b \in Seq(Int) : a = head /\ b = rgb
    BY <1>1, <1>2
  <2>2. a \o b \in Seq(Int) /\ Len(a \o b) = Len(a) + Len(b) /\ (\A k \in 1 .. Len(a) : (a \o b)[k] = a[k])
        /\ \A k \in 1 .. Len(b) : (a \o b)[Len(a) + k] = b[k]
    BY Concatenated
  <2>3. d = a \o b /\ Len(a) = 8 /\ b = rgb /\ a = head
    BY <1>2, <1>3, <2>1
  <2> QED BY <2>2, <2>3
<1>5. Newline(d, 1) = 3 /\ Newline(d, 2) = 6 /\ Newline(d, 3) = 8
  <2>1. \A i \in 1 .. 8 : d[i] = NL <=> i \in {3, 6, 8}
    <3>1. ASSUME NEW i \in 1 .. 8 PROVE d[i] = NL <=> i \in {3, 6, 8}
      <4>1. i = 1 \/ i = 2 \/ i = 3 \/ i = 4 \/ i = 5 \/ i = 6 \/ i = 7 \/ i = 8
        OBVIOUS
      <4>2. d[i] = head[i]
        BY <1>4
      <4> QED BY <1>2, <4>1, <4>2 DEF NL
    <3> QED BY <3>1
  <2>2. Len(d) >= 8
    BY <1>1, <1>4
  <2>3. PpmHeaded(d)
    <3>1. d \in Seq(Int)
      BY <1>4
    <3> QED BY <2>1, <2>2, <3>1 DEF PpmHeaded
  <2> QED BY <2>3, NewlinePlaces
<1>6. Pixels(d) = rgb
  <2>1. Pixels(d) = SubSeq(d, 9, Len(d))
    <3>1. (IF Len(d) < Len(d) THEN Len(d) ELSE Len(d)) = Len(d)
      OBVIOUS
    <3>2. Newline(d, 3) + 1 = 9
      BY <1>5
    <3>3. Pixels(d) = SubSeq(d, Newline(d, 3) + 1, IF Len(d) < Len(d) THEN Len(d) ELSE Len(d))
      BY DEF Pixels, Clip
    <3> QED BY <3>1, <3>2, <3>3
  <2>2. PICK L \in Nat : L = Len(rgb)
    BY <1>1
  <2>3. Len(d) = 8 + L /\ 9 = 8 + 1
    BY <1>4, <2>2
  <2>4. SubSeq(d, 8 + 1, 8 + L) \in Seq(Int) /\ Len(SubSeq(d, 8 + 1, 8 + L)) = L /\ \A k \in 1 .. L : SubSeq(d, 8 + 1, 8 + L)[k] = d[8 + k]
    <3>1. PICK o \in Nat, c \in Seq(Int) : o = 8 /\ c = d
      BY <1>4
    <3>2. o + L <= Len(c)
      BY <2>3, <3>1
    <3>3. SubSeq(c, o + 1, o + L) \in Seq(Int) /\ Len(SubSeq(c, o + 1, o + L)) = L /\ \A k \in 1 .. L : SubSeq(c, o + 1, o + L)[k] = c[o + k]
      BY <3>2, Cut
    <3> QED BY <3>1, <3>3
  <2>5. PICK p : p = SubSeq(d, 8 + 1, 8 + L)
    OBVIOUS
  <2>6. p \in Seq(Int) /\ Len(p) = Len(rgb) /\ \A k \in 1 .. Len(p) : p[k] = rgb[k]
    BY <1>4, <2>2, <2>4, <2>5
  <2>7. p = rgb
    BY <1>1, <2>6, SameSeq
  <2> QED BY <2>1, <2>3, <2>5, <2>7
<1>7. Width(d) = wd /\ Height(d) = ht
  <2>1. d[3 + 1] = wd /\ d[3 + 2] = ht
    BY <1>2, <1>4
  <2> QED BY <1>5, <2>1 DEF Width, Height
<1>8. Clip(rgb, 1, wd * ht * 3) = rgb
  <2>1. PICK L \in Nat : L = Len(rgb)
    BY <1>1
  <2>2. Clip(rgb, 1, wd * ht * 3) = SubSeq(rgb, 1, L)
    BY <2>1 DEF Clip
  <2>3. SubSeq(rgb, 1, L) = rgb
    BY <2>1
  <2> QED BY <2>2, <2>3
<1>9. ppm2png(d) = write(wd, ht, rgb)
  BY <1>6, <1>7, <1>8 DEF ppm2png
<1> QED BY <1>6, <1>9 DEF d

(* A sequence cut into lines of one length, and joined again.              *)
LEMMA Further ==
  ASSUME NEW T, NEW q \in Seq(T), NEW a \in Nat, NEW b \in Nat, a + b <= Len(q)
  PROVE  SubSeq(q, 1, a + b) = SubSeq(q, 1, a) \o SubSeq(q, a + 1, a + b)
<1>1. SubSeq(q, 0 + 1, 0 + (a + b)) \in Seq(T) /\ Len(SubSeq(q, 0 + 1, 0 + (a + b))) = a + b
      /\ \A k \in 1 .. a + b : SubSeq(q, 0 + 1, 0 + (a + b))[k] = q[0 + k]
  <2>1. a + b \in Nat /\ 0 + (a + b) <= Len(q)
    OBVIOUS
  <2> QED BY <2>1, Cut
<1>2. SubSeq(q, 0 + 1, 0 + a) \in Seq(T) /\ Len(SubSeq(q, 0 + 1, 0 + a)) = a
      /\ \A k \in 1 .. a : SubSeq(q, 0 + 1, 0 + a)[k] = q[0 + k]
  <2>1. 0 + a <= Len(q)
    OBVIOUS
  <2> QED BY <2>1, Cut
<1>3. SubSeq(q, a + 1, a + b) \in Seq(T) /\ Len(SubSeq(q, a + 1, a + b)) = b
      /\ \A k \in 1 .. b : SubSeq(q, a + 1, a + b)[k] = q[a + k]
  BY Cut
<1>4. PICK u, v, z : u = SubSeq(q, 1, a + b) /\ v = SubSeq(q, 1, a) /\ z = SubSeq(q, a + 1, a + b)
  OBVIOUS
<1>5. u \in Seq(T) /\ Len(u) = a + b /\ \A k \in 1 .. a + b : u[k] = q[k]
  <2>1. 0 + 1 = 1 /\ 0 + (a + b) = a + b /\ \A k \in 1 .. a + b : 0 + k = k
    OBVIOUS
  <2> QED BY <1>1, <1>4, <2>1
<1>6. v \in Seq(T) /\ Len(v) = a /\ \A k \in 1 .. a : v[k] = q[k]
  <2>1. 0 + 1 = 1 /\ 0 + a = a /\ \A k \in 1 .. a : 0 + k = k
    OBVIOUS
  <2> QED BY <1>2, <1>4, <2>1
<1>7. z \in Seq(T) /\ Len(z) = b /\ \A k \in 1 .. b : z[k] = q[a + k]
  BY <1>3, <1>4
<1>8. v \o z \in Seq(T) /\ Len(v \o z) = a + b /\ (\A k \in 1 .. a : (v \o z)[k] = v[k]) /\ \A k \in 1 .. b : (v \o z)[a + k] = z[k]
  <2>1. v \o z \in Seq(T) /\ Len(v \o z) = Len(v) + Len(z) /\ (\A k \in 1 .. Len(v) : (v \o z)[k] = v[k])
        /\ \A k \in 1 .. Len(z) : (v \o z)[Len(v) + k] = z[k]
    <3>1. PICK d \in Seq(T), e \in Seq(T) : d = v /\ e = z
      BY <1>6, <1>7
    <3>2. d \o e \in Seq(T) /\ Len(d \o e) = Len(d) + Len(e) /\ (\A k \in 1 .. Len(d) : (d \o e)[k] = d[k])
          /\ \A k \in 1 .. Len(e) : (d \o e)[Len(d) + k] = e[k]
      BY Concatenated
    <3> QED BY <3>1, <3>2
  <2> QED BY <1>6, <1>7, <2>1
<1>9. ASSUME NEW k \in 1 .. a + b PROVE u[k] = (v \o z)[k]
  <2>1. CASE k <= a
    <3>1. k \in 1 .. a
      BY <2>1
    <3> QED BY <1>5, <1>6, <1>8, <3>1
  <2>2. CASE k > a
    <3>1. k - a \in 1 .. b /\ a + (k - a) = k
      BY <2>2
    <3>2. PICK j \in 1 .. b : j = k - a /\ a + j = k
      BY <3>1
    <3>3. u[a + j] = z[j]
      BY <1>5, <1>7, <3>2
    <3>4. (v \o z)[a + j] = z[j]
      BY <1>8
    <3> QED BY <3>2, <3>3, <3>4
  <2>3. k <= a \/ k > a
    OBVIOUS
  <2> QED BY <2>1, <2>2, <2>3
<1>10. PICK c : c = v \o z
  OBVIOUS
<1>11. c \in Seq(T) /\ Len(u) = Len(c) /\ \A k \in 1 .. Len(u) : u[k] = c[k]
  BY <1>5, <1>8, <1>9, <1>10
<1>12. u = c
  BY <1>5, <1>11, SameSeq
<1> QED BY <1>4, <1>10, <1>12

LEMMA LinesOf ==
  ASSUME NEW h \in Nat, NEW K \in Nat, NEW l \in 1 .. h
  PROVE  /\ (l - 1) * K \in Nat /\ (l - 1) * K + K = l * K /\ l * K \in Nat /\ l * K <= h * K
<1>1. PICK a \in Nat, b \in Nat : l = a + 1 /\ h = a + 1 + b
  <2>1. l - 1 \in Nat /\ h - l \in Nat /\ l = (l - 1) + 1 /\ h = (l - 1) + 1 + (h - l)
    OBVIOUS
  <2> QED BY <2>1
<1>2. PICK p \in Nat, q \in Nat : p = a * K /\ q = b * K
  OBVIOUS
<1>3. (a + 1) * K = p + K /\ (a + 1 + b) * K = p + K + q
  BY <1>2
<1>4. (l - 1) * K = p /\ l * K = p + K /\ h * K = p + K + q
  BY <1>1, <1>2, <1>3
<1> QED BY <1>4

Rows(q, h, K) == [l \in 1 .. h |-> SubSeq(q, (l - 1) * K + 1, l * K)]
LEMMA CutAndJoined ==
  ASSUME NEW T, NEW h \in Nat, NEW K \in Nat, NEW q \in Seq(T), Len(q) = h * K
  PROVE  /\ Rows(q, h, K) \in [1 .. h -> Seq(T)] /\ \A l \in 1 .. h : Len(Rows(q, h, K)[l]) = K
         /\ Joins!FlattenSeq(Rows(q, h, K)) = q
<1> DEFINE rows == [l \in 1 .. h |-> SubSeq(q, (l - 1) * K + 1, l * K)]
           f == [i \in 0 .. h |-> SubSeq(q, 1, i * K)]
<1>1. ASSUME NEW l \in 1 .. h
      PROVE  /\ rows[l] \in Seq(T) /\ Len(rows[l]) = K
             /\ SubSeq(q, 1, l * K) = SubSeq(q, 1, (l - 1) * K) \o rows[l]
  <2>1. PICK o \in Nat : o = (l - 1) * K /\ o + K = l * K /\ o + K <= Len(q)
    BY LinesOf
  <2>2. rows[l] = SubSeq(q, o + 1, o + K)
    BY <2>1
  <2>3. SubSeq(q, o + 1, o + K) \in Seq(T) /\ Len(SubSeq(q, o + 1, o + K)) = K
    BY <2>1, Cut
  <2>4. SubSeq(q, 1, o + K) = SubSeq(q, 1, o) \o SubSeq(q, o + 1, o + K)
    BY <2>1, Further
  <2> HIDE DEF rows
  <2> QED BY <2>1, <2>2, <2>3, <2>4
<1>2. rows \in [1 .. h -> Seq(T)]
  <2>1. rows = [l \in 1 .. h |-> rows[l]]
    OBVIOUS
  <2> HIDE DEF rows
  <2> QED BY <1>1, <2>1
<1>3. Joining(f, h, T, rows)
  <2>1. ASSUME NEW i \in 0 .. h PROVE SubSeq(q, 1, i * K) \in Seq(T)
    <3>1. PICK o \in Nat : o = i * K /\ o <= Len(q)
      <4>1. CASE i = 0
        <5>1. 0 * K = 0 /\ Len(q) \in Nat
          OBVIOUS
        <5> QED BY <4>1, <5>1
      <4>2. CASE i # 0
        <5>1. i \in 1 .. h
          BY <4>2
        <5>2. i * K \in Nat /\ i * K <= h * K
          BY <5>1, LinesOf
        <5> QED BY <5>2
      <4> QED BY <4>1, <4>2
    <3>2. SubSeq(q, 0 + 1, 0 + o) \in Seq(T)
      <4>1. 0 + o <= Len(q)
        BY <3>1
      <4> QED BY <4>1, Cut
    <3>3. 0 + 1 = 1 /\ 0 + o = i * K
      BY <3>1
    <3> QED BY <3>2, <3>3
  <2>2. SubSeq(q, 1, 0 * K) = <<>> /\ 0 \in 0 .. h
    <3>1. 0 * K = 0
      OBVIOUS
    <3>2. SubSeq(q, 1, 0) = <<>>
      OBVIOUS
    <3> QED BY <3>1, <3>2
  <2>3. ASSUME NEW i \in 1 .. h PROVE f[i] = f[i - 1] \o rows[i]
    <3>1. i \in 0 .. h /\ i - 1 \in 0 .. h
      OBVIOUS
    <3>2. f[i] = SubSeq(q, 1, i * K) /\ f[i - 1] = SubSeq(q, 1, (i - 1) * K)
      BY <3>1
    <3> HIDE DEF f, rows
    <3> QED BY <1>1, <3>2
  <2>4. f \in [0 .. h -> Seq(T)] /\ f[0] = <<>>
    BY <2>1, <2>2
  <2> HIDE DEF f, rows
  <2> QED BY <2>3, <2>4 DEF Joining
<1>4. Joins!FlattenSeq(rows) = f[h]
  <2> HIDE DEF f, rows
  <2> QED BY <1>2, <1>3, JoiningIs
<1>5. f[h] = q
  <2>1. SubSeq(q, 1, Len(q)) = q
    OBVIOUS
  <2> QED BY <2>1
<1>6. rows = Rows(q, h, K)
  BY DEF Rows
<1> HIDE DEF rows, f
<1> QED BY <1>1, <1>2, <1>4, <1>5, <1>6

LEMMA JoinedIn ==
  ASSUME NEW num \in Nat, NEW T, NEW q \in [1 .. num -> Seq(T)]
  PROVE  Joins!FlattenSeq(q) \in Seq(T)
<1>1. PICK f : Joining(f, num, T, q)
  BY Joinable
<1>2. Joins!FlattenSeq(q) = f[num]
  BY <1>1, JoiningIs
<1>3. f \in [0 .. num -> Seq(T)] /\ num \in 0 .. num
  BY <1>1 DEF Joining
<1> QED BY <1>2, <1>3

(* What write() puts into a file is read again: a line without a filter is *)
(* itself.                                                                 *)
LEMMA Unchanged ==
  ASSUME NEW P \in Nat, NEW ln \in [1 .. P -> Tones]
  PROVE  row(0, ln, Zeros(P), 3) = ln
<1>1. PICK up : up = Zeros(P)
  OBVIOUS
<1>2. up \in [1 .. P -> Tones]
  BY <1>1 DEF Zeros, Tones
<1>3. Coded(0, ln, up, 3) = ln
  <2>1. DOMAIN ln = 1 .. P
    OBVIOUS
  <2>2. \A i \in 1 .. P : (ln[i] - Predicted(0, ln, up, 3, i)) % 256 = ln[i]
    <3>1. ASSUME NEW i \in 1 .. P PROVE (ln[i] - Predicted(0, ln, up, 3, i)) % 256 = ln[i]
      <4>1. Predicted(0, ln, up, 3, i) = 0
        BY DEF Predicted
      <4>2. PICK t \in Tones : t = ln[i]
        OBVIOUS
      <4>3. (t - 0) % 256 = t
        BY DEF Tones
      <4> QED BY <4>1, <4>2, <4>3
    <3> QED BY <3>1
  <2>3. Coded(0, ln, up, 3) = [i \in 1 .. P |-> (ln[i] - Predicted(0, ln, up, 3, i)) % 256]
    BY <2>1 DEF Coded
  <2>4. ln = [i \in 1 .. P |-> ln[i]]
    OBVIOUS
  <2> QED BY <2>2, <2>3, <2>4
<1>4. unfilter(0, Coded(0, ln, up, 3), up, 3) = ln
  <2>1. 3 \in Nat \ {0} /\ 0 \in 0 .. 4
    OBVIOUS
  <2> QED BY <1>2, <2>1, Unfilters
<1>5. row(0, ln, up, 3) = unfilter(0, ln, up, 3)
  <2>1. (IF 0 \in 1 .. 4 THEN 0 ELSE 0) = 0
    OBVIOUS
  <2> QED BY <2>1 DEF row
<1> QED BY <1>1, <1>3, <1>4, <1>5

LEMMA WrittenStream ==
  ASSUME NEW wd \in Nat, NEW ht \in Nat, NEW rgb \in Seq(Tones), Len(rgb) = ht * (wd * 3)
  PROVE  Idat(write(wd, ht, rgb)) = Behind([l \in 1 .. ht |-> 0], Rows(rgb, ht, wd * 3))
<1> DEFINE rows == Rows(rgb, ht, wd * 3)
           behind == [l \in 1 .. ht |-> <<0>> \o rows[l]]
           stream == Unfiltered(wd, ht, rgb)
           file == write(wd, ht, rgb)
           pieces == [i \in 1 .. 3 |-> IF i = 2 THEN stream ELSE <<>>]
           f == [i \in 0 .. 3 |-> IF i < 2 THEN <<>> ELSE stream]
<1>1. stream = Joins!FlattenSeq(behind)
  <2>1. ASSUME NEW l \in 1 .. ht
        PROVE  <<0>> \o SubSeq(rgb, (l - 1) * wd * 3 + 1, l * wd * 3) = <<0>> \o rows[l]
    <3>1. (l - 1) * wd * 3 = (l - 1) * (wd * 3) /\ l * wd * 3 = l * (wd * 3)
      <4>1. PICK a \in Int : a = l - 1
        OBVIOUS
      <4>2. a * wd * 3 = a * (wd * 3) /\ l * wd * 3 = l * (wd * 3)
        OBVIOUS
      <4> QED BY <4>1, <4>2
    <3>2. rows[l] = SubSeq(rgb, (l - 1) * (wd * 3) + 1, l * (wd * 3))
      BY DEF Rows
    <3> HIDE DEF rows
    <3> QED BY <3>1, <3>2
  <2>2. [l \in 1 .. ht |-> <<0>> \o SubSeq(rgb, (l - 1) * wd * 3 + 1, l * wd * 3)] = behind
    <3> HIDE DEF rows
    <3> QED BY <2>1
  <2> QED BY <2>2 DEF Unfiltered
<1>2. rows \in [1 .. ht -> Seq(Tones)] /\ DOMAIN rows = 1 .. ht
  <2>1. PICK K \in Nat : K = wd * 3 /\ Len(rgb) = ht * K
    OBVIOUS
  <2>2. Rows(rgb, ht, K) \in [1 .. ht -> Seq(Tones)]
    BY <2>1, CutAndJoined
  <2> QED BY <2>1, <2>2
<1>3. stream = Behind([l \in 1 .. ht |-> 0], rows)
  <2>1. behind = [l \in DOMAIN rows |-> <<[i \in 1 .. ht |-> 0][l]>> \o rows[l]]
    <3> HIDE DEF rows
    <3> QED BY <1>2
  <2> QED BY <1>1, <2>1 DEF Behind
<1>4. behind \in [1 .. ht -> Seq(Int)]
  <2>1. ASSUME NEW l \in 1 .. ht PROVE <<0>> \o rows[l] \in Seq(Int)
    <3>1. PICK q \in Seq(Tones) : q = rows[l]
      <4> HIDE DEF rows
      <4> QED BY <1>2
    <3>2. PICK a \in Seq(Int), b \in Seq(Int) : a = <<0>> /\ b = q
      <4>1. <<0>> \in Seq(Int)
        OBVIOUS
      <4>2. q \in Seq(Int)
        BY WholeBytes
      <4> QED BY <4>1, <4>2
    <3>3. a \o b \in Seq(Int)
      OBVIOUS
    <3> QED BY <3>1, <3>2, <3>3
  <2> HIDE DEF rows
  <2> QED BY <2>1
<1>5. stream \in Seq(Int)
  <2> HIDE DEF behind, stream
  <2> QED BY <1>1, <1>4, JoinedIn
<1>6. /\ DOMAIN file = 1 .. 3 /\ file[1].type = "IHDR" /\ file[3].type = "IEND"
      /\ file[2].type = "IDAT" /\ file[2].body = stream
  <2> HIDE DEF stream
  <2>1. file = <<Header(wd, ht, 8, 2, 0), [type |-> "IDAT", body |-> stream], [type |-> "IEND"]>>
    BY DEF write, stream
  <2>2. PICK a, b, c : a = Header(wd, ht, 8, 2, 0) /\ b = [type |-> "IDAT", body |-> stream] /\ c = [type |-> "IEND"]
    OBVIOUS
  <2>3. a.type = "IHDR" /\ b.type = "IDAT" /\ b.body = stream /\ c.type = "IEND"
    BY <2>2 DEF Header
  <2>4. file = <<a, b, c>>
    BY <2>1, <2>2
  <2> HIDE DEF file
  <2> QED BY <2>3, <2>4
<1>7. Idat(file) = Joins!FlattenSeq(pieces)
  <2> HIDE DEF file, stream
  <2>1. \A i \in 1 .. 3 : (IF file[i].type = "IDAT" THEN file[i].body ELSE <<>>) = IF i = 2 THEN stream ELSE <<>>
    <3>1. \A i \in 1 .. 3 : i = 1 \/ i = 2 \/ i = 3
      OBVIOUS
    <3> QED BY <1>6, <3>1
  <2>2. [i \in DOMAIN file |-> IF file[i].type = "IDAT" THEN file[i].body ELSE <<>>] = pieces
    BY <1>6, <2>1
  <2> QED BY <2>2 DEF Idat
<1>8. Joins!FlattenSeq(pieces) = f[3]
  <2> HIDE DEF stream
  <2>1. pieces \in [1 .. 3 -> Seq(Int)]
    BY <1>5
  <2>2. f \in [0 .. 3 -> Seq(Int)] /\ f[0] = <<>>
    BY <1>5
  <2>3. ASSUME NEW i \in 1 .. 3 PROVE f[i] = f[i - 1] \o pieces[i]
    <3>1. <<>> \o stream = stream /\ stream \o <<>> = stream /\ <<>> \o <<>> = <<>>
      BY <1>5
    <3>2. i = 1 \/ i = 2 \/ i = 3
      OBVIOUS
    <3>3. f[0] = <<>> /\ f[1] = <<>> /\ f[2] = stream /\ f[3] = stream /\ pieces[1] = <<>> /\ pieces[2] = stream /\ pieces[3] = <<>>
      OBVIOUS
    <3>4. 1 - 1 = 0 /\ 2 - 1 = 1 /\ 3 - 1 = 2
      OBVIOUS
    <3> HIDE DEF f, pieces
    <3> QED BY <3>1, <3>2, <3>3, <3>4
  <2> HIDE DEF f, pieces
  <2>4. Joining(f, 3, Int, pieces)
    BY <2>2, <2>3 DEF Joining
  <2> QED BY <2>1, <2>4, JoiningIs
<1>9. f[3] = stream
  OBVIOUS
<1> HIDE DEF f, pieces, stream, file, rows
<1> QED BY <1>3, <1>7, <1>8, <1>9 DEF file, rows

LEMMA PlainLine ==
  ASSUME NEW raw, NEW num, NEW P, NEW filter, NEW code, Lined(raw, num, P, filter, code), NEW l \in 0 .. num - 1,
         filter[l + 1] = 0, code[l + 1] \in Seq(Tones)
  PROVE  row(Filter(raw, P, l), Line(raw, P, l), Zeros(P), 3) = code[l + 1]
<1>1. Filter(raw, P, l) = 0 /\ Line(raw, P, l) = code[l + 1]
  BY FilteredLine
<1>2. P \in Nat /\ Len(code[l + 1]) = P
  <2>1. l + 1 \in 1 .. num
    BY DEF Lined
  <2> QED BY <2>1 DEF Lined
<1>3. code[l + 1] \in [1 .. P -> Tones]
  <2>1. PICK q \in Seq(Tones) : q = code[l + 1] /\ Len(q) = P
    BY <1>2
  <2>2. q \in [1 .. P -> Tones]
    BY <2>1
  <2> QED BY <2>1, <2>2
<1>4. row(0, code[l + 1], Zeros(P), 3) = code[l + 1]
  BY <1>2, <1>3, Unchanged
<1> QED BY <1>1, <1>4

LEMMA WrittenRead ==
  ASSUME NEW wd \in Nat, NEW ht \in Nat, NEW rgb \in Seq(Tones), Len(rgb) = ht * (wd * 3)
  PROVE  FromPng(write(wd, ht, rgb), wd, ht) = rgb
<1> DEFINE raw == Idat(write(wd, ht, rgb))
<1>1. PICK P \in Nat : P = wd * 3 /\ Len(rgb) = ht * P
  OBVIOUS
<1>2. PICK rows : rows = Rows(rgb, ht, P)
  OBVIOUS
<1>3. rows \in [1 .. ht -> Seq(Tones)] /\ (\A l \in 1 .. ht : Len(rows[l]) = P) /\ Joins!FlattenSeq(rows) = rgb
  BY <1>1, <1>2, CutAndJoined
<1>4. PICK fl : fl = [l \in 1 .. ht |-> 0]
  OBVIOUS
<1> HIDE DEF raw
<1>5. raw = Behind(fl, rows)
  BY <1>1, <1>2, <1>4, WrittenStream DEF raw
<1>6. Lined(raw, ht, P, fl, rows)
  <2>1. ASSUME NEW i \in 1 .. ht PROVE rows[i] \in Seq(Int)
    BY <1>3, WholeBytes
  <2>2. rows = [i \in 1 .. ht |-> rows[i]]
    BY <1>3
  <2>3. rows \in [1 .. ht -> Seq(Int)]
    BY <2>1, <2>2
  <2>4. fl \in [1 .. ht -> Int]
    BY <1>4
  <2> QED BY <1>1, <1>3, <1>5, <2>3, <2>4 DEF Lined
<1>7. ASSUME NEW l \in 1 .. ht
      PROVE  row(Filter(raw, P, l - 1), Line(raw, P, l - 1), Zeros(P), 3) = rows[l]
  <2>1. PICK m \in 0 .. ht - 1 : m = l - 1 /\ m + 1 = l
    <3>1. l - 1 \in 0 .. ht - 1 /\ (l - 1) + 1 = l
      OBVIOUS
    <3> QED BY <3>1
  <2>2. fl[m + 1] = 0 /\ rows[m + 1] \in Seq(Tones)
    BY <1>3, <1>4, <2>1
  <2>3. row(Filter(raw, P, m), Line(raw, P, m), Zeros(P), 3) = rows[m + 1]
    BY <1>6, <2>2, PlainLine
  <2> QED BY <2>1, <2>3
<1>8. FromPng(write(wd, ht, rgb), wd, ht) = Joins!FlattenSeq([l \in 1 .. ht |-> row(Filter(raw, P, l - 1), Line(raw, P, l - 1), Zeros(P), 3)])
  BY <1>1 DEF FromPng, raw
<1>9. [l \in 1 .. ht |-> row(Filter(raw, P, l - 1), Line(raw, P, l - 1), Zeros(P), 3)] = rows
  <2>1. rows = [i \in 1 .. ht |-> rows[i]]
    BY <1>3
  <2> QED BY <1>7, <2>1
<1> QED BY <1>3, <1>8, <1>9

-----------------------------------------------------------------------------
(* The bytes of a pixel.                                                   *)
LEMMA BytePlace ==
  ASSUME NEW wd \in Nat \ {0}, NEW ht \in Nat \ {0}, NEW x \in 0 .. wd - 1, NEW l \in 0 .. ht - 1
  PROVE  \E k \in Nat : /\ k = l * wd + x /\ k * 3 + 3 <= wd * ht * 3 /\ k \div wd = l /\ k % wd = x
<1>1. PICK a \in Nat, b \in Nat : a = l * wd /\ b = (ht - l - 1) * wd
  <2>1. l \in Nat /\ ht - l - 1 \in Nat
    OBVIOUS
  <2>2. PICK c \in Nat : c = ht - l - 1
    BY <2>1
  <2>3. l * wd \in Nat /\ c * wd \in Nat
    BY <2>1
  <2> QED BY <2>2, <2>3
<1>2. wd * ht = a + wd + b
  <2>1. PICK c \in Nat, q \in Nat : c = ht - l - 1 /\ q = l /\ ht = q + 1 + c
    <3>1. l \in Nat /\ ht - l - 1 \in Nat /\ ht = l + 1 + (ht - l - 1)
      OBVIOUS
    <3> QED BY <3>1
  <2>2. wd * (q + 1 + c) = q * wd + wd + c * wd
    OBVIOUS
  <2> QED BY <1>1, <2>1, <2>2
<1>3. PICK k \in Nat : k = a + x
  BY <1>1
<1>4. (k * 3) + 3 <= wd * ht * 3
  <2>1. PICK t \in Nat : t = a + wd + b /\ t = wd * ht
    BY <1>1, <1>2
  <2>2. k + 1 <= t
    BY <1>3, <2>1
  <2>3. wd * ht * 3 = t * 3
    BY <2>1
  <2> QED BY <2>2, <2>3
<1>5. k \div wd = l /\ k % wd = x
  <2>1. k = l * wd + x
    BY <1>1, <1>3
  <2> QED BY <2>1
<1> QED BY <1>1, <1>3, <1>4, <1>5

LEMMA ByteOf ==
  ASSUME NEW k \in Nat, NEW j \in 1 .. 3
  PROVE  ((k * 3 + j) - 1) \div 3 = k /\ (((k * 3 + j) - 1) % 3) + 1 = j
OBVIOUS

LEMMA TripletIs ==
  ASSUME NEW S, NEW q \in Seq(S), NEW o \in Nat, o + 3 <= Len(q)
  PROVE  SubSeq(q, o + 1, o + 3) = <<q[o + 1], q[o + 2], q[o + 3]>>
<1> DEFINE a == SubSeq(q, o + 1, o + 3)
           b == <<q[o + 1], q[o + 2], q[o + 3]>>
<1>1. a \in Seq(S) /\ Len(a) = 3 /\ \A k \in 1 .. 3 : a[k] = q[o + k]
  <2>1. PICK L \in Nat : L = 3
    OBVIOUS
  <2>2. /\ SubSeq(q, o + 1, o + L) \in Seq(S) /\ Len(SubSeq(q, o + 1, o + L)) = L
        /\ \A k \in 1 .. L : SubSeq(q, o + 1, o + L)[k] = q[o + k]
    BY <2>1, Cut
  <2> QED BY <2>1, <2>2
<1>2. b \in Seq(S) /\ Len(b) = 3 /\ b[1] = q[o + 1] /\ b[2] = q[o + 2] /\ b[3] = q[o + 3]
  OBVIOUS
<1> HIDE DEF a, b
<1>3. \A k \in 1 .. 3 : k = 1 \/ k = 2 \/ k = 3
  OBVIOUS
<1>4. a = b
  <2>1. \A k \in 1 .. Len(a) : a[k] = b[k]
    BY <1>1, <1>2, <1>3
  <2> QED BY <1>1, <1>2, <2>1, SameSeq
<1> QED BY <1>4 DEF a, b

(* The picture of a report: red where the pixels differ, a third of the    *)
(* frame's tone, which no red is, elsewhere.                               *)
Marked(D, picture, wd, num) ==
  [i \in 1 .. num |-> IF <<((i - 1) \div 3) % wd, ((i - 1) \div 3) \div wd>> \in D
                        THEN <<255, 0, 0>>[1 + ((i - 1) % 3)] ELSE picture[i] \div 3]
LEMMA MarkedByte ==
  ASSUME NEW D, NEW wd \in Nat \ {0}, NEW num \in Nat, NEW picture \in Seq(Tones), Len(picture) = num, NEW i \in 1 .. num
  PROVE  Marked(D, picture, wd, num)[i] \in Tones
<1>1. Marked(D, picture, wd, num)[i] = IF <<((i - 1) \div 3) % wd, ((i - 1) \div 3) \div wd>> \in D
                                          THEN <<255, 0, 0>>[1 + ((i - 1) % 3)] ELSE picture[i] \div 3
  BY DEF Marked
<1>2. picture[i] \in 0 .. 255
  BY WholeBytes DEF Tones
<1>3. PICK t \in 0 .. 255 : t = picture[i]
  BY <1>2
<1>4. t \div 3 \in 0 .. 255
  OBVIOUS
<1>5. PICK m \in 1 .. 3 : m = 1 + ((i - 1) % 3)
  <2>1. 1 + ((i - 1) % 3) \in 1 .. 3
    OBVIOUS
  <2> QED BY <2>1
<1>6. <<255, 0, 0>>[m] \in 0 .. 255
  <2>1. m = 1 \/ m = 2 \/ m = 3
    OBVIOUS
  <2>2. <<255, 0, 0>>[1] = 255 /\ <<255, 0, 0>>[2] = 0 /\ <<255, 0, 0>>[3] = 0
    OBVIOUS
  <2> QED BY <2>1, <2>2
<1> QED BY <1>1, <1>3, <1>4, <1>5, <1>6 DEF Tones

LEMMA MarkedPicture ==
  ASSUME NEW D, NEW wd \in Nat \ {0}, NEW num \in Nat, NEW picture \in Seq(Tones), Len(picture) = num
  PROVE  Marked(D, picture, wd, num) \in Seq(Tones) /\ Len(Marked(D, picture, wd, num)) = num
<1>1. PICK q : q = Marked(D, picture, wd, num)
  OBVIOUS
<1>2. q = [i \in 1 .. num |-> q[i]]
  BY <1>1 DEF Marked
<1>3. \A i \in 1 .. num : q[i] \in Tones
  BY <1>1, MarkedByte
<1>4. q \in [1 .. num -> Tones]
  BY <1>2, <1>3
<1>5. q \in Seq(Tones) /\ Len(q) = num
  BY <1>4
<1> QED BY <1>1, <1>5

Red(picture, k) == SubSeq(picture, k * 3 + 1, k * 3 + 3) = <<255, 0, 0>>
LEMMA RedOrDark ==
  ASSUME NEW D, NEW wd \in Nat \ {0}, NEW num \in Nat, NEW picture \in Seq(Tones), Len(picture) = num,
         NEW k \in Nat, k * 3 + 3 <= num
  PROVE  Red(Marked(D, picture, wd, num), k) <=> <<k % wd, k \div wd>> \in D
<1>1. PICK q \in Seq(Tones) : q = Marked(D, picture, wd, num) /\ Len(q) = num
  BY MarkedPicture
<1>2. PICK o \in Nat : o = k * 3
  OBVIOUS
<1>3. SubSeq(q, o + 1, o + 3) = <<q[o + 1], q[o + 2], q[o + 3]>>
  BY <1>1, <1>2, TripletIs
<1>4. ASSUME NEW j \in 1 .. 3
      PROVE  q[o + j] = IF <<k % wd, k \div wd>> \in D THEN <<255, 0, 0>>[j] ELSE picture[o + j] \div 3
  <2>1. PICK i \in 1 .. num : i = o + j
    <3>1. o + j \in 1 .. num
      BY <1>2
    <3> QED BY <3>1
  <2>2. (i - 1) \div 3 = k /\ 1 + ((i - 1) % 3) = j
    <3>1. ((k * 3 + j) - 1) \div 3 = k /\ (((k * 3 + j) - 1) % 3) + 1 = j
      BY ByteOf
    <3>2. i = k * 3 + j /\ i - 1 \in Nat
      BY <1>2, <2>1
    <3> QED BY <3>1, <3>2
  <2>3. q[i] = IF <<((i - 1) \div 3) % wd, ((i - 1) \div 3) \div wd>> \in D
                 THEN <<255, 0, 0>>[1 + ((i - 1) % 3)] ELSE picture[i] \div 3
    BY <1>1 DEF Marked
  <2> QED BY <2>1, <2>2, <2>3
<1>5. q[o + 1] = (IF <<k % wd, k \div wd>> \in D THEN 255 ELSE picture[o + 1] \div 3)
      /\ (<<k % wd, k \div wd>> \in D => q[o + 2] = 0 /\ q[o + 3] = 0)
  <2>1. 1 \in 1 .. 3 /\ 2 \in 1 .. 3 /\ 3 \in 1 .. 3
    OBVIOUS
  <2>2. <<255, 0, 0>>[1] = 255 /\ <<255, 0, 0>>[2] = 0 /\ <<255, 0, 0>>[3] = 0
    OBVIOUS
  <2> QED BY <1>4, <2>1, <2>2
<1>6. picture[o + 1] \div 3 # 255
  <2>1. o + 1 \in 1 .. num
    BY <1>2
  <2>2. PICK t \in 0 .. 255 : t = picture[o + 1]
    BY <2>1, WholeBytes DEF Tones
  <2>3. t \div 3 # 255
    OBVIOUS
  <2> QED BY <2>2, <2>3
<1>7. <<q[o + 1], q[o + 2], q[o + 3]>> = <<255, 0, 0>> <=> q[o + 1] = 255 /\ q[o + 2] = 0 /\ q[o + 3] = 0
  OBVIOUS
<1> QED BY <1>1, <1>2, <1>3, <1>5, <1>6, <1>7 DEF Red

-----------------------------------------------------------------------------
(* The converted frame is the frame, whichever way it comes, and the       *)
(* report is of the two pictures.                                          *)
Reported ==
  [diff |-> Cardinality(Differ), out |-> write(scene.w, scene.h, Marked(Differ, frame, scene.w, scene.w * scene.h * 3)),
   cells |-> [c \in {CellOf(p) : p \in Differ} |-> Cardinality({p \in Differ : CellOf(p) = c})]]
ReportInv ==
  /\ PngInv
  /\ step # "convert" => converted = write(scene.w, scene.h, scene.frame)
  /\ step \in {"compare", "done"} => frame = scene.frame
  /\ step = "done" => report = Reported

LEMMA FrameIs ==
  ASSUME NEW s \in Scenes
  PROVE  /\ s.w \in Nat \ {0, NL} /\ s.h \in Nat \ {0, NL} /\ s.frame \in Seq(Tones)
         /\ Len(s.frame) = s.w * s.h * 3 /\ Len(s.frame) = s.h * (s.w * 3)
<1>1. s.w \in Nat \ {0, NL} /\ s.h \in Nat \ {0, NL} /\ s.frame \in Seq(Tones) /\ Len(s.frame) = 3 * s.w * s.h
  BY SceneAssumption
<1>2. PICK a \in Nat, b \in Nat : a = s.w /\ b = s.h
  BY <1>1
<1>3. 3 * a * b = a * b * 3 /\ 3 * a * b = b * (a * 3)
  OBVIOUS
<1> QED BY <1>1, <1>2, <1>3

LEMMA ConvertReport == ASSUME ReportInv, Convert, PngInv' PROVE ReportInv'
<1>1. step' = "open" /\ scene' = scene /\ scene \in Scenes /\ converted' = ppm2png(Ppm(scene.w, scene.h, scene.frame))
  BY DEF Convert, ReportInv, PngInv
<1>2. converted' = write(scene.w, scene.h, scene.frame)
  BY <1>1, FrameIs, PpmTaken
<1> QED BY <1>1, <1>2 DEF ReportInv

LEMMA FrameReport == ASSUME ReportInv, Frame, PngInv' PROVE ReportInv'
<1>1. step = "lines" /\ step' = "compare" /\ UNCHANGED <<scene, converted>> /\ scene \in Scenes
      /\ frame' = IF scene.direct THEN Pixels(Ppm(scene.w, scene.h, scene.frame)) ELSE FromPng(converted, scene.w, scene.h)
  BY DEF Frame, ReportInv, PngInv
<1>2. Pixels(Ppm(scene.w, scene.h, scene.frame)) = scene.frame
  BY <1>1, FrameIs, PpmTaken
<1>3. FromPng(converted, scene.w, scene.h) = scene.frame
  <2>1. converted = write(scene.w, scene.h, scene.frame)
    BY <1>1 DEF ReportInv
  <2>2. PICK a \in Nat, b \in Nat, q \in Seq(Tones) : a = scene.w /\ b = scene.h /\ q = scene.frame /\ Len(q) = b * (a * 3)
    BY <1>1, FrameIs
  <2>3. FromPng(write(a, b, q), a, b) = q
    BY <2>2, WrittenRead
  <2> QED BY <2>1, <2>2, <2>3
<1>4. frame' = scene.frame
  BY <1>1, <1>2, <1>3
<1> QED BY <1>1, <1>4 DEF ReportInv

LEMMA ComparingReport == ASSUME ReportInv, Comparing, PngInv' PROVE ReportInv'
<1>1. step = "compare" /\ step' \in {"done", "error"} /\ UNCHANGED <<scene, frame, own, converted>>
  BY DEF Comparing
<1>2. ASSUME step' = "done" PROVE report' = Reported
  <2>1. report' = [diff |-> Cardinality(Differ),
                   out |-> write(scene.w, scene.h, [i \in 1 .. scene.w * scene.h * 3 |->
                             IF <<((i - 1) \div 3) % scene.w, ((i - 1) \div 3) \div scene.w>> \in Differ
                               THEN <<255, 0, 0>>[1 + ((i - 1) % 3)] ELSE frame[i] \div 3]),
                   cells |-> [c \in {CellOf(p) : p \in Differ} |-> Cardinality({p \in Differ : CellOf(p) = c})]]
    BY <1>2 DEF Comparing, Each
  <2> QED BY <2>1 DEF Reported, Marked
<1>3. Reported' = Reported
  <2>1. Differ' = Differ
    BY <1>1 DEF Differ, Pixel
  <2> QED BY <1>1, <2>1 DEF Reported
<1>4. step' = "done" => report' = Reported'
  BY <1>2, <1>3
<1>5. converted' = write(scene.w, scene.h, scene.frame)' /\ frame' = scene'.frame
  BY <1>1 DEF ReportInv
<1> QED BY <1>4, <1>5 DEF ReportInv

LEMMA OtherReport ==
  ASSUME ReportInv, PngInv', Open \/ ReadLine \/ UNCHANGED pngVars
  PROVE  ReportInv'
<1>1. CASE Open
  <2>1. step = "open" /\ step' \in {"lines", "error"} /\ UNCHANGED <<scene, converted>>
    BY <1>1 DEF Open
  <2> QED BY <2>1 DEF ReportInv
<1>2. CASE ReadLine
  <2>1. step = "lines" /\ step' = "lines" /\ UNCHANGED <<scene, converted>>
    BY <1>2 DEF ReadLine
  <2> QED BY <2>1 DEF ReportInv
<1>3. CASE UNCHANGED pngVars
  <2>1. UNCHANGED <<scene, step, frame, converted, own, report>>
    BY <1>3 DEF pngVars
  <2>2. Differ' = Differ
    BY <2>1 DEF Differ, Pixel
  <2>3. Reported' = Reported
    BY <2>1, <2>2 DEF Reported
  <2> QED BY <2>1, <2>3 DEF ReportInv
<1> QED BY <1>1, <1>2, <1>3

LEMMA ReportStep == ASSUME ReportInv, [PngNext]_pngVars PROVE ReportInv'
<1>1. PngInv'
  BY PngStep DEF ReportInv
<1> QED BY <1>1, ConvertReport, FrameReport, ComparingReport, OtherReport DEF PngNext

LEMMA PixelPlace ==
  ASSUME NEW s \in Scenes, NEW p \in (0 .. s.w - 1) \X (0 .. s.h - 1)
  PROVE  \E k \in Nat : /\ k = p[2] * s.w + p[1] /\ k * 3 + 3 <= s.w * s.h * 3
                        /\ k \div s.w = p[2] /\ k % s.w = p[1] /\ <<p[1], p[2]>> = p
<1>1. PICK a \in Nat \ {0}, b \in Nat \ {0} : a = s.w /\ b = s.h
  BY FrameIs
<1>2. PICK x \in 0 .. a - 1, l \in 0 .. b - 1 : x = p[1] /\ l = p[2] /\ <<p[1], p[2]>> = p
  BY <1>1
<1>3. PICK k \in Nat : k = l * a + x /\ k * 3 + 3 <= a * b * 3 /\ k \div a = l /\ k % a = x
  BY BytePlace
<1>4. k = p[2] * s.w + p[1] /\ k * 3 + 3 <= s.w * s.h * 3 /\ k \div s.w = p[2] /\ k % s.w = p[1] /\ <<p[1], p[2]>> = p
  BY <1>1, <1>2, <1>3
<1> QED BY <1>4

LEMMA ReportTold == ASSUME ReportInv PROVE ReportTrue
<1> SUFFICES ASSUME step = "done", ~scene.odd
             PROVE  /\ report.diff = Cardinality(Really)
                    /\ FoldFunction(+, 0, report.cells) = report.diff
                    /\ \A p \in (0 .. scene.w - 1) \X (0 .. scene.h - 1) :
                         Pixel(FromPng(report.out, scene.w, scene.h), p[1], p[2]) = <<255, 0, 0>> <=> p \in Really
  BY DEF ReportTrue
<1>1. scene \in Scenes /\ frame = scene.frame /\ own.img = scene.shot /\ report = Reported
  <2>1. PictureRead
    BY PictureTold DEF ReportInv
  <2> QED BY <2>1 DEF ReportInv, PngInv, PictureRead
<1>2. Differ = Really
  BY <1>1 DEF Differ, Really
<1>3. /\ report.diff = Cardinality(Differ)
      /\ report.out = write(scene.w, scene.h, Marked(Differ, frame, scene.w, scene.w * scene.h * 3))
      /\ report.cells = [c \in {CellOf(p) : p \in Differ} |-> Cardinality({p \in Differ : CellOf(p) = c})]
  BY <1>1 DEF Reported
<1>4. PICK a \in Nat \ {0}, b \in Nat \ {0}, q \in Seq(Tones) :
        a = scene.w /\ b = scene.h /\ q = scene.frame /\ Len(q) = a * b * 3 /\ a * b * 3 = b * (a * 3)
  BY <1>1, FrameIs
<1>5. IsFiniteSet(Differ)
  <2>1. IsFiniteSet(0 .. scene.w - 1) /\ IsFiniteSet(0 .. scene.h - 1)
    <3>1. 0 \in Int /\ a - 1 \in Int /\ b - 1 \in Int
      OBVIOUS
    <3>2. IsFiniteSet(0 .. a - 1) /\ IsFiniteSet(0 .. b - 1)
      BY <3>1, FS_Interval
    <3> QED BY <1>4, <3>2
  <2>2. IsFiniteSet((0 .. scene.w - 1) \X (0 .. scene.h - 1))
    BY <2>1, FS_Product
  <2> QED BY <2>2, FS_Subset DEF Differ
<1>6. FoldFunction(+, 0, report.cells) = Cardinality(Differ)
  <2>1. PICK S, part : S = Differ /\ part = [p \in Differ |-> CellOf(p)]
    OBVIOUS
  <2>2. {part[p] : p \in S} = {CellOf(p) : p \in Differ} /\ \A c : {p \in S : part[p] = c} = {p \in Differ : CellOf(p) = c}
    BY <2>1
  <2>3. PICK counts : counts = report.cells
    OBVIOUS
  <2>4. counts = [c \in {part[p] : p \in S} |-> Cardinality({p \in S : part[p] = c})]
    BY <1>3, <2>2, <2>3
  <2>5. FoldFunction(+, 0, counts) = Cardinality(S)
    <3>1. IsFiniteSet(S)
      BY <1>5, <2>1
    <3> QED BY <2>4, <3>1, PartsAddUp
  <2> QED BY <2>1, <2>3, <2>5
<1>7. PICK num \in Nat : num = a * b * 3
  OBVIOUS
<1>8. PICK r \in Seq(Tones) : r = Marked(Differ, q, a, num) /\ Len(r) = num
  BY <1>4, <1>7, MarkedPicture
<1>9. FromPng(report.out, scene.w, scene.h) = r
  <2>1. report.out = write(a, b, r)
    BY <1>1, <1>3, <1>4, <1>7, <1>8
  <2>2. Len(r) = b * (a * 3)
    BY <1>4, <1>7, <1>8
  <2>3. FromPng(write(a, b, r), a, b) = r
    BY <2>2, WrittenRead
  <2> QED BY <1>4, <2>1, <2>3
<1>10. ASSUME NEW p \in (0 .. scene.w - 1) \X (0 .. scene.h - 1)
       PROVE  Pixel(r, p[1], p[2]) = <<255, 0, 0>> <=> p \in Differ
  <2>1. PICK k \in Nat : /\ k = p[2] * scene.w + p[1] /\ k * 3 + 3 <= scene.w * scene.h * 3
                         /\ k \div scene.w = p[2] /\ k % scene.w = p[1] /\ <<p[1], p[2]>> = p
    BY <1>1, PixelPlace
  <2>2. Pixel(r, p[1], p[2]) = SubSeq(r, k * 3 + 1, k * 3 + 3)
    BY <2>1 DEF Pixel
  <2>3. k * 3 + 3 <= num /\ <<k % a, k \div a>> = p
    BY <1>4, <1>7, <2>1
  <2>4. SubSeq(Marked(Differ, q, a, num), k * 3 + 1, k * 3 + 3) = <<255, 0, 0>> <=> <<k % a, k \div a>> \in Differ
    <3>1. PICK D : D = Differ
      OBVIOUS
    <3>2. Len(q) = num
      BY <1>4, <1>7
    <3>3. Red(Marked(D, q, a, num), k) <=> <<k % a, k \div a>> \in D
      BY <2>3, <3>2, RedOrDark
    <3> QED BY <3>1, <3>3 DEF Red
  <2> QED BY <1>8, <2>2, <2>3, <2>4
<1> QED BY <1>2, <1>3, <1>6, <1>9, <1>10

(* The report counts the pixels that differ, in all and by cell, and paints *)
(* those and no others red, for any frame and any picture (diff_frames.py   *)
(* 53-73): the frame comes through ppm2png and the report's own PNG whole,  *)
(* and a third of a tone is never the red of a mark.                        *)
THEOREM ReportTrueCorrect == PngSpec => []ReportTrue
<1>1. PngInit => ReportInv
  BY PngInitInv DEF PngInit, ReportInv
<1>2. ReportInv /\ [PngNext]_pngVars => ReportInv'
  BY ReportStep
<1>3. ReportInv => ReportTrue
  BY ReportTold
<1> QED BY <1>1, <1>2, <1>3, PTL DEF PngSpec

-----------------------------------------------------------------------------
(* The files that are read: a part that is given has the bytes of one.     *)
FilesRead == \E num \in Nat : DOMAIN parts = 1 .. num /\ \A i \in 1 .. num : parts[i].data \in Seq(FileByte)

LEMMA FirstOf ==
  ASSUME NEW S, S \subseteq Nat, First(S) # 0
  PROVE  First(S) \in S
<1>1. S # {}
  BY DEF First
<1>2. PICK m \in S : \A j \in S : m <= j
  BY <1>1, Least
<1>3. First(S) = CHOOSE i \in S : \A j \in S : i <= j
  BY <1>1 DEF First
<1> QED BY <1>2, <1>3

LEMMA SelectedIs ==
  ASSUME NEW p, FilesRead, Selected(p) # 0
  PROVE  Selected(p) \in DOMAIN parts /\ (p.crc # {} => Wanted(p, Selected(p)))
<1> DEFINE named == {i \in DOMAIN parts : Named(p, i)}
           ours == {i \in named : Wanted(p, i)}
           any == {i \in DOMAIN parts : Wanted(p, i)}
           top == {i \in named : \A j \in named : parts[i].depth <= parts[j].depth}
<1>1. DOMAIN parts \subseteq Nat
  BY DEF FilesRead
<1>2. ours \subseteq Nat /\ any \subseteq Nat /\ top \subseteq Nat
  BY <1>1
<1>3. Selected(p) = IF p.crc = {} THEN First(top) ELSE IF First(ours) # 0 THEN First(ours) ELSE First(any)
  BY DEF Selected, Topmost
<1>4. CASE p.crc = {}
  <2>1. First(top) \in top
    <3> HIDE DEF top
    <3> QED BY <1>2, <1>3, <1>4, FirstOf
  <2> QED BY <1>3, <1>4, <2>1
<1>5. CASE p.crc # {} /\ First(ours) # 0
  <2>1. First(ours) \in ours
    <3> HIDE DEF ours
    <3> QED BY <1>2, <1>5, FirstOf
  <2> QED BY <1>3, <1>5, <2>1
<1>6. CASE p.crc # {} /\ First(ours) = 0
  <2>1. First(any) \in any
    <3> HIDE DEF any
    <3> QED BY <1>2, <1>3, <1>6, FirstOf
  <2> QED BY <1>3, <1>6, <2>1
<1> QED BY <1>4, <1>5, <1>6

LEMMA GotIs == Error.ok = FALSE /\ \A d : Got(d).ok = TRUE /\ Got(d).data = d
BY DEF Error, Got

LEMMA SlicedIs ==
  ASSUME NEW p, p.offset \in Nat, p.length \in Nat \cup {NoLength}, NEW d \in Seq(FileByte), sliced(p, d).ok
  PROVE  sliced(p, d).data \in Seq(FileByte)
<1>1. CASE p.length = NoLength
  <2>1. PICK o \in Nat : o = p.offset
    OBVIOUS
  <2>2. PICK q : q = SubSeq(d, o + 1, Len(d))
    OBVIOUS
  <2>3. sliced(p, d).data = q
    BY <1>1, <2>1, <2>2, GotIs DEF sliced
  <2>4. CASE o <= Len(d)
    <3>1. PICK L \in Nat : L = Len(d) - o /\ o + L = Len(d)
      <4>1. Len(d) - o \in Nat /\ o + (Len(d) - o) = Len(d)
        BY <2>4
      <4> QED BY <4>1
    <3>2. SubSeq(d, o + 1, o + L) \in Seq(FileByte)
      BY <3>1, Cut
    <3> QED BY <2>2, <2>3, <3>1, <3>2
  <2>5. CASE o > Len(d)
    <3>1. q = <<>>
      BY <2>2, <2>5
    <3> QED BY <2>3, <3>1
  <2> QED BY <2>4, <2>5
<1>2. CASE p.length # NoLength
  <2>1. PICK o \in Nat, L \in Nat : o = p.offset /\ L = p.length
    BY <1>2
  <2>2. o + L <= Len(d)
    <3>1. ~(o + L > Len(d))
      BY <1>2, <2>1, GotIs DEF sliced
    <3> QED BY <3>1
  <2>3. SubSeq(d, o + 1, o + L) \in Seq(FileByte)
    BY <2>2, Cut
  <2>4. sliced(p, d).data = SubSeq(d, o + 1, o + L)
    <3>1. ~(o + L > Len(d))
      BY <2>2
    <3>2. sliced(p, d) = Got(SubSeq(d, o + 1, o + L))
      BY <1>2, <2>1, <3>1 DEF sliced
    <3> QED BY <3>2, GotIs
  <2> QED BY <2>3, <2>4
<1> QED BY <1>1, <1>2

LEMMA LiteralIs ==
  ASSUME NEW p, p.body \in Seq(Int), p.repeat \in Nat, literal_bytes(p).ok
  PROVE  literal_bytes(p).data \in Seq(FileByte)
<1>1. PICK q \in Seq(Int), times \in Nat, L \in Nat : q = p.body /\ times = p.repeat /\ L = Len(q)
  OBVIOUS
<1>2. q # <<>> /\ \A i \in DOMAIN q : q[i] \in 0 .. 255
  BY <1>1, GotIs DEF literal_bytes
<1>3. L > 0 /\ \A i \in 1 .. L : q[i] \in FileByte
  <2>1. DOMAIN q = 1 .. L
    BY <1>1
  <2>2. \A i \in 1 .. L : q[i] \in FileByte
    BY <1>2, <2>1 DEF FileByte
  <2>3. L # 0
    BY <1>1, <1>2
  <2> QED BY <2>2, <2>3
<1>4. PICK num \in Nat : num = times * L
  OBVIOUS
<1> DEFINE d == [i \in 1 .. num |-> q[1 + ((i - 1) % L)]]
<1>5. literal_bytes(p).data = d
  <2>1. literal_bytes(p) = Got([i \in 1 .. times * L |-> q[1 + ((i - 1) % L)]])
    BY <1>1, <1>2 DEF literal_bytes
  <2> QED BY <1>4, <2>1, GotIs
<1>6. ASSUME NEW i \in 1 .. num PROVE q[1 + ((i - 1) % L)] \in FileByte
  <2>1. 1 + ((i - 1) % L) \in 1 .. L
    BY <1>3
  <2> QED BY <1>3, <2>1
<1>7. d \in [1 .. num -> FileByte]
  BY <1>6
<1>8. \A r \in [1 .. num -> FileByte] : r \in Seq(FileByte)
  OBVIOUS
<1> HIDE DEF d
<1> QED BY <1>5, <1>7, <1>8

(* A part that is given is what was meant, unless two files are taken for  *)
(* each other.                                                             *)
NoCollision(d) == \A i \in DOMAIN parts : \A nm \in DOMAIN d.truth : Crc(parts[i].data) = Crc(d.truth[nm]) => parts[i].data = d.truth[nm]

LEMMA PartIs ==
  ASSUME FilesRead, NEW d, NEW p, WrittenPart(d, p), get_part(p).ok
  PROVE  get_part(p).data \in Seq(FileByte) /\ (NoCollision(d) /\ PartChecked(p) => get_part(p).data = Meant(d, p))
<1>1. CASE p.tag = "literal"
  <2>1. get_part(p) = literal_bytes(p) /\ Meant(d, p) = literal_bytes(p).data
    BY <1>1 DEF get_part, Meant
  <2>2. p.body \in Seq(Int) /\ p.repeat \in Nat
    BY <1>1 DEF WrittenPart
  <2> QED BY <2>1, <2>2, LiteralIs
<1>2. CASE p.tag # "literal"
  <2>1. /\ p.name \in DOMAIN d.truth /\ d.truth[p.name] \in Seq(FileByte) /\ p.crc \subseteq {Crc(d.truth[p.name])}
        /\ p.offset \in Nat /\ p.length \in Nat \cup {NoLength}
    BY <1>2 DEF WrittenPart
  <2>2. Selected(p) # 0
    BY <1>2, GotIs DEF get_part
  <2>3. PICK m \in DOMAIN parts : m = Selected(p) /\ (p.crc # {} => Wanted(p, m))
    BY <2>2, SelectedIs
  <2>4. get_part(p) = sliced(p, parts[m].data)
    BY <1>2, <2>2, <2>3 DEF get_part
  <2>5. parts[m].data \in Seq(FileByte)
    BY <2>3 DEF FilesRead
  <2>6. get_part(p).data \in Seq(FileByte)
    BY <2>1, <2>4, <2>5, SlicedIs
  <2>7. ASSUME NoCollision(d), PartChecked(p) PROVE get_part(p).data = Meant(d, p)
    <3>1. Crc(parts[m].data) \in p.crc
      BY <1>2, <2>3, <2>7 DEF PartChecked, Wanted
    <3>2. parts[m].data = d.truth[p.name]
      BY <2>1, <2>7, <3>1 DEF NoCollision
    <3> QED BY <1>2, <2>4, <3>2 DEF Meant
  <2> QED BY <2>6, <2>7
<1> QED BY <1>1, <1>2

-----------------------------------------------------------------------------
(* Words and bytes.                                                        *)
LEMMA QuotRem ==
  ASSUME NEW num \in Nat, NEW m \in Nat \ {0}
  PROVE  /\ num \div m \in Nat /\ num % m \in 0 .. m - 1 /\ num = (num \div m) * m + (num % m)
OBVIOUS

LEMMA Below ==
  ASSUME NEW a \in Nat, NEW b \in Nat, NEW m \in Nat \ {0}, a * m < b * m
  PROVE  a + 1 <= b
<1> SUFFICES ASSUME b <= a PROVE FALSE
  OBVIOUS
<1>1. PICK c \in Nat : a = b + c
  <2>1. a - b \in Nat /\ a = b + (a - b)
    OBVIOUS
  <2> QED BY <2>1
<1>2. (b + c) * m = b * m + c * m /\ c * m \in Nat /\ b * m \in Nat
  OBVIOUS
<1> QED BY <1>1, <1>2

LEMMA InWords ==
  ASSUME NEW words \in Nat, NEW m \in Nat \ {0}, NEW c \in Nat, c < words * m
  PROVE  c \div m \in Nat /\ c \div m + 1 <= words /\ c % m \in 0 .. m - 1 /\ c = (c \div m) * m + (c % m)
<1>1. PICK q \in Nat, r \in 0 .. m - 1 : q = c \div m /\ r = c % m /\ c = q * m + r
  BY QuotRem
<1>2. PICK t \in Nat, u \in Nat : t = q * m /\ u = words * m
  OBVIOUS
<1>3. t < u
  BY <1>1, <1>2
<1>4. q + 1 <= words
  BY <1>2, <1>3, Below
<1> QED BY <1>1, <1>4

WordByte(words, m, q, r) ==
  m * q + r \in Nat /\ m * q + r < words * m /\ (m * q + r) \div m = q /\ (m * q + r) % m = r
LEMMA OfWords ==
  ASSUME NEW words \in Nat, NEW m \in Nat \ {0}, NEW q \in Nat, q + 1 <= words, NEW r \in 0 .. m - 1
  PROVE  WordByte(words, m, q, r)
<1>1. PICK a \in Nat : words = q + 1 + a
  <2>1. words - q - 1 \in Nat /\ words = q + 1 + (words - q - 1)
    OBVIOUS
  <2> QED BY <2>1
<1>2. (q + 1 + a) * m = m * q + m + a * m /\ a * m \in Nat /\ m * q \in Nat
  OBVIOUS
<1>3. (m * q + r) \div m = q /\ (m * q + r) % m = r
  OBVIOUS
<1> QED BY <1>1, <1>2, <1>3 DEF WordByte

(* The digits of a map that supplies k bytes of a word are 1 to k.         *)
DigitMap(map, nb, k) ==
  /\ nb \in Nat /\ map \in [1 .. nb -> Nat] /\ k \in Nat /\ k = Supplied(map) /\ \A a \in 1 .. nb : map[a] <= k
  /\ \A a, b \in 1 .. nb : (map[a] = map[b] /\ map[a] # 0) => a = b
HasDigit(map, nb, c) == \E a \in 1 .. nb : map[a] = c
LEMMA DigitsFill ==
  ASSUME NEW nb, NEW map, NEW k, DigitMap(map, nb, k), NEW c \in 1 .. k
  PROVE  HasDigit(map, nb, c)
<1>0. /\ nb \in Nat /\ map \in [1 .. nb -> Nat] /\ k \in Nat /\ k = Supplied(map) /\ \A a \in 1 .. nb : map[a] <= k
      /\ \A a, b \in 1 .. nb : (map[a] = map[b] /\ map[a] # 0) => a = b
  BY DEF DigitMap
<1> USE <1>0
<1> DEFINE S == {a \in 1 .. nb : map[a] # 0}
           f == [a \in S |-> map[a]]
<1>1. Cardinality(S) = k
  BY DEF Supplied
<1>2. f \in Injection(S, 1 .. k)
  <2>1. f \in [S -> 1 .. k]
    OBVIOUS
  <2>2. \A a, b \in S : f[a] = f[b] => a = b
    OBVIOUS
  <2>3. DOMAIN f = S
    OBVIOUS
  <2> HIDE DEF f, S
  <2> QED BY <2>1, <2>2, <2>3 DEF Injection, IsInjective
<1>3. IsFiniteSet(1 .. k) /\ Cardinality(1 .. k) = k
  <2>1. 1 \in Int /\ k \in Int /\ (1 > k => k = 0) /\ (k - 1) + 1 = k
    OBVIOUS
  <2>2. IsFiniteSet(1 .. k) /\ Cardinality(1 .. k) = IF 1 > k THEN 0 ELSE (k - 1) + 1
    BY <2>1, FS_Interval
  <2> QED BY <2>1, <2>2
<1>4. f \in Surjection(S, 1 .. k)
  <2> HIDE DEF f, S
  <2> QED BY <1>1, <1>2, <1>3, FS_Injection
<1>5. \E a \in S : f[a] = c
  <2> HIDE DEF f, S
  <2> QED BY <1>4 DEF Surjection
<1> QED BY <1>5 DEF HasDigit

LabelAt(map, nb, a, c) == nb \in Nat /\ map \in [1 .. nb -> Nat] /\ Len(map) = nb /\ a \in 1 .. nb /\ map[a] = c
LEMMA PlaceIs ==
  ASSUME NEW map, NEW nb, NEW a, NEW c, LabelAt(map, nb, a, c)
  PROVE  PlaceOf(map, c) \in 0 .. nb - 1 /\ map[nb - PlaceOf(map, c)] = c
<1>1. nb \in Nat /\ Len(map) = nb /\ a \in 1 .. nb /\ map[a] = c
  BY DEF LabelAt
<1>2. nb - a \in 0 .. nb - 1 /\ nb - (nb - a) = a
  BY <1>1
<1>3. \E pos \in 0 .. nb - 1 : map[nb - pos] = c
  BY <1>1, <1>2
<1> QED BY <1>1, <1>3 DEF PlaceOf

(* The sources of an interleave that is not refused.                       *)
Threads(s, nb, words) ==
  /\ s.map \in [1 .. nb -> Nat] /\ Len(s.map) = nb /\ s.k = Supplied(s.map) /\ s.k \in Nat \ {0}
  /\ s.get.data \in Seq(FileByte) /\ Len(s.get.data) = words * s.k
  /\ (s.get.data = <<>> \/ \A a \in 1 .. nb : s.map[a] <= s.k)
  /\ \A a, b \in 1 .. nb : (s.map[a] = s.map[b] /\ s.map[a] # 0) => a = b
Apart(src, i, j, nb) == i # j => \A a \in 1 .. nb : src[i].map[a] = 0 \/ src[j].map[a] = 0
Wovable(src, num, nb, words) ==
  /\ num \in Nat /\ DOMAIN src = 1 .. num /\ nb \in Nat /\ words \in Nat
  /\ \A i \in 1 .. num : Threads(src[i], nb, words)
  /\ \A i, j \in 1 .. num : Apart(src, i, j, nb)

LEMMA OneGiver ==
  ASSUME NEW src, NEW num, NEW nb, NEW words, Wovable(src, num, nb, words), NEW b, (b - 1) % nb \in 0 .. nb - 1,
         NEW i \in 1 .. num, NEW dg, dg = Digit(src[i].map, (b - 1) % nb), dg # 0
  PROVE  Laid(src, nb, b) = src[i].get.data[dg + src[i].k * ((b - 1) \div nb)]
<1> DEFINE digit(j) == Digit(src[j].map, (b - 1) % nb)
           givers == {j \in DOMAIN src : digit(j) # 0}
           giver == CHOOSE j \in givers : \A m \in givers : m <= j
<1>1. PICK pos \in Nat : pos = (b - 1) % nb /\ nb - pos \in 1 .. nb
  <2>1. nb \in Nat
    BY DEF Wovable
  <2>2. PICK pos \in 0 .. nb - 1 : pos = (b - 1) % nb
    OBVIOUS
  <2> QED BY <2>1, <2>2
<1>2. ASSUME NEW j \in 1 .. num PROVE digit(j) = src[j].map[nb - pos]
  <2>1. Len(src[j].map) = nb
    BY DEF Wovable, Threads
  <2> QED BY <1>1, <2>1 DEF Digit
<1>3. ASSUME NEW j \in 1 .. num, j # i PROVE digit(j) = 0
  <2>1. Apart(src, i, j, nb)
    BY DEF Wovable
  <2>2. src[i].map[nb - pos] = 0 \/ src[j].map[nb - pos] = 0
    BY <1>1, <1>3, <2>1 DEF Apart
  <2> QED BY <1>2, <2>2
<1>4. givers = {i}
  <2>1. DOMAIN src = 1 .. num /\ num \in Nat
    BY DEF Wovable
  <2>2. digit(i) # 0
    OBVIOUS
  <2> HIDE DEF digit
  <2> QED BY <1>3, <2>1, <2>2
<1>5. giver = i
  <2> HIDE DEF digit, givers
  <2> QED BY <1>4
<1>6. Laid(src, nb, b) = src[giver].get.data[digit(giver) + src[giver].k * ((b - 1) \div nb)]
  <2>1. givers # {}
    <3> HIDE DEF givers
    <3> QED BY <1>4
  <2> QED BY <2>1 DEF Laid
<1> HIDE DEF givers, giver
<1> QED BY <1>5, <1>6

LEMMA NoGiver ==
  ASSUME NEW src, NEW num, NEW nb, NEW words, Wovable(src, num, nb, words), NEW b,
         \A i \in 1 .. num : Digit(src[i].map, (b - 1) % nb) = 0
  PROVE  Laid(src, nb, b) = 0
<1>1. DOMAIN src = 1 .. num
  BY DEF Wovable
<1>2. {j \in DOMAIN src : Digit(src[j].map, (b - 1) % nb) # 0} = {}
  BY <1>1
<1> QED BY <1>2 DEF Laid

(* A digit's byte is one of its source's.                                  *)
LEMMA GivenByte ==
  ASSUME NEW nb \in Nat, NEW words \in Nat, NEW s, Threads(s, nb, words), NEW q \in Nat, q + 1 <= words, NEW a \in 1 .. nb, s.map[a] # 0
  PROVE  s.get.data[s.map[a] + s.k * q] \in FileByte
<1>1. PICK k \in Nat \ {0}, d \in Seq(FileByte), r \in Nat : k = s.k /\ d = s.get.data /\ r = s.map[a] - 1 /\ s.map[a] = r + 1
  <2>1. s.k \in Nat \ {0} /\ s.get.data \in Seq(FileByte)
    BY DEF Threads
  <2>2. s.map[a] \in Nat
    BY DEF Threads
  <2>3. s.map[a] - 1 \in Nat /\ s.map[a] = (s.map[a] - 1) + 1
    BY <2>2
  <2> QED BY <2>1, <2>3
<1>2. Len(d) = words * k
  BY <1>1 DEF Threads
<1>3. d # <<>>
  <2>1. PICK t \in Nat : words = 1 + t
    <3>1. words - 1 \in Nat /\ words = 1 + (words - 1)
      OBVIOUS
    <3> QED BY <3>1
  <2>2. (1 + t) * k = k + t * k /\ t * k \in Nat
    OBVIOUS
  <2>3. Len(d) > 0
    BY <1>2, <2>1, <2>2
  <2> QED BY <2>3
<1>4. r \in 0 .. k - 1
  <2>1. r + 1 <= k
    BY <1>1, <1>3 DEF Threads
  <2> QED BY <2>1
<1>5. PICK m \in Nat : m = k * q + r /\ m < words * k
  BY <1>4, OfWords DEF WordByte
<1>6. m + 1 \in 1 .. Len(d)
  BY <1>2, <1>5
<1>7. d[m + 1] \in FileByte
  BY <1>6
<1>8. s.map[a] + s.k * q = m + 1
  <2>1. PICK t \in Nat : t = k * q
    OBVIOUS
  <2>2. m + 1 = (r + 1) + t
    BY <1>5, <2>1
  <2> QED BY <1>1, <2>1, <2>2
<1> QED BY <1>1, <1>7, <1>8

LEMMA LaidByte ==
  ASSUME NEW src, NEW num, NEW nb, NEW words, Wovable(src, num, nb, words), NEW b \in 1 .. words * nb
  PROVE  Laid(src, nb, b) \in FileByte
<1>1. nb \in Nat /\ words \in Nat
  BY DEF Wovable
<1>2. PICK c \in Nat : c = b - 1 /\ c < words * nb
  <2>1. PICK t \in Nat : t = words * nb
    BY <1>1
  <2>2. b - 1 \in Nat /\ b - 1 < t
    BY <2>1
  <2> QED BY <2>1, <2>2
<1>3. nb # 0
  BY <1>1, <1>2
<1>4. PICK q \in Nat, pos \in 0 .. nb - 1 : q = (b - 1) \div nb /\ pos = (b - 1) % nb /\ q + 1 <= words
  BY <1>1, <1>2, <1>3, InWords
<1>5. CASE \A i \in 1 .. num : Digit(src[i].map, (b - 1) % nb) = 0
  <2>1. Laid(src, nb, b) = 0
    BY <1>5, NoGiver
  <2> QED BY <2>1 DEF FileByte
<1>6. ASSUME NEW i \in 1 .. num, Digit(src[i].map, (b - 1) % nb) # 0
      PROVE  Laid(src, nb, b) \in FileByte
  <2>1. PICK s : s = src[i] /\ Threads(s, nb, words)
    BY DEF Wovable
  <2>2. PICK a \in 1 .. nb : a = nb - pos
    <3>1. nb - pos \in 1 .. nb
      BY <1>1
    <3> QED BY <3>1
  <2>3. Digit(src[i].map, (b - 1) % nb) = s.map[a]
    <3>1. Len(s.map) = nb
      BY <2>1 DEF Threads
    <3> QED BY <1>4, <2>1, <2>2, <3>1 DEF Digit
  <2>4. Laid(src, nb, b) = src[i].get.data[Digit(src[i].map, (b - 1) % nb) + src[i].k * ((b - 1) \div nb)]
    <3>1. (b - 1) % nb \in 0 .. nb - 1
      BY <1>4
    <3> QED BY <1>6, <3>1, OneGiver
  <2>5. Laid(src, nb, b) = s.get.data[s.map[a] + s.k * q]
    BY <1>4, <2>1, <2>3, <2>4
  <2>6. s.get.data[s.map[a] + s.k * q] \in FileByte
    <3>1. s.map[a] # 0
      BY <1>6, <2>3
    <3> QED BY <1>1, <1>4, <2>1, <3>1, GivenByte
  <2> QED BY <2>5, <2>6
<1> QED BY <1>5, <1>6

(* Each byte of a source lies where its digit says.                        *)
LEMMA LaidRight ==
  ASSUME NEW src, NEW num, NEW nb, NEW words, Wovable(src, num, nb, words), NEW i \in 1 .. num,
         NEW c \in 0 .. Len(src[i].get.data) - 1
  PROVE  /\ Spot(nb, src[i].k, src[i].map, c) \in 1 .. words * nb
         /\ Laid(src, nb, Spot(nb, src[i].k, src[i].map, c)) = src[i].get.data[c + 1]
<1>1. nb \in Nat /\ words \in Nat
  BY DEF Wovable
<1>2. PICK s : s = src[i] /\ Threads(s, nb, words)
  BY DEF Wovable
<1>3. PICK k \in Nat \ {0}, d \in Seq(FileByte), map \in [1 .. nb -> Nat] :
        k = s.k /\ d = s.get.data /\ map = s.map /\ Len(d) = words * k /\ Len(map) = nb
  BY <1>2 DEF Threads
<1>4. c \in Nat /\ c < words * k /\ d # <<>>
  <2>1. c \in 0 .. Len(d) - 1
    BY <1>2, <1>3
  <2>2. PICK L \in Nat : L = Len(d)
    OBVIOUS
  <2>3. c \in Nat /\ c < L
    BY <2>1, <2>2
  <2>4. d # <<>>
    BY <2>2, <2>3
  <2> QED BY <1>3, <2>2, <2>3, <2>4
<1>5. PICK q \in Nat, r \in 0 .. k - 1 : q = c \div k /\ r = c % k /\ q + 1 <= words /\ c = q * k + r
  BY <1>1, <1>4, InWords
<1>6. \E a \in 1 .. nb : map[a] = r + 1
  <2>1. \A a \in 1 .. nb : map[a] <= k
    BY <1>2, <1>3, <1>4 DEF Threads
  <2>2. \A a, b \in 1 .. nb : (map[a] = map[b] /\ map[a] # 0) => a = b
    BY <1>2, <1>3 DEF Threads
  <2>3. k = Supplied(map) /\ k \in Nat
    BY <1>2, <1>3 DEF Threads
  <2>4. PICK e \in 1 .. k : e = r + 1
    <3>1. r + 1 \in 1 .. k
      OBVIOUS
    <3> QED BY <3>1
  <2>5. \E a \in 1 .. nb : map[a] = e
    <3>1. DigitMap(map, nb, k)
      BY <1>1, <2>1, <2>2, <2>3 DEF DigitMap
    <3>2. HasDigit(map, nb, e)
      BY <3>1, DigitsFill
    <3> QED BY <3>2 DEF HasDigit
  <2> QED BY <2>4, <2>5
<1>7. PICK pos \in 0 .. nb - 1 : pos = PlaceOf(map, r + 1) /\ map[nb - pos] = r + 1
  <2>1. PICK a \in 1 .. nb, e \in Nat : map[a] = e /\ e = r + 1
    BY <1>6
  <2>2. PlaceOf(map, e) \in 0 .. nb - 1 /\ map[nb - PlaceOf(map, e)] = e
    <3>1. LabelAt(map, nb, a, e)
      BY <1>1, <1>3, <2>1 DEF LabelAt
    <3> QED BY <3>1, PlaceIs
  <2> QED BY <2>1, <2>2
<1>8. nb \in Nat \ {0}
  BY <1>1, <1>7
<1>9. PICK m \in Nat : m = nb * q + pos /\ m < words * nb /\ m \div nb = q /\ m % nb = pos
  <2>1. WordByte(words, nb, q, pos)
    BY <1>1, <1>5, <1>8, OfWords
  <2> QED BY <2>1 DEF WordByte
<1>10. PICK b \in Nat : b = m + 1 /\ b = Spot(nb, src[i].k, src[i].map, c)
  <2>1. Spot(nb, src[i].k, src[i].map, c) = m + 1
    BY <1>2, <1>3, <1>5, <1>7, <1>9 DEF Spot
  <2> QED BY <2>1
<1>11. b \in 1 .. words * nb
  <2>1. PICK t \in Nat : t = words * nb
    BY <1>1
  <2> QED BY <1>9, <1>10, <2>1
<1>12. (b - 1) % nb = pos /\ (b - 1) \div nb = q
  <2>1. b - 1 = m
    BY <1>10
  <2> QED BY <1>9, <2>1
<1>13. Digit(src[i].map, (b - 1) % nb) = r + 1
  BY <1>2, <1>3, <1>7, <1>12 DEF Digit
<1>14. Laid(src, nb, b) = src[i].get.data[(r + 1) + src[i].k * ((b - 1) \div nb)]
  <2>1. (b - 1) % nb \in 0 .. nb - 1
    BY <1>12
  <2>2. PICK dg \in Nat : dg = r + 1 /\ dg # 0
    OBVIOUS
  <2>3. Laid(src, nb, b) = src[i].get.data[dg + src[i].k * ((b - 1) \div nb)]
    BY <1>13, <2>1, <2>2, OneGiver
  <2> QED BY <2>2, <2>3
<1>15. (r + 1) + k * q = c + 1
  BY <1>5
<1> QED BY <1>2, <1>3, <1>10, <1>11, <1>12, <1>14, <1>15

-----------------------------------------------------------------------------
(* An interleave that is not refused: its sources fit one another.         *)
LEMMA SupplyIs ==
  ASSUME NEW map \in Seq(Nat)
  PROVE  Supplied(map) \in Nat
<1> DEFINE S == {i \in DOMAIN map : map[i] # 0}
<1>1. PICK L \in Nat : L = Len(map) /\ DOMAIN map = 1 .. L
  OBVIOUS
<1>2. IsFiniteSet(1 .. L)
  BY FS_Interval
<1>3. IsFiniteSet(S)
  <2>1. S \subseteq 1 .. L
    BY <1>1
  <2> HIDE DEF S
  <2> QED BY <1>2, <2>1, FS_Subset
<1>4. Cardinality(S) \in Nat
  <2> HIDE DEF S
  <2> QED BY <1>3, FS_CardinalityType
<1> QED BY <1>4 DEF Supplied

Strung(d, p) ==
  /\ p.tag \in {"part", "literal"} /\ WrittenPart(d, p) /\ p.map \in Seq(Nat)
  /\ \A a, b \in DOMAIN p.map : (p.map[a] = p.map[b] /\ p.map[a] # 0) => a = b

LEMMA StrandIs ==
  ASSUME FilesRead, NEW d, NEW p, Strung(d, p), NEW nb, NEW words \in Nat, Fits(Source(p), nb, words)
  PROVE  nb \in Nat /\ Threads(Source(p), nb, words)
<1> DEFINE s == Source(p)
<1>1. s.get = get_part(p) /\ s.map = p.map /\ s.k = Supplied(p.map)
  BY DEF Source
<1> HIDE DEF s
<1>2. /\ Len(s.map) = nb /\ s.get.ok /\ s.k > 0 /\ Len(s.get.data) = words * s.k
      /\ s.get.data = <<>> \/ \A x \in Range(s.map) : x <= s.k
  BY DEF Fits, s
<1>3. s.get.data \in Seq(FileByte)
  <2>1. WrittenPart(d, p) /\ get_part(p).ok
    BY <1>1, <1>2 DEF Strung
  <2> QED BY <1>1, <2>1, PartIs
<1>4. PICK map \in Seq(Nat) : map = s.map /\ map = p.map
  BY <1>1 DEF Strung
<1>5. nb \in Nat /\ DOMAIN map = 1 .. nb /\ map \in [1 .. nb -> Nat] /\ Len(map) = nb
  BY <1>2, <1>4
<1>6. s.k \in Nat \ {0}
  <2>1. s.k \in Nat
    BY <1>1, <1>4, SupplyIs
  <2>2. s.k # 0
    BY <1>2
  <2> QED BY <2>1, <2>2
<1>7. s.get.data = <<>> \/ \A a \in 1 .. nb : map[a] <= s.k
  <2>1. \A a \in 1 .. nb : map[a] \in Range(map)
    BY <1>5 DEF Range
  <2> QED BY <1>2, <1>4, <2>1
<1>8. \A a, b \in 1 .. nb : (map[a] = map[b] /\ map[a] # 0) => a = b
  BY <1>4, <1>5 DEF Strung
<1>9. s.map \in [1 .. nb -> Nat] /\ Len(s.map) = nb /\ s.k = Supplied(s.map)
  BY <1>1, <1>4, <1>5
<1>10. Threads(s, nb, words)
  BY <1>2, <1>3, <1>4, <1>6, <1>7, <1>8, <1>9 DEF Threads
<1> QED BY <1>5, <1>10 DEF s

Strands(e) == [i \in DOMAIN e.of |-> Source(e.of[i])]
Weft(e) == WordsIn(Strands(e)[1])
Weaves(e, num, nb, words) ==
  /\ num \in Nat \ {0} /\ num = Len(e.of) /\ DOMAIN e.of = 1 .. num
  /\ nb = e.width \div 8 /\ words = Weft(e) /\ Wovable(Strands(e), num, nb, words)
  /\ do_interleave(e).data = [b \in 1 .. words * nb |-> Laid(Strands(e), nb, b)]
  /\ \A i \in 1 .. num : e.of[i].tag \in {"part", "literal"} /\ get_part(e.of[i]).ok

LEMMA WeaveIs ==
  ASSUME FilesRead, NEW d, NEW e, WrittenWeave(d, e), do_interleave(e).ok
  PROVE  \E num, nb, words : Weaves(e, num, nb, words)
<1> DEFINE nb == e.width \div 8
           src == Strands(e)
           words == Weft(e)
<1>1. /\ e.of # <<>> /\ \A i \in DOMAIN e.of : e.of[i].tag \in {"part", "literal"}
      /\ src[1].k # 0 /\ \A i \in DOMAIN src : Fits(src[i], nb, words)
      /\ do_interleave(e) = Got([b \in 1 .. words * nb |-> Laid(src, nb, b)])
  BY GotIs DEF do_interleave, Strands, Weft
<1>2. PICK num \in Nat : num = Len(e.of) /\ DOMAIN e.of = 1 .. num
  BY DEF WrittenWeave
<1>3. num # 0
  <2>1. e.of \in Seq(Range(e.of))
    BY DEF WrittenWeave
  <2> QED BY <1>1, <1>2, <2>1
<1>4. DOMAIN src = 1 .. num /\ \A i \in 1 .. num : src[i] = Source(e.of[i])
  BY <1>2 DEF Strands
<1> HIDE DEF src, nb, words
<1>5. ASSUME NEW i \in 1 .. num PROVE Strung(d, e.of[i])
  <2>1. e.of[i].tag \in {"part", "literal"}
    BY <1>1, <1>2
  <2>2. WrittenPart(d, e.of[i]) /\ e.of[i].map \in Seq(Nat)
    BY <1>2, <2>1 DEF WrittenWeave
  <2>3. \A a, b \in DOMAIN e.of[i].map : (e.of[i].map[a] = e.of[i].map[b] /\ e.of[i].map[a] # 0) => a = b
    BY <1>2, <2>1 DEF WrittenWeave
  <2> QED BY <2>1, <2>2, <2>3 DEF Strung
<1>6. words \in Nat
  <2>1. PICK p : p = e.of[1] /\ Strung(d, p) /\ src[1] = Source(p) /\ Fits(src[1], nb, words)
    <3>1. 1 \in 1 .. num
      BY <1>3
    <3> QED BY <1>1, <1>4, <1>5, <3>1
  <2>2. src[1].get.data \in Seq(FileByte)
    <3>1. get_part(p).ok /\ WrittenPart(d, p) /\ src[1].get = get_part(p)
      BY <2>1 DEF Fits, Source, Strung
    <3> QED BY <3>1, PartIs
  <2>3. src[1].k \in Nat \ {0}
    <3>1. src[1].k = Supplied(p.map) /\ p.map \in Seq(Nat)
      BY <2>1 DEF Source, Strung
    <3> QED BY <1>1, <3>1, SupplyIs
  <2>4. PICK L \in Nat, k \in Nat \ {0} : L = Len(src[1].get.data) /\ k = src[1].k
    BY <2>2, <2>3
  <2>5. words = L \div k
    BY <2>4 DEF words, Weft, WordsIn, src
  <2> QED BY <2>4, <2>5, QuotRem
<1>7. \A i \in 1 .. num : nb \in Nat /\ Threads(src[i], nb, words)
  <2> TAKE i \in 1 .. num
  <2>1. PICK p : p = e.of[i] /\ Strung(d, p) /\ src[i] = Source(p) /\ Fits(Source(p), nb, words)
    BY <1>1, <1>4, <1>5
  <2> QED BY <1>6, <2>1, StrandIs
<1>8. nb \in Nat
  <2>1. 1 \in 1 .. num
    BY <1>3
  <2> QED BY <1>7, <2>1
<1>9. ASSUME NEW i \in 1 .. num, NEW j \in 1 .. num PROVE Apart(src, i, j, nb)
  <2>1. src[i].map = e.of[i].map /\ src[j].map = e.of[j].map
    BY <1>4 DEF Source
  <2>2. DOMAIN e.of[i].map = 1 .. nb /\ DOMAIN e.of[j].map = 1 .. nb
    BY <1>7, <2>1 DEF Threads
  <2>3. i # j => \A a \in 1 .. nb : e.of[i].map[a] = 0 \/ e.of[j].map[a] = 0
    BY <1>2, <2>2 DEF WrittenWeave
  <2> QED BY <2>1, <2>3 DEF Apart
<1>10. Wovable(src, num, nb, words)
  BY <1>4, <1>6, <1>7, <1>8, <1>9 DEF Wovable
<1>11. \A i \in 1 .. num : e.of[i].tag \in {"part", "literal"} /\ get_part(e.of[i]).ok
  <2> TAKE i \in 1 .. num
  <2>1. Fits(Source(e.of[i]), nb, words)
    BY <1>1, <1>4
  <2>2. Source(e.of[i]).get.ok /\ Source(e.of[i]).get = get_part(e.of[i])
    BY <2>1 DEF Fits, Source
  <2> QED BY <1>1, <1>2, <2>2
<1>12. do_interleave(e).data = [b \in 1 .. words * nb |-> Laid(src, nb, b)]
  BY <1>1, GotIs
<1>13. Weaves(e, num, nb, words)
  <2>1. nb = e.width \div 8 /\ words = Weft(e) /\ src = Strands(e)
    BY DEF nb, words, src
  <2> QED BY <1>2, <1>3, <1>10, <1>11, <1>12, <2>1 DEF Weaves
<1> QED BY <1>13

(* The bytes of an interleave, and where those that are meant lie.         *)
CopiedAt(bytes, start, q) == \A j \in 1 .. Len(q) : bytes[start + j] = q[j]
Fulfils(d, e, q) == /\ Len(q) = Size(d, e)
                    /\ \A bytes, start : CopiedAt(bytes, start, q) => Holds(d, bytes, e, start)

LEMMA WovenBytes ==
  ASSUME NEW e, NEW num, NEW nb, NEW words, Weaves(e, num, nb, words)
  PROVE  /\ do_interleave(e).data \in Seq(FileByte) /\ Len(do_interleave(e).data) = words * nb
         /\ \A b \in 1 .. words * nb : do_interleave(e).data[b] = Laid(Strands(e), nb, b)
<1>1. PICK L \in Nat : L = words * nb
  BY DEF Weaves, Wovable
<1>2. PICK src : src = Strands(e) /\ Wovable(src, num, nb, words)
  BY DEF Weaves
<1>3. \A b \in 1 .. L : Laid(src, nb, b) \in FileByte
  BY <1>1, <1>2, LaidByte
<1>4. [b \in 1 .. L |-> Laid(src, nb, b)] \in [1 .. L -> FileByte]
  BY <1>3
<1>5. PICK q \in [1 .. L -> FileByte] : q = do_interleave(e).data /\ \A b \in 1 .. L : q[b] = Laid(src, nb, b)
  BY <1>1, <1>2, <1>4 DEF Weaves
<1>6. q \in Seq(FileByte) /\ Len(q) = L
  BY <1>5, LongSeq
<1> QED BY <1>1, <1>2, <1>5, <1>6

LEMMA WovenHolds ==
  ASSUME FilesRead, NEW d, NEW e, e.tag = "interleave", WrittenWeave(d, e), do_interleave(e).ok,
         NoCollision(d), Checksummed(e)
  PROVE  Fulfils(d, e, do_interleave(e).data)
<1>1. PICK num, nb, words : Weaves(e, num, nb, words)
  BY WeaveIs
<1>2. PICK q \in Seq(FileByte) : /\ q = do_interleave(e).data /\ Len(q) = words * nb
                                 /\ \A b \in 1 .. words * nb : q[b] = Laid(Strands(e), nb, b)
  BY <1>1, WovenBytes
<1>3. /\ num \in Nat \ {0} /\ DOMAIN e.of = 1 .. num /\ nb = e.width \div 8 /\ words = Weft(e)
      /\ Wovable(Strands(e), num, nb, words)
      /\ \A i \in 1 .. num : e.of[i].tag \in {"part", "literal"} /\ get_part(e.of[i]).ok
  BY <1>1 DEF Weaves
<1>4. PICK src : src = Strands(e) /\ \A i \in 1 .. num : src[i] = Source(e.of[i])
  BY <1>3 DEF Strands
<1>5. ASSUME NEW i \in 1 .. num
      PROVE  src[i].get.data = Meant(d, e.of[i]) /\ src[i].k = Supplied(e.of[i].map) /\ src[i].map = e.of[i].map
  <2>1. PartChecked(e.of[i])
    BY <1>3 DEF Checksummed
  <2>2. WrittenPart(d, e.of[i]) /\ get_part(e.of[i]).ok
    BY <1>3 DEF WrittenWeave
  <2>3. get_part(e.of[i]).data = Meant(d, e.of[i])
    BY <2>1, <2>2, PartIs
  <2>4. PICK p : p = e.of[i]
    OBVIOUS
  <2>5. src[i] = [get |-> get_part(p), map |-> p.map, k |-> Supplied(p.map)]
    BY <1>4, <2>4 DEF Source
  <2> QED BY <2>3, <2>4, <2>5
<1>6. Size(d, e) = words * nb
  <2>1. 1 \in 1 .. num
    BY <1>3
  <2>2. words = Len(Meant(d, e.of[1])) \div Supplied(e.of[1].map)
    BY <1>3, <1>4, <1>5, <2>1 DEF Weft, WordsIn
  <2> QED BY <1>3, <2>2 DEF Size
<1>7. ASSUME NEW bytes, NEW start, CopiedAt(bytes, start, q)
      PROVE  Holds(d, bytes, e, start)
  <2>1. SUFFICES ASSUME NEW i \in 1 .. num, NEW b \in 0 .. Len(Meant(d, e.of[i])) - 1
                 PROVE  bytes[start + Spot(nb, Supplied(e.of[i].map), e.of[i].map, b)] = Meant(d, e.of[i])[b + 1]
    BY <1>3 DEF Holds
  <2>2. b \in 0 .. Len(src[i].get.data) - 1
    BY <1>5
  <2>3. PICK spot : spot = Spot(nb, src[i].k, src[i].map, b) /\ spot \in 1 .. words * nb
                    /\ Laid(src, nb, spot) = src[i].get.data[b + 1]
    BY <1>3, <1>4, <2>2, LaidRight
  <2>4. bytes[start + spot] = q[spot]
    BY <1>2, <1>7, <2>3 DEF CopiedAt
  <2>5. q[spot] = Meant(d, e.of[i])[b + 1]
    BY <1>2, <1>4, <1>5, <2>3
  <2> QED BY <1>5, <2>3, <2>4, <2>5
<1> QED BY <1>2, <1>6, <1>7 DEF Fulfils

(* What a node gives.                                                      *)
Block(e) == IF e.tag \in {"part", "literal"} THEN get_part(e) ELSE IF e.tag = "interleave" THEN do_interleave(e) ELSE Got(<<>>)
WellWritten(d, e) == /\ e.tag \in {"part", "literal", "interleave", "other"}
                 /\ (e.tag \in {"part", "literal"} => WrittenPart(d, e)) /\ (e.tag = "interleave" => WrittenWeave(d, e))

LEMMA BlockBytes ==
  ASSUME FilesRead, NEW d, NEW e, WellWritten(d, e), Block(e).ok
  PROVE  Block(e).data \in Seq(FileByte)
<1>1. CASE e.tag \in {"part", "literal"}
  <2>1. WrittenPart(d, e) /\ get_part(e).ok /\ Block(e) = get_part(e)
    BY <1>1 DEF WellWritten, Block
  <2> QED BY <2>1, PartIs
<1>2. CASE e.tag = "interleave"
  <2>1. WrittenWeave(d, e) /\ do_interleave(e).ok /\ Block(e) = do_interleave(e)
    BY <1>2 DEF WellWritten, Block
  <2>2. PICK num, nb, words : Weaves(e, num, nb, words)
    BY <2>1, WeaveIs
  <2> QED BY <2>1, <2>2, WovenBytes
<1>3. CASE e.tag = "other"
  <2>1. Block(e).data = <<>>
    BY <1>3, GotIs DEF Block
  <2> QED BY <2>1
<1> QED BY <1>1, <1>2, <1>3 DEF WellWritten

LEMMA BlockHolds ==
  ASSUME FilesRead, NEW d, NEW e, WellWritten(d, e), Block(e).ok, NoCollision(d), Checksummed(e)
  PROVE  Fulfils(d, e, Block(e).data)
<1>1. CASE e.tag \in {"part", "literal"}
  <2>1. WrittenPart(d, e) /\ get_part(e).ok /\ Block(e) = get_part(e)
    BY <1>1 DEF WellWritten, Block
  <2>2. PICK q \in Seq(FileByte) : q = Block(e).data /\ q = Meant(d, e)
    <3>1. PartChecked(e)
      BY <1>1 DEF Checksummed
    <3> QED BY <2>1, <3>1, PartIs
  <2>3. Size(d, e) = Len(q)
    BY <1>1, <2>2 DEF Size
  <2>4. ASSUME NEW bytes, NEW start, CopiedAt(bytes, start, q) PROVE Holds(d, bytes, e, start)
    <3>1. \A b \in 1 .. Size(d, e) : bytes[start + b] = q[b]
      BY <2>3, <2>4 DEF CopiedAt
    <3> QED BY <1>1, <2>2, <3>1 DEF Holds
  <2> QED BY <2>2, <2>3, <2>4 DEF Fulfils
<1>2. CASE e.tag = "interleave"
  <2>1. WrittenWeave(d, e) /\ do_interleave(e).ok /\ Block(e) = do_interleave(e)
    BY <1>2 DEF WellWritten, Block
  <2> QED BY <1>2, <2>1, WovenHolds
<1>3. CASE e.tag = "other"
  <2>1. Block(e).data = <<>> /\ Size(d, e) = 0
    BY <1>3, GotIs DEF Block, Size
  <2>2. \A bytes, start : Holds(d, bytes, e, start)
    BY <1>3 DEF Holds
  <2> QED BY <2>1, <2>2 DEF Fulfils
<1> QED BY <1>1, <1>2, <1>3 DEF WellWritten

-----------------------------------------------------------------------------
(* Where each node starts: the recursion has a solution, by the least      *)
(* length it would not have one for.                                       *)
LEMMA SumsExist ==
  ASSUME NEW N \in Nat, NEW sz
  PROVE  \E f : f = [j \in 1 .. N |-> IF j = 1 THEN 0 ELSE f[j - 1] + sz[j - 1]]
<1> DEFINE Is(m, f) == f = [j \in 1 .. m |-> IF j = 1 THEN 0 ELSE f[j - 1] + sz[j - 1]]
           Bad == {m \in 0 .. N : ~\E f : Is(m, f)}
<1>1. SUFFICES ASSUME Bad # {} PROVE FALSE
  <2>1. N \notin Bad
    OBVIOUS
  <2>2. N \in 0 .. N
    OBVIOUS
  <2> QED BY <2>1, <2>2
<1>2. PICK m \in Bad : \A j \in Bad : m <= j
  <2>1. Bad \subseteq Nat
    OBVIOUS
  <2> HIDE DEF Bad
  <2> QED BY <1>1, <2>1, Least
<1>3. m \in 0 .. N /\ \A f : ~Is(m, f)
  BY <1>2
<1>4. CASE m = 0
  <2>1. Is(0, [j \in 1 .. 0 |-> 0])
    OBVIOUS
  <2> QED BY <1>3, <1>4, <2>1
<1>5. CASE m # 0
  <2>1. PICK k \in 0 .. N : m = k + 1
    <3>1. m - 1 \in 0 .. N /\ m = (m - 1) + 1
      BY <1>3, <1>5
    <3> QED BY <3>1
  <2>2. PICK f : Is(k, f)
    <3>1. k \notin Bad
      <4>1. ~(m <= k)
        BY <2>1
      <4> QED BY <1>2, <4>1
    <3> QED BY <3>1
  <2> DEFINE g == [j \in 1 .. m |-> IF j = 1 THEN 0 ELSE f[j - 1] + sz[j - 1]]
  <2>3. \A j \in 1 .. k : f[j] = IF j = 1 THEN 0 ELSE f[j - 1] + sz[j - 1]
    BY <2>2
  <2>4. \A j \in 1 .. m : g[j] = IF j = 1 THEN 0 ELSE f[j - 1] + sz[j - 1]
    OBVIOUS
  <2>5. \A j \in 1 .. k : g[j] = f[j]
    <3> HIDE DEF g
    <3> QED BY <2>1, <2>3, <2>4
  <2>6. \A j \in 1 .. m : j # 1 => g[j - 1] = f[j - 1]
    <3> HIDE DEF g
    <3>1. \A j \in 1 .. m : j # 1 => j - 1 \in 1 .. k
      BY <2>1
    <3> QED BY <2>5, <3>1
  <2>7. \A j \in 1 .. m : (IF j = 1 THEN 0 ELSE f[j - 1] + sz[j - 1]) = IF j = 1 THEN 0 ELSE g[j - 1] + sz[j - 1]
    <3> HIDE DEF g
    <3> QED BY <2>6
  <2>8. g = [j \in 1 .. m |-> IF j = 1 THEN 0 ELSE g[j - 1] + sz[j - 1]]
    <3>1. PICK G : G = g /\ G = [j \in 1 .. m |-> IF j = 1 THEN 0 ELSE f[j - 1] + sz[j - 1]]
      OBVIOUS
    <3> HIDE DEF g
    <3> QED BY <2>7, <3>1
  <2> QED BY <1>3, <2>8
<1> QED BY <1>4, <1>5

Starts(d, num) == /\ StartOf(d, 1) = 0
                  /\ \A i \in 1 .. num : StartOf(d, i + 1) = StartOf(d, i) + Size(d, d.nodes[i])
LEMMA StartIs ==
  ASSUME NEW d, NEW num \in Nat, Len(d.nodes) = num
  PROVE  Starts(d, num)
<1> DEFINE sz == [j \in 1 .. num |-> Size(d, d.nodes[j])]
           Is(f) == f = [j \in 1 .. Len(d.nodes) + 1 |-> IF j = 1 THEN 0 ELSE f[j - 1] + Size(d, d.nodes[j - 1])]
           x == CHOOSE f : Is(f)
<1>1. \A i : StartOf(d, i) = x[i]
  BY DEF StartOf
<1>2. Is(x)
  <2>1. num + 1 \in Nat
    OBVIOUS
  <2>2. PICK f : f = [j \in 1 .. num + 1 |-> IF j = 1 THEN 0 ELSE f[j - 1] + sz[j - 1]]
    <3> HIDE DEF sz
    <3> QED BY <2>1, SumsExist
  <2>3. \A j \in 1 .. num + 1 : j # 1 => sz[j - 1] = Size(d, d.nodes[j - 1])
    <3>1. \A j \in 1 .. num + 1 : j # 1 => j - 1 \in 1 .. num
      OBVIOUS
    <3> QED BY <3>1
  <2>4. \A j \in 1 .. num + 1 : (IF j = 1 THEN 0 ELSE f[j - 1] + sz[j - 1]) = IF j = 1 THEN 0 ELSE f[j - 1] + Size(d, d.nodes[j - 1])
    <3> HIDE DEF sz
    <3> QED BY <2>3
  <2>5. Is(f)
    <3>1. f = [j \in 1 .. num + 1 |-> IF j = 1 THEN 0 ELSE f[j - 1] + Size(d, d.nodes[j - 1])]
      <4> HIDE DEF sz
      <4> QED BY <2>2, <2>4
    <3> QED BY <3>1
  <2> HIDE DEF Is
  <2> QED BY <2>5
<1>3. /\ x[1] = 0 /\ \A j \in 1 .. num + 1 : j # 1 => x[j] = x[j - 1] + Size(d, d.nodes[j - 1])
  <2>1. PICK G : G = x /\ G = [j \in 1 .. num + 1 |-> IF j = 1 THEN 0 ELSE G[j - 1] + Size(d, d.nodes[j - 1])]
    BY <1>2
  <2>2. ASSUME NEW j \in 1 .. num + 1 PROVE G[j] = IF j = 1 THEN 0 ELSE G[j - 1] + Size(d, d.nodes[j - 1])
    BY <2>1
  <2>3. 1 \in 1 .. num + 1
    OBVIOUS
  <2>4. G[1] = 0
    BY <2>2, <2>3
  <2> HIDE DEF x
  <2> QED BY <2>1, <2>2, <2>4
<1>4. ASSUME NEW i \in 1 .. num PROVE x[i + 1] = x[i] + Size(d, d.nodes[i])
  <2> HIDE DEF x
  <2>1. i + 1 \in 1 .. num + 1 /\ i + 1 # 1 /\ (i + 1) - 1 = i
    OBVIOUS
  <2> QED BY <1>3, <2>1
<1> HIDE DEF x
<1> QED BY <1>1, <1>3, <1>4 DEF Starts


(* The image so far is the nodes that were taken, each where it starts.    *)
LiesAt(d, e, bytes, start) ==
  \E q \in Seq(FileByte) : /\ start \in Nat /\ start + Len(q) <= Len(bytes) /\ CopiedAt(bytes, start, q) /\ Fulfils(d, e, q)
Made(d, bytes, num) == /\ Len(bytes) = StartOf(d, num)
                       /\ \A i \in 1 .. num - 1 : LiesAt(d, d.nodes[i], bytes, StartOf(d, i))
Intended == doc.md5 # <<>> \/ Unmistakable => AssembledAs(doc, image)
MraInv ==
  /\ doc \in Docs /\ romset \in Romsets /\ FilesRead /\ image \in Seq(FileByte) /\ node \in 1 .. Len(doc.nodes) + 1
  /\ stage \in {"parse", "load"} => image = <<>> /\ node = 1
  /\ stage = "nodes" /\ Unmistakable => Made(doc, image, node)
  /\ stage \in {"open", "write", "wrote"} => Intended
  /\ stage \notin {"write", "wrote", "killed"} => rom = OldRom
  /\ rom # OldRom => rom \in Beginnings(image) /\ Intended
  /\ stage = "wrote" => rom = image

LEMMA Lengthened ==
  ASSUME NEW q \in Seq(FileByte), NEW r \in Seq(FileByte)
  PROVE  /\ q \o r \in Seq(FileByte) /\ Len(q \o r) = Len(q) + Len(r)
         /\ \A k \in 1 .. Len(q) : (q \o r)[k] = q[k]
         /\ CopiedAt(q \o r, Len(q), r)
<1>1. q \o r \in Seq(FileByte) /\ Len(q \o r) = Len(q) + Len(r)
  OBVIOUS
<1>2. \A k \in 1 .. Len(q) : (q \o r)[k] = q[k]
  OBVIOUS
<1>3. \A j \in 1 .. Len(r) : (q \o r)[Len(q) + j] = r[j]
  OBVIOUS
<1> QED BY <1>1, <1>2, <1>3 DEF CopiedAt

LEMMA StillLies ==
  ASSUME NEW d, NEW e, NEW q \in Seq(FileByte), NEW r \in Seq(FileByte), NEW start, LiesAt(d, e, q, start)
  PROVE  LiesAt(d, e, q \o r, start)
<1>1. PICK s \in Seq(FileByte) : /\ start \in Nat /\ start + Len(s) <= Len(q) /\ CopiedAt(q, start, s) /\ Fulfils(d, e, s)
  BY DEF LiesAt
<1>2. PICK a \in Nat, b \in Nat, c \in Nat : a = Len(q) /\ b = Len(r) /\ c = Len(s) /\ start + c <= a
  BY <1>1
<1>3. Len(q \o r) = a + b /\ \A k \in 1 .. a : (q \o r)[k] = q[k]
  BY <1>2, Lengthened
<1>4. ASSUME NEW j \in 1 .. c PROVE (q \o r)[start + j] = s[j]
  <2>1. PICK k \in 1 .. a : k = start + j
    <3>1. start + j \in 1 .. a
      BY <1>1, <1>2
    <3> QED BY <3>1
  <2>2. q[k] = s[j]
    BY <1>1, <1>2, <2>1 DEF CopiedAt
  <2> QED BY <1>3, <2>1, <2>2
<1>5. start + Len(s) <= Len(q \o r)
  BY <1>1, <1>2, <1>3
<1>6. CopiedAt(q \o r, start, s)
  BY <1>2, <1>4 DEF CopiedAt
<1> QED BY <1>1, <1>5, <1>6 DEF LiesAt

LEMMA MadeOn ==
  ASSUME NEW d, NEW num \in Nat, Len(d.nodes) = num, NEW k \in 1 .. num, NEW q \in Seq(FileByte), NEW r \in Seq(FileByte),
         Made(d, q, k), Fulfils(d, d.nodes[k], r)
  PROVE  Made(d, q \o r, k + 1)
<1>1. PICK a \in Nat, b \in Nat : a = Len(q) /\ b = Len(r) /\ a = StartOf(d, k) /\ b = Size(d, d.nodes[k])
  BY DEF Made, Fulfils
<1>2. StartOf(d, k + 1) = a + b
  <2>1. Starts(d, num)
    BY StartIs
  <2> QED BY <1>1, <2>1 DEF Starts
<1>3. Len(q \o r) = a + b /\ CopiedAt(q \o r, a, r)
  BY <1>1, Lengthened
<1>4. LiesAt(d, d.nodes[k], q \o r, StartOf(d, k))
  <2>1. a \in Nat /\ a + Len(r) <= Len(q \o r) /\ CopiedAt(q \o r, a, r) /\ Fulfils(d, d.nodes[k], r)
    BY <1>1, <1>3
  <2> QED BY <1>1, <2>1 DEF LiesAt
<1>5. ASSUME NEW i \in 1 .. (k + 1) - 1 PROVE LiesAt(d, d.nodes[i], q \o r, StartOf(d, i))
  <2>1. CASE i = k
    BY <1>4, <2>1
  <2>2. CASE i # k
    <3>1. i \in 1 .. k - 1
      BY <2>2
    <3>2. LiesAt(d, d.nodes[i], q, StartOf(d, i))
      BY <3>1 DEF Made
    <3> QED BY <3>2, StillLies
  <2> QED BY <2>1, <2>2
<1> QED BY <1>2, <1>3, <1>5 DEF Made

LEMMA MadeStarts == ASSUME NEW d, NEW num \in Nat, Len(d.nodes) = num PROVE Made(d, <<>>, 1)
<1>1. StartOf(d, 1) = 0
  BY StartIs DEF Starts
<1> QED BY <1>1 DEF Made

LEMMA MadeWhole ==
  ASSUME NEW d, NEW num \in Nat, Len(d.nodes) = num, DOMAIN d.nodes = 1 .. num, NEW q, Made(d, q, num + 1)
  PROVE  AssembledAs(d, q)
<1>1. ASSUME NEW i \in 1 .. num PROVE Holds(d, q, d.nodes[i], StartOf(d, i))
  <2>1. i \in 1 .. (num + 1) - 1
    OBVIOUS
  <2>2. LiesAt(d, d.nodes[i], q, StartOf(d, i))
    BY <2>1 DEF Made
  <2> QED BY <2>2 DEF LiesAt, Fulfils
<1>2. Len(q) = StartOf(d, Len(d.nodes) + 1)
  BY DEF Made
<1> QED BY <1>1, <1>2 DEF AssembledAs


LEMMA DocsAre ==
  ASSUME NEW d \in Docs
  PROVE  /\ Len(d.nodes) \in Nat /\ DOMAIN d.nodes = 1 .. Len(d.nodes)
         /\ \A k \in 1 .. Len(d.nodes) : WellWritten(d, d.nodes[k])
         /\ d.md5 = <<>> \/ d.md5 \notin Seq(FileByte) \/ AssembledAs(d, d.md5)
<1>1. PICK T : T = Range(d.nodes) /\ d.nodes \in Seq(T)
  BY DocAssumption
<1>2. Len(d.nodes) \in Nat /\ DOMAIN d.nodes = 1 .. Len(d.nodes)
  BY <1>1
<1>3. ASSUME NEW k \in 1 .. Len(d.nodes) PROVE WellWritten(d, d.nodes[k])
  <2>1. d.nodes[k] \in Range(d.nodes)
    BY <1>2 DEF Range
  <2> QED BY <2>1, DocAssumption DEF WellWritten
<1>4. d.md5 = <<>> \/ d.md5 \notin Seq(FileByte) \/ AssembledAs(d, d.md5)
  BY DocAssumption
<1> QED BY <1>2, <1>3, <1>4

(* What the next block is: the node's, whole.                              *)
LEMMA TakenIs ==
  ASSUME MraInv, stage = "nodes", node <= Len(doc.nodes), NEW block, block = Block(doc.nodes[node]), Take(block)
  PROVE  MraInv'
<1>1. PICK num \in Nat : num = Len(doc.nodes) /\ node \in 1 .. num
  BY DocsAre DEF MraInv
<1>2. doc' = doc /\ romset' = romset /\ rom' = rom /\ rom = OldRom
  BY DEF Take, Goes, Fail, MraInv
<1>3. CASE ~block.ok
  <2>1. stage' = "failed" /\ parts' = parts /\ node' = node /\ image' = image
    BY <1>3 DEF Take, Goes, Fail
  <2>2. FilesRead'
    BY <2>1 DEF FilesRead, MraInv
  <2> QED BY <1>2, <2>1, <2>2 DEF MraInv
<1>4. CASE block.ok
  <2>1. stage' = "nodes" /\ parts' = parts /\ node' = node + 1 /\ image' = image \o block.data
    BY <1>4 DEF Take, Goes
  <2>2. FilesRead /\ FilesRead'
    BY <2>1 DEF FilesRead, MraInv
  <2>3. PICK e : e = doc.nodes[node] /\ WellWritten(doc, e) /\ Block(e) = block
    BY <1>1, DocsAre DEF MraInv
  <2>4. PICK r \in Seq(FileByte) : r = block.data
    BY <1>4, <2>2, <2>3, BlockBytes
  <2>5. image \in Seq(FileByte) /\ image' \in Seq(FileByte)
    <3>1. image \in Seq(FileByte)
      BY DEF MraInv
    <3> QED BY <2>1, <2>4, <3>1, Lengthened
  <2>6. node' \in 1 .. Len(doc.nodes) + 1
    BY <1>1, <2>1
  <2>7. ASSUME Unmistakable PROVE Made(doc, image', node')
    <3>1. NoCollision(doc) /\ Checksummed(e)
      BY <1>1, <2>3, <2>7, DocsAre DEF Unmistakable, NoCollision, MraInv
    <3>2. Fulfils(doc, doc.nodes[node], r)
      BY <1>4, <2>2, <2>3, <2>4, <3>1, BlockHolds
    <3>3. Made(doc, image, node)
      BY <2>7 DEF MraInv
    <3>4. Made(doc, image \o r, node + 1)
      BY <1>1, <2>5, <3>2, <3>3, MadeOn
    <3> QED BY <2>1, <2>4, <3>4
  <2>8. Unmistakable' => Unmistakable
    BY <1>2, <2>1 DEF Unmistakable
  <2>9. (stage = "nodes" /\ Unmistakable => Made(doc, image, node))'
    BY <1>2, <2>7, <2>8
  <2> QED BY <1>2, <2>1, <2>2, <2>5, <2>6, <2>9 DEF MraInv
<1> QED BY <1>3, <1>4

LEMMA MraStarts == MraInit => MraInv
<1> SUFFICES ASSUME MraInit PROVE MraInv
  OBVIOUS
<1>1. doc \in Docs /\ romset \in Romsets /\ stage = "parse" /\ parts = <<>> /\ node = 1 /\ image = <<>> /\ rom = OldRom
  BY DEF MraInit
<1>2. FilesRead
  <2>1. DOMAIN <<>> = 1 .. 0 /\ 0 \in Nat
    OBVIOUS
  <2> QED BY <1>1, <2>1 DEF FilesRead
<1>3. Len(doc.nodes) \in Nat
  BY <1>1, DocsAre
<1>4. node \in 1 .. Len(doc.nodes) + 1
  BY <1>1, <1>3
<1> QED BY <1>1, <1>2, <1>4 DEF MraInv

LEMMA MraStep == MraInv /\ [MraNext]_mraVars => MraInv'
<1> SUFFICES ASSUME MraInv, [MraNext]_mraVars PROVE MraInv'
  OBVIOUS
<1>1. CASE Parse
  <2>1. doc' = doc /\ romset' = romset /\ rom' = rom /\ parts' = parts /\ node' = node /\ image' = image
        /\ stage = "parse" /\ stage' \in {"load", "failed"}
    BY <1>1 DEF Parse, Goes, Fail
  <2>2. FilesRead'
    BY <2>1 DEF FilesRead, MraInv
  <2> QED BY <2>1, <2>2 DEF MraInv
<1>2. CASE load_parts
  <2>1. doc' = doc /\ romset' = romset /\ rom' = rom /\ node' = node /\ image' = image /\ stage = "load"
    BY <1>2 DEF load_parts, Goes, Fail
  <2>2. image = <<>> /\ node = 1 /\ rom = OldRom
    BY <2>1 DEF MraInv
  <2>3. CASE stage' = "failed" /\ parts' = parts
    <3>1. FilesRead'
      BY <2>3 DEF FilesRead, MraInv
    <3> QED BY <2>1, <2>3, <3>1 DEF MraInv
  <2>4. CASE /\ stage' = "nodes"
             /\ parts' = [i \in DOMAIN romset.files |-> LET f == romset.files[i] IN [depth |-> f.depth, name |-> Lower(f.name), data |-> f.data]]
    <3>1. PICK num \in Nat : DOMAIN romset.files = 1 .. num /\ \A i \in 1 .. num : romset.files[i].data \in Seq(FileByte)
      <4>1. romset \in Romsets
        BY DEF MraInv
      <4>2. romset.files \in Seq(Range(romset.files)) /\ \A f \in Range(romset.files) : f.data \in Seq(FileByte)
        BY <4>1, RomsetAssumption
      <4>3. DOMAIN romset.files = 1 .. Len(romset.files) /\ Len(romset.files) \in Nat
        BY <4>2
      <4>4. \A i \in DOMAIN romset.files : romset.files[i] \in Range(romset.files)
        BY DEF Range
      <4> QED BY <4>2, <4>3, <4>4
    <3>2. DOMAIN parts' = 1 .. num /\ \A i \in 1 .. num : parts'[i].data = romset.files[i].data
      BY <2>4, <3>1
    <3>3. FilesRead'
      BY <3>1, <3>2 DEF FilesRead
    <3>4. Made(doc, image, node)'
      <4>1. doc \in Docs
        BY DEF MraInv
      <4> QED BY <2>1, <2>2, <4>1, DocsAre, MadeStarts
    <3> QED BY <2>1, <2>2, <2>4, <3>3, <3>4 DEF MraInv
  <2> QED BY <1>2, <2>3, <2>4 DEF load_parts, Goes, Fail
<1>3. CASE FromPart
  <2>1. stage = "nodes" /\ node <= Len(doc.nodes) /\ doc.nodes[node].tag \in {"part", "literal"} /\ Take(get_part(doc.nodes[node]))
    BY <1>3 DEF FromPart, AtNode
  <2>2. get_part(doc.nodes[node]) = Block(doc.nodes[node])
    BY <2>1 DEF Block
  <2> QED BY <2>1, <2>2, TakenIs
<1>4. CASE Woven
  <2>1. stage = "nodes" /\ node <= Len(doc.nodes) /\ doc.nodes[node].tag = "interleave" /\ Take(do_interleave(doc.nodes[node]))
    BY <1>4 DEF Woven, AtNode
  <2>2. do_interleave(doc.nodes[node]) = Block(doc.nodes[node])
    BY <2>1 DEF Block
  <2> QED BY <2>1, <2>2, TakenIs
<1>5. CASE Skip
  <2>1. stage = "nodes" /\ node <= Len(doc.nodes) /\ doc.nodes[node].tag = "other" /\ Take(Got(<<>>))
    BY <1>5 DEF Skip, AtNode
  <2>2. Got(<<>>) = Block(doc.nodes[node])
    BY <2>1 DEF Block
  <2> QED BY <2>1, <2>2, TakenIs
<1>6. CASE VerifyMd5
  <2>1. doc' = doc /\ romset' = romset /\ rom' = rom /\ parts' = parts /\ node' = node /\ image' = image
        /\ stage = "nodes" /\ node > Len(doc.nodes) /\ stage' \in {"open", "failed"}
        /\ (stage' = "open" => doc.md5 \in {<<>>, image})
    BY <1>6 DEF VerifyMd5, Goes, Fail
  <2>2. FilesRead' /\ Intended' = Intended
    BY <2>1 DEF FilesRead, Intended, Unmistakable, MraInv
  <2>3. ASSUME stage' = "open" PROVE Intended
    <3>1. PICK num \in Nat : num = Len(doc.nodes) /\ DOMAIN doc.nodes = 1 .. num /\ node = num + 1
      <4>1. doc \in Docs /\ node \in 1 .. Len(doc.nodes) + 1
        BY DEF MraInv
      <4>2. PICK num \in Nat : num = Len(doc.nodes) /\ DOMAIN doc.nodes = 1 .. num
        BY <4>1, DocsAre
      <4> QED BY <2>1, <4>1, <4>2
    <3>2. CASE doc.md5 # <<>>
      <4>1. doc.md5 = image /\ doc \in Docs /\ image \in Seq(FileByte)
        BY <2>1, <2>3, <3>2 DEF MraInv
      <4>2. AssembledAs(doc, image)
        BY <3>2, <4>1, DocsAre
      <4> QED BY <4>2 DEF Intended
    <3>3. CASE doc.md5 = <<>> /\ Unmistakable
      <4>1. Made(doc, image, num + 1)
        BY <2>1, <3>1, <3>3 DEF MraInv
      <4>2. AssembledAs(doc, image)
        BY <3>1, <4>1, MadeWhole
      <4> QED BY <4>2 DEF Intended
    <3> QED BY <3>2, <3>3 DEF Intended
  <2> QED BY <2>1, <2>2, <2>3 DEF MraInv
<1>7. CASE OpenRom \/ WriteRom \/ Killed
  <2>1. doc' = doc /\ romset' = romset /\ parts' = parts /\ node' = node /\ image' = image
    BY <1>7 DEF OpenRom, WriteRom, Killed
  <2>2. FilesRead' /\ Intended' = Intended /\ Beginnings(image)' = Beginnings(image)
    BY <2>1 DEF FilesRead, Intended, Unmistakable, MraInv
  <2>3. image \in Seq(FileByte)
    BY DEF MraInv
  <2>4. <<>> \in Beginnings(image) /\ image \in Beginnings(image)
    <3>1. PICK L \in Nat : L = Len(image)
      BY <2>3
    <3>2. SubSeq(image, 1, 0) = <<>> /\ SubSeq(image, 1, L) = image
      BY <2>3, <3>1
    <3>3. 0 \in 0 .. L /\ L \in 0 .. L
      OBVIOUS
    <3> QED BY <3>1, <3>2, <3>3 DEF Beginnings
  <2>5. CASE OpenRom
    <3>1. stage = "open" /\ stage' = "write" /\ rom' = <<>>
      BY <2>5 DEF OpenRom
    <3> QED BY <2>1, <2>2, <2>4, <3>1 DEF MraInv
  <2>6. CASE WriteRom
    <3>1. stage = "write" /\ stage' = "wrote" /\ rom' = image
      BY <2>6 DEF WriteRom
    <3> QED BY <2>1, <2>2, <2>4, <3>1 DEF MraInv
  <2>7. CASE Killed
    <3>1. stage' = "killed" /\ stage # "wrote" /\ ((rom' \in Beginnings(image) /\ stage = "write") \/ rom' = rom)
      BY <2>7 DEF Killed
    <3> QED BY <2>1, <2>2, <3>1 DEF MraInv
  <2> QED BY <1>7, <2>5, <2>6, <2>7
<1>8. CASE UNCHANGED mraVars
  <2>1. doc' = doc /\ romset' = romset /\ rom' = rom /\ parts' = parts /\ node' = node /\ image' = image /\ stage' = stage
    BY <1>8 DEF mraVars
  <2>2. FilesRead' /\ Intended' = Intended /\ (Unmistakable' <=> Unmistakable)
    BY <2>1 DEF FilesRead, Intended, Unmistakable, MraInv
  <2> QED BY <2>1, <2>2 DEF MraInv
<1> QED BY <1>1, <1>2, <1>3, <1>4, <1>5, <1>6, <1>7, <1>8 DEF MraNext

(* The file that is left is the old one, or the beginning of the image the *)
(* .mra was written for, whatever files of whatever names the romset holds *)
(* in whatever order (mra_build.py 33-41, 158-196): when the .mra has the  *)
(* image's md5, or its parts' checksums tell the files apart.              *)
THEOREM ImageIntendedCorrect == MraSpec => []ImageIntended
<1>1. MraInit => MraInv
  BY MraStarts
<1>2. MraInv /\ [MraNext]_mraVars => MraInv'
  BY MraStep
<1>3. MraInv => ImageIntended
  BY DEF MraInv, Intended, ImageIntended
<1> QED BY <1>1, <1>2, <1>3, PTL DEF MraSpec
=============================================================================
