------------------------------ MODULE Packager ------------------------------
(***************************************************************************)
(* package-pocket.py: the SD-card package, assembled from pkg/pocket and   *)
(* the compiled bitstream.  It is run again and again over the same        *)
(* release directory, after the tree was edited, after it refused and      *)
(* after it was stopped half way.                                          *)
(*                                                                         *)
(* A tree is [dirs, files]: the set of its directories and a function from *)
(* its files to their bytes; a path is a sequence of names.                *)
(***************************************************************************)
EXTENDS Integers, Sequences

CONSTANTS
  Trees,        \* what pkg/pocket may hold
  OldTrees,     \* what the release directory may hold before
  Rbfs,         \* what the compiler left: Missing, or the bytes of the bitstream
  Extras,       \* the sets of files found beside the script, each a tree's files
  Ignored,      \* the names the copy leaves out: .DS_Store, *.rom, *.zip
  RomNames,     \* the names that end in .rom or .zip in any case
  CoreDir, SlotDir, InstDir,   \* paths in the package
  Instances,    \* the names of the two instance JSONs
  Missing,      \* a file, or a directory, that is not there
  Runs          \* bound: how often the script is run

(* The bitstream is a file of bytes.                                       *)
ASSUME RbfAssumption == \A r \in Rbfs : r = Missing \/ r \in Seq(0 .. 255)

Bitstream == Append(CoreDir, "bitstream.rbf_r")

VARIABLES pkg, rbf, extras, packaging, OUT, runs
inputs == <<pkg, rbf, extras>>
packVars == <<inputs, packaging, OUT, runs>>

Inputs == pkg \in Trees /\ rbf \in Rbfs /\ extras \in Extras
PackInit == Inputs /\ packaging = "rbf" /\ OUT \in OldTrees /\ runs = 1

Ends(how) == packaging' = how /\ UNCHANGED <<inputs, OUT, runs>>
Then(stage) == packaging' = stage /\ UNCHANGED <<inputs, runs>>

-----------------------------------------------------------------------------
(* REV: a byte's bits the other way round.                                 *)
Weights == <<1, 2, 4, 8, 16, 32, 64, 128>>
Bit(b, k) == (b \div Weights[k + 1]) % 2
Nibbles(b) == (b % 16) * 16 + b \div 16     \* fault variant: the halves swapped, not the bits
Rev(b) == Bit(b, 0) * 128 + Bit(b, 1) * 64 + Bit(b, 2) * 32 + Bit(b, 3) * 16
          + Bit(b, 4) * 8 + Bit(b, 5) * 4 + Bit(b, 6) * 2 + Bit(b, 7)
reversed_rbf == [i \in DOMAIN rbf |-> Rev(rbf[i])]

FindRbf == packaging = "rbf" /\ (IF rbf = Missing THEN Ends("refused") ELSE Ends("remove"))

Remove == packaging = "remove" /\ Then("copy") /\ OUT' = Missing

(* An ignored name is left out, a directory with all that is in it.        *)
Copied(path) == \A i \in DOMAIN path : path[i] \notin Ignored
Copy(tree)   == [dirs |-> {d \in tree.dirs : Copied(d)}, files |-> [f \in {p \in DOMAIN tree.files : Copied(p)} |-> tree.files[f]]]
Overlay(under, over) == [f \in DOMAIN under \cup DOMAIN over |-> IF f \in DOMAIN over THEN over[f] ELSE under[f]]
(* It makes OUT itself, and raises if there is one.                        *)
Copytree == packaging = "copy" /\ (IF OUT # Missing THEN Ends("error") ELSE Then("bitstream") /\ OUT' = Copy(pkg))

WriteBitstream ==
  /\ packaging = "bitstream"
  /\ \/ CoreDir \notin OUT.dirs /\ Ends("error")
     \/ /\ CoreDir \in OUT.dirs /\ Then("extras")
        /\ OUT' = [OUT EXCEPT !.files = Overlay(@, [f \in {Bitstream} |-> reversed_rbf])]

CopyExtras == packaging = "extras" /\ Then("slot") /\ OUT' = [OUT EXCEPT !.files = Overlay(@, extras)]

In(dir, path)  == Len(path) > Len(dir) /\ SubSeq(path, 1, Len(dir)) = dir
Entries(dir)   == {p \in OUT.dirs \cup DOMAIN OUT.files : In(dir, p)}
CheckSlot == packaging = "slot" /\ (IF SlotDir \in OUT.dirs /\ Entries(SlotDir) # {} THEN Ends("instances") ELSE Ends("refused"))
CheckInstances ==
  /\ packaging = "instances"
  /\ IF \A name \in Instances : Append(InstDir, name) \in Entries(InstDir) THEN Ends("sweep") ELSE Ends("refused")

RomFiles       == {p \in DOMAIN OUT.files : p[Len(p)] \in RomNames}
IgnoredRoms    == {p \in RomFiles : p[Len(p)] \in Ignored}     \* fault variant: by the patterns of the copy
strays         == RomFiles
Sweep == packaging = "sweep" /\ (IF strays = {} THEN Ends("packaged") ELSE Ends("refused"))

(* The process ends anywhere, in the middle of the removal or the copy:    *)
(* some of the files are there.                                            *)
Part(tree) == {[tree EXCEPT !.files = [f \in s |-> tree.files[f]]] : s \in SUBSET DOMAIN tree.files}
Torn == CASE packaging = "copy" -> {Missing} \cup Part(Copy(pkg))
          [] packaging = "remove" /\ OUT # Missing -> {Missing} \cup Part(OUT)
          [] OTHER -> {OUT}
Over == packaging \in {"packaged", "refused", "error", "stopped"}
Stopped == ~Over /\ packaging' = "stopped" /\ OUT' \in Torn /\ UNCHANGED <<inputs, runs>>

(* The next run, over what the last one left and an edited tree.           *)
Again == /\ Over /\ runs < Runs /\ runs' = runs + 1
         /\ pkg' \in Trees /\ rbf' \in Rbfs /\ extras' \in Extras
         /\ packaging' = "rbf" /\ UNCHANGED OUT

PackNext == \/ FindRbf \/ Remove \/ Copytree \/ WriteBitstream \/ CopyExtras \/ CheckSlot \/ CheckInstances \/ Sweep
            \/ Stopped \/ Again \/ (Over /\ runs = Runs /\ UNCHANGED packVars)
PackSpec == PackInit /\ [][PackNext]_packVars

-----------------------------------------------------------------------------
(* A package that is reported holds no ROM, whatever the case of its name  *)
(* (package-pocket.py 8-9), a ROM folder that is not empty, and both       *)
(* instances.                                                              *)
NoRomShipped ==
  packaging = "packaged" =>
    /\ \A p \in DOMAIN OUT.files : p[Len(p)] \notin RomNames
    /\ Entries(SlotDir) # {} /\ \A name \in Instances : Append(InstDir, name) \in Entries(InstDir)

(* Each file of the package has one source: an extra, the bitstream with   *)
(* its bits reversed, or pkg/pocket.  Nothing of an earlier run, whole or  *)
(* stopped, is in it, and nothing of this one is missing.                  *)
BitsReversed(out, in) == DOMAIN out = DOMAIN in /\ \A i \in DOMAIN in : \A k \in 0 .. 7 : Bit(out[i], k) = Bit(in[i], 7 - k)
PackageExact ==
  packaging = "packaged" =>
    /\ \A p \in DOMAIN OUT.files :
         IF p \in DOMAIN extras THEN OUT.files[p] = extras[p]
         ELSE IF p = Bitstream THEN BitsReversed(OUT.files[p], rbf)
         ELSE p \in DOMAIN pkg.files /\ Copied(p) /\ OUT.files[p] = pkg.files[p]
    /\ DOMAIN extras \cup {Bitstream} \cup {p \in DOMAIN pkg.files : Copied(p)} \subseteq DOMAIN OUT.files
=============================================================================
