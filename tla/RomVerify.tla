------------------------------ MODULE RomVerify ------------------------------
(***************************************************************************)
(* tools/make_region_manifest.py and tools/verify_rom.py: a dump of slices *)
(* of MAME's ROM regions is reduced to a manifest of their digests, and    *)
(* the slices of a built image are compared with it.                       *)
(*                                                                         *)
(* A dump is a sequence of lines: a slice's heading [kind, tag, off], the  *)
(* line of its bytes [kind, data], or another.  A digest is the bytes it   *)
(* is the SHA-256 of: no others have it.                                   *)
(***************************************************************************)
EXTENDS Integers, Sequences, FiniteSets

CONSTANTS
  LAYOUT,      \* region tag -> [at, length]: its offset in the image, its length in the region
  Packed,      \* the tag of the region whose groups of five bytes have four in the image
  Dumps,       \* the dumps, as sequences of lines
  Images       \* the images to be verified

(* A slice is cut from its region, so it ends in it; the packed region has *)
(* whole groups.                                                           *)
Octets == 0 .. 255
Lines  == [kind : {"slice"}, tag : STRING, off : Nat] \cup [kind : {"bytes"}, data : Seq(Octets)]
          \cup [kind : {"other"}]
ASSUME LayoutAssumption ==
  /\ \A tag \in DOMAIN LAYOUT : LAYOUT[tag].at \in Nat /\ LAYOUT[tag].length \in Nat
  /\ Packed \in DOMAIN LAYOUT => LAYOUT[Packed].length % 5 = 0
ASSUME DumpAssumption ==
  \A d \in Dumps :
    /\ d \in Seq(Lines)
    /\ \A i \in 1 .. Len(d) - 1 : d[i].kind = "slice" /\ d[i].tag \in DOMAIN LAYOUT /\ d[i + 1].kind = "bytes"
                                   => d[i].off + Len(d[i + 1].data) <= LAYOUT[d[i].tag].length
ASSUME ImageAssumption == \A i \in Images : i \in Seq(Octets)

Seqs == INSTANCE SequencesExt

VARIABLES dump, img, job, line, manifest, checked, bad
romVars == <<dump, img, job, line, manifest, checked, bad>>

RomInit ==
  /\ dump \in Dumps /\ img \in Images
  /\ job = "reduce" /\ line = 1 /\ manifest = <<>> /\ checked = 0 /\ bad = 0

Stops(how) == job' = how /\ UNCHANGED <<dump, img, line, manifest, checked, bad>>

-----------------------------------------------------------------------------
(* make_region_manifest.py: an entry per heading, from the line after it.  *)
Reading  == job = "reduce" /\ line <= Len(dump)
HasBytes == line < Len(dump) /\ dump[line + 1].kind = "bytes"

Slice ==
  /\ Reading /\ dump[line].kind = "slice" /\ HasBytes
  /\ manifest' = Append(manifest, [tag |-> dump[line].tag, off |-> dump[line].off,
                                   length |-> Len(dump[line + 1].data), want |-> dump[line + 1].data])
  /\ line' = line + 2 /\ UNCHANGED <<dump, img, job, checked, bad>>
Other == Reading /\ dump[line].kind # "slice" /\ line' = line + 1 /\ UNCHANGED <<dump, img, job, manifest, checked, bad>>
Headless == Reading /\ dump[line].kind = "slice" /\ ~HasBytes /\ Stops("error")

Manifest ==
  /\ job = "reduce" /\ line > Len(dump)
  /\ \/ manifest = <<>> /\ Stops("error")
     \/ manifest # <<>> /\ job' = "verify" /\ line' = 1 /\ UNCHANGED <<dump, img, manifest, checked, bad>>

-----------------------------------------------------------------------------
(* verify_rom.py: a slice of the image in the form of its region.          *)
GroupsOfFour(r, base) == base + (r \div 5) * 5 + (r % 5)     \* fault variant: the fifth byte is counted in
Where(r, base)        == base + (r \div 5) * 4 + (r % 5)

Spread(m)  == {m.off + i : i \in {j \in 0 .. m.length - 1 : (m.off + j) % 5 # 4}}
InImage(m) == m.tag \in DOMAIN LAYOUT /\ (m.tag = Packed => \A r \in Spread(m) : Where(r, LAYOUT[m.tag].at) < Len(img))
slice_bytes(m) ==
  LET base == LAYOUT[m.tag].at
  IN  IF m.tag # Packed THEN SubSeq(img, base + m.off + 1, IF base + m.off + m.length < Len(img) THEN base + m.off + m.length ELSE Len(img))
      ELSE [i \in 1 .. m.length |-> LET r == m.off + i - 1 IN IF r % 5 = 4 THEN 0 ELSE img[Where(r, base) + 1]]

Compare ==
  /\ job = "verify" /\ line <= Len(manifest)
  /\ \/ /\ InImage(manifest[line])
        /\ checked' = checked + 1
        /\ bad' = IF slice_bytes(manifest[line]) = manifest[line].want THEN bad ELSE bad + 1
        /\ line' = line + 1 /\ UNCHANGED <<dump, img, job, manifest>>
     \/ ~InImage(manifest[line]) /\ Stops("error")
Judge == job = "verify" /\ line > Len(manifest) /\ Stops(IF bad > 0 THEN "differs" ELSE "matches")

Judged == job \in {"error", "differs", "matches"}
RomNext == Slice \/ Other \/ Headless \/ Manifest \/ Compare \/ Judge \/ (Judged /\ UNCHANGED romVars)
RomSpec == RomInit /\ [][RomNext]_romVars

-----------------------------------------------------------------------------
(* The region as the image holds it, byte by byte; -1 past its end.        *)
Held(at) == IF at <= Len(img) THEN img[at] ELSE -1
Group(g, base) == [k \in 1 .. 5 |-> IF k = 5 THEN 0 ELSE Held(base + 4 * g - 4 + k)]
RegionOf(tag) ==
  LET l == LAYOUT[tag]
  IN  IF tag = Packed THEN Seqs!FlattenSeq([g \in 1 .. l.length \div 5 |-> Group(g, l.at)])
      ELSE [k \in 1 .. l.length |-> Held(l.at + k)]

(* All slices match exactly if, wherever a slice begins and ends in its    *)
(* region, the image has the dump's bytes there.                           *)
Matches(i) == LET d == dump[i + 1].data IN SubSeq(RegionOf(dump[i].tag), dump[i].off + 1, dump[i].off + Len(d)) = d
VerdictExact ==
  job \in {"differs", "matches"} =>
    /\ job = "matches" <=> \A i \in {j \in DOMAIN dump : dump[j].kind = "slice"} : Matches(i)
    /\ checked = Cardinality({j \in DOMAIN dump : dump[j].kind = "slice"})
=============================================================================
