------------------------------ MODULE MraBuild ------------------------------
(***************************************************************************)
(* tools/mra_build.py: the image the Pocket loads, assembled from a        *)
(* romset by an .mra description.                                          *)
(*                                                                         *)
(* A file is [depth, name, data]: how many directories its member path     *)
(* has, its base name, its bytes.  A node of the description is a record   *)
(* with a tag: a part [name, crc, offset, length] (crc the set of accepted *)
(* checksums, empty if there is none; length NoLength if there is none),   *)
(* a literal [body, repeat] or an interleave [width, of], whose parts also *)
(* have a map, the digits as they are written.  The md5 of an image is the *)
(* image: nothing else has it.  CRCs may collide.                          *)
(***************************************************************************)
EXTENDS Integers, Sequences, FiniteSets, Functions

CONSTANTS
  Crc(_),       \* the CRC32 of a file's bytes
  Lower(_),     \* a name in lower case
  Docs,         \* descriptions: [rom, nodes, md5, truth], truth the contents meant for each name
  Romsets,      \* romsets: [kind, files]
  NoLength

VARIABLES doc, romset, stage, parts, node, image, rom
mraVars == <<doc, romset, stage, parts, node, image, rom>>

OldRom == <<-1>>

MraInit == /\ doc \in Docs /\ romset \in Romsets
           /\ stage = "parse" /\ parts = <<>> /\ node = 1 /\ image = <<>> /\ rom = OldRom

Goes(to) == stage' = to /\ UNCHANGED <<doc, romset, rom>>
Fail     == Goes("failed") /\ UNCHANGED <<parts, node, image>>

-----------------------------------------------------------------------------
Parse == /\ stage = "parse"
         /\ \/ doc.rom /\ Goes("load") /\ UNCHANGED <<parts, node, image>>
            \/ ~doc.rom /\ Fail

Readable == romset.kind = "zip" \/ (romset.kind = "dir" /\ romset.files # <<>>)
load_parts ==
  /\ stage = "load"
  /\ \/ /\ Readable /\ Goes("nodes")
        /\ parts' = [i \in DOMAIN romset.files |-> LET f == romset.files[i] IN [depth |-> f.depth, name |-> Lower(f.name), data |-> f.data]]
        /\ UNCHANGED <<node, image>>
     \/ ~Readable /\ Fail

Error == [ok |-> FALSE, data |-> <<>>]
Got(data) == [ok |-> TRUE, data |-> data]

literal_bytes(p) ==
  IF p.body = <<>> \/ \E i \in DOMAIN p.body : p.body[i] \notin 0 .. 255 THEN Error
  ELSE Got([i \in 1 .. p.repeat * Len(p.body) |-> p.body[1 + ((i - 1) % Len(p.body))]])

(* The file a part's name and checksums select, as an index into `parts';  *)
(* 0 if there is none.                                                     *)
Named(p, i)  == parts[i].name = Lower(p.name)
Wanted(p, i) == Crc(parts[i].data) \in p.crc
First(set)   == IF set = {} THEN 0 ELSE CHOOSE i \in set : \A j \in set : i <= j
Topmost(set) == First({i \in set : \A j \in set : parts[i].depth <= parts[j].depth})
LastOfName(p) ==                            \* fault variant: keyed by base name, the last one read
  LET named == {i \in DOMAIN parts : Named(p, i)} IN IF named = {} THEN 0 ELSE CHOOSE i \in named : \A j \in named : j <= i
Selected(p) ==
  LET named == {i \in DOMAIN parts : Named(p, i)}
      own   == First({i \in named : Wanted(p, i)})
  IN  IF p.crc = {} THEN Topmost(named)
      ELSE IF own # 0 THEN own ELSE First({i \in DOMAIN parts : Wanted(p, i)})

sliced(p, data) ==
  IF p.length = NoLength THEN Got(SubSeq(data, p.offset + 1, Len(data)))
  ELSE IF p.offset + p.length > Len(data) THEN Error
  ELSE Got(SubSeq(data, p.offset + 1, p.offset + p.length))

get_part(p) ==
  IF p.tag = "literal" THEN literal_bytes(p)
  ELSE IF Selected(p) = 0 THEN Error ELSE sliced(p, parts[Selected(p)].data)

Supplied(map) == Cardinality({i \in DOMAIN map : map[i] # 0})
Digit(map, pos) == map[Len(map) - pos]      \* from the right, counted from 0
LeftToRight(map, pos) == map[pos + 1]       \* fault variant: the digits as they are read

Source(p) == [get |-> get_part(p), map |-> p.map, k |-> Supplied(p.map)]
WordsIn(s) == Len(s.get.data) \div s.k
Fits(s, nbytes, words) ==
  /\ Len(s.map) = nbytes /\ s.get.ok /\ s.k > 0
  /\ s.get.data = <<>> \/ \A d \in Range(s.map) : d <= s.k
  /\ Len(s.get.data) = words * s.k

(* Byte b of the words is the last source's that has a digit for it.       *)
Laid(sources, nbytes, b) ==
  LET digit(i) == Digit(sources[i].map, (b - 1) % nbytes)
      givers == {i \in DOMAIN sources : digit(i) # 0}
      giver == CHOOSE i \in givers : \A j \in givers : j <= i
  IN  IF givers = {} THEN 0 ELSE sources[giver].get.data[digit(giver) + sources[giver].k * ((b - 1) \div nbytes)]
do_interleave(e) ==
  LET nbytes  == e.width \div 8
      sources == [i \in DOMAIN e.of |-> Source(e.of[i])]
      words   == WordsIn(sources[1])
  IN  IF \/ e.width % 8 # 0 \/ e.of = <<>> \/ \E i \in DOMAIN e.of : e.of[i].tag \notin {"part", "literal"}
         \/ sources[1].k = 0 \/ \E i \in DOMAIN sources : ~Fits(sources[i], nbytes, words)
        THEN Error ELSE Got([b \in 1 .. words * nbytes |-> Laid(sources, nbytes, b)])

Take(block) == IF block.ok THEN Goes("nodes") /\ image' = image \o block.data /\ node' = node + 1 /\ UNCHANGED parts
               ELSE Fail
AtNode(tags) == stage = "nodes" /\ node <= Len(doc.nodes) /\ doc.nodes[node].tag \in tags
FromPart   == AtNode({"part", "literal"}) /\ Take(get_part(doc.nodes[node]))
Woven      == AtNode({"interleave"}) /\ Take(do_interleave(doc.nodes[node]))
Skip       == AtNode({"other"}) /\ Take(Got(<<>>))

VerifyMd5 ==
  /\ stage = "nodes" /\ node > Len(doc.nodes)
  /\ \/ doc.md5 \in {<<>>, image} /\ Goes("open") /\ UNCHANGED <<parts, node, image>>
     \/ doc.md5 \notin {<<>>, image} /\ Fail

(* open() empties the file before it is written.                           *)
OpenRom  == stage = "open" /\ stage' = "write" /\ rom' = <<>> /\ UNCHANGED <<doc, romset, parts, node, image>>
WriteRom == stage = "write" /\ stage' = "wrote" /\ rom' = image /\ UNCHANGED <<doc, romset, parts, node, image>>

(* The process ends early, in the middle of the write or elsewhere.        *)
Beginnings(bytes) == {SubSeq(bytes, 1, k) : k \in 0 .. Len(bytes)}
Killed == /\ stage \notin {"wrote", "failed", "killed"} /\ stage' = "killed"
          /\ rom' \in (IF stage = "write" THEN Beginnings(image) ELSE {rom})
          /\ UNCHANGED <<doc, romset, parts, node, image>>

MraOver == stage \in {"wrote", "failed", "killed"}
MraNext == Parse \/ load_parts \/ FromPart \/ Woven \/ Skip \/ VerifyMd5 \/ OpenRom \/ WriteRom \/ Killed
           \/ (MraOver /\ UNCHANGED mraVars)
MraSpec == MraInit /\ [][MraNext]_mraVars

-----------------------------------------------------------------------------
(* What the .mra means, from the contents it was written for: a part's     *)
(* byte b goes, in word b \div k, to the place of digit b % k + 1.         *)
Meant(d, p) == IF p.tag = "literal" THEN literal_bytes(p).data ELSE sliced(p, d.truth[p.name]).data
Size(d, e) ==
  CASE e.tag = "other" -> 0
    [] e.tag = "interleave" -> (Len(Meant(d, e.of[1])) \div Supplied(e.of[1].map)) * (e.width \div 8)
    [] OTHER -> Len(Meant(d, e))
PlaceOf(map, digit) == CHOOSE pos \in 0 .. Len(map) - 1 : map[Len(map) - pos] = digit
Spot(nbytes, k, map, b) == nbytes * (b \div k) + PlaceOf(map, (b % k) + 1) + 1
Holds(d, bytes, e, start) ==
  CASE e.tag = "other" -> TRUE
    [] e.tag = "interleave" ->
         \A i \in DOMAIN e.of : \A b \in 0 .. Len(Meant(d, e.of[i])) - 1 :
           bytes[start + Spot(e.width \div 8, Supplied(e.of[i].map), e.of[i].map, b)] = Meant(d, e.of[i])[b + 1]
    [] OTHER -> \A b \in 1 .. Size(d, e) : bytes[start + b] = Meant(d, e)[b]
StartOf(d, i) ==
  LET start[j \in 1 .. Len(d.nodes) + 1] == IF j = 1 THEN 0 ELSE start[j - 1] + Size(d, d.nodes[j - 1]) IN start[i]
AssembledAs(d, bytes) == /\ Len(bytes) = StartOf(d, Len(d.nodes) + 1)
                         /\ \A i \in DOMAIN d.nodes : Holds(d, bytes, d.nodes[i], StartOf(d, i))

(* The descriptions are MAME's: each digit of an interleave has one place, *)
(* each place of a word one digit, a checksum is of the contents that are  *)
(* meant, and so is the md5, or it is of no image at all.                  *)
FileByte == 0 .. 255
WrittenPart(d, p) ==
  IF p.tag = "literal" THEN p.body \in Seq(Int) /\ p.repeat \in Nat
  ELSE /\ p.name \in DOMAIN d.truth /\ d.truth[p.name] \in Seq(FileByte) /\ p.crc \subseteq {Crc(d.truth[p.name])}
       /\ p.offset \in Nat /\ p.length \in Nat \cup {NoLength}
WrittenWeave(d, e) ==
  /\ e.width \in Nat /\ e.of \in Seq(Range(e.of))
  /\ \A i \in DOMAIN e.of :
       e.of[i].tag \in {"part", "literal"} =>
         /\ WrittenPart(d, e.of[i]) /\ e.of[i].map \in Seq(Nat)
         /\ \A a, b \in DOMAIN e.of[i].map : (e.of[i].map[a] = e.of[i].map[b] /\ e.of[i].map[a] # 0) => a = b
  /\ \A i, j \in DOMAIN e.of : i # j =>
       \A a \in DOMAIN e.of[i].map \cap DOMAIN e.of[j].map : e.of[i].map[a] = 0 \/ e.of[j].map[a] = 0
ASSUME DocAssumption ==
  \A d \in Docs :
    /\ d.nodes \in Seq(Range(d.nodes))
    /\ \A e \in Range(d.nodes) : /\ e.tag \in {"part", "literal", "interleave", "other"}
                                /\ (e.tag \in {"part", "literal"} => WrittenPart(d, e))
                                /\ (e.tag = "interleave" => WrittenWeave(d, e))
    /\ d.md5 = <<>> \/ d.md5 \notin Seq(FileByte) \/ AssembledAs(d, d.md5)
(* A digit above the number of digits is refused by the slice assignment,  *)
(* whose two sides differ in length.  Two such maps it takes, and they are *)
(* not described here: the one digit of a byte-wide interleave, where the  *)
(* assignment resizes the image, and a digit past the part's last byte,    *)
(* where it deletes.                                                       *)
Refusable(e, p, digit) ==
  /\ e.width > 8 /\ p.tag = "part" /\ p.offset = 0 /\ p.length = NoLength
  /\ \A r \in Romsets : \A f \in Range(r.files) : digit <= Len(f.data)
ASSUME MapAssumption ==
  \A d \in Docs : \A e \in Range(d.nodes) : e.tag = "interleave" =>
    \A p \in Range(e.of) : p.tag \in {"part", "literal"} =>
      \A digit \in Range(p.map) : digit > Supplied(p.map) => Refusable(e, p, digit)
ASSUME RomsetAssumption ==
  \A r \in Romsets : r.files \in Seq(Range(r.files)) /\ \A f \in Range(r.files) : f.data \in Seq(FileByte)

PartChecked(p) == p.tag = "literal" \/ p.crc # {}
Checksummed(e) == /\ e.tag \in {"part", "literal"} => PartChecked(e)
                  /\ e.tag = "interleave" => \A i \in DOMAIN e.of : PartChecked(e.of[i])
Unmistakable == /\ \A i \in DOMAIN doc.nodes : Checksummed(doc.nodes[i])
                /\ \A i \in DOMAIN parts : \A name \in DOMAIN doc.truth :
                     Crc(parts[i].data) = Crc(doc.truth[name]) => parts[i].data = doc.truth[name]

(* Whatever clones' files a merged set holds, under whatever names and in  *)
(* whatever order they are read, the file that is left is the old one, or  *)
(* the beginning of the image the .mra was written for, all of it unless   *)
(* the process ended in the write: if the .mra carries the image's md5, or *)
(* if each part carries a checksum and no other file collides with it      *)
(* (mra_build.py 33-41).                                                   *)
ImageIntended ==
  rom # OldRom =>
    /\ rom \in Beginnings(image) /\ (stage = "wrote" => rom = image)
    /\ doc.md5 # <<>> \/ Unmistakable => AssembledAs(doc, image)
=============================================================================
