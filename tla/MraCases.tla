------------------------------- MODULE MraCases -------------------------------
(* Descriptions and romsets for MraBuild, good and bad; the checksum has    *)
(* collisions.                                                              *)
EXTENDS Integers, Sequences, SequencesExt, TLC

CONSTANTS NoLength

SumMod(d) == FoldSeq(LAMBDA x, acc : (3 * acc + x) % 7, 0, d)
LowerCase(name) == IF name = "A" THEN "a" ELSE name
Truth == ("a" :> <<1, 2, 3, 4>>) @@ ("A" :> <<1, 2, 3, 4>>) @@ ("b" :> <<5, 6, 7, 8>>) @@ ("c" :> <<9, 10>>)
Of(name) == [tag |-> "part", name |-> name, crc |-> {SumMod(Truth[name])}, offset |-> 0, length |-> NoLength, map |-> <<>>]
Sliced(p, offset, length) == [p EXCEPT !.offset = offset, !.length = length]
Lit(body, repeat) == [tag |-> "literal", body |-> body, repeat |-> repeat, map |-> <<>>]
Weave(width, of) == [tag |-> "interleave", width |-> width, of |-> of]
With(p, map) == [p EXCEPT !.map = map]
Bare(p) == [p EXCEPT !.crc = {}]
Desc(nodes, md5) == [rom |-> TRUE, nodes |-> nodes, md5 |-> md5, truth |-> Truth]
MCDocs == {
  Desc(<<Of("A"), Lit(<<255, 0>>, 2), Sliced(Of("b"), 1, 2)>>, <<>>),
  Desc(<<Bare(Of("a")), Bare(Of("b"))>>, <<1, 2, 3, 4, 5, 6, 7, 8>>),
  Desc(<<Of("b"), Bare(Of("a"))>>, <<>>),
  Desc(<<Weave(16, <<With(Of("a"), <<0, 1>>), With(Of("b"), <<1, 0>>)>>), Of("c")>>, <<>>),
  Desc(<<[tag |-> "other"], Weave(16, <<With(Of("a"), <<1, 0>>), With(Of("b"), <<0, 1>>)>>)>>, <<5, 1, 6, 2, 7, 3, 8, 4>>),
  Desc(<<Sliced(Of("c"), 1, NoLength), Weave(32, <<With(Of("a"), <<0, 2, 1, 0>>), With(Sliced(Of("b"), 2, 2), <<0, 0, 0, 1>>), With(Sliced(Of("b"), 0, 2), <<1, 0, 0, 0>>)>>)>>, <<>>),
  Desc(<<Weave(24, <<With(Of("a"), <<2, 0, 1>>), With(Of("c"), <<0, 1, 0>>)>>), Of("b")>>, <<>>),
  Desc(<<Weave(16, <<With(Of("a"), <<0, 1>>), With(Of("c"), <<1, 0>>)>>)>>, <<>>),
  Desc(<<Weave(16, <<With(Of("a"), <<0, 2>>), With(Of("b"), <<1, 0>>)>>)>>, <<>>),
  Desc(<<Weave(12, <<With(Of("a"), <<1>>)>>)>>, <<>>), Desc(<<Weave(16, <<>>)>>, <<>>),
  Desc(<<Of("a"), Lit(<<>>, 1)>>, <<>>), Desc(<<Of("a"), Lit(<<256>>, 1)>>, <<>>), Desc(<<Of("a"), Sliced(Of("c"), 1, 2)>>, <<>>),
  Desc(<<Of("a")>>, <<-1>>), [Desc(<<>>, <<>>) EXCEPT !.rom = FALSE]}

File(depth, name, data) == [depth |-> depth, name |-> name, data |-> data]
Own == {File(0, "A", Truth["a"]), File(1, "a", <<4, 4, 4, 4>>), File(1, "a", <<1, 2, 5, 5>>), File(0, "x", Truth["a"]), File(0, "x", <<8, 1, 2, 3>>)}
Rest == <<File(0, "b", Truth["b"]), File(2, "c", Truth["c"])>>
Some == {s \in UNION {[1 .. m -> Own] : m \in 0 .. 3} : \A i, j \in DOMAIN s : s[i] = s[j] => i = j}
MCRomsets == {[kind |-> "zip", files |-> s \o Rest] : s \in Some} \cup {[kind |-> "dir", files |-> Rest \o s] : s \in Some}
             \cup {[kind |-> k, files |-> <<>>] : k \in {"dir", "zip", "absent", "other"}}
=============================================================================
