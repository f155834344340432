----------------------------- MODULE MCRomCache -----------------------------
(* Two tags over two lines: hits, conflict misses and both indexes.        *)
EXTENDS RomCache

CONSTANTS t0, t1, w0, w1

const_Tags  == {t0, t1}
const_Words == {w0, w1}
=============================================================================
