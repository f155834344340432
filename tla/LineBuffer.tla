----------------------------- MODULE LineBuffer -----------------------------
(***************************************************************************)
(* What the raster may rely on: two banks of one row each.  A line is      *)
(* drawn into the bank of its parity, of which nothing is promised while   *)
(* it is; finished, the bank holds the reference picture's row, unless the *)
(* flag is up, until the next line of that parity is begun.                *)
(***************************************************************************)
EXTENDS Naturals

CONSTANTS
  Modes,          \* the register settings
  Default,        \* the one after a reset
  Lines,
  RowOf(_, _),    \* the reference picture's row
  Blank,          \* what a bank holds after a reset
  Partial(_)      \* a bank in which a line is being drawn

VARIABLES mode, bank, flag

vars  == <<mode, bank, flag>>
Quiet == \A l \in Lines : bank[l % 2] # Partial(l)

Init == mode = Default /\ bank = [b \in 0 .. 1 |-> Blank] /\ flag = FALSE

Begin(l)  == Quiet /\ bank' = [bank EXCEPT ![l % 2] = Partial(l)] /\ UNCHANGED <<mode, flag>>
Finish(l) == /\ bank[l % 2] = Partial(l)
             /\ bank'[l % 2] # Partial(l) /\ (flag \/ bank'[l % 2] = RowOf(mode, l))
             /\ bank'[1 - (l % 2)] = bank[1 - (l % 2)]
             /\ UNCHANGED <<mode, flag>>
Raise     == flag' = TRUE /\ UNCHANGED <<mode, bank>>
Program   == Quiet /\ mode' \in Modes /\ UNCHANGED <<bank, flag>>
Clear     == mode' = Default /\ bank' = [b \in 0 .. 1 |-> Blank] /\ flag' = FALSE

Next == Raise \/ Program \/ Clear \/ \E l \in Lines : Begin(l) \/ Finish(l)
Spec == Init /\ [][Next]_vars
=============================================================================
