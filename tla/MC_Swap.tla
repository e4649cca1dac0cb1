------------------------------- MODULE MC_Swap -------------------------------
(* Instances of the swap model for TLC: a task of four user pages in two  *)
(* VMAs, three user frames above five reserved ones.                       *)
EXTENDS Swap

\* Two VMAs of two pages each, as the program's mappings at start.
TwoVmas == << [base |-> 0, end |-> 2], [base |-> 2, end |-> 4] >>

\* The disk writes every page it is given.
WritesSucceed == {FALSE}
====
