----------------------------- MODULE MCSourceWalk -----------------------------
(* Model-checking instances of SourceWalk.                                  *)
EXTENDS SourceWalk, TLC

CONSTANTS r, a, b, c, d

Empty == [p \in Page |-> <<Text>>]

(* A listing longer than one answer; one that fills its answer, with a page *)
(* below; a database whose entry has a page below it, and a page with no    *)
(* text of its own.                                                         *)
SomeTrees ==
  { [Empty EXCEPT ![r] = <<Text, a, b, c>>, ![d] = <<>>],
    [Empty EXCEPT ![r] = <<a, b>>, ![a] = <<Text, c>>, ![d] = <<>>],
    [Empty EXCEPT ![r] = <<d, Text, a>>, ![d] = <<b>>, ![b] = <<Text, c>>] }
===============================================================================
