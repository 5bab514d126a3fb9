--------------------------- MODULE MCFileTransfer ---------------------------
(***************************************************************************)
(* TLC instances of FileTransfer: senders and contents are model values,   *)
(* and interchangeable where no liveness is checked.                       *)
(***************************************************************************)
EXTENDS FileTransfer, TLC
CONSTANTS s1, s2, f1, f2
TwoSenders == {s1, s2}
OneSender == {s1}
TwoContents == {f1, f2}
Symmetric == Permutations(TwoSenders) \cup Permutations(TwoContents)
=============================================================================
