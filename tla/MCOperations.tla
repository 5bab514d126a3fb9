---------------------------- MODULE MCOperations ----------------------------
(***************************************************************************)
(* TLC instances of Operations: daemons "a" and "b", three operations of   *)
(* one or two chunks.                                                      *)
(***************************************************************************)
EXTENDS Operations
OneAtB == [o \in Ops |-> IF o = "push2" THEN "b" ELSE "a"]
KindOf == [o \in Ops |-> CASE o = "push2" -> "send" [] o = "pull" -> "pull" [] OTHER -> "async"]
OneOrTwo == [o \in Ops |-> IF o = "push2" THEN 2 ELSE 1]
=============================================================================
