-------------------------- MODULE MCKernelSnapshot --------------------------
(* Two files in two versions: f1 is defined in a.c, which uses f2; f2 moves  *)
(* from b.c to a.c when both are edited, and the variable v is in b.c.       *)
(* Two of the three, the files and the headers that they include, are edited *)
(* at most; compiler headers are rewritten each like the other.              *)
EXTENDS KernelSnapshot

TwoFiles == <<"a", "b">>
OneHeader == <<"compiler-gcc.h">>
Defined(f, ver) == CASE f = "a" /\ ver = 1 -> {"f1"}
                     [] f = "a" /\ ver = 2 -> {"f1", "f2"}
                     [] f = "b" /\ ver = 1 -> {"f2", "v"}
                     [] f = "b" /\ ver = 2 -> {"v"}
                     [] OTHER -> {}
Used(f, ver) == IF ver = 0 THEN {} ELSE IF f = "a" THEN {"f2"} ELSE {"f1"}
TheLists == {<<"v", "f2">>}
TheMissings == {<<"f2", "v">>}
=============================================================================
