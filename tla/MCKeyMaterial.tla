---------------------------- MODULE MCKeyMaterial ----------------------------
(* Lengths scaled down from 32 and 64 to 2 and 4, so that encoded keys are   *)
(* shorter than, as long as and longer than a legacy key; all byte strings.  *)
EXTENDS KeyMaterial

CONSTANT MaxLen

Cose(kid, alg, ops, k) == [kty |-> "symmetric", alg |-> alg, kid |-> kid, ops |-> ops, k |-> k]

K == <<2, 2>>

(* Some end in what looks like padding; some are keys bwu has no use for.  *)
MCCoseKeys ==
  [e \in {<<1, 0, 2>>, <<1, 2, 2, 0>>, <<1, 1, 0, 0, 1>>, <<1, 1, 0, 2, 2, 2>>,
          <<0, 0, 2>>, <<0, 1, 0, 1, 1>>, <<0, 1, 1, 1, 2>>, <<0, 2, 2, 2, 2>>} |->
     CASE e = <<1, 0, 2>>          -> Cose("a", "xchacha", {}, K)
       [] e = <<1, 2, 2, 0>>       -> Cose("b", "xchacha", {"decrypt"}, K)
       [] e = <<1, 1, 0, 0, 1>>    -> Cose("c", "xchacha", {"encrypt", "decrypt"}, K)
       [] e = <<1, 1, 0, 2, 2, 2>> -> Cose("d", "xchacha", {}, <<1, 2>>)
       [] e = <<0, 0, 2>>          -> Cose("e", "other", {}, K)
       [] e = <<0, 1, 0, 1, 1>>    -> Cose("f", "xchacha", {"encrypt"}, K)
       [] e = <<0, 1, 1, 1, 2>>    -> Cose("", "xchacha", {}, K)
       [] e = <<0, 2, 2, 2, 2>>    -> Cose("g", "xchacha", {}, << >>)]

MCInputs == UNION {[1 .. n -> 0 .. MaxByte] : n \in 0 .. MaxLen}
=============================================================================
