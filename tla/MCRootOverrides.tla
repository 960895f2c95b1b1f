--------------------------- MODULE MCRootOverrides ---------------------------
(* All command lines of at most MaxArgs arguments: two kinds of flag, two    *)
(* absolute paths, a help flag and a word.                                   *)
EXTENDS RootOverrides

CONSTANT MaxArgs

MCArgs ==
  {[is |-> "flag", of |-> "data"], [is |-> "flag", of |-> "runtime"],
   [is |-> "abs", of |-> "/a"], [is |-> "abs", of |-> "/b"],
   [is |-> "help", of |-> "--help"], [is |-> "word", of |-> "vault"]}

MCCommandLines == UNION {[1 .. n -> MCArgs] : n \in 0 .. MaxArgs}
MCAllowedSets  == {Kinds, {"runtime"}}
=============================================================================
