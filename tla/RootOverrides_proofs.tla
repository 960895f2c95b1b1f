------------------------ MODULE RootOverrides_proofs ------------------------
(***************************************************************************)
(* For command lines of any length: the loop of extract_root_overrides     *)
(* computes the meaning that Arguments gives them.                         *)
(***************************************************************************)
EXTENDS RootOverrides, FiniteSetTheorems, TLAPS

(* Parts of a command line are finite. *)
LEMMA KeptFinite ==
  ASSUME NEW a \in Seq(Args), NEW i \in Int
  PROVE  IsFiniteSet(KeptBefore(a, i)) /\ Cardinality(KeptBefore(a, i)) \in Nat
<1>1. IsFiniteSet(1 .. Len(a))
  BY FS_Interval
<1>2. KeptBefore(a, i) \subseteq 1 .. Len(a)
  BY DEF KeptBefore
<1> QED BY <1>1, <1>2, FS_Subset, FS_CardinalityType

(* One argument further, a kept one is added and nothing else changes. *)
LEMMA KeepOne ==
  ASSUME NEW a \in Seq(Args), NEW i \in 1 .. Len(a),
         ~ IsFlag(a[i]), i > 1 => ~ IsFlag(a[i - 1])
  PROVE  /\ KeptBefore(a, i + 1) = KeptBefore(a, i) \cup {i}
         /\ Cardinality(KeptBefore(a, i + 1)) = Cardinality(KeptBefore(a, i)) + 1
         /\ \A k \in Kinds : FlagsBefore(a, k, i + 1) = FlagsBefore(a, k, i)
<1>1. KeptBefore(a, i + 1) = KeptBefore(a, i) \cup {i}
  BY DEF KeptBefore
<1>2. i \notin KeptBefore(a, i)
  BY DEF KeptBefore
<1>3. \A k \in Kinds : FlagsBefore(a, k, i + 1) = FlagsBefore(a, k, i)
  BY DEF FlagsBefore
<1>4. IsFiniteSet(KeptBefore(a, i)) /\ Cardinality(KeptBefore(a, i)) \in Nat
  BY KeptFinite
<1>5. Cardinality(KeptBefore(a, i) \cup {i}) = Cardinality(KeptBefore(a, i)) + 1
  BY <1>2, <1>4, FS_AddElement
<1> QED BY <1>1, <1>3, <1>5

(* A flag and its value add one flag, the last of its kind. *)
LEMMA FlagAndValue ==
  ASSUME NEW a \in Seq(Args), NEW i \in 1 .. Len(a), i < Len(a),
         IsFlag(a[i]), ~ IsFlag(a[i + 1])
  PROVE  /\ KeptBefore(a, i + 2) = KeptBefore(a, i)
         /\ \A k \in Kinds : FlagsBefore(a, k, i + 2) =
              FlagsBefore(a, k, i) \cup (IF a[i].of = k THEN {i} ELSE {})
<1>1. KeptBefore(a, i + 2) = KeptBefore(a, i)
  BY DEF KeptBefore
<1>2. \A k \in Kinds : FlagsBefore(a, k, i + 2) =
        FlagsBefore(a, k, i) \cup (IF a[i].of = k THEN {i} ELSE {})
  BY DEF FlagsBefore
<1> QED BY <1>1, <1>2

-----------------------------------------------------------------------------

LEMMA InitIInv == Init => IInv
<1> SUFFICES ASSUME Init PROVE IInv
  OBVIOUS
<1> USE DEF Init
<1>1. argv \in Seq(Args) /\ allowed \in SUBSET Kinds
  BY CommandLinesAssumption
<1>2. Len(argv) \in Nat
  BY <1>1
<1>3. sanitized \in Seq(Args) /\ Len(sanitized) = 0
  OBVIOUS
<1>4. TypeOK
  BY <1>1, <1>2, <1>3 DEF TypeOK
<1>5. KeptBefore(argv, at) = {} /\ \A k \in Kinds : FlagsBefore(argv, k, at) = {}
  BY <1>1 DEF KeptBefore, FlagsBefore
<1>6. PrefixDone
  <2>1. Cardinality({}) = 0
    BY FS_EmptySet
  <2>2. IsRest(argv, at, sanitized)
    BY <1>3, <1>5, <2>1 DEF IsRest
  <2>3. \A k \in Kinds : IsOverride(argv, k, at, overrides[k])
    BY <1>5 DEF IsOverride
  <2>4. \A j \in 1 .. at - 1 : ~ Bad(argv, allowed, j)
    OBVIOUS
  <2> QED BY <2>2, <2>3, <2>4 DEF PrefixDone
<1> QED BY <1>4, <1>6 DEF IInv, ParseErrors

(* Keeping an argument extends the rest by it. *)
LEMMA KeepIInv == IInv /\ Keep => IInv'
<1> SUFFICES ASSUME IInv, Keep PROVE IInv'
  OBVIOUS
<1>1. /\ argv \in Seq(Args) /\ Len(argv) \in Nat /\ at \in 1 .. Len(argv)
      /\ sanitized \in Seq(Args) /\ Arg = argv[at] /\ Arg \in Args
      /\ at > 1 => ~ IsFlag(argv[at - 1])
  BY DEF IInv, TypeOK, PrefixDone, Keep, Arg
<1>2. argv' = argv /\ allowed' = allowed /\ at' = at + 1 /\ overrides' = overrides
      /\ result' = "running" /\ sanitized' = Append(sanitized, argv[at])
  BY DEF Keep, Arg
<1>3. ~ IsFlag(argv[at])
  BY DEF Keep, Arg
<1>4. TypeOK'
  BY <1>1, <1>2 DEF IInv, TypeOK
<1>5. /\ KeptBefore(argv, at + 1) = KeptBefore(argv, at) \cup {at}
      /\ Cardinality(KeptBefore(argv, at + 1)) = Cardinality(KeptBefore(argv, at)) + 1
      /\ \A k \in Kinds : FlagsBefore(argv, k, at + 1) = FlagsBefore(argv, k, at)
  BY <1>1, <1>3, KeepOne
<1>6. IsRest(argv, at + 1, sanitized')
  <2>1. Len(sanitized) = Cardinality(KeptBefore(argv, at))
        /\ \A j \in KeptBefore(argv, at) : sanitized[Cardinality(KeptBefore(argv, j)) + 1] = argv[j]
    BY DEF IInv, PrefixDone, IsRest
  <2>2. Len(sanitized') = Len(sanitized) + 1 /\ sanitized'[Len(sanitized) + 1] = argv[at]
        /\ \A m \in 1 .. Len(sanitized) : sanitized'[m] = sanitized[m]
    BY <1>1, <1>2
  <2>3. ASSUME NEW j \in KeptBefore(argv, at)
        PROVE  Cardinality(KeptBefore(argv, j)) + 1 \in 1 .. Len(sanitized)
    <3>1. j \in 1 .. Len(argv) /\ j < at
      BY <2>3 DEF KeptBefore
    <3>2. KeptBefore(argv, j) \subseteq KeptBefore(argv, at) \ {j}
      BY <1>1, <3>1 DEF KeptBefore
    <3>3. IsFiniteSet(KeptBefore(argv, at)) /\ Cardinality(KeptBefore(argv, at)) \in Nat
      BY <1>1, KeptFinite
    <3>4. Cardinality(KeptBefore(argv, at) \ {j}) = Cardinality(KeptBefore(argv, at)) - 1
          /\ IsFiniteSet(KeptBefore(argv, at) \ {j})
      BY <2>3, <3>3, FS_RemoveElement
    <3>5. Cardinality(KeptBefore(argv, j)) <= Cardinality(KeptBefore(argv, at)) - 1
      BY <3>2, <3>4, FS_Subset
    <3>6. Cardinality(KeptBefore(argv, j)) \in Nat
      BY <1>1, <3>1, KeptFinite
    <3> QED BY <2>1, <3>3, <3>5, <3>6
  <2> QED BY <1>1, <1>5, <2>1, <2>2, <2>3 DEF IsRest
<1>7. \A k \in Kinds : IsOverride(argv, k, at + 1, overrides[k])
  BY <1>5 DEF IInv, PrefixDone, IsOverride
<1>8. \A j \in 1 .. at : ~ Bad(argv, allowed, j)
  BY <1>1, <1>3 DEF IInv, PrefixDone, Bad
<1>9. PrefixDone'
  <2>1. (at + 1) - 1 = at
    BY <1>1
  <2> QED BY <1>2, <1>3, <1>6, <1>7, <1>8, <2>1 DEF PrefixDone
<1> QED BY <1>2, <1>4, <1>9 DEF IInv, ParseErrors

(* Setting a root makes its flag the last of its kind. *)
LEMMA SetIInv == IInv /\ Set => IInv'
<1> SUFFICES ASSUME IInv, Set PROVE IInv'
  OBVIOUS
<1>1. /\ argv \in Seq(Args) /\ Len(argv) \in Nat /\ at \in 1 .. Len(argv) /\ at < Len(argv)
      /\ argv[at] \in Args /\ argv[at + 1] \in Args
      /\ IsFlag(argv[at]) /\ argv[at].of \in allowed /\ IsAbsolute(argv[at + 1])
      /\ overrides \in [Kinds -> Args \cup {NoOverride}]
  BY DEF IInv, TypeOK, Set, Arg
<1>2. ~ IsFlag(argv[at + 1]) /\ argv[at].of \in Kinds
  BY <1>1, CommandLinesAssumption DEF IsFlag, IsAbsolute
<1>3. /\ argv' = argv /\ allowed' = allowed /\ at' = at + 2 /\ sanitized' = sanitized
      /\ result' = "running" /\ overrides' = [overrides EXCEPT ![argv[at].of] = argv[at + 1]]
  BY DEF Set, Arg
<1>4. TypeOK'
  BY <1>1, <1>3 DEF IInv, TypeOK
<1>5. /\ KeptBefore(argv, at + 2) = KeptBefore(argv, at)
      /\ \A k \in Kinds : FlagsBefore(argv, k, at + 2) =
           FlagsBefore(argv, k, at) \cup (IF argv[at].of = k THEN {at} ELSE {})
  BY <1>1, <1>2, FlagAndValue
<1>6. IsRest(argv, at + 2, sanitized)
  BY <1>5 DEF IInv, PrefixDone, IsRest
<1>7. ASSUME NEW k \in Kinds
      PROVE  IsOverride(argv, k, at + 2, overrides'[k])
  <2>1. CASE argv[at].of = k
    <3>1. overrides'[k] = argv[at + 1]
      BY <1>1, <1>3, <2>1
    <3>2. at \in FlagsBefore(argv, k, at + 2) /\ \A l \in FlagsBefore(argv, k, at + 2) : l <= at
      BY <1>1, <1>5, <2>1 DEF FlagsBefore
    <3> QED BY <3>1, <3>2 DEF IsOverride
  <2>2. CASE argv[at].of # k
    <3>1. overrides'[k] = overrides[k] /\ FlagsBefore(argv, k, at + 2) = FlagsBefore(argv, k, at)
      BY <1>1, <1>3, <1>5, <2>2
    <3> QED BY <3>1 DEF IInv, PrefixDone, IsOverride
  <2> QED BY <2>1, <2>2
<1>8. \A j \in 1 .. at + 1 : ~ Bad(argv, allowed, j)
  BY <1>1, <1>2 DEF IInv, PrefixDone, Bad
<1>9. PrefixDone'
  <2>1. (at + 2) - 1 = at + 1
    BY <1>1
  <2> QED BY <1>2, <1>3, <1>6, <1>7, <1>8, <2>1 DEF PrefixDone
<1> QED BY <1>3, <1>4, <1>9 DEF IInv, ParseErrors

LEMMA NextIInv == IInv /\ [Next]_vars => IInv'
<1> SUFFICES ASSUME IInv, [Next]_vars PROVE IInv'
  OBVIOUS
<1>1. CASE Keep
  BY <1>1, KeepIInv
<1>2. CASE Set
  BY <1>2, SetIInv
<1>3. ASSUME NEW r \in {"ok"} \cup ParseErrors, Return(r),
             r = "ok" => at = Len(argv) + 1,
             r # "ok" => Bad(argv, allowed, at) /\ r = ErrorAt(argv, allowed, at)
      PROVE  IInv'
  BY <1>3 DEF Return, IInv, TypeOK, PrefixDone, ParseErrors
<1>4. argv \in Seq(Args) /\ Len(argv) \in Nat /\ at \in 1 .. Len(argv) + 1
  BY DEF IInv, TypeOK
<1>5. CASE UnsupportedFlag
  BY <1>3, <1>4, <1>5 DEF UnsupportedFlag, Bad, ErrorAt, Arg, ParseErrors
<1>6. CASE MissingValue
  BY <1>3, <1>4, <1>6 DEF MissingValue, Bad, ErrorAt, Arg, ParseErrors
<1>7. CASE RelativeValue
  BY <1>3, <1>4, <1>7 DEF RelativeValue, Bad, ErrorAt, Arg, ParseErrors
<1>8. CASE Finish
  BY <1>3, <1>4, <1>8 DEF Finish
<1>9. CASE UNCHANGED vars
  BY <1>9 DEF vars, IInv, TypeOK, PrefixDone
<1> QED BY <1>1, <1>2, <1>5, <1>6, <1>7, <1>8, <1>9 DEF Next

(* At every step the loop has collected what the arguments passed mean.    *)
THEOREM LoopOnCourse == Spec => []IInv
BY InitIInv, NextIInv, PTL DEF Spec

(* The parser returns what the arguments mean, for command lines of any    *)
(* length and any set of allowed flags.                                    *)
THEOREM ParserCorrect == Spec => []ParsedAsDeclared
<1>1. IInv => ParsedAsDeclared
  <2> SUFFICES ASSUME IInv PROVE ParsedAsDeclared
    OBVIOUS
  <2>1. argv \in Seq(Args) /\ Len(argv) \in Nat /\ at \in 1 .. Len(argv) + 1
    BY DEF IInv, TypeOK
  <2>2. ASSUME result = "ok"
        PROVE  /\ Accepted(argv, allowed)
               /\ \A k \in Kinds : IsOverride(argv, k, Len(argv) + 1, overrides[k])
               /\ IsRest(argv, Len(argv) + 1, sanitized)
    BY <2>1, <2>2 DEF IInv, PrefixDone, Accepted
  <2>3. ASSUME result \in ParseErrors
        PROVE  FirstBad(argv, allowed, at) /\ result = ErrorAt(argv, allowed, at)
               /\ at \in 1 .. Len(argv)
    BY <2>1, <2>3 DEF IInv, PrefixDone, FirstBad, Bad
  <2> QED BY <2>2, <2>3 DEF ParsedAsDeclared
<1> QED BY <1>1, LoopOnCourse, PTL
=============================================================================
