-------------------------------- MODULE Access --------------------------------
(***************************************************************************)
(* What the key hierarchy of a vault promises, without ciphers, formats or *)
(* an order of calls: secrets enter only with what a user types, and after *)
(* that every secret or text is learned along a seal, from the secret it   *)
(* was sealed under.  Unlock implements this under the mapping given there.*)
(***************************************************************************)
CONSTANT
  Typable        (* secrets that hashing a master password may give        *)

VARIABLES
  known,         (* names of the secrets and texts in hand                 *)
  seals          (* <<s, x>>: x lies in the vault, sealed under s          *)

absVars == <<known, seals>>

(* What lies one seal below s. *)
Below(s) == {e[2] : e \in {d \in seals : d[1] \in s}}

Init == known = {}

(* What a step adds.  What is known may be dropped any time. *)
New == known' \ known

(* A password is typed and hashed. *)
Enter == \E s \in Typable : New \subseteq {s}

(* Something is opened, through at most one key that is not kept. *)
Learn == \A x \in New : x \in Below(known) \cup Below(Below(known))

Next == UNCHANGED seals /\ (Learn \/ Enter)

Spec == Init /\ [][Next]_absVars

(* Nothing in S leads out of S.                                            *)
Closed(S) == Typable \subseteq S /\ Below(S) \subseteq S
=============================================================================
