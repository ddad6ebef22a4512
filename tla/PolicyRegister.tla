--------------------------- MODULE PolicyRegister ---------------------------
(***************************************************************************)
(* What the policy store promises to the rest of the program               *)
(* (docs/decisions/ADR-002): one register holding the active policy.  A    *)
(* candidate is installed in one indivisible step, only when its           *)
(* generation is newer than the active one and it carries a version hash;  *)
(* anything else leaves the register as it is.                             *)
(***************************************************************************)
EXTENDS Integers

CONSTANTS
    Candidates,   \* the policies that may ever be offered
    Bootstrap     \* the policy the register starts with

VARIABLE policy

HasVersionHash(c) == c.version_hash # ""

\* A candidate that may replace the policy `current`.
Supersedes(c, current) ==
    /\ c.generation > current.generation
    /\ HasVersionHash(c)

Init == policy = Bootstrap

Install(c) ==
    /\ Supersedes(c, policy)
    /\ policy' = c

Next == \E c \in Candidates : Install(c)

Spec == Init /\ [][Next]_policy

=============================================================================
