----------------------------- MODULE MCDnsCache -----------------------------
(***************************************************************************)
(* Model values for the answer cache.  Keys are interchangeable, and so    *)
(* are responses.                                                          *)
(***************************************************************************)
EXTENDS DnsCacheUse, TLC

ValueSymmetry == Permutations(Keys) \cup Permutations(Responses)
=============================================================================
