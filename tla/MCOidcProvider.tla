--------------------------- MODULE MCOidcProvider ---------------------------
(***************************************************************************)
(* Two request threads, two clients and two sessions of different users,   *)
(* one of which expires while the clock runs.  The user of that session    *)
(* has used the second client before.                                      *)
(***************************************************************************)
EXTENDS OidcProvider, TLC

CONSTANTS s1, s2, u1, u2, c1, c2, r1, r2

MCUserOf == s1 :> u1 @@ s2 :> u2
MCSessionEnds == s1 :> 1 @@ s2 :> 9
MCEarlierGrants == {<<u1, c2>>}
MCSymmetry == Permutations({r1, r2})
=============================================================================
