-------------------------------- MODULE MCAssets --------------------------------
(* Two organizations, one of two users, each with an asset of one name in a    *)
(* game, and the seeded unit in another game.                                  *)
EXTENDS Assets, TLC

CONSTANTS o1, o2, u1, u2, u3, r1, r2, r3

MCHomeOf == u1 :> o1 @@ u2 :> o1 @@ u3 :> o2
MCAuthorOf == r1 :> u1 @@ r2 :> u2 @@ r3 :> u3
MCEqualNames == {<<n, n>> : n \in Name}

\* Nothing tells two workers or two ids apart, nor the two users of one
\* organization, each with a record.
Interchangeable ==
  Permutations(Worker) \cup Permutations(Asset \ {Unit})
    \cup {u1 :> u2 @@ u2 :> u1 @@ r1 :> r2 @@ r2 :> r1}
===============================================================================
