---------------------------- MODULE MCMigrations ----------------------------
(***************************************************************************)
(* TLC instances of Migrations: two replicas, one of them with an older    *)
(* image; the first migration can be applied twice, the second commits     *)
(* half way.                                                               *)
(***************************************************************************)
EXTENDS Migrations, TLC

CONSTANTS r1, r2

TwoReplicas == {r1, r2}
OlderImage == (r1 :> N @@ r2 :> N - 1)
First == {1}
Second == {2}
Rows7 == 1..7
=============================================================================
