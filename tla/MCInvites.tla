------------------------------ MODULE MCInvites ------------------------------
(***************************************************************************)
(* TLC instances of Invites: one pub, two forms, two invites.              *)
(***************************************************************************)
EXTENDS Invites, TLC

CONSTANTS i1, i2, p1, f1, f2, r1, r2

TwoInvites == {i1, i2}
OnePub == {p1}
TwoForms == {f1, f2}
TwoRequests == {r1, r2}

InviteSymmetry == Permutations(TwoInvites) \union Permutations(TwoForms)
                  \union Permutations(TwoRequests)
=============================================================================
