---------------------------- MODULE MCTeamInvites ----------------------------
(* An instance of TeamInvites for TLC: ana owns the team, ben is its admin, kim is invited. *)
EXTENDS TeamInvites, TLC

CONSTANTS ana, ben, kim, r1, r2
Three == {ana, ben, kim}
Slots == {r1, r2}
SlotSymmetry == Permutations(Slots)

\* At most so many requests of each kind.
Menu(once, twice) == [k \in Kinds |-> IF k \in twice THEN 2 ELSE IF k \in once THEN 1 ELSE 0]
AllMenus == {Menu({"add", "remove"}, {"accept"}),
             Menu({"resend", "lookup", "decline", "accept"}, {}),
             Menu({"remove", "setRole"}, {"transfer"}),
             Menu({"add", "remove"}, {"transfer"}),
             Menu({"add", "accept"}, {"remove"}),
             Menu({"add", "resend", "team"}, {})}

=============================================================================
