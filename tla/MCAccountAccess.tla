---------------------------- MODULE MCAccountAccess ----------------------------
(* An instance of AccountAccess for TLC. *)
EXTENDS AccountAccess, TLC

CONSTANTS e1, e2, h1, h2, p1, p2, g1, r1, r2
Addresses == {e1, e2}
Places == {h1, h2}
Secrets == {p1, p2}
\* One identity at Google whose address changes from e1 to e2, one at GitHub.
Profiles == {[provider |-> "google", id |-> g1, email |-> e1], [provider |-> "google", id |-> g1, email |-> e2],
             [provider |-> "github", id |-> g1, email |-> e1]}
Slots == {r1, r2}
SlotSymmetry == Permutations(Slots) \union Permutations(Places)

Menu(once, twice) == [k \in Kinds |-> IF k \in twice THEN 2 ELSE IF k \in once THEN 1 ELSE 0]
AllMenus == {Menu({"signup", "login", "change", "delete"}, {}),
             Menu({"signup"}, {"oauth"}),
             Menu({"signup"}, {"request", "confirm"}),
             Menu({"oauth", "request", "confirm", "change"}, {}),
             Menu({"oauth", "request", "confirm", "delete"}, {}),
             Menu({"signup", "script"}, {"change"}),
             [Menu({}, {}) EXCEPT !["request"] = 2 * MaxAttempts]}

=============================================================================
