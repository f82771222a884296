---------------------------- MODULE MCModeration ----------------------------
(* A small instance of Moderation: a root, two categories below each other *)
(* under it, three links and a fourth to create.                           *)
EXTENDS Moderation, TLC

MCParent == 1 :> 0 @@ 2 :> 1 @@ 3 :> 2

MCLive ==
    1 :> [cat |-> 2, text |-> "a", status |-> "pending"]
      @@ 2 :> [cat |-> 2, text |-> "a", status |-> "approved"]
      @@ 3 :> [cat |-> 3, text |-> "a", status |-> "pending"] @@ 4 :> None

Sent(kinds, ids, texts, statuses, cats, names) ==
    [kind : kinds, ids : ids, text : texts, status : statuses, cat : cats, name : names]

Symmetry == Permutations(Slot)

No == {None}
One1 == {<<1>>}
Two == {<<1, 2>>}

MCForm ==
    UNION {
      Sent({"edit"}, One1, {"b"}, {"pending", "rejected"}, {1, 2, 3}, No),
      Sent({"edit"}, One1, {"b"}, No, {2}, No),
      Sent({"inline"}, One1, {"a", "b"}, No, No, No),
      Sent({"new"}, {<<>>}, {"a"}, No, {1, 3}, No),
      Sent({"submit"}, {<<>>}, {"a"}, No, {3}, No),
      Sent({"decide"}, One1, No, {"approved"}, No, No),
      Sent({"delete"}, One1, No, No, No, No),
      Sent({"bulk_status"}, Two, No, {"approved"}, No, No),
      Sent({"bulk_delete"}, Two, No, No, No, No),
      Sent({"bulk_move"}, Two, No, No, {3}, No),
      Sent({"bulk_delete_categories"}, {<<2, 3>>}, No, No, No, No),
      Sent({"category_new", "category_edit"}, {<<>>}, No, No, {3}, {"m"}),
      Sent({"category_delete"}, {<<>>}, No, No, {3}, No),
      Sent({"walk"}, {<<>>}, No, {"pending"}, {0, 1}, No),
      Sent({"walk"}, {<<>>}, No, No, {2}, No)}

=============================================================================
