----------------------------- MODULE MCResolver -----------------------------
(* Objects and pages for the model checker: a full work, a shell, one that *)
(* has a video until a list of images that has none takes it, and one that *)
(* has no identifier; pages with a full work, with a shell first, with     *)
(* nothing, and one that leads to its share page.                          *)
EXTENDS Resolver

Said(id, text, video, list) == [id |-> id, text |-> text, video |-> video, list |-> list, usable |-> FALSE]

MCObjects == (UNION {{Said(w, TRUE, TRUE, FALSE), Said(w, FALSE, TRUE, TRUE)} : w \in Works}) \cup {NoObject}

Nothing == [direct |-> NoObject, tree |-> {}]
Direct(o) == [direct |-> o, tree |-> {}]
Tree(S) == [direct |-> NoObject, tree |-> S]

MCPages ==
  {[leads |-> w, router |-> Nothing, render |-> Nothing] : w \in Works}
    \cup {[leads |-> NoWork, router |-> Tree({o, p}), render |-> Direct(o)] : o, p \in MCObjects}

=============================================================================
