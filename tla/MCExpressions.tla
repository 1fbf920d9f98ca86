---------------------------- MODULE MCExpressions ----------------------------
(***************************************************************************)
(* Instances of Expressions: two attributes, values of every type that an  *)
(* operator distinguishes, every leaf condition, and the connectives over  *)
(* a selection of leaves.                                                  *)
(***************************************************************************)
EXTENDS Expressions

MCKeyVal == S(<<1>>)

\* N(2), N(3) and N(4) are the numbers "1", "1.0" and "2".
ItemOf(f) == [x \in DOMAIN f \cup {Key} |-> IF x = Key THEN MCKeyVal ELSE f[x]]
A(v) == [x \in {"a"} |-> v]
AB(v, w) == [x \in {"a", "b"} |-> IF x = "a" THEN v ELSE w]
MCItem == {ItemOf(f) : f \in {A(N(2)), A(N(3)), A(S(<<1, 2>>)), AB(SS(<<1>>), N(2)),
                              AB(L(<<2>>), S(<<1>>)), AB(NS(<<2, 4>>), L(<<>>)), AB(N(4), N(2))}}

--------------------------------------------------------------------------------
Exists(a) == [is |-> "exists", attr |-> a]
NotExists(a) == [is |-> "not_exists", attr |-> a]
Compare(op, l, r) == [is |-> "compare", op |-> op, left |-> l, right |-> r]
And(c, d) == [is |-> "and", a |-> c, b |-> d]
Or(c, d) == [is |-> "or", a |-> c, b |-> d]
Not(c) == [is |-> "not", a |-> c]

Orders == {"<", "<=", ">", ">="}
Comparison ==
  {Compare(op, PathTo("a"), Val(v)) : op \in Orders \cup {"=", "<>"}, v \in {N(2), S(<<1>>)}}
  \cup {Compare(op, Val(N(2)), PathTo("a")) : op \in Orders}
  \cup {Compare(op, PathTo("a"), PathTo("b")) : op \in {"=", "<>", "<"}}
  \cup {Compare("<", PathTo("a"), Val(L(<<2>>))), Compare("<", Val(N(2)), Val(N(4)))}
Function ==
  {[is |-> "begins_with", attr |-> "a", arg |-> Val(S(<<1>>))],
   [is |-> "contains", attr |-> "a", arg |-> Val(S(<<2>>))],
   [is |-> "contains", attr |-> "a", arg |-> Val(N(2))],
   [is |-> "between", arg |-> PathTo("a"), lo |-> Val(N(2)), hi |-> Val(N(4))],
   [is |-> "in", arg |-> PathTo("a"), list |-> <<Val(N(2)), PathTo("b")>>],
   [is |-> "attribute_type", attr |-> "a", tag |-> "SS"]}
Leaf == Comparison \cup Function \cup {Exists("a"), NotExists("a"), NotExists("b"), NotExists(Key)}
Few == {NotExists("a"), NotExists("b"), Compare("<", PathTo("a"), Val(N(4))),
        Compare("<>", PathTo("b"), Val(N(2)))}
Conditions ==
  Leaf \cup {Not(c) : c \in Leaf}
       \cup {And(c, d) : c, d \in Few} \cup {Or(c, d) : c, d \in Few}
       \cup {Not(And(c, d)) : c, d \in Few} \cup {Or(Not(c), d) : c, d \in Few}

Kinds == {NotExists(Key), Exists("a"), [is |-> "attribute_type", attr |-> "a", tag |-> "SS"]}

--------------------------------------------------------------------------------
Nothing == [set |-> <<>>, remove |-> <<>>, add |-> <<>>, delete |-> <<>>]
Operand(o) == [is |-> "operand", a |-> o]
SetTo(a, rhs) == [path |-> a, rhs |-> rhs]
On(a, v) == [path |-> a, val |-> v]
Set1(a, rhs) == [Nothing EXCEPT !.set = <<SetTo(a, rhs)>>]
Swap == [Nothing EXCEPT !.set = <<SetTo("a", Operand(PathTo("b"))), SetTo("b", Operand(PathTo("a")))>>]

Exprs ==
  {Set1("a", Operand(Val(v))) : v \in {N(3), S(<<2>>)}}
  \cup {[Nothing EXCEPT !.remove = <<"a">>],
        [Nothing EXCEPT !.set = <<SetTo("b", Operand(Val(N(2))))>>, !.remove = <<"a">>],
        [Nothing EXCEPT !.set = <<SetTo("a", Operand(Val(N(2)))), SetTo("a", Operand(Val(N(4))))>>],
        Swap,
        Set1("a", [is |-> "plus", a |-> PathTo("a"), b |-> Val(N(2))]),
        Set1("b", [is |-> "minus", a |-> PathTo("a"), b |-> PathTo("b")]),
        Set1("b", [is |-> "if_not_exists", attr |-> "b", rhs |-> Operand(Val(L(<<2>>)))]),
        Set1("a", [is |-> "list_append",
                   lhs |-> [is |-> "if_not_exists", attr |-> "a", rhs |-> Operand(Val(L(<<>>)))],
                   rhs |-> Operand(Val(L(<<2>>)))]),
        [Nothing EXCEPT !.add = <<On("a", N(3))>>, !.delete = <<On("b", SS(<<1>>))>>],
        [Nothing EXCEPT !.add = <<On("a", SS(<<2, 1>>))>>],
        [Nothing EXCEPT !.add = <<On("b", NS(<<2>>))>>, !.remove = <<"a">>],
        [Nothing EXCEPT !.delete = <<On("a", SS(<<1>>))>>],
        [Nothing EXCEPT !.delete = <<On("a", NS(<<2, 3>>))>>],
        \* refused by the translator
        Nothing, [Nothing EXCEPT !.remove = <<Key>>], [Nothing EXCEPT !.add = <<On("a", S(<<1>>))>>],
        [Nothing EXCEPT !.delete = <<On("a", N(2))>>]}

\* Every condition with an update of each kind, every update with a condition of each kind.
MCUpdate ==
  [expr : {Set1("a", Operand(Val(N(3)))), [Nothing EXCEPT !.remove = <<"a">>], Swap,
           [Nothing EXCEPT !.delete = <<On("a", SS(<<1>>))>>]},
   cond : Conditions]
  \cup [expr : Exprs, cond : Kinds \cup {NoCond}]
MCCondition == Kinds
================================================================================
