----------------------------- MODULE Expressions -----------------------------
(***************************************************************************)
(* Condition and update expressions on one item: how the translator        *)
(* validates and routes them (crates/rekt-translator/src/checks.rs,        *)
(* classify.rs, materialize.rs), the evaluators in Rust (eval/) and the    *)
(* SQL the backend compiles instead (crates/rekt-storage-libpq/src/        *)
(* condition_sql.rs, update.rs).  The same condition is decided in Rust on *)
(* one path and by PostgreSQL, in three-valued logic, on another.          *)
(*                                                                         *)
(* Every attribute value is a tag with a sequence of integers: one numeral *)
(* for N, the characters of an S, the members in their stored order for    *)
(* SS (of one character each) and NS, and the elements of an L of numbers. *)
(* Numbers stay in the range an f64 holds exactly, and text compares as in *)
(* the C collation.                                                        *)
(***************************************************************************)
EXTENDS Integers, SequencesExt

CONSTANTS
  Attr,         \* attributes other than the key
  Key, KeyVal,  \* the key attribute and its value in the one item
  NoRow,        \* there is no item; Option::None of a row
  Missing,      \* Option::None of a value
  Failed,       \* an EvalError
  Null,         \* SQL NULL
  NoCond,       \* the request has no ConditionExpression
  NoExpr,       \* the request has no UpdateExpression
  Item,         \* the items PutItem writes
  Condition,    \* the conditions of PutItem and DeleteItem requests
  Update,       \* the UpdateItem requests: [expr, cond]
  MaxNumber, MaxLen  \* bounds: the numbers and the lengths an item may hold

VARIABLES
  row,   \* the stored item
  last   \* the request just executed and its answer

vars == <<row, last>>

(***************************************************************************)
(* A numeral is a number in one of two spellings ("1" and "1.0"): stored   *)
(* values are compared as JSON, so the spelling counts for = and for set   *)
(* membership, and not for the ordering.                                   *)
(***************************************************************************)
Numeric(x) == x \div 2
format_decimal(n) == 2 * n
N(x) == [t |-> "N", v |-> <<x>>]
S(s) == [t |-> "S", v |-> s]
SS(s) == [t |-> "SS", v |-> s]
NS(s) == [t |-> "NS", v |-> s]
L(s) == [t |-> "L", v |-> s]
SetTag == {"SS", "NS"}
ScalarOf(tag) == CASE tag = "SS" -> "S" [] tag = "NS" -> "N"

Val(v) == [val |-> v]
PathTo(a) == [path |-> a]
IsPath(o) == DOMAIN o = {"path"}

Lookup(r, a) == IF r # NoRow /\ a \in DOMAIN r THEN r[a] ELSE Missing
With(r, a, v) == [x \in DOMAIN r \cup {a} |-> IF x = a THEN v ELSE r[x]]
Without(r, a) == [x \in DOMAIN r \ {a} |-> r[x]]
key == [x \in {Key} |-> KeyVal]

--------------------------------------------------------------------------------
(***************************************************************************)
(* The evaluator in Rust: two truth values, a missing operand is false.    *)
(***************************************************************************)
condition_operand_value(o, r) == IF IsPath(o) THEN Lookup(r, o.path) ELSE o.val

Precedes(s, u) ==
  \E n \in 0..Len(s) : /\ n < Len(u)
                       /\ \A i \in 1..n : s[i] = u[i]
                       /\ n < Len(s) => s[n + 1] < u[n + 1]
Before(l, r) ==
  IF l.t = "N" THEN Numeric(l.v[1]) < Numeric(r.v[1]) ELSE Precedes(l.v, r.v)

apply_ord(op, l, r) ==
  CASE op = "<" -> Before(l, r)
    [] op = "<=" -> ~Before(r, l)
    [] op = ">" -> Before(r, l)
    [] op = ">=" -> ~Before(l, r)

compare_values(op, l, r) ==
  CASE op = "=" -> l = r
    [] op = "<>" -> l # r
    [] OTHER -> l.t = r.t /\ l.t \in {"N", "S"} /\ apply_ord(op, l, r)

eval_begins_with(r, a, o) ==
  LET x == Lookup(r, a)
      y == condition_operand_value(o, r)
  IN  Missing \notin {x, y} /\ x.t = "S" /\ y.t = "S" /\ IsPrefix(y.v, x.v)

eval_contains(r, a, o) ==
  LET x == Lookup(r, a)
      y == condition_operand_value(o, r)
  IN  /\ Missing \notin {x, y}
      /\ CASE x.t = "S" -> y.t = "S" /\ \E n \in 0..Len(x.v) :
                                           IsPrefix(y.v, SubSeq(x.v, n + 1, Len(x.v)))
           [] x.t \in SetTag -> y.t = ScalarOf(x.t) /\ \E i \in DOMAIN x.v : y.v = <<x.v[i]>>
           [] x.t = "L" -> y.t = "N" /\ \E i \in DOMAIN x.v : y.v = <<x.v[i]>>
           [] OTHER -> FALSE

eval_between(r, o, lo, hi) ==
  LET x == condition_operand_value(o, r)
      y == condition_operand_value(lo, r)
      z == condition_operand_value(hi, r)
  IN  Missing \notin {x, y, z} /\ compare_values(">=", x, y) /\ compare_values("<=", x, z)

eval_in(r, o, list) ==
  LET x == condition_operand_value(o, r)
  IN  x # Missing /\ \E i \in DOMAIN list : condition_operand_value(list[i], r) = x

eval_attribute_type(r, a, tag) == Lookup(r, a) # Missing /\ Lookup(r, a).t = tag

RECURSIVE evaluate_condition(_, _)
evaluate_condition(r, c) ==
  CASE c.is = "exists" -> Lookup(r, c.attr) # Missing
    [] c.is = "not_exists" -> Lookup(r, c.attr) = Missing
    [] c.is = "compare" ->
         LET x == condition_operand_value(c.left, r)
             y == condition_operand_value(c.right, r)
         IN  Missing \notin {x, y} /\ compare_values(c.op, x, y)
    [] c.is = "begins_with" -> eval_begins_with(r, c.attr, c.arg)
    [] c.is = "contains" -> eval_contains(r, c.attr, c.arg)
    [] c.is = "between" -> eval_between(r, c.arg, c.lo, c.hi)
    [] c.is = "in" -> eval_in(r, c.arg, c.list)
    [] c.is = "attribute_type" -> eval_attribute_type(r, c.attr, c.tag)
    [] c.is = "and" -> evaluate_condition(r, c.a) /\ evaluate_condition(r, c.b)
    [] c.is = "or" -> evaluate_condition(r, c.a) \/ evaluate_condition(r, c.b)
    [] c.is = "not" -> ~evaluate_condition(r, c.a)

--------------------------------------------------------------------------------
(***************************************************************************)
(* The compiled WHERE clause, over an existing row: data->attr and the     *)
(* typed extraction data#>>{attr,tag} are NULL when there is nothing to    *)
(* extract, and comparisons and connectives pass NULL on as SQL does.      *)
(***************************************************************************)
operand_as_jsonb(o, r) ==
  LET x == condition_operand_value(o, r) IN IF x = Missing THEN Null ELSE x

Swapped(op) == CASE op = "<" -> ">" [] op = "<=" -> ">=" [] op = ">" -> "<" [] op = ">=" -> "<="

\* Mutant of sql_op: the operator stays when the operands change sides.
sql_op_kept(op, swap) == op
sql_op(op, swap) == IF swap THEN Swapped(op) ELSE op

compile_typed_ordering(r, op, left, right) ==
  LET swap == ~IsPath(left)
      path == IF swap THEN right.path ELSE left.path
      value == IF swap THEN left.val ELSE right.val
      x == Lookup(r, path)
  IN  IF x = Missing THEN Null
      ELSE IF x.t # value.t THEN Null ELSE apply_ord(sql_op(op, swap), x, value)

And3(x, y) == IF FALSE \in {x, y} THEN FALSE ELSE IF Null \in {x, y} THEN Null ELSE TRUE
Or3(x, y) == IF TRUE \in {x, y} THEN TRUE ELSE IF Null \in {x, y} THEN Null ELSE FALSE
Not3(x) == IF x = Null THEN Null ELSE ~x

RECURSIVE where(_, _)
where(r, c) ==
  CASE c.is = "exists" -> Lookup(r, c.attr) # Missing
    [] c.is = "not_exists" -> Lookup(r, c.attr) = Missing
    [] c.is = "compare" ->
         IF c.op \notin {"=", "<>"} THEN compile_typed_ordering(r, c.op, c.left, c.right)
         ELSE LET x == operand_as_jsonb(c.left, r)
                  y == operand_as_jsonb(c.right, r)
              IN  IF Null \in {x, y} THEN Null ELSE compare_values(c.op, x, y)
    [] c.is = "and" -> And3(where(r, c.a), where(r, c.b))
    [] c.is = "or" -> Or3(where(r, c.a), where(r, c.b))
    [] c.is = "not" -> Not3(where(r, c.a))

(***************************************************************************)
(* What the compiler takes; anything else it answers with an error         *)
(* ("classifier divergence").                                              *)
(***************************************************************************)
OneEach(left, right) == IsPath(left) # IsPath(right)
Literal(left, right) == IF IsPath(left) THEN right.val ELSE left.val

RECURSIVE compile_condition(_)
compile_condition(c) ==
  CASE c.is \in {"exists", "not_exists"} -> TRUE
    [] c.is = "compare" -> \/ c.op \in {"=", "<>"}
                           \/ /\ OneEach(c.left, c.right)
                              /\ Literal(c.left, c.right).t \in {"N", "S"}
    [] c.is \in {"and", "or"} -> compile_condition(c.a) /\ compile_condition(c.b)
    [] c.is = "not" -> compile_condition(c.a)
    [] OTHER -> FALSE

(***************************************************************************)
(* The classifier decides, from the shape alone, which conditions go to    *)
(* the compiler.                                                           *)
(***************************************************************************)
\* Mutant of ordering_has_typed_extraction: two attributes can be ordered.
ordering_between_paths(left, right) ==
  (IsPath(left) /\ IsPath(right)) \/ (OneEach(left, right) /\ Literal(left, right).t \in {"N", "S"})
ordering_has_typed_extraction(left, right) ==
  OneEach(left, right) /\ Literal(left, right).t \in {"N", "S"}

RECURSIVE condition_fits_sql(_)
condition_fits_sql(c) ==
  CASE c.is \in {"exists", "not_exists"} -> TRUE
    [] c.is = "compare" -> c.op \in {"=", "<>"} \/ ordering_has_typed_extraction(c.left, c.right)
    [] c.is \in {"and", "or"} -> condition_fits_sql(c.a) /\ condition_fits_sql(c.b)
    [] c.is = "not" -> condition_fits_sql(c.a)
    [] OTHER -> FALSE

classify_condition(c) ==
  IF c = NoCond THEN "none"
  ELSE IF c.is = "not_exists" /\ c.attr = Key THEN "insert_only"
  ELSE IF condition_fits_sql(c) THEN "simple_sql" ELSE "needs_tx"

--------------------------------------------------------------------------------
(***************************************************************************)
(* The right-hand sides of SET, evaluated against the row as it was.       *)
(***************************************************************************)
operand_value(o, r) ==
  LET x == condition_operand_value(o, r) IN IF x = Missing THEN Failed ELSE x

arith(a, b, r, sign) ==
  LET x == operand_value(a, r)
      y == operand_value(b, r)
  IN  IF Failed \in {x, y} THEN Failed
      ELSE IF x.t # "N" \/ y.t # "N" THEN Failed
      ELSE N(format_decimal(Numeric(x.v[1]) + sign * Numeric(y.v[1])))

list_concat(x, y) ==
  IF Failed \in {x, y} THEN Failed
  ELSE IF x.t # "L" \/ y.t # "L" THEN Failed ELSE L(x.v \o y.v)

RECURSIVE compute_set_rhs(_, _)
compute_set_rhs(e, r) ==
  CASE e.is = "operand" -> operand_value(e.a, r)
    [] e.is = "plus" -> arith(e.a, e.b, r, 1)
    [] e.is = "minus" -> arith(e.a, e.b, r, -1)
    [] e.is = "if_not_exists" ->
         IF Lookup(r, e.attr) # Missing THEN Lookup(r, e.attr) ELSE compute_set_rhs(e.rhs, r)
    [] e.is = "list_append" -> list_concat(compute_set_rhs(e.lhs, r), compute_set_rhs(e.rhs, r))

set_union(x, addend) ==
  LET present == IF x = Missing THEN <<>> ELSE x.v
      Push(s, m) == IF Contains(s, m) THEN s ELSE Append(s, m)
  IN  IF x # Missing /\ x.t # addend.t THEN Failed
      ELSE [addend EXCEPT !.v = FoldLeft(Push, present, @)]

apply_add(x, addend) ==
  IF addend.t # "N" THEN set_union(x, addend)
  ELSE IF x = Missing THEN N(format_decimal(Numeric(addend.v[1])))
  ELSE IF x.t # "N" THEN Failed
  ELSE N(format_decimal(Numeric(x.v[1]) + Numeric(addend.v[1])))

\* Mutant of apply_delete: the last member leaves an empty set behind.
apply_delete_keeps_empty(x, subset) ==
  IF x.t # subset.t THEN Failed
  ELSE [x EXCEPT !.v = SelectSeq(@, LAMBDA m : \A i \in DOMAIN subset.v : subset.v[i] # m)]
apply_delete(x, subset) ==
  LET remaining == SelectSeq(x.v, LAMBDA m : \A i \in DOMAIN subset.v : subset.v[i] # m)
  IN  IF x.t # subset.t THEN Failed
      ELSE IF remaining = <<>> THEN Missing ELSE [x EXCEPT !.v = remaining]

(***************************************************************************)
(* The whole expression: every SET value is computed first, then SET,      *)
(* REMOVE, ADD and DELETE are applied in that order.                       *)
(***************************************************************************)
Put(r, a, v) ==
  IF r = Failed \/ v = Failed THEN Failed ELSE IF v = Missing THEN Without(r, a) ELSE With(r, a, v)
DeleteFrom(x, v) == IF x = Missing THEN Missing ELSE apply_delete(x, v)
Start(r) == IF r = NoRow THEN key ELSE r

\* What SET makes of item, its values computed from the row r.
SetAll(item, r, e) == FoldLeft(LAMBDA i, c : Put(i, c.path, compute_set_rhs(c.rhs, r)), item, e.set)
RemoveAll(item, e) == FoldLeft(LAMBDA i, a : Put(i, a, Missing), item, e.remove)
AddAll(item, e) ==
  FoldLeft(LAMBDA i, c : IF i = Failed THEN i ELSE Put(i, c.path, apply_add(Lookup(i, c.path), c.val)),
           item, e.add)
DeleteAll(item, e) ==
  FoldLeft(LAMBDA i, c : IF i = Failed THEN i ELSE Put(i, c.path, DeleteFrom(Lookup(i, c.path), c.val)),
           item, e.delete)

\* Mutant of apply_update_expression: each SET reads what the ones before it wrote.
apply_update_in_place(r, e) ==
  LET item == FoldLeft(LAMBDA i, c : IF i = Failed THEN i
                                     ELSE Put(i, c.path, compute_set_rhs(c.rhs, i)),
                       Start(r), e.set)
  IN  DeleteAll(AddAll(RemoveAll(item, e), e), e)
apply_update_expression(r, e) ==
  DeleteAll(AddAll(RemoveAll(SetAll(Start(r), r, e), e), e), e)

(***************************************************************************)
(* Validation of an update, and the pure-SQL subset.                       *)
(***************************************************************************)
Targets(e) == {e.set[i].path : i \in DOMAIN e.set} \cup ToSet(e.remove)
              \cup {e.add[i].path : i \in DOMAIN e.add} \cup {e.delete[i].path : i \in DOMAIN e.delete}

\* Mutant of touched_paths: the targets of DELETE are forgotten.
touched_without_delete(e) == {e.set[i].path : i \in DOMAIN e.set} \cup ToSet(e.remove)
                             \cup {e.add[i].path : i \in DOMAIN e.add}
touched_paths(e) == Targets(e)

translate_update_item(e) ==
  /\ Targets(e) # {}
  /\ Key \notin Targets(e)
  /\ \A i \in DOMAIN e.add : e.add[i].val.t \in SetTag \cup {"N"}
  /\ \A i \in DOMAIN e.delete : e.delete[i].val.t \in SetTag

is_simple(e) ==
  /\ e.add = <<>> /\ e.delete = <<>>
  /\ \A i \in DOMAIN e.set : e.set[i].rhs.is = "operand" /\ ~IsPath(e.set[i].rhs.a)

--------------------------------------------------------------------------------
(***************************************************************************)
(* The four ways to execute an update: its status and the row it leaves.   *)
(***************************************************************************)
Done(r) == [status |-> "ok", row |-> r]
Refused(r) == [status |-> "refused", row |-> r]
Error(r) == [status |-> "error", row |-> r]

build_insert_item(e) == SetAll(key, NoRow, e)
jsonb_set_chain(r, e) == RemoveAll(SetAll(r, NoRow, e), e)

update_simple_raw(r, e) ==
  Done(IF r = NoRow THEN build_insert_item(e) ELSE jsonb_set_chain(r, e))

update_insert_only_raw(r, e) == IF r = NoRow THEN Done(build_insert_item(e)) ELSE Refused(r)

update_with_simple_condition_raw(r, e, c) ==
  IF ~compile_condition(c) THEN Error(r)
  ELSE IF r = NoRow THEN Refused(r)
  ELSE IF where(r, c) = TRUE THEN Done(jsonb_set_chain(r, e)) ELSE Refused(r)

Passes(r, c) == c = NoCond \/ evaluate_condition(r, c)

dispatch_slow_path(r, e, c) ==
  IF ~Passes(r, c) THEN Refused(r)
  ELSE LET new == apply_update_expression(r, e)
       IN  IF new = Failed THEN Error(r) ELSE Done(new)

handle_update_item(r, e, c) ==
  LET routing == classify_condition(c)
  IN  IF ~is_simple(e) \/ routing = "needs_tx" THEN dispatch_slow_path(r, e, c)
      ELSE CASE routing = "none" -> update_simple_raw(r, e)
             [] routing = "insert_only" -> update_insert_only_raw(r, e)
             [] routing = "simple_sql" -> update_with_simple_condition_raw(r, e, c)

project_attributes(r, touched) == [a \in DOMAIN r \cap touched |-> r[a]]

--------------------------------------------------------------------------------
Bounded(r) ==
  r # NoRow => \A a \in DOMAIN r : /\ Len(r[a].v) <= MaxLen
                                   /\ r[a].t = "N" => Numeric(r[a].v[1]) \in 0..MaxNumber

Idle == [expr |-> NoExpr, cond |-> NoCond, status |-> "none", shown |-> NoRow]

Init == row \in Item \cup {NoRow} /\ last = Idle

\* UpdateItem with ReturnValues UPDATED_NEW.
UpdateItem(e, c) ==
  LET o == IF translate_update_item(e) THEN handle_update_item(row, e, c)
           ELSE [status |-> "invalid", row |-> row]
  IN  /\ last = Idle /\ Bounded(o.row)
      /\ row' = o.row
      /\ last' = [expr |-> e, cond |-> c, status |-> o.status,
                  shown |-> IF o.status = "ok" THEN project_attributes(o.row, touched_paths(e))
                            ELSE NoRow]

PutItem(i, c) ==
  /\ last = Idle
  /\ row' = IF Passes(row, c) THEN i ELSE row
  /\ last' = [Idle EXCEPT !.cond = c, !.status = IF Passes(row, c) THEN "ok" ELSE "refused"]

DeleteItem(c) ==
  /\ last = Idle
  /\ row' = IF Passes(row, c) THEN NoRow ELSE row
  /\ last' = [Idle EXCEPT !.cond = c, !.status = IF Passes(row, c) THEN "ok" ELSE "refused"]

\* The answer is delivered.
Deliver == last # Idle /\ last' = Idle /\ UNCHANGED row

Next ==
  \/ Deliver
  \/ \E u \in Update : UpdateItem(u.expr, u.cond)
  \/ \E c \in Condition \cup {NoCond} : (\E i \in Item : PutItem(i, c)) \/ DeleteItem(c)

Spec == Init /\ [][Next]_vars

--------------------------------------------------------------------------------
(***************************************************************************)
(* A stored item has the key it is stored under, and values of known types.*)
(***************************************************************************)
TypeOK ==
  /\ row # NoRow => /\ Key \in DOMAIN row /\ DOMAIN row \subseteq Attr \cup {Key}
                    /\ row[Key] = KeyVal
                    /\ \A a \in DOMAIN row : row[a].t \in SetTag \cup {"N", "S", "L"}
  /\ last.expr = NoExpr => last.cond \in Condition \cup {NoCond}
  /\ last.expr # NoExpr => \E u \in Update : u.expr = last.expr /\ u.cond = last.cond
  /\ last.status \in {"none", "ok", "refused", "error", "invalid"}

(***************************************************************************)
(* However many updates an item has gone through, none of its sets is      *)
(* empty or holds a member twice: set_union drops the members that are     *)
(* there already and apply_delete removes the attribute with its last      *)
(* member.  Requests write such sets only.                                 *)
(***************************************************************************)
SetsStayProper ==
  row # NoRow => \A a \in DOMAIN row :
                    row[a].t \in SetTag => row[a].v # <<>> /\ IsInjective(row[a].v)

(***************************************************************************)
(* No write goes through unless the evaluator in Rust holds its condition  *)
(* for true of the row: where PostgreSQL decides a compiled clause, TRUE   *)
(* there means true in evaluate_condition, under negations too, and an     *)
(* attribute_not_exists(pk) sent as ON CONFLICT DO NOTHING means the same. *)
(***************************************************************************)
WritesWereAllowed ==
  [][last'.status = "ok" => Passes(row, last'.cond)]_vars

RECURSIVE Decided(_)
\* No comparison, which may be NULL, stands under a NOT.
Decided(c) ==
  CASE c.is \in {"and", "or"} -> Decided(c.a) /\ Decided(c.b)
    [] c.is = "not" -> c.a.is \in {"exists", "not_exists"}
    [] OTHER -> TRUE

(***************************************************************************)
(* Conversely, a request for an item that exists is refused only when      *)
(* evaluate_condition is false of the row, and never for a condition the   *)
(* compiler cannot express (condition_fits_sql and compile_condition       *)
(* agree), as long as no comparison is negated.                            *)
(***************************************************************************)
RefusalsWereDue ==
  [][(row # NoRow /\ last'.cond # NoCond)
       => /\ last'.status = "refused" /\ Decided(last'.cond) => ~evaluate_condition(row, last'.cond)
          /\ last'.status = "error" => ~is_simple(last'.expr)]_vars

(***************************************************************************)
(* Missing attributes make a comparison false, whichever path decides it:  *)
(* an existing item is refused only when evaluate_condition is false of    *)
(* it, negated comparisons included.                                       *)
(***************************************************************************)
NegationAgrees ==
  [][(row # NoRow /\ last'.cond # NoCond /\ last'.status = "refused")
       => ~evaluate_condition(row, last'.cond)]_vars

Disjoint(e) ==
  Cardinality(Targets(e)) = Len(e.set) + Len(e.remove) + Len(e.add) + Len(e.delete)

\* The value an update names for attribute a: its one clause, over the old row.
Meaning(r, e, a) ==
  CASE \E i \in DOMAIN e.set : e.set[i].path = a ->
         compute_set_rhs(e.set[CHOOSE i \in DOMAIN e.set : e.set[i].path = a].rhs, r)
    [] Contains(e.remove, a) -> Missing
    [] \E i \in DOMAIN e.add : e.add[i].path = a ->
         apply_add(Lookup(r, a), e.add[CHOOSE i \in DOMAIN e.add : e.add[i].path = a].val)
    [] \E i \in DOMAIN e.delete : e.delete[i].path = a ->
         DeleteFrom(Lookup(r, a),
                    e.delete[CHOOSE i \in DOMAIN e.delete : e.delete[i].path = a].val)
    [] OTHER -> Lookup(Start(r), a)

(***************************************************************************)
(* All clauses of an update act at once on the row as it was, on every     *)
(* path: SET a = b, b = a swaps, the SQL chain of jsonb_set and "-" writes *)
(* what the evaluator would, and a clause that fails fails the whole.      *)
(* Expressions name each attribute once.                                   *)
(***************************************************************************)
ClausesActAtOnce ==
  [][(last'.expr # NoExpr /\ Disjoint(last'.expr))
       => LET e == last'.expr
              meant(a) == Meaning(row, e, a)
          IN  /\ last'.status = "ok" => \A a \in Attr : Lookup(row', a) = meant(a)
              /\ last'.status = "error" => \E a \in Attr : meant(a) = Failed]_vars

(***************************************************************************)
(* A caller that holds the old item and asks for UPDATED_NEW has the new   *)
(* one: the attributes the expression names are as shown (absent if not    *)
(* shown), the key is the one asked for and nothing else has changed.      *)
(***************************************************************************)
AnswerTellsNewItem ==
  [][(last'.expr # NoExpr /\ last'.status = "ok")
       => \A a \in Attr \cup {Key} :
            Lookup(row', a) = IF a \in touched_paths(last'.expr) THEN Lookup(last'.shown, a)
                              ELSE Lookup(Start(row), a)]_vars
================================================================================
