------------------------------- MODULE MCSchema -------------------------------
(* Small values for Schema. *)
EXTENDS Schema

MCColumn == [p |-> "p", s |-> "s", a |-> "a", b |-> "b", A |-> "a", data |-> "data",
             order |-> NotAName]
MCSanitize == [g |-> "g", h |-> "h", i |-> "i", I |-> "i"]

H(a) == [attr |-> a, role |-> "HASH"]
R(a) == [attr |-> a, role |-> "RANGE"]
Ix(n, k, pr) == [name |-> n, key |-> k, projection |-> pr]

KeySchemas == {<<H("p")>>, <<H("p"), R("s")>>, <<H("p"), R("p")>>, <<R("s")>>,
               <<H("p"), H("s")>>}
LsiLists == {<<>>, <<Ix("g", <<H("p"), R("a")>>, "KEYS_ONLY")>>,
             <<Ix("i", <<H("p"), R("a")>>, None), Ix("I", <<H("p"), R("b")>>, None)>>,
             <<Ix("g", <<H("s"), R("a")>>, None)>>, <<Ix("g", <<H("p"), R("s")>>, None)>>}
GsiLists == {<<>>, <<Ix("g", <<H("a")>>, None)>>,
             <<Ix("g", <<H("a")>>, None), Ix("h", <<H("a"), R("b")>>, "INCLUDE")>>,
             <<Ix("i", <<H("a")>>, None), Ix("I", <<H("b")>>, None)>>,
             <<Ix("g", <<H("A"), R("a")>>, None)>>, <<Ix("g", <<H("A")>>, None)>>,
             <<Ix("g", <<H("data")>>, None)>>, <<Ix("g", <<H("order")>>, None)>>,
             <<Ix("g", <<H("p")>>, None)>>, <<Ix("g", <<H("p"), R("s")>>, None)>>,
             <<Ix("g", <<H("s"), R("p")>>, None)>>, <<Ix("g", <<H("a")>>, None), Ix("g", <<H("b")>>, None)>>}

Def(a) == [attr |-> a, type |-> IF a = "b" THEN "N" ELSE "S"]
Defs(S) == LET all == SetToSeq(S) IN [i \in DOMAIN all |-> Def(all[i])]
Request(k, l, g) == [names |-> TRUE, options |-> TRUE, key |-> k, lsis |-> l, gsis |-> g,
                     billing |-> None, defs |-> <<>>]
Defined(r) == [r EXCEPT !.defs = Defs(Keyed(r))]
Full == {Defined(Request(k, l, g)) : k \in KeySchemas, l \in LsiLists, g \in GsiLists}
Small == Defined(Request(<<H("p"), R("s")>>, <<>>, <<Ix("g", <<H("a")>>, None)>>))
Misdefined == {[Small EXCEPT !.names = FALSE], [Small EXCEPT !.options = FALSE], [Small EXCEPT !.defs = <<>>],
               [Small EXCEPT !.defs = Defs({"p", "s"})],
               [Small EXCEPT !.defs = Append(@, Def("b"))],
               [Small EXCEPT !.defs = Append(@, Def("a"))],
               [Small EXCEPT !.defs[1].type = "BOOL"],
               [Small EXCEPT !.billing = "PAY_PER_REQUEST"]}
MCCreateRequests == Full \cup Misdefined

Update(creates, defs, deletes) ==
  [names |-> TRUE, options |-> TRUE, creates |-> creates, defs |-> defs, deletes |-> deletes, billing |-> None]
MCUpdateRequests ==
  {Update(<<Ix("h", <<H("a")>>, None)>>, Defs({"a"}), <<>>),
   Update(<<Ix("h", <<H("b")>>, None)>>, Defs({"b"}), <<>>),
   Update(<<Ix("h", <<H("b")>>, None)>>, <<[attr |-> "b", type |-> "S"]>>, <<>>),
   Update(<<Ix("h", <<H("b")>>, None), Ix("g", <<H("b"), R("s")>>, None)>>, Defs({"b", "s"}), <<>>),
   Update(<<Ix("h", <<H("b"), R("a")>>, None)>>, Defs({"a", "b"}), <<"g">>),
   Update(<<Ix("h", <<H("order")>>, None)>>, Defs({"order"}), <<>>),
   Update(<<>>, <<>>, <<"g">>), Update(<<>>, <<>>, <<"h">>), Update(<<>>, <<>>, <<"g", "h">>)}
====
