---------------------------- MODULE ItemStoreProofs ----------------------------
(***************************************************************************)
(* Proofs about ItemStore for any number of clients, requests, retries and *)
(* faults: no update is lost, and answers tell what happened.              *)
(***************************************************************************)
EXTENDS ItemStore, TLAPS

(***************************************************************************)
(* The shape of the state, with the counters not bounded.                  *)
(***************************************************************************)
Content == [n : Nat, a : Client \cup {Initial}] \cup {NoRow}
InProgress == [pc : Pc, op : Op, snap : Content, lost : BOOLEAN, existing : Content,
               iter : Nat, attempt : Nat, unmet : BOOLEAN, absent : BOOLEAN,
               effects : Nat, misled : BOOLEAN]
Shape == row \in Content /\ req \in [Client -> InProgress]

\* Whoever has read a row FOR UPDATE holds its lock, and it is still the row.
RowLocked ==
  /\ \A c \in Client : lock = c => req[c].pc = "deciding" /\ req[c].existing # NoRow
  /\ \A c \in Client : req[c].pc = "deciding" /\ req[c].existing # NoRow =>
                         lock = c /\ row = req[c].existing

\* A request that has changed the row is over, or its reply was lost.
EffectTold == \A c \in Client : req[c].effects = 0 \/ req[c].misled

\* What a request has seen of the row was so while it ran.
Seen(x, r) ==
  x.pc # "idle" =>
    /\ ~Holds(x.op.cond, r) => x.unmet
    /\ r = NoRow => x.absent
    /\ x.absent /\ x.op.cond = "initial" => x.unmet
    /\ x.pc \in {"running", "selecting"} =>
         /\ ~Holds(x.op.cond, x.snap) => x.unmet
         /\ x.snap = NoRow \/ x.lost => x.absent
         /\ r = NoRow => x.snap = NoRow \/ x.lost
    /\ x.pc = "deciding" =>
         /\ ~Holds(x.op.cond, x.existing) => x.unmet
         /\ x.existing = NoRow => x.absent
Witnessed == \A c \in Client : Seen(req[c], row)

\* Single statements run, the others select and decide.
Routed ==
  \A c \in Client : /\ req[c].pc = "running" => Kind(c) \in Single
                    /\ req[c].pc \in {"selecting", "deciding"} => Kind(c) \in Locked

IInv == Shape /\ RowLocked /\ EffectTold /\ Witnessed /\ Routed
          /\ AnswersWereTrue /\ StatusMatchesEffect

--------------------------------------------------------------------------------
(* What the steps make of a request's record.                              *)

LEMMA IdleShape ==
  /\ Idle \in InProgress /\ Idle.pc = "idle" /\ Idle.effects = 0 /\ Idle.op = NoOp
  /\ Idle.existing = NoRow
  BY DEF Idle, InProgress, Pc, Op, Content, NoOp

LEMMA Retried ==
  ASSUME NEW x \in InProgress, NEW y,
         y = [x EXCEPT !.pc = "ready", !.attempt = @ + 1, !.snap = NoRow, !.lost = FALSE]
  PROVE  /\ y \in InProgress /\ y.pc = "ready"
         /\ y.op = x.op /\ y.effects = x.effects
         /\ y.unmet = x.unmet /\ y.absent = x.absent /\ y.misled = x.misled
<1> DEFINE k == x.attempt + 1
<1>1. k \in Nat /\ y = [x EXCEPT !.pc = "ready", !.attempt = k, !.snap = NoRow, !.lost = FALSE]
  BY DEF InProgress
<1> HIDE DEF k
<1> QED
  BY <1>1, Zenon DEF InProgress, Pc, Content

LEMMA Again ==
  ASSUME NEW x \in InProgress, NEW y, y = [x EXCEPT !.pc = "ready", !.iter = @ + 1]
  PROVE  /\ y \in InProgress /\ y.pc = "ready"
         /\ y.op = x.op /\ y.effects = x.effects
         /\ y.unmet = x.unmet /\ y.absent = x.absent /\ y.misled = x.misled
<1> DEFINE k == x.iter + 1
<1>1. k \in Nat /\ y = [x EXCEPT !.pc = "ready", !.iter = k]
  BY DEF InProgress
<1> HIDE DEF k
<1> QED
  BY <1>1, Zenon DEF InProgress, Pc

LEMMA OneChanges ==
  ASSUME NEW f \in [Client -> InProgress], NEW c \in Client, NEW y \in InProgress,
         req' = [f EXCEPT ![c] = y]
  PROVE  /\ req' \in [Client -> InProgress] /\ req'[c] = y
         /\ \A d \in Client \ {c} : req'[d] = f[d]
  BY Zenon

LEMMA ApplyContent ==
  ASSUME NEW c \in Client, NEW r \in Content, NEW k
  PROVE  k \in Single \cup Locked /\ k # "get" => Apply(k, c, r) \in Content
  BY DEF Apply, Content, Fresh, Single, Locked

\* The newest row is c's: everybody else has noticed, nobody has moved.
LEMMA ChangedShape ==
  ASSUME Shape, NEW c \in Client, req[c].pc # "idle", NEW new, NEW d \in Client
  PROVE  LET x == req[d] y == Changed(c, new)[d] IN
         /\ Changed(c, new) \in [Client -> InProgress] /\ y \in InProgress
         /\ y.pc = x.pc /\ y.op = x.op /\ y.snap = x.snap /\ y.existing = x.existing
         /\ y.misled = x.misled
         /\ y.effects = IF d = c THEN x.effects + 1 ELSE x.effects
         /\ Seen(x, row) => Seen(y, new)
<1>1. ASSUME NEW e \in Client
      PROVE  LET x == req[e] y == Changed(c, new)[e] IN
             /\ y \in InProgress
             /\ y.pc = x.pc /\ y.op = x.op /\ y.snap = x.snap /\ y.existing = x.existing
             /\ y.misled = x.misled
             /\ y.effects = IF e = c THEN x.effects + 1 ELSE x.effects
             /\ Seen(x, row) => Seen(y, new)
  <2> DEFINE x == req[e]
             y == Changed(c, new)[e]
             l == x.lost \/ new = NoRow
             u == x.unmet \/ ~Holds(x.op.cond, new)
             b == x.absent \/ new = NoRow
             k == IF e = c THEN x.effects + 1 ELSE x.effects
  <2>1. x \in InProgress
    BY Zenon DEF Shape
  <2>2. CASE x.pc = "idle"
    <3>1. y = x /\ e # c
      BY <2>2, Zenon DEF Changed
    <3> QED
      BY <2>1, <2>2, <3>1, Zenon DEF Seen
  <2>3. CASE x.pc # "idle"
    <3>1. y = [x EXCEPT !.lost = l, !.unmet = u, !.absent = b, !.effects = k]
      BY <2>3, Zenon DEF Changed
    <3>2. l \in BOOLEAN /\ u \in BOOLEAN /\ b \in BOOLEAN
      BY Zenon
    <3>3. k \in Nat
      BY <2>1 DEF InProgress
    <3> HIDE DEF l, u, b, k, y
    <3>4. /\ y \in InProgress /\ y.lost = l /\ y.unmet = u /\ y.absent = b /\ y.effects = k
          /\ y.pc = x.pc /\ y.op = x.op /\ y.snap = x.snap /\ y.existing = x.existing
          /\ y.misled = x.misled
      <4> HIDE DEF x
      <4> QED
        BY <2>1, <3>1, <3>2, <3>3, Zenon DEF InProgress
    <3>5. ASSUME Seen(x, row) PROVE Seen(y, new)
      <4>1. new = NoRow /\ x.op.cond = "initial" => ~Holds(x.op.cond, new)
        BY Zenon DEF Holds
      <4> HIDE DEF x
      <4>2. /\ ~Holds(y.op.cond, new) => y.unmet
            /\ new = NoRow => y.absent
            /\ y.absent /\ y.op.cond = "initial" => y.unmet
        BY <2>3, <3>4, <3>5, <4>1, Zenon DEF u, b, Seen
      <4>3. y.pc \in {"running", "selecting"} =>
              /\ ~Holds(y.op.cond, y.snap) => y.unmet
              /\ y.snap = NoRow \/ y.lost => y.absent
              /\ new = NoRow => y.snap = NoRow \/ y.lost
        BY <2>3, <3>4, <3>5, Zenon DEF l, u, b, Seen
      <4>4. y.pc = "deciding" =>
              /\ ~Holds(y.op.cond, y.existing) => y.unmet
              /\ y.existing = NoRow => y.absent
        BY <2>3, <3>4, <3>5, Zenon DEF u, b, Seen
      <4> QED
        BY <4>2, <4>3, <4>4, Zenon DEF Seen
    <3> QED
      BY <3>4, <3>5, Zenon DEF k, y
  <2> QED
    BY <2>2, <2>3, Zenon
<1>2. Changed(c, new) \in [Client -> InProgress]
  BY <1>1, Zenon DEF Changed
<1> QED
  BY <1>1, <1>2

--------------------------------------------------------------------------------
(* Answers.                                                                *)

\* What becomes of c, whose record was x before its answer was on its way:
\* it is answered, or tries again; a reply that got lost is remembered.
Outcome(c, x, a) ==
  \/ /\ req'[c] = Idle /\ reply'.by = c
     /\ reply'.req.effects = x.effects /\ reply'.req.op = x.op
     /\ \/ reply'.answer = a /\ reply'.req = x
        \/ reply'.answer = Error /\ reply'.req.misled
  \/ /\ req'[c].pc = "ready" /\ req'[c].op = x.op /\ req'[c].effects = x.effects
     /\ req'[c].unmet = x.unmet /\ req'[c].absent = x.absent
     /\ req'[c].misled \/ (a = Error /\ req'[c].misled = x.misled)
     /\ reply' = NoReply

LEMMA DeliverShape ==
  ASSUME NEW c \in Client, NEW r \in [Client -> InProgress], NEW a, Deliver(c, r, a)
  PROVE  /\ req' \in [Client -> InProgress] /\ \A d \in Client \ {c} : req'[d] = r[d]
         /\ Outcome(c, r[c], a)
<1>1. /\ req' = [r EXCEPT ![c] = Idle]
      /\ reply' = [by |-> c, req |-> r[c], answer |-> a]
  BY Zenon DEF Deliver
<1>2. /\ req' \in [Client -> InProgress] /\ req'[c] = Idle
      /\ \A d \in Client \ {c} : req'[d] = r[d]
  BY <1>1, IdleShape, OneChanges
<1> QED
  BY <1>1, <1>2, Zenon DEF Outcome

LEMMA FailsShape ==
  ASSUME NEW c \in Client, NEW r \in [Client -> InProgress], Fails(c, r)
  PROVE  /\ req' \in [Client -> InProgress] /\ \A d \in Client \ {c} : req'[d] = r[d]
         /\ Outcome(c, r[c], Error)
<1>1. CASE Deliver(c, r, Error)
  BY <1>1, DeliverShape, Zenon
<1>2. CASE /\ reply' = NoReply
           /\ req' = [r EXCEPT ![c] = [r[c] EXCEPT !.pc = "ready", !.attempt = @ + 1,
                                                   !.snap = NoRow, !.lost = FALSE]]
  <2> DEFINE z == [r[c] EXCEPT !.pc = "ready", !.attempt = @ + 1, !.snap = NoRow,
                               !.lost = FALSE]
  <2>1. /\ z \in InProgress /\ z.pc = "ready" /\ z.op = r[c].op /\ z.effects = r[c].effects
        /\ z.unmet = r[c].unmet /\ z.absent = r[c].absent /\ z.misled = r[c].misled
    BY Retried, ZenonT(40)
  <2>2. req' = [r EXCEPT ![c] = z]
    BY <1>2, Zenon
  <2> HIDE DEF z
  <2>3. /\ req' \in [Client -> InProgress] /\ req'[c] = z
        /\ \A d \in Client \ {c} : req'[d] = r[d]
    BY <2>1, <2>2, OneChanges
  <2> QED
    BY <1>2, <2>1, <2>3, Zenon DEF Outcome
<1> QED
  BY <1>1, <1>2, Zenon DEF Fails

LEMMA RespondShape ==
  ASSUME NEW c \in Client, NEW r \in [Client -> InProgress], NEW a, Respond(c, r, a)
  PROVE  /\ req' \in [Client -> InProgress] /\ \A d \in Client \ {c} : req'[d] = r[d]
         /\ Outcome(c, r[c], a)
<1>1. CASE Deliver(c, r, a)
  BY <1>1, DeliverShape, Zenon
<1>2. CASE Fails(c, [r EXCEPT ![c].misled = TRUE])
  <2> DEFINE y == [r[c] EXCEPT !.misled = TRUE]
             f == [r EXCEPT ![c].misled = TRUE]
  <2>1. /\ y \in InProgress /\ y.misled = TRUE /\ y.op = r[c].op /\ y.effects = r[c].effects
        /\ y.unmet = r[c].unmet /\ y.absent = r[c].absent
    BY Zenon DEF InProgress
  <2>2. /\ f \in [Client -> InProgress] /\ f[c] = y
        /\ \A d \in Client \ {c} : f[d] = r[d]
    BY <2>1, Zenon
  <2> HIDE DEF f, y
  <2>3. Fails(c, f)
    BY <1>2, Zenon DEF f
  <2>4. /\ req' \in [Client -> InProgress] /\ \A d \in Client \ {c} : req'[d] = f[d]
        /\ Outcome(c, f[c], Error)
    BY <2>2, <2>3, FailsShape, Zenon
  <2>5. Outcome(c, r[c], a)
    BY <2>1, <2>2, <2>4 DEF Outcome
  <2> QED
    BY <2>2, <2>4, <2>5
<1> QED
  BY <1>1, <1>2, Zenon DEF Respond

\* The parts of NoLostUpdate and ReturnsReplacedRow one step has to show.
NothingLost ==
  row' # row => \E c \in Client : /\ Wrote(c) /\ Holds(Cond(c), row)
                                  /\ row' = Apply(Kind(c), c, row)
OldReturned ==
  \A c \in Client :
    /\ Wrote(c) /\ Kind(c) \in Locked \cup {"delete", "insert_only"}
    /\ reply'.by = c /\ reply'.answer.status = "ok"
    => reply'.answer.old = row /\ reply'.answer.new = row'
Kept == IInv' /\ NothingLost /\ OldReturned

LEMMA SilentReply ==
  /\ NoReply.by = NoClient /\ NoReply.req = Idle /\ NoReply.answer = Error
  /\ Error.status = "error"
  BY Zenon DEF NoReply, Error

\* A step that delivers no answer and leaves the row alone.
LEMMA SilentStep ==
  ASSUME reply' = NoReply, row' = row
  PROVE  AnswersWereTrue' /\ StatusMatchesEffect' /\ NothingLost /\ OldReturned
<1>1. reply'.by \notin Client /\ reply'.req.effects = 0 /\ reply'.answer.status = "error"
  BY SilentReply, IdleShape, ParamAssumption, Zenon
<1> QED
  BY <1>1, Zenon DEF AnswersWereTrue, StatusMatchesEffect, NothingLost, OldReturned

(***************************************************************************)
(* A step that ends c's statement and leaves the row alone.                *)
(***************************************************************************)
LEMMA LeaveStep ==
  ASSUME IInv, NEW c \in Client, NEW a, req[c].pc # "idle", row' = row, Release(c),
         req' \in [Client -> InProgress], \A d \in Client \ {c} : req'[d] = req[d],
         Outcome(c, req[c], a),
         a.status = "refused" => req[c].unmet,
         a.status = "ok" /\ Kind(c) # "get" =>
           req[c].absent /\ a = Ok(NoRow, NoRow) /\ Kind(c) \in {"delete", "delete_if"}
  PROVE  Kept
<1>1. Shape /\ Shape' /\ req[c] \in InProgress
  BY Zenon DEF IInv, Shape
<1>2. RowLocked'
  BY ParamAssumption, IdleShape DEF IInv, RowLocked, Outcome, Release
<1>3. EffectTold'
  BY IdleShape DEF IInv, EffectTold, Outcome
<1>4. Witnessed'
  <2>1. Seen(req'[c], row)
    BY IdleShape, Zenon DEF IInv, Witnessed, Seen, Outcome
  <2> QED
    BY <2>1, Zenon DEF IInv, Witnessed
<1>5. Routed'
  BY IdleShape DEF IInv, Routed, Kind, Outcome
<1>6. /\ reply'.by = c \/ reply' = NoReply
      /\ IF reply'.by = c THEN reply'.req.effects = req[c].effects
                          ELSE req'[c].effects = req[c].effects
  BY SilentReply, ParamAssumption DEF Outcome
<1>7. CASE reply' = NoReply
  BY <1>1, <1>2, <1>3, <1>4, <1>5, <1>7, SilentStep, Zenon DEF IInv, Kept
<1>8. CASE reply'.by = c /\ reply'.answer = a /\ reply'.req = req[c]
  <2>1. AnswersWereTrue'
    BY <1>8, Zenon DEF AnswersWereTrue, Kind
  <2>2. StatusMatchesEffect'
    BY <1>8 DEF StatusMatchesEffect, Kind, IInv, EffectTold
  <2>3. \A d \in Client : ~Wrote(d)
    BY <1>1, <1>6, <1>8 DEF Wrote, Shape, InProgress
  <2> QED
    BY <1>1, <1>2, <1>3, <1>4, <1>5, <2>1, <2>2, <2>3, Zenon
    DEF IInv, Kept, NothingLost, OldReturned
<1>9. CASE reply'.by = c /\ reply'.answer = Error /\ reply'.req.misled
  <2>1. AnswersWereTrue' /\ StatusMatchesEffect'
    BY <1>9, SilentReply, Zenon DEF AnswersWereTrue, StatusMatchesEffect
  <2>2. \A d \in Client : ~Wrote(d)
    BY <1>1, <1>6, <1>9 DEF Wrote, Shape, InProgress
  <2> QED
    BY <1>1, <1>2, <1>3, <1>4, <1>5, <2>1, <2>2
    DEF IInv, Kept, NothingLost, OldReturned
<1> QED
  BY <1>7, <1>8, <1>9, Zenon DEF Outcome

(***************************************************************************)
(* A step that carries out c's request on the row, nobody else holding it. *)
(***************************************************************************)
LEMMA WriteStep ==
  ASSUME IInv, NEW c \in Client, NEW new \in Content, NEW a, req[c].pc # "idle",
         Commit(c, new, a), Release(c), \A d \in Client : lock = d => d = c,
         a.status = "ok", Kind(c) # "get", Holds(Cond(c), row), new = Apply(Kind(c), c, row),
         Kind(c) \in Locked \cup {"delete", "insert_only"} => a.old = row /\ a.new = new
  PROVE  Kept
<1> DEFINE r == Changed(c, new)
<1>1. /\ Shape /\ req[c] \in InProgress /\ row' = new
      /\ Respond(c, r, a) /\ a # Error
  BY SilentReply, Zenon DEF IInv, Shape, Commit
<1>2. \A d \in Client :
        /\ r \in [Client -> InProgress] /\ r[d] \in InProgress
        /\ r[d].pc = req[d].pc /\ r[d].op = req[d].op /\ r[d].existing = req[d].existing
        /\ r[d].misled = req[d].misled
        /\ r[d].effects = IF d = c THEN req[d].effects + 1 ELSE req[d].effects
        /\ Seen(r[d], new)
  BY <1>1, ChangedShape DEF IInv, Witnessed
<1> HIDE DEF r
<1>3. /\ req' \in [Client -> InProgress] /\ \A d \in Client \ {c} : req'[d] = r[d]
      /\ Outcome(c, r[c], a)
  BY <1>1, <1>2, RespondShape, Zenon
<1>4. Shape'
  BY <1>1, <1>3, Zenon DEF Shape
<1>5. RowLocked'
  <2>1. \A d \in Client : lock' # d
    BY ParamAssumption, Zenon DEF Release
  <2>2. req'[c].pc \in {"idle", "ready"}
    BY <1>3, IdleShape, Zenon DEF Outcome
  <2>3. \A d \in Client \ {c} : ~(req'[d].pc = "deciding" /\ req'[d].existing # NoRow)
    BY <1>2, <1>3 DEF IInv, RowLocked
  <2> QED
    BY <2>1, <2>2, <2>3, Zenon DEF RowLocked
<1>6. EffectTold'
  BY <1>1, <1>2, <1>3, IdleShape DEF IInv, EffectTold, Outcome
<1>7. Witnessed'
  <2>1. Seen(req'[c], new)
    BY <1>2, <1>3, IdleShape, SMTT(30) DEF Seen, Outcome
  <2> QED
    BY <1>1, <1>2, <1>3, <2>1 DEF Witnessed
<1>8. Routed'
  BY <1>2, <1>3, IdleShape DEF IInv, Routed, Kind, Outcome
<1>9. /\ reply'.by = c \/ reply' = NoReply
      /\ IF reply'.by = c THEN reply'.req.effects = req[c].effects + 1
                          ELSE req'[c].effects = req[c].effects + 1
  BY <1>2, <1>3, SilentReply, ParamAssumption DEF Outcome
<1>10. Wrote(c)
  BY <1>1, <1>9 DEF Wrote, InProgress
<1>11. NothingLost
  BY <1>1, <1>10, Zenon DEF NothingLost
<1>12. CASE reply' = NoReply
  <2>1. reply'.by \notin Client /\ reply'.req.effects = 0 /\ reply'.answer.status = "error"
    BY <1>12, SilentReply, IdleShape, ParamAssumption, Zenon
  <2>2. AnswersWereTrue' /\ StatusMatchesEffect' /\ OldReturned
    BY <2>1, Zenon DEF AnswersWereTrue, StatusMatchesEffect, OldReturned
  <2> QED
    BY <1>4, <1>5, <1>6, <1>7, <1>8, <1>11, <2>2 DEF Kept, IInv
<1>13. CASE reply'.by = c /\ reply'.answer = a /\ reply'.req = r[c]
  <2>1. AnswersWereTrue'
    BY <1>1, <1>9, <1>13 DEF AnswersWereTrue, InProgress
  <2>2. StatusMatchesEffect'
    BY <1>1, <1>2, <1>13 DEF StatusMatchesEffect, Kind, IInv, EffectTold
  <2>3. OldReturned
    BY <1>1, <1>13, Zenon DEF OldReturned
  <2> QED
    BY <1>4, <1>5, <1>6, <1>7, <1>8, <1>11, <2>1, <2>2, <2>3 DEF Kept, IInv
<1>14. CASE reply'.by = c /\ reply'.answer = Error /\ reply'.req.misled
  <2>1. AnswersWereTrue' /\ StatusMatchesEffect' /\ OldReturned
    BY <1>14, SilentReply, Zenon DEF AnswersWereTrue, StatusMatchesEffect, OldReturned
  <2> QED
    BY <1>4, <1>5, <1>6, <1>7, <1>8, <1>11, <2>1 DEF Kept, IInv
<1> QED
  BY <1>3, <1>12, <1>13, <1>14, Zenon DEF Outcome

(***************************************************************************)
(* A step that only moves c's request on.                                  *)
(***************************************************************************)
LEMMA MoveStep ==
  ASSUME IInv, NEW c \in Client, NEW y \in InProgress, row' = row, reply' = NoReply,
         req' = [req EXCEPT ![c] = y], y.effects = 0 \/ y.misled, Seen(y, row),
         y.pc = "running" => y.op.kind \in Single,
         y.pc \in {"selecting", "deciding"} => y.op.kind \in Locked,
         \A d \in Client \ {c} : lock' = d <=> lock = d,
         lock' = c <=> y.pc = "deciding" /\ y.existing # NoRow,
         lock' = c => row = y.existing
  PROVE  Kept
<1>1. Shape /\ Shape' /\ req'[c] = y /\ \A d \in Client \ {c} : req'[d] = req[d]
  BY Zenon DEF IInv, Shape
<1>2. RowLocked'
  BY <1>1 DEF IInv, RowLocked
<1>3. EffectTold' /\ Witnessed'
  BY <1>1 DEF IInv, EffectTold, Witnessed
<1>4. Routed'
  BY <1>1 DEF IInv, Routed, Kind
<1> QED
  BY <1>1, <1>2, <1>3, <1>4, SilentStep, Zenon DEF IInv, Kept

--------------------------------------------------------------------------------
(* The steps, one by one.                                                  *)

LEMMA RequestStep ==
  ASSUME IInv, NEW c \in Client, NEW o \in Op, Request(c, o)
  PROVE  Kept
<1> DEFINE u == ~Holds(o.cond, row)
           b == row = NoRow
           y == [Idle EXCEPT !.pc = "ready", !.op = o, !.unmet = u, !.absent = b]
<1>1. /\ req[c].pc = "idle" /\ req' = [req EXCEPT ![c] = y]
      /\ row' = row /\ lock' = lock /\ reply' = NoReply
  BY Zenon DEF Request
<1>2. u \in BOOLEAN /\ b \in BOOLEAN
  BY Zenon
<1>3. b /\ o.cond = "initial" => u
  BY Zenon DEF Holds
<1> HIDE DEF u, b, y
<1>4. /\ y \in InProgress /\ y.pc = "ready" /\ y.op = o /\ y.unmet = u /\ y.absent = b
      /\ y.effects = 0
  <2>1. y = [Idle EXCEPT !.pc = "ready", !.op = o, !.unmet = u, !.absent = b]
    BY Zenon DEF y
  <2> QED
    BY <1>2, <2>1, Zenon DEF Idle, InProgress, Pc, Op, Content
<1>5. Seen(y, row)
  BY <1>3, <1>4, Zenon DEF Seen, u, b
<1>6. lock # c
  BY <1>1, Zenon DEF IInv, RowLocked
<1> QED
  BY <1>1, <1>4, <1>5, <1>6, MoveStep, Zenon

LEMMA StartStep ==
  ASSUME IInv, NEW c \in Client, Start(c)
  PROVE  Kept
<1> DEFINE next == IF Kind(c) \in Single THEN "running" ELSE "selecting"
           y == [req[c] EXCEPT !.pc = next, !.snap = row, !.lost = FALSE]
<1>1. /\ req[c].pc = "ready" /\ req' = [req EXCEPT ![c] = y]
      /\ row' = row /\ lock' = lock /\ reply' = NoReply
  BY Zenon DEF Start
<1>2. /\ req[c] \in InProgress /\ row \in Content /\ next \in Pc
      /\ next = "running" => Kind(c) \in Single
      /\ next = "selecting" => Kind(c) \in Locked
      /\ next \in {"running", "selecting"}
  BY DEF IInv, Shape, InProgress, Kind, Op, Single, Locked, Pc
<1> HIDE DEF y, next
<1>3. /\ y \in InProgress /\ y.pc = next /\ y.snap = row /\ y.lost = FALSE
      /\ y.op = req[c].op /\ y.effects = req[c].effects
      /\ y.unmet = req[c].unmet /\ y.absent = req[c].absent /\ y.misled = req[c].misled
  <2> DEFINE x == req[c]
  <2>1. x \in InProgress /\ y = [x EXCEPT !.pc = next, !.snap = row, !.lost = FALSE]
    BY <1>2, Zenon DEF y
  <2> HIDE DEF x
  <2>2. /\ y \in InProgress /\ y.pc = next /\ y.snap = row /\ y.lost = FALSE
        /\ y.op = x.op /\ y.effects = x.effects
        /\ y.unmet = x.unmet /\ y.absent = x.absent /\ y.misled = x.misled
    BY <1>2, <2>1, Zenon DEF InProgress
  <2> QED
    BY <2>2, Zenon DEF x
<1>4. Seen(y, row)
  BY <1>1, <1>2, <1>3, Zenon DEF Seen, IInv, Witnessed
<1>5. lock # c /\ (y.effects = 0 \/ y.misled)
  BY <1>1, <1>3, Zenon DEF IInv, RowLocked, EffectTold
<1>6. /\ y.pc = "running" => y.op.kind \in Single
      /\ y.pc \in {"selecting", "deciding"} => y.op.kind \in Locked
  BY <1>2, <1>3, Zenon DEF Kind
<1> QED
  BY <1>1, <1>2, <1>3, <1>4, <1>5, <1>6, MoveStep, Zenon

LEMMA SelectStep ==
  ASSUME IInv, NEW c \in Client, SelectForUpdate(c)
  PROVE  Kept
<1>1. /\ req[c].pc = "selecting" /\ row' = row /\ reply' = NoReply
      /\ req[c] \in InProgress /\ row \in Content /\ NoRow \in Content
      /\ Kind(c) \in Locked /\ lock # c
  BY Zenon DEF SelectForUpdate, IInv, Shape, Routed, RowLocked, Content
<1>2. ASSUME NEW r \in Content, Found(c, r), ~Holds(Cond(c), r) => req[c].unmet,
             r = NoRow => req[c].absent,
             \A d \in Client \ {c} : lock' = d <=> lock = d,
             lock' = c <=> r # NoRow, lock' = c => row = r
      PROVE  Kept
  <2> DEFINE y == [req[c] EXCEPT !.pc = "deciding", !.existing = r,
                                 !.snap = NoRow, !.lost = FALSE]
  <2>1. req' = [req EXCEPT ![c] = y]
    BY <1>2, Zenon DEF Found
  <2> HIDE DEF y
  <2>2. /\ y \in InProgress /\ y.pc = "deciding" /\ y.existing = r
        /\ y.op = req[c].op /\ y.effects = req[c].effects
        /\ y.unmet = req[c].unmet /\ y.absent = req[c].absent /\ y.misled = req[c].misled
    <3> DEFINE x == req[c]
    <3>1. /\ x \in InProgress
          /\ y = [x EXCEPT !.pc = "deciding", !.existing = r, !.snap = NoRow, !.lost = FALSE]
      BY <1>1, Zenon DEF y
    <3> HIDE DEF x
    <3>2. /\ y \in InProgress /\ y.pc = "deciding" /\ y.existing = r
          /\ y.op = x.op /\ y.effects = x.effects
          /\ y.unmet = x.unmet /\ y.absent = x.absent /\ y.misled = x.misled
      BY <1>1, <1>2, <3>1, Zenon DEF InProgress, Pc
    <3> QED
      BY <3>2, Zenon DEF x
  <2>3. Seen(y, row)
    BY <1>1, <1>2, <2>2, Zenon DEF Seen, IInv, Witnessed, Cond
  <2>4. y.op.kind \in Locked /\ (y.effects = 0 \/ y.misled)
    BY <1>1, <2>2, Zenon DEF IInv, EffectTold, Kind
  <2> QED
    BY <1>1, <1>2, <2>1, <2>2, <2>3, <2>4, MoveStep, Zenon
<1>3. Seen(req[c], row)
  BY Zenon DEF IInv, Witnessed
<1>4. CASE Missing(c) /\ Found(c, NoRow) /\ UNCHANGED lock
  <2>1. req[c].absent
    BY <1>1, <1>3, <1>4, Zenon DEF Seen, Missing
  <2>2. ~Holds(Cond(c), NoRow) => req[c].unmet
    <3>1. Cond(c) \in {"none", "absent", "initial"}
      BY <1>1 DEF Cond, InProgress, Op
    <3>2. Cond(c) = "initial" => req[c].unmet
      BY <1>1, <1>3, <2>1, Zenon DEF Seen, Cond
    <3> QED
      BY <3>1, <3>2, Zenon DEF Holds
  <2> QED
    BY <1>1, <1>2, <1>4, <2>1, <2>2, Zenon
<1>5. CASE Lockable(c) /\ Found(c, row) /\ lock' = c
  <2>1. lock = NoClient /\ req[c].snap # NoRow /\ ~req[c].lost
    BY <1>5, Zenon DEF Lockable
  <2> QED
    <3>1. row # NoRow /\ (~Holds(Cond(c), row) => req[c].unmet)
      BY <1>1, <1>3, <2>1, Zenon DEF Seen, Cond
    <3> QED
      BY <1>1, <1>2, <1>5, <2>1, <3>1, ParamAssumption, Zenon
<1> QED
  BY <1>4, <1>5, Zenon DEF SelectForUpdate

\* A statement that is refused or finds nothing.
LEMMA LeaveEnds ==
  ASSUME IInv, NEW c \in Client, NEW a, req[c].pc # "idle", Leave(c, a), Release(c),
         a.status = "refused" => req[c].unmet,
         a.status = "ok" /\ Kind(c) # "get" =>
           req[c].absent /\ a = Ok(NoRow, NoRow) /\ Kind(c) \in {"delete", "delete_if"}
  PROVE  Kept
<1>1. req \in [Client -> InProgress] /\ row' = row /\ Respond(c, req, a)
  BY Zenon DEF IInv, Shape, Leave
<1>2. /\ req' \in [Client -> InProgress] /\ \A d \in Client \ {c} : req'[d] = req[d]
      /\ Outcome(c, req[c], a)
  BY <1>1, RespondShape, Zenon
<1> QED
  BY <1>1, <1>2, LeaveStep

LEMMA Statuses ==
  /\ Refused.status = "refused" /\ Error.status = "error"
  /\ \A old, new : /\ Ok(old, new).status = "ok"
                   /\ Ok(old, new).old = old /\ Ok(old, new).new = new
  BY Zenon DEF Refused, Error, Ok

LEMMA ExecuteStep ==
  ASSUME IInv, NEW c \in Client, Execute(c)
  PROVE  Kept
<1>1. /\ req[c].pc = "running" /\ req[c].pc # "idle" /\ lock # c /\ lock' = lock
      /\ req[c] \in InProgress /\ row \in Content /\ Seen(req[c], row)
  BY Zenon DEF Execute, IInv, Shape, RowLocked, Witnessed
<1>2. Release(c)
  BY <1>1, Zenon DEF Release
<1>3. CASE Upsert(c)
  <2> DEFINE new == Apply(Kind(c), c, row)
  <2>1. Kind(c) \in {"put", "update"} /\ lock = NoClient /\ Commit(c, new, Ok(req[c].snap, new))
    BY <1>3, Zenon DEF Upsert
  <2>2. /\ Cond(c) = "none" /\ Holds(Cond(c), row) /\ Kind(c) # "get"
        /\ Kind(c) \notin Locked \cup {"delete", "insert_only"}
    <3>1. Cond(c) = "none"
      BY <1>1, <2>1 DEF InProgress, Op, Cond, Kind
    <3> QED
      BY <2>1, <3>1, Zenon DEF Holds, Locked
  <2>3. new \in Content
    BY <1>1, <2>1, ApplyContent DEF Single
  <2> HIDE DEF new
  <2>4. new = Apply(Kind(c), c, row)
    BY Zenon DEF new
  <2> QED
    BY <1>1, <1>2, <2>1, <2>2, <2>3, <2>4, WriteStep, Statuses, ParamAssumption
<1>4. CASE InsertOnly(c)
  <2>1. Kind(c) = "insert_only" /\ Cond(c) = "absent"
    BY <1>1, <1>4, SMTT(40) DEF InsertOnly, InProgress, Op, Cond, Kind
  <2>2. CASE row = NoRow /\ Commit(c, Fresh(c), Ok(NoRow, Fresh(c)))
    <3>1. Fresh(c) = Apply(Kind(c), c, row) /\ Fresh(c) \in Content /\ Holds(Cond(c), row)
      BY <2>1, <2>2, Zenon DEF Apply, Fresh, Content, Holds
    <3>2. \A d \in Client : lock # d
      BY <2>2, Zenon DEF IInv, RowLocked
    <3> QED
      BY <1>1, <1>2, <2>1, <2>2, <3>1, <3>2, WriteStep, Statuses
  <2>3. CASE row # NoRow /\ Leave(c, Refused)
    <3>1. req[c].unmet
      BY <1>1, <2>1, <2>3, Zenon DEF Seen, Cond, Holds
    <3> QED
      BY <1>1, <1>2, <2>3, <3>1, LeaveEnds, Statuses
  <2> QED
    BY <1>4, <2>2, <2>3 DEF InsertOnly
<1>5. CASE UpdateIf(c)
  <2>1. Kind(c) = "update_if" /\ Cond(c) = "initial"
    BY <1>1, <1>5, SMTT(40) DEF UpdateIf, InProgress, Op, Cond, Kind
  <2>2. CASE /\ Leave(c, Refused)
             /\ ~Holds(Cond(c), req[c].snap) \/ req[c].lost \/ ~Holds(Cond(c), row)
    <3>1. req[c].unmet
      BY <1>1, <2>1, <2>2, Zenon DEF Seen, Cond
    <3> QED
      BY <1>1, <1>2, <2>2, <3>1, LeaveEnds, Statuses, Zenon
  <2>3. CASE /\ lock = NoClient /\ Holds(Cond(c), row)
             /\ LET new == Apply("update_if", c, row) IN Commit(c, new, Ok(req[c].snap, new))
    <3> DEFINE new == Apply("update_if", c, row)
    <3>1. Commit(c, new, Ok(req[c].snap, new))
      BY <2>3, Zenon
    <3>2. new \in Content
      BY <1>1, ApplyContent, Zenon DEF Single
    <3> HIDE DEF new
    <3>3. /\ new = Apply(Kind(c), c, row)
          /\ Kind(c) # "get" /\ Kind(c) \notin Locked \cup {"delete", "insert_only"}
      BY <2>1, Zenon DEF new, Locked
    <3> QED
      BY <1>1, <1>2, <2>3, <3>1, <3>2, <3>3, WriteStep, Statuses, ParamAssumption, SMTT(40)
  <2> QED
    BY <1>5, <2>2, <2>3, Zenon DEF UpdateIf
<1>6. CASE Delete(c)
  <2>1. Kind(c) = "delete" /\ Cond(c) = "none"
    BY <1>1, <1>6 DEF Delete, InProgress, Op, Cond, Kind
  <2>2. CASE Missing(c) /\ Leave(c, Ok(NoRow, NoRow))
    <3>1. req[c].absent
      BY <1>1, <2>2, Zenon DEF Seen, Missing
    <3> QED
      BY <1>1, <1>2, <2>1, <2>2, <3>1, LeaveEnds, Statuses
  <2>3. CASE Lockable(c) /\ Commit(c, NoRow, Ok(row, NoRow))
    <3>1. /\ lock = NoClient /\ NoRow \in Content /\ NoRow = Apply(Kind(c), c, row)
          /\ Holds(Cond(c), row)
      BY <2>1, <2>3, Zenon DEF Lockable, Content, Apply, Holds
    <3> QED
      BY <1>1, <1>2, <2>1, <2>3, <3>1, WriteStep, Statuses, ParamAssumption
  <2> QED
    BY <1>6, <2>2, <2>3 DEF Delete
<1>7. CASE Get(c)
  BY <1>1, <1>2, <1>7, LeaveEnds, Statuses, Zenon DEF Get
<1> QED
  BY <1>3, <1>4, <1>5, <1>6, <1>7 DEF Execute

LEMMA DecideStep ==
  ASSUME IInv, NEW c \in Client, Decide(c)
  PROVE  Kept
<1>1. /\ req[c].pc = "deciding" /\ req[c].pc # "idle" /\ Kind(c) \in Locked
      /\ Kind(c) # "get" /\ req \in [Client -> InProgress]
      /\ req[c] \in InProgress /\ row \in Content /\ Seen(req[c], row)
  BY DEF Decide, IInv, Shape, Routed, Witnessed, Locked
<1>2. /\ lock = c => req[c].existing # NoRow
      /\ req[c].existing # NoRow => lock = c /\ row = req[c].existing
  BY <1>1, Zenon DEF IInv, RowLocked
<1>3. CASE Refuse(c)
  <2>1. ~Passes(c) /\ Deliver(c, req, Refused) /\ Release(c) /\ row' = row
    BY <1>3, Zenon DEF Refuse
  <2>2. req[c].unmet
    BY <1>1, <2>1, Zenon DEF Seen, Passes, Cond
  <2>3. /\ req' \in [Client -> InProgress] /\ \A d \in Client \ {c} : req'[d] = req[d]
        /\ Outcome(c, req[c], Refused)
    BY <1>1, <2>1, DeliverShape, Zenon
  <2> QED
    BY <1>1, <2>1, <2>2, <2>3, LeaveStep, Statuses
<1>4. CASE WriteLocked(c)
  <2> DEFINE new == Apply(Kind(c), c, req[c].existing)
  <2>1. /\ Passes(c) /\ req[c].existing # NoRow /\ Release(c)
        /\ Commit(c, new, Ok(req[c].existing, new))
    BY <1>4, Zenon DEF WriteLocked
  <2>2. lock = c /\ row = req[c].existing /\ Holds(Cond(c), row)
    BY <1>2, <2>1 DEF Passes
  <2>3. new \in Content /\ new = Apply(Kind(c), c, row)
    BY <1>1, <2>2, ApplyContent
  <2> HIDE DEF new
  <2> QED
    BY <1>1, <2>1, <2>2, <2>3, WriteStep, Statuses, SMTT(40)
<1>5. CASE DeleteNothing(c)
  <2>1. /\ req[c].existing = NoRow /\ Kind(c) = "delete_if"
        /\ Leave(c, Ok(NoRow, NoRow)) /\ lock' = lock
    BY <1>5, Zenon DEF DeleteNothing
  <2>2. req[c].absent /\ Release(c)
    BY <1>1, <1>2, <2>1, SMTT(30) DEF Seen, Release
  <2> QED
    BY <1>1, <2>1, <2>2, LeaveEnds, Statuses, Zenon
<1>6. CASE InsertAbsent(c)
  <2> DEFINE new == Apply(Kind(c), c, NoRow)
  <2>1. /\ Passes(c) /\ req[c].existing = NoRow /\ row = NoRow /\ lock' = lock
        /\ Commit(c, new, Ok(NoRow, new))
    BY <1>6, Zenon DEF InsertAbsent
  <2>2. /\ Holds(Cond(c), row) /\ Release(c) /\ \A d \in Client : lock # d
    BY <1>1, <1>2, <2>1 DEF Passes, Release, IInv, RowLocked
  <2>3. new \in Content /\ new = Apply(Kind(c), c, row)
    BY <1>1, <2>1, ApplyContent, Zenon
  <2> HIDE DEF new
  <2> QED
    BY <1>1, <2>1, <2>2, <2>3, WriteStep, Statuses, SMTT(40)
<1>7. CASE Conflict(c)
  <2>1. LosesInsert(c) /\ row' = row /\ lock' = lock /\ req[c].existing = NoRow
    BY <1>7, Zenon DEF Conflict, LosesInsert
  <2>2. lock # c /\ Release(c)
    BY <1>2, <2>1, SMTT(30) DEF Release
  <2>3. CASE Deliver(c, req, Error)
    <3>1. /\ req' \in [Client -> InProgress] /\ \A d \in Client \ {c} : req'[d] = req[d]
          /\ Outcome(c, req[c], Error)
      BY <1>1, <2>3, DeliverShape, Zenon
    <3> QED
      BY <1>1, <2>1, <2>2, <3>1, LeaveStep, Statuses
  <2>4. CASE /\ req' = [req EXCEPT ![c] = [req[c] EXCEPT !.pc = "ready", !.iter = @ + 1]]
             /\ reply' = NoReply
    <3> DEFINE y == [req[c] EXCEPT !.pc = "ready", !.iter = @ + 1]
    <3>1. /\ y \in InProgress /\ y.pc = "ready"
          /\ y.op = req[c].op /\ y.effects = req[c].effects
          /\ y.unmet = req[c].unmet /\ y.absent = req[c].absent /\ y.misled = req[c].misled
      BY <1>1, Again, Zenon
    <3>2. req' = [req EXCEPT ![c] = y]
      BY <2>4, Zenon
    <3> HIDE DEF y
    <3>3. Seen(y, row) /\ (y.effects = 0 \/ y.misled)
      BY <1>1, <3>1 DEF Seen, IInv, EffectTold
    <3> QED
      BY <2>1, <2>2, <2>4, <3>1, <3>2, <3>3, MoveStep, Zenon
  <2> QED
    BY <1>7, <2>3, <2>4, Zenon DEF Conflict
<1> QED
  BY <1>3, <1>4, <1>5, <1>6, <1>7 DEF Decide

LEMMA TransientStep ==
  ASSUME IInv, NEW c \in Client, Transient(c)
  PROVE  Kept
<1>1. /\ req[c].pc # "idle" /\ Fails(c, req) /\ Release(c) /\ row' = row
      /\ req \in [Client -> InProgress]
  BY Zenon DEF Transient, IInv, Shape
<1>2. /\ req' \in [Client -> InProgress] /\ \A d \in Client \ {c} : req'[d] = req[d]
      /\ Outcome(c, req[c], Error)
  BY <1>1, FailsShape, Zenon
<1> QED
  BY <1>1, <1>2, LeaveStep, Statuses, Zenon

LEMMA StepKeeps == IInv /\ [Next]_vars => IInv' /\ ((NothingLost /\ OldReturned) \/ UNCHANGED vars)
<1> SUFFICES ASSUME IInv, [Next]_vars
             PROVE  IInv' /\ ((NothingLost /\ OldReturned) \/ UNCHANGED vars)
  BY Zenon
<1>1. CASE Next
  <2>1. PICK c \in Client : Work(c) \/ Transient(c) \/ \E o \in Op : Request(c, o)
    BY <1>1, SMTT(30) DEF Next
  <2> QED
    BY <2>1, StartStep, ExecuteStep, SelectStep, DecideStep, TransientStep, RequestStep
    DEF Work, Kept
<1>2. CASE UNCHANGED vars
  BY <1>2 DEF vars, IInv, Shape, RowLocked, EffectTold, Witnessed, Routed, Kind,
              AnswersWereTrue, StatusMatchesEffect
<1> QED
  BY <1>1, <1>2

LEMMA InitKeeps == Init => IInv
<1> SUFFICES ASSUME Init PROVE IInv
  BY Zenon
<1>1. /\ row \in Content /\ lock = NoClient /\ reply = NoReply
      /\ req = [c \in Client |-> Idle]
  BY DEF Init, Content
<1>2. \A c \in Client : /\ req[c] = Idle /\ req[c].pc = "idle" /\ req[c].effects = 0
  BY <1>1, IdleShape, Zenon
<1>3. Shape /\ RowLocked /\ EffectTold /\ Witnessed /\ Routed
  BY <1>1, <1>2, IdleShape, ParamAssumption
  DEF Shape, RowLocked, EffectTold, Witnessed, Seen, Routed
<1>4. reply.req.effects = 0 /\ reply.answer.status = "error"
  BY <1>1, SilentReply, IdleShape, Zenon
<1> QED
  BY <1>3, <1>4, Zenon DEF IInv, AnswersWereTrue, StatusMatchesEffect

(***************************************************************************)
(* A refusal or an empty-handed delete was true of the row at some moment  *)
(* while the request ran, whatever the other clients did meanwhile.        *)
(***************************************************************************)
THEOREM AnswersAreTrue == Spec => []AnswersWereTrue
<1>1. IInv => AnswersWereTrue
  BY Zenon DEF IInv
<1>2. IInv /\ [Next]_vars => IInv'
  BY StepKeeps, Zenon
<1> QED
  BY InitKeeps, <1>1, <1>2, PTL DEF Spec

(***************************************************************************)
(* Unless a reply was lost, "ok" means the write was carried out exactly   *)
(* once, and a refusal or an error that it was not carried out.            *)
(***************************************************************************)
THEOREM StatusIsHonest == Spec => []StatusMatchesEffect
<1>1. IInv => StatusMatchesEffect
  BY Zenon DEF IInv
<1>2. IInv /\ [Next]_vars => IInv'
  BY StepKeeps
<1> QED
  BY InitKeeps, <1>1, <1>2, PTL DEF Spec

(***************************************************************************)
(* No path overwrites a row it has not seen: each change applies one       *)
(* request to the very row it replaces, its condition true of that row.    *)
(***************************************************************************)
THEOREM UpdatesAreNotLost == Spec => NoLostUpdate
<1>1. IInv /\ [Next]_vars => IInv'
  BY StepKeeps, Zenon
<1>2. IInv /\ [Next]_vars =>
        [row' # row =>
           \E c \in Client : /\ Wrote(c)
                             /\ Holds(Cond(c), row)
                             /\ row' = Apply(Kind(c), c, row)]_vars
  BY StepKeeps, Zenon DEF NothingLost
<1> QED
  BY InitKeeps, <1>1, <1>2, PTL DEF Spec, NoLostUpdate

(***************************************************************************)
(* ALL_OLD and ALL_NEW of the locking paths, of DELETE ... RETURNING and   *)
(* of the insert are the row that was replaced and the one left.           *)
(***************************************************************************)
THEOREM ReplacedRowIsReturned == Spec => ReturnsReplacedRow
<1>1. IInv /\ [Next]_vars => IInv'
  BY StepKeeps, Zenon
<1>2. IInv /\ [Next]_vars =>
        [\A c \in Client :
           /\ Wrote(c) /\ Kind(c) \in Locked \cup {"delete", "insert_only"}
           /\ reply'.by = c /\ reply'.answer.status = "ok"
           => reply'.answer.old = row /\ reply'.answer.new = row']_vars
  BY StepKeeps, Zenon DEF OldReturned
<1> QED
  BY InitKeeps, <1>1, <1>2, PTL DEF Spec, ReturnsReplacedRow
================================================================================
