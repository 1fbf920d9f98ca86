------------------------------ MODULE AuthProofs -------------------------------
(***************************************************************************)
(* Proofs about Auth for any number of requests in flight, credentials,    *)
(* keys and configurations, and for every lifetime and timeout: how stale  *)
(* a verdict can be, and what the cached key set is worth.                 *)
(***************************************************************************)
EXTENDS Auth, TLAPS

Refreshing == {"send", "doc"}
LookingUp == {"fetch", "row"}

(***************************************************************************)
(* The shape of the state, with publications and ages not bounded.         *)
(***************************************************************************)
Published == [seq : Nat, kids : SUBSET Kid]
InFlight == [pc : {"idle", "fetch", "row", "lock", "send", "doc"},
             q : Requests \cup {None}, waited : Nat, row : Row,
             doc : Published, missed : BOOLEAN]

Shape ==
  /\ req \in [Slot -> InFlight]
  /\ published \in Published /\ keys \in Published
  /\ rows \in [Cred -> Row]
  /\ positive \in [Cred -> [secret : Secret \cup {NoOne}, left : Nat]]
  /\ negative \in [Cred -> Nat]
  /\ age \in [Cred -> [Row -> Nat]]

\* A process that does not run has no requests and has answered nothing new.
Quiet == boot # "up" => reply = NoReply /\ \A r \in Slot : req[r].pc = "idle"

\* What each request in flight is about.
Routed ==
  \A r \in Slot :
    /\ req[r].pc \in LookingUp => req[r].q.route \in {"sigv4", "opaque"} /\ req[r].q.id \in Cred
    /\ req[r].pc \in {"lock", "send", "doc"} => req[r].q.route = "jwt"

--------------------------------------------------------------------------------
(* The credential caches.                                                  *)

\* The value a row has now has age 0.
Current == \A c \in Cred : age[c][rows[c]] = 0

\* A row read on behalf of a request was current since the request came.
ReadRecently ==
  \A r \in Slot : /\ req[r].waited <= Timeout
                  /\ req[r].pc = "row" => age[req[r].q.id][req[r].row] <= req[r].waited

\* The age of a cached verdict and what its entry has left add up to at most a
\* lifetime and a request.
CachedRecently ==
  \A c \in Cred :
    /\ positive[c].left > 0 =>
         /\ positive[c].secret \in Secret
         /\ age[c][positive[c].secret] + positive[c].left <= Ttl + Timeout
    /\ negative[c] > 0 =>
         \E v \in Unusable : age[c][v] + negative[c] <= NegativeTtl + Timeout

--------------------------------------------------------------------------------
(* The key set.                                                            *)

\* Only the holder of the refresh lock fetches.
SingleFlight == \A r \in Slot : req[r].pc \in Refreshing => refresh_lock = r

\* The sets fetched lie between the cached one and the one published now.
Ordered ==
  /\ keys.seq <= published.seq
  /\ \A r \in Slot : req[r].pc = "doc" =>
       keys.seq <= req[r].doc.seq /\ req[r].doc.seq <= published.seq

\* Whoever fetches does so for a key that is not cached.
FetchesMissing == \A r \in Slot : req[r].pc \in Refreshing => req[r].q.id \notin keys.kids

\* A request whose key was not published at some moment remembers it.
Remembers ==
  \A r \in Slot :
    /\ req[r].pc \in {"lock", "send", "doc"} /\ req[r].q.id \notin published.kids => req[r].missed
    /\ req[r].pc = "doc" /\ req[r].q.id \notin req[r].doc.kids => req[r].missed

CredInv == Current /\ ReadRecently /\ CachedRecently /\ VerdictWasTrue
KeyInv == SingleFlight /\ Ordered /\ FetchesMissing /\ Remembers
            /\ KeyIsFound /\ OutageSparesKnownKeys
IInv == Shape /\ Quiet /\ Routed /\ CredInv /\ KeyInv

USE ParamAssumption DEF Unusable

LEMMA Constants ==
  /\ Idle \in InFlight /\ Idle.pc = "idle" /\ Idle.waited = 0
  /\ NoKeys \in Published /\ NoKeys.seq = 0
  /\ NoEntry \in [secret : Secret \cup {NoOne}, left : Nat] /\ NoEntry.left = 0
  /\ NoReply.kind = "none"
  /\ Old \in Nat
  BY DEF Idle, InFlight, NoKeys, Published, NoEntry, NoReply, Old, None, Row

LEMMA Parsed ==
  ASSUME NEW doc \in Published
  PROVE  /\ parse_jwks(doc) \in Published
         /\ parse_jwks(doc).seq = doc.seq
         /\ parse_jwks(doc).kids = doc.kids \ Unsupported
  BY Zenon DEF parse_jwks, Published

\* A step that has given no answer has given no wrong one.
LEMMA SilenceIsTrue == reply = NoReply => VerdictWasTrue /\ KeyIsFound /\ OutageSparesKnownKeys
  BY Constants, Zenon DEF VerdictWasTrue, KeyIsFound, OutageSparesKnownKeys

LEMMA InitIInv == Init => IInv
<1> SUFFICES ASSUME Init PROVE IInv
  BY Zenon
<1>1. Shape
  BY Constants DEF Init, Shape, Published, Row
<1>2. Quiet /\ Routed
  BY Constants, Zenon DEF Init, Quiet, Routed, LookingUp
<1>3. CredInv
  <2>1. Current
    BY Zenon DEF Init, Current, Row
  <2>2. ReadRecently
    BY Constants DEF Init, ReadRecently
  <2>3. CachedRecently
    BY Constants DEF Init, CachedRecently
  <2> QED
    BY <2>1, <2>2, <2>3, SilenceIsTrue DEF CredInv, Init
<1>4. KeyInv
  BY Constants, SilenceIsTrue
  DEF Init, KeyInv, SingleFlight, Ordered, FetchesMissing, Remembers, Refreshing
<1> QED
  BY <1>1, <1>2, <1>3, <1>4 DEF IInv

--------------------------------------------------------------------------------
(* What the process does not do itself.                                    *)

LEMMA BootStep ==
  ASSUME IInv, NEW c \in Configs, Boot(c)
  PROVE  IInv'
<1> USE DEF IInv, Boot
<1>1. Shape'
  BY Constants, Parsed DEF Shape
<1>2. \A r \in Slot : req[r].pc = "idle"
  BY SMTT(30) DEF Quiet
<1>3. Quiet' /\ Routed' /\ CredInv'
  BY <1>2 DEF Quiet, Routed, LookingUp, CredInv, Current, ReadRecently,
              CachedRecently, VerdictWasTrue
<1>4. Ordered'
  BY <1>2, Constants, Parsed DEF Shape, Published, KeyInv, Ordered
<1>5. KeyInv'
  <2>1. reply' = NoReply
    BY Zenon DEF Quiet
  <2> QED
    BY <1>2, <1>4, <2>1, Constants, Zenon
    DEF KeyInv, SingleFlight, FetchesMissing, Remembers, Refreshing, KeyIsFound,
        OutageSparesKnownKeys
<1> QED
  BY <1>1, <1>3, <1>5

LEMMA CrashStep ==
  ASSUME IInv, Crash
  PROVE  IInv'
<1> USE DEF IInv, Crash
<1>1. Shape'
  BY Constants, Zenon DEF Shape
<1>2. Quiet' /\ Routed'
  BY Constants, Zenon DEF Quiet, Routed, LookingUp
<1>3. CredInv'
  <2>1. Current' /\ ReadRecently' /\ CachedRecently'
    BY Constants DEF CredInv, Current, ReadRecently, CachedRecently
  <2> QED
    BY <2>1, Constants, Zenon DEF CredInv, VerdictWasTrue
<1>4. KeyInv'
  BY Constants
  DEF Shape, Published, KeyInv, SingleFlight, Ordered, FetchesMissing, Remembers,
      Refreshing, KeyIsFound, OutageSparesKnownKeys
<1> QED
  BY <1>1, <1>2, <1>3, <1>4

LEMMA ChangeRowStep ==
  ASSUME IInv, NEW c \in Cred, NEW v \in Row, ChangeRow(c, v)
  PROVE  IInv'
<1> USE DEF IInv, ChangeRow
<1>1. Shape'
  BY Zenon DEF Shape
<1>2. Quiet' /\ Routed'
  BY Zenon DEF Quiet, Routed
<1>3. \A d \in Cred, w \in Row : age'[d][w] <= age[d][w] /\ age'[d][w] \in Nat
  BY DEF Shape
<1>4. CredInv'
  <2>1. Current'
    BY SMTT(30) DEF Shape, CredInv, Current
  <2>2. ReadRecently'
    BY <1>3 DEF Shape, InFlight, CredInv, ReadRecently, Routed, LookingUp
  <2>3. CachedRecently'
    BY <1>3 DEF Shape, CredInv, CachedRecently, Row
  <2> QED
    BY <2>1, <2>2, <2>3, Constants, Zenon DEF CredInv, VerdictWasTrue
<1>5. KeyInv'
  BY Constants, Zenon
  DEF KeyInv, SingleFlight, Ordered, FetchesMissing, Remembers, KeyIsFound,
      OutageSparesKnownKeys
<1> QED
  BY <1>1, <1>2, <1>4, <1>5

LEMMA PublishStep ==
  ASSUME IInv, NEW S \in SUBSET Kid, Publish(S)
  PROVE  IInv'
<1> USE DEF IInv
<1>1. published' \in Published /\ published'.seq = published.seq + 1 /\ published'.kids = S
  BY DEF Publish, Shape, Published
<1>2. \A r \in Slot : /\ req'[r].pc = req[r].pc /\ req'[r].q = req[r].q
                      /\ req'[r].waited = req[r].waited /\ req'[r].row = req[r].row
                      /\ req'[r].doc = req[r].doc
  BY DEF Publish, Shape, InFlight
<1>3. \A r \in Slot : /\ req[r].pc # "idle" /\ req[r].q.id \notin S => req'[r].missed
                      /\ req[r].pc # "idle" /\ req[r].missed => req'[r].missed
  <2> TAKE r \in Slot
  <2> DEFINE b == req[r].pc # "idle" /\ (req[r].missed \/ req[r].q.id \notin S)
  <2>1. req'[r] = [req[r] EXCEPT !.missed = b]
    BY Zenon DEF Publish
  <2>2. req[r] \in InFlight
    BY DEF Shape
  <2> HIDE DEF b
  <2>3. req'[r].missed = b
    BY <2>1, <2>2, Zenon DEF InFlight
  <2> QED
    BY <2>3, Zenon DEF b
<1>4. req' \in [Slot -> InFlight]
  <2>1. \A r \in Slot :
          [req[r] EXCEPT !.missed = req[r].pc # "idle" /\ (@ \/ req[r].q.id \notin S)] \in InFlight
    <3> TAKE r \in Slot
    <3> DEFINE b == req[r].pc # "idle" /\ (req[r].missed \/ req[r].q.id \notin S)
    <3>1. b \in BOOLEAN
      BY Zenon
    <3>2. req[r] \in InFlight
      BY DEF Shape
    <3> HIDE DEF b
    <3>3. [req[r] EXCEPT !.missed = b] \in InFlight
      BY <3>1, <3>2 DEF InFlight
    <3> QED
      BY <3>3 DEF b
  <2> QED
    BY <2>1, Zenon DEF Publish
<1>5. Shape'
  BY <1>1, <1>4, Zenon DEF Publish, Shape
<1>6. Quiet' /\ Routed'
  <2>1. boot' = boot /\ reply' = NoReply
    BY Zenon DEF Publish
  <2>2. Quiet'
    BY <1>2, <2>1, Zenon DEF Quiet
  <2>3. Routed'
    BY <1>2, Zenon DEF Routed
  <2> QED
    BY <2>2, <2>3, Zenon
<1>7. CredInv'
  <2>1. /\ rows' = rows /\ positive' = positive /\ negative' = negative /\ age' = age
        /\ reply' = NoReply
    BY Zenon DEF Publish
  <2>2. Current' /\ CachedRecently'
    BY <2>1, Zenon DEF CredInv, Current, CachedRecently
  <2>3. ReadRecently'
    BY <1>2, <2>1, Zenon DEF CredInv, ReadRecently
  <2>4. VerdictWasTrue'
    BY <2>1 DEF VerdictWasTrue, NoReply
  <2> QED
    BY <2>2, <2>3, <2>4, Zenon DEF CredInv
<1>8. KeyInv'
  <2>1. keys' = keys /\ refresh_lock' = refresh_lock /\ reply' = NoReply
    BY Zenon DEF Publish
  <2>2. SingleFlight' /\ FetchesMissing'
    BY <1>2, <2>1 DEF KeyInv, SingleFlight, FetchesMissing, Refreshing
  <2>3. Ordered'
    BY <1>1, <1>2, <2>1 DEF KeyInv, Ordered, Shape, Published, InFlight
  <2>4. Remembers'
    <3> SUFFICES ASSUME NEW r \in Slot
                 PROVE  /\ req'[r].pc \in {"lock", "send", "doc"} /\ req'[r].q.id \notin S
                             => req'[r].missed
                        /\ req'[r].pc = "doc" /\ req'[r].q.id \notin req'[r].doc.kids
                             => req'[r].missed
      BY <1>1, Zenon DEF Remembers
    <3>1. req[r].pc \in {"lock", "send", "doc"} => req[r].pc # "idle"
      BY Zenon
    <3>2. req[r].pc = "doc" /\ req[r].q.id \notin req[r].doc.kids => req[r].missed
      BY Zenon DEF KeyInv, Remembers
    <3>3. req'[r].pc \in {"lock", "send", "doc"} /\ req'[r].q.id \notin S => req'[r].missed
      BY <1>2, <1>3, <3>1
    <3>4. req'[r].pc = "doc" /\ req'[r].q.id \notin req'[r].doc.kids => req'[r].missed
      BY <1>2, <1>3, <3>1, <3>2, Zenon
    <3> QED
      BY <3>3, <3>4, Zenon
  <2> QED
    BY <2>1, <2>2, <2>3, <2>4, Constants, Zenon DEF KeyInv, KeyIsFound, OutageSparesKnownKeys
<1> QED
  BY <1>5, <1>6, <1>7, <1>8, Zenon

\* A request waits one tick more; an entry has one tick less.
LEMMA Older ==
  ASSUME NEW x \in InFlight, NEW y, y = [x EXCEPT !.waited = @ + 1]
  PROVE  /\ y \in InFlight /\ y.waited = x.waited + 1
         /\ y.pc = x.pc /\ y.q = x.q /\ y.row = x.row /\ y.doc = x.doc
         /\ y.missed = x.missed
  BY DEF InFlight

LEMMA Shorter ==
  ASSUME NEW x \in [secret : Secret \cup {NoOne}, left : Nat], x.left > 1,
         NEW y, y = [x EXCEPT !.left = @ - 1]
  PROVE  /\ y \in [secret : Secret \cup {NoOne}, left : Nat]
         /\ y.secret = x.secret /\ y.left = x.left - 1
  OBVIOUS

LEMMA TickStep ==
  ASSUME IInv, Tick
  PROVE  IInv'
<1> USE DEF IInv
<1>0. /\ boot = "up" /\ reply' = NoReply
      /\ UNCHANGED <<boot, rows, published, keys, refresh_lock>>
  BY Zenon DEF Tick
<1>1. req' = [r \in Slot |-> IF req[r].pc = "idle" THEN Idle
                             ELSE [req[r] EXCEPT !.waited = @ + 1]]
  BY Zenon DEF Tick
<1>2. \A r \in Slot : /\ req[r] \in InFlight
                      /\ req[r].waited \in Nat /\ req[r].waited < Timeout
  BY DEF Tick, Shape, InFlight
<1>3. \A r \in Slot : /\ req'[r].pc = req[r].pc
                      /\ req[r].pc # "idle" =>
                           /\ req'[r].q = req[r].q /\ req'[r].row = req[r].row
                           /\ req'[r].doc = req[r].doc
                           /\ req'[r].waited = req[r].waited + 1
                      /\ req'[r].waited <= Timeout
                      /\ req'[r] \in InFlight
  <2> TAKE r \in Slot
  <2>1. CASE req[r].pc = "idle"
    <3>1. req'[r] = Idle
      BY <1>1, <2>1, Zenon
    <3> QED
      BY <2>1, <3>1, Constants
  <2>2. CASE req[r].pc # "idle"
    <3>1. req'[r] = [req[r] EXCEPT !.waited = @ + 1]
      BY <1>1, <2>2, Zenon
    <3>2. /\ req'[r] \in InFlight /\ req'[r].waited = req[r].waited + 1
          /\ req'[r].pc = req[r].pc /\ req'[r].q = req[r].q /\ req'[r].row = req[r].row
          /\ req'[r].doc = req[r].doc
      BY <1>2, <3>1, Older
    <3>3. req'[r].waited <= Timeout
      BY <1>2, <3>2
    <3> QED
      BY <3>2, <3>3
  <2> QED
    BY <2>1, <2>2, Zenon
<1>31. \A r \in Slot : req[r].pc # "idle" /\ req[r].missed => req'[r].missed
  <2> SUFFICES ASSUME NEW r \in Slot, req[r].pc # "idle", req[r].missed
               PROVE  req'[r].missed
    BY Zenon
  <2>1. req'[r] = [req[r] EXCEPT !.waited = @ + 1]
    BY <1>1, Zenon
  <2>2. req'[r].missed = req[r].missed
    BY <1>2, <2>1, Older, Zenon
  <2> QED
    BY <2>2, Zenon
<1>4. \A c \in Cred, v \in Row :
        age'[c][v] \in Nat /\ age'[c][v] <= age[c][v] + 1
  BY Constants DEF Tick, Shape, Least
<1>5. \A c \in Cred :
        /\ positive'[c] \in [secret : Secret \cup {NoOne}, left : Nat]
        /\ positive'[c].left > 0 => /\ positive[c].left > 0
                                    /\ positive'[c].secret = positive[c].secret
                                    /\ positive'[c].left = positive[c].left - 1
  <2> TAKE c \in Cred
  <2>1. positive[c] \in [secret : Secret \cup {NoOne}, left : Nat]
    BY Zenon DEF Shape
  <2>2. positive' = [d \in Cred |-> IF positive[d].left <= 1 THEN NoEntry
                                    ELSE [positive[d] EXCEPT !.left = @ - 1]]
    BY Zenon DEF Tick
  <2>3. CASE positive[c].left <= 1
    <3>1. positive'[c] = NoEntry
      BY <2>2, <2>3, Zenon
    <3> QED
      BY <3>1, Constants
  <2>4. CASE ~ (positive[c].left <= 1)
    <3>1. positive'[c] = [positive[c] EXCEPT !.left = @ - 1]
      BY <2>2, <2>4, Zenon
    <3>2. positive[c].left > 1
      BY <2>1, <2>4
    <3> QED
      BY <2>1, <3>1, <3>2, Shorter
  <2> QED
    BY <2>3, <2>4, Zenon
<1>51. \A c \in Cred : negative'[c] = IF negative[c] = 0 THEN 0 ELSE negative[c] - 1
  BY Zenon DEF Tick
<1>6. Shape'
  <2>1. req' \in [Slot -> InFlight]
    BY <1>1, <1>3, Zenon
  <2>2. age' \in [Cred -> [Row -> Nat]]
    BY Constants DEF Tick, Shape, Least
  <2>3. negative' \in [Cred -> Nat]
    <3>1. negative' = [c \in Cred |-> IF negative[c] = 0 THEN 0 ELSE negative[c] - 1]
      BY Zenon DEF Tick
    <3>2. negative \in [Cred -> Nat]
      BY Zenon DEF Shape
    <3> QED
      BY <3>1, <3>2
  <2>4. positive' \in [Cred -> [secret : Secret \cup {NoOne}, left : Nat]]
    BY <1>5, Zenon DEF Tick
  <2> QED
    BY <1>0, <2>1, <2>2, <2>3, <2>4 DEF Shape
<1>7. Quiet' /\ Routed'
  BY <1>0, <1>3 DEF Quiet, Routed, LookingUp
<1>8. CredInv'
  <2>1. Current'
    BY SMTT(30) DEF Tick, Shape, CredInv, Current
  <2>2. ReadRecently'
    <3> SUFFICES ASSUME NEW r \in Slot, req[r].pc = "row"
                 PROVE  age'[req[r].q.id][req[r].row] <= req[r].waited + 1
      BY <1>3 DEF ReadRecently
    <3>1. req[r].q.id \in Cred /\ req[r].row \in Row
      BY DEF Routed, LookingUp, Shape, InFlight
    <3>2. age[req[r].q.id][req[r].row] <= req[r].waited
      BY Zenon DEF CredInv, ReadRecently
    <3>3. age[req[r].q.id][req[r].row] \in Nat
      BY <3>1 DEF Shape
    <3> QED
      BY <1>2, <1>4, <3>1, <3>2, <3>3
  <2>3. CachedRecently'
    <3> SUFFICES ASSUME NEW c \in Cred
                 PROVE  /\ positive'[c].left > 0 =>
                             /\ positive'[c].secret \in Secret
                             /\ age'[c][positive'[c].secret] + positive'[c].left <= Ttl + Timeout
                        /\ negative'[c] > 0 =>
                             \E v \in Unusable : age'[c][v] + negative'[c] <= NegativeTtl + Timeout
      BY Zenon DEF CachedRecently
    <3>1. positive[c] \in [secret : Secret \cup {NoOne}, left : Nat] /\ negative[c] \in Nat
      BY Zenon DEF Shape
    <3>2. \A v \in Row : age[c][v] \in Nat
      BY DEF Shape
    <3>3. ASSUME positive'[c].left > 0
          PROVE  /\ positive'[c].secret \in Secret
                 /\ age'[c][positive'[c].secret] + positive'[c].left <= Ttl + Timeout
      <4>1. positive[c].left > 0
        BY <1>5, <3>3, Zenon
      <4>2. positive'[c].secret = positive[c].secret /\ positive'[c].left = positive[c].left - 1
        BY <1>5, <3>3
      <4>3. /\ positive[c].secret \in Secret
            /\ age[c][positive[c].secret] + positive[c].left <= Ttl + Timeout
        BY <3>1, <4>1, Zenon DEF CredInv, CachedRecently
      <4> QED
        BY <1>4, <3>1, <3>2, <4>2, <4>3 DEF Row
    <3>4. ASSUME negative'[c] > 0
          PROVE  \E v \in Unusable : age'[c][v] + negative'[c] <= NegativeTtl + Timeout
      <4>1. negative[c] > 0 /\ negative'[c] = negative[c] - 1
        BY <1>51, <3>1, <3>4
      <4>2. PICK v \in Unusable : age[c][v] + negative[c] <= NegativeTtl + Timeout
        BY <4>1, Zenon DEF CredInv, CachedRecently
      <4>3. age'[c][v] \in Nat /\ age'[c][v] <= age[c][v] + 1 /\ age[c][v] \in Nat
        BY <1>4, <3>2, <4>2 DEF Row
      <4> QED
        BY <3>1, <4>1, <4>2, <4>3
    <3> QED
      BY <3>3, <3>4, Zenon
  <2> QED
    BY <2>1, <2>2, <2>3, Constants, Zenon DEF Tick, CredInv, VerdictWasTrue
<1>9. KeyInv'
  <2>1. \A r \in Slot : req[r].pc \in {"lock", "send", "doc"} => req[r].pc # "idle"
    BY Zenon
  <2>2. SingleFlight' /\ FetchesMissing'
    BY <1>0, <1>3 DEF KeyInv, SingleFlight, FetchesMissing, Refreshing
  <2>3. Ordered'
    BY <1>0, <1>3, SMTT(30) DEF KeyInv, Ordered
  <2>4. Remembers'
    BY <1>0, <1>3, <1>31, <2>1 DEF KeyInv, Remembers
  <2> QED
    BY <1>0, <2>2, <2>3, <2>4, Constants, Zenon DEF KeyInv, KeyIsFound, OutageSparesKnownKeys
<1> QED
  BY <1>6, <1>7, <1>8, <1>9

--------------------------------------------------------------------------------
(* Requests come and go.                                                   *)

\* What a step of one request says about the others.
LEMMA OneRequest ==
  ASSUME Shape, NEW r \in Slot, NEW x \in InFlight, req' = [req EXCEPT ![r] = x]
  PROVE  /\ req' \in [Slot -> InFlight] /\ req'[r] = x
         /\ \A s \in Slot \ {r} : req'[s] = req[s]
  BY Zenon DEF Shape

\* A request that ends leaves the invariants of the others alone.
LEMMA RequestEnds ==
  ASSUME IInv, NEW r \in Slot, req' = [req EXCEPT ![r] = Idle], boot = "up",
         UNCHANGED <<boot, rows, published, age>>
  PROVE  /\ req' \in [Slot -> InFlight] /\ req'[r] = Idle
         /\ \A s \in Slot \ {r} : req'[s] = req[s]
         /\ Quiet' /\ Routed' /\ Current' /\ ReadRecently' /\ Remembers'
<1> USE DEF IInv
<1>1. /\ req' \in [Slot -> InFlight] /\ req'[r] = Idle
      /\ \A s \in Slot \ {r} : req'[s] = req[s]
  BY OneRequest, Constants, Zenon
<1>2. Quiet' /\ Routed'
  BY <1>1, Constants, SMTT(30) DEF Quiet, Routed, LookingUp
<1>3. Current' /\ ReadRecently'
  BY <1>1, Constants DEF CredInv, Current, ReadRecently
<1>4. Remembers'
  BY <1>1, Constants DEF KeyInv, Remembers
<1> QED
  BY <1>1, <1>2, <1>3, <1>4, Zenon

LEMMA FetchRowFailsStep ==
  ASSUME IInv, NEW r \in Slot, FetchRowFails(r)
  PROVE  IInv'
<1> USE DEF IInv
<1>1. /\ req' = [req EXCEPT ![r] = Idle] /\ req[r].pc = "fetch"
      /\ UNCHANGED <<boot, rows, positive, negative, published, keys, refresh_lock, age>>
      /\ reply' = [kind |-> "Internal", scheme |-> "none", q |-> req[r].q, missed |-> FALSE]
  BY Zenon DEF FetchRowFails, Say
<1>2. boot = "up"
  BY <1>1, Zenon DEF Quiet
<1>3. /\ req' \in [Slot -> InFlight] /\ req'[r] = Idle
      /\ \A s \in Slot \ {r} : req'[s] = req[s]
      /\ Quiet' /\ Routed' /\ Current' /\ ReadRecently' /\ Remembers'
  BY <1>1, <1>2, RequestEnds, Zenon
<1>4. Shape'
  BY <1>1, <1>3, Zenon DEF Shape
<1>5. CredInv'
  BY <1>1, <1>3, Zenon DEF CredInv, CachedRecently, VerdictWasTrue
<1>6. req[r].q.route \in {"sigv4", "opaque"}
  BY <1>1, Zenon DEF Routed, LookingUp
<1>7. KeyInv'
  BY <1>1, <1>3, <1>6, Constants
  DEF KeyInv, SingleFlight, Ordered, FetchesMissing, Refreshing, KeyIsFound,
      OutageSparesKnownKeys
<1> QED
  BY <1>3, <1>4, <1>5, <1>7

LEMMA FetchRowStep ==
  ASSUME IInv, NEW r \in Slot, FetchRow(r)
  PROVE  IInv'
<1> USE DEF IInv
<1> DEFINE c == req[r].q.id
           x == [req[r] EXCEPT !.pc = "row", !.row = rows[c]]
<1>1. /\ req[r].pc = "fetch" /\ reply' = NoReply
      /\ UNCHANGED <<boot, rows, positive, negative, published, keys, refresh_lock, age>>
  BY Zenon DEF FetchRow
<1>2. c \in Cred /\ rows[c] \in Row /\ req[r] \in InFlight /\ age[c][rows[c]] = 0
  BY <1>1 DEF Routed, LookingUp, Shape, CredInv, Current
<1>3. /\ x \in InFlight /\ x.pc = "row" /\ x.row = rows[c]
      /\ x.q = req[r].q /\ x.waited = req[r].waited
  BY <1>2, Zenon DEF InFlight
<1>4. req' = [req EXCEPT ![r] = x]
  BY <1>2, Zenon DEF FetchRow, Shape, InFlight
<1> HIDE DEF x, c
<1>5. /\ req' \in [Slot -> InFlight] /\ req'[r] = x
      /\ \A s \in Slot \ {r} : req'[s] = req[s]
  BY <1>3, <1>4, OneRequest, Zenon
<1>6. Shape'
  BY <1>1, <1>5, Zenon DEF Shape
<1>7. Quiet' /\ Routed'
  BY <1>1, <1>3, <1>5 DEF Quiet, Routed, LookingUp
<1>8. CredInv'
  <2>1. Current' /\ CachedRecently'
    BY <1>1, Zenon DEF CredInv, Current, CachedRecently
  <2>2. ReadRecently'
    BY <1>1, <1>2, <1>3, <1>5, SMTT(40) DEF CredInv, ReadRecently, InFlight, c
  <2> QED
    BY <1>1, <2>1, <2>2, Constants, Zenon DEF CredInv, VerdictWasTrue
<1>9. KeyInv'
  BY <1>1, <1>3, <1>5, Constants, SMTT(30)
  DEF KeyInv, SingleFlight, Ordered, FetchesMissing, Remembers, Refreshing, KeyIsFound,
      OutageSparesKnownKeys
<1> QED
  BY <1>6, <1>7, <1>8, <1>9

\* The answer Judge gives rests on a row whose secret was current lately.
LEMMA JudgeIsTrue ==
  ASSUME NEW q \in Requests, NEW s \in Secret, q.route \in {"sigv4", "opaque"},
         age'[q.id][s] < Ttl + Timeout, Judge(q, s)
  PROVE  VerdictWasTrue' /\ KeyIsFound' /\ OutageSparesKnownKeys'
<1>1. CASE q.route = "sigv4" /\ q.secret # s
  <2>1. reply' = [kind |-> "SignatureFailed", scheme |-> "none", q |-> q, missed |-> FALSE]
    BY <1>1, Zenon DEF Judge, Say
  <2> QED
    BY <1>1, <2>1, Zenon DEF VerdictWasTrue, KeyIsFound, OutageSparesKnownKeys
<1>2. CASE ~ (q.route = "sigv4" /\ q.secret # s)
  <2>1. reply' = [kind |-> "Accepted", scheme |-> Scheme(q.route), q |-> q, missed |-> FALSE]
    BY <1>2, Zenon DEF Judge, Say
  <2>2. Scheme(q.route) = "sigv4" => q.secret = s
    BY <1>2, Zenon DEF Scheme
  <2> QED
    BY <2>1, <2>2, Zenon DEF VerdictWasTrue, KeyIsFound, OutageSparesKnownKeys
<1> QED
  BY <1>1, <1>2, Zenon

LEMMA UseRowStep ==
  ASSUME IInv, NEW r \in Slot, UseRow(r)
  PROVE  IInv'
<1> USE DEF IInv
<1> DEFINE q == req[r].q
           row == req[r].row
<1>1. /\ req' = [req EXCEPT ![r] = Idle] /\ req[r].pc = "row"
      /\ UNCHANGED <<boot, rows, published, keys, refresh_lock, age>>
  BY Zenon DEF UseRow
<1>2. boot = "up"
  BY <1>1, Zenon DEF Quiet
<1>3. /\ req' \in [Slot -> InFlight] /\ req'[r] = Idle
      /\ \A s \in Slot \ {r} : req'[s] = req[s]
      /\ Quiet' /\ Routed' /\ Current' /\ ReadRecently' /\ Remembers'
  BY <1>1, <1>2, RequestEnds, Zenon
<1>4. /\ q.id \in Cred /\ row \in Row /\ q.route \in {"sigv4", "opaque"}
      /\ q \in Requests
  BY <1>1, SMTT(40) DEF Routed, LookingUp, Shape, InFlight, None
<1>5. age[q.id][row] \in Nat /\ age[q.id][row] <= Timeout
  BY <1>1, <1>4, SMTT(40) DEF Shape, InFlight, CredInv, ReadRecently
<1>6. SingleFlight' /\ Ordered' /\ FetchesMissing'
  BY <1>1, <1>3, Constants DEF KeyInv, SingleFlight, Ordered, FetchesMissing, Refreshing
<1>7. CASE row \in Secret
  <2>1. /\ positive' = [positive EXCEPT ![q.id] = [secret |-> row, left |-> Ttl]]
        /\ negative' = [negative EXCEPT ![q.id] = 0]
        /\ Judge(q, row)
    BY <1>7, Zenon DEF UseRow, InsertPositive
  <2> HIDE DEF q, row
  <2>2. Shape'
    BY <1>1, <1>3, <1>7, <2>1, Zenon DEF Shape
  <2>3. CachedRecently'
    BY <1>1, <1>4, <1>5, <1>7, <2>1, SMTT(40) DEF Shape, CredInv, CachedRecently
  <2>4. VerdictWasTrue' /\ KeyIsFound' /\ OutageSparesKnownKeys'
    <3>1. age'[q.id][row] < Ttl + Timeout
      BY <1>1, <1>5
    <3> QED
      BY <1>4, <1>7, <2>1, <3>1, JudgeIsTrue
  <2> QED
    BY <1>3, <1>6, <2>2, <2>3, <2>4, SMTT(30) DEF CredInv, KeyInv
<1>8. CASE row \in Unusable
  <2>1. /\ positive' = positive
        /\ negative' = [negative EXCEPT ![q.id] = NegativeTtl]
        /\ reply' = [kind |-> Refusal(row), scheme |-> "none", q |-> q, missed |-> FALSE]
    BY <1>8, Zenon DEF UseRow, InsertNegative, Say
  <2>2. Refusal(row) \in {"IdentityNotFound", "IdentityDisabled", "TokenExpired"}
    BY <1>8, Zenon DEF Refusal
  <2> HIDE DEF q, row
  <2>3. Shape'
    BY <1>1, <1>3, <2>1, Zenon DEF Shape
  <2>4. CachedRecently'
    BY <1>1, <1>4, <1>5, <1>8, <2>1, SMTT(30) DEF Shape, CredInv, CachedRecently
  <2>5. VerdictWasTrue'
    BY <1>1, <1>5, <1>8, <2>1, <2>2, SMTT(40) DEF VerdictWasTrue
  <2>6. KeyIsFound' /\ OutageSparesKnownKeys'
    BY <2>1, <2>2, Zenon DEF KeyIsFound, OutageSparesKnownKeys
  <2> QED
    BY <1>3, <1>6, <2>3, <2>4, <2>5, <2>6, SMTT(30) DEF CredInv, KeyInv
<1> QED
  BY <1>4, <1>7, <1>8, Zenon DEF Row

USE ParamAssumption DEF Unusable

--------------------------------------------------------------------------------
(* The key set.                                                            *)

\* An answer about a token has nothing to do with the credential tables.
LEMMA ClaimsAreTrue ==
  ASSUME NEW q, NEW b, CheckClaims(q, b)
  PROVE  VerdictWasTrue' /\ KeyIsFound' /\ OutageSparesKnownKeys'
<1>1. \/ reply' = [kind |-> "TokenFailed", scheme |-> "none", q |-> q, missed |-> b]
      \/ reply' = [kind |-> "Accepted", scheme |-> "jwt", q |-> q, missed |-> b]
  BY Zenon DEF CheckClaims, Say
<1>2. reply'.kind = "TokenFailed" \/ (reply'.kind = "Accepted" /\ reply'.scheme = "jwt")
  <2>1. CASE reply' = [kind |-> "TokenFailed", scheme |-> "none", q |-> q, missed |-> b]
    BY <2>1, Zenon
  <2>2. CASE reply' = [kind |-> "Accepted", scheme |-> "jwt", q |-> q, missed |-> b]
    BY <2>2, SMTT(30)
  <2> QED
    BY <1>1, <2>1, <2>2
<1>3. VerdictWasTrue'
  BY <1>2, Zenon DEF VerdictWasTrue
<1>4. KeyIsFound' /\ OutageSparesKnownKeys'
  BY <1>2, Zenon DEF KeyIsFound, OutageSparesKnownKeys
<1> QED
  BY <1>3, <1>4

LEMMA FetchKeysFailsStep ==
  ASSUME IInv, NEW r \in Slot, FetchKeysFails(r)
  PROVE  IInv'
<1> USE DEF IInv
<1>1. /\ req' = [req EXCEPT ![r] = Idle] /\ req[r].pc \in Refreshing
      /\ refresh_lock' = NoOne
      /\ UNCHANGED <<boot, rows, positive, negative, published, keys, age>>
      /\ reply' = [kind |-> "Internal", scheme |-> "none", q |-> req[r].q,
                   missed |-> req[r].missed]
  BY Zenon DEF FetchKeysFails, Say, Refreshing
<1>2. boot = "up"
  BY <1>1, Zenon DEF Quiet, Refreshing
<1>3. /\ req' \in [Slot -> InFlight] /\ req'[r] = Idle
      /\ \A s \in Slot \ {r} : req'[s] = req[s]
      /\ Quiet' /\ Routed' /\ Current' /\ ReadRecently' /\ Remembers'
  BY <1>1, <1>2, RequestEnds, Zenon
<1>4. Shape'
  BY <1>1, <1>3, Zenon DEF Shape
<1>5. CredInv'
  BY <1>1, <1>3, Zenon DEF CredInv, CachedRecently, VerdictWasTrue
<1>6. SingleFlight' /\ Ordered' /\ FetchesMissing'
  BY <1>1, <1>3, Constants, SMTT(30) DEF KeyInv, SingleFlight, Ordered, FetchesMissing, Refreshing
<1>7. KeyIsFound' /\ OutageSparesKnownKeys'
  BY <1>1, SMTT(30) DEF KeyInv, FetchesMissing, KeyIsFound, OutageSparesKnownKeys
<1> QED
  BY <1>3, <1>4, <1>5, <1>6, <1>7, Zenon DEF KeyInv

LEMMA RequestTimeoutStep ==
  ASSUME IInv, NEW r \in Slot, RequestTimeout(r)
  PROVE  IInv'
<1> USE DEF IInv
<1>1. /\ req' = [req EXCEPT ![r] = Idle] /\ req[r].pc # "idle"
      /\ refresh_lock' = IF refresh_lock = r THEN NoOne ELSE refresh_lock
      /\ UNCHANGED <<boot, rows, positive, negative, published, keys, age>>
      /\ reply' = [kind |-> "RequestTimeout", scheme |-> "none", q |-> req[r].q,
                   missed |-> FALSE]
  BY Zenon DEF RequestTimeout, Say
<1>2. boot = "up"
  BY <1>1, SMTT(30) DEF Quiet
<1>3. /\ req' \in [Slot -> InFlight] /\ req'[r] = Idle
      /\ \A s \in Slot \ {r} : req'[s] = req[s]
      /\ Quiet' /\ Routed' /\ Current' /\ ReadRecently' /\ Remembers'
  BY <1>1, <1>2, RequestEnds, Zenon
<1>4. Shape'
  BY <1>1, <1>3, Zenon DEF Shape
<1>5. CredInv'
  BY <1>1, <1>3, Zenon DEF CredInv, CachedRecently, VerdictWasTrue
<1>6. SingleFlight' /\ Ordered' /\ FetchesMissing'
  BY <1>1, <1>3, Constants, SMTT(30) DEF KeyInv, SingleFlight, Ordered, FetchesMissing, Refreshing
<1>7. KeyIsFound' /\ OutageSparesKnownKeys'
  BY <1>1, Zenon DEF KeyIsFound, OutageSparesKnownKeys
<1> QED
  BY <1>3, <1>4, <1>5, <1>6, <1>7 DEF KeyInv

LEMMA TakeLockStep ==
  ASSUME IInv, NEW r \in Slot, TakeLock(r)
  PROVE  IInv'
<1> USE DEF IInv
<1>1. /\ req[r].pc = "lock" /\ refresh_lock = NoOne
      /\ UNCHANGED <<boot, rows, positive, negative, published, keys, age>>
  BY Zenon DEF TakeLock
<1>2. boot = "up"
  BY <1>1, Zenon DEF Quiet
<1>3. CASE req[r].q.id \in keys.kids
  <2>1. /\ req' = [req EXCEPT ![r] = Idle] /\ refresh_lock' = refresh_lock
        /\ CheckClaims(req[r].q, req[r].missed)
    BY <1>3, Zenon DEF TakeLock
  <2>2. /\ req' \in [Slot -> InFlight] /\ req'[r] = Idle
        /\ \A s \in Slot \ {r} : req'[s] = req[s]
        /\ Quiet' /\ Routed' /\ Current' /\ ReadRecently' /\ Remembers'
    BY <1>1, <1>2, <2>1, RequestEnds, Zenon
  <2>3. Shape'
    BY <1>1, <2>2, Zenon DEF Shape
  <2>4. CachedRecently'
    BY <1>1, Zenon DEF CredInv, CachedRecently
  <2>5. SingleFlight' /\ Ordered' /\ FetchesMissing'
    BY <1>1, <2>1, <2>2, Constants, Zenon
    DEF KeyInv, SingleFlight, Ordered, FetchesMissing, Refreshing
  <2>6. VerdictWasTrue' /\ KeyIsFound' /\ OutageSparesKnownKeys'
    BY <2>1, ClaimsAreTrue, Zenon
  <2> QED
    BY <2>2, <2>3, <2>4, <2>5, <2>6, Zenon DEF CredInv, KeyInv
<1>4. CASE req[r].q.id \notin keys.kids
  <2> DEFINE x == [req[r] EXCEPT !.pc = "send"]
  <2>1. refresh_lock' = r /\ reply' = NoReply /\ req' = [req EXCEPT ![r].pc = "send"]
    BY <1>4, Zenon DEF TakeLock
  <2>2. req[r] \in InFlight
    BY Zenon DEF Shape
  <2>3. /\ x \in InFlight /\ x.pc = "send" /\ x.q = req[r].q /\ x.waited = req[r].waited
        /\ x.doc = req[r].doc
    BY <2>2 DEF InFlight
  <2>4. x.missed = req[r].missed
    BY <2>2, Zenon DEF InFlight
  <2>5. req' = [req EXCEPT ![r] = x]
    BY <2>1, <2>2, Zenon DEF Shape, InFlight
  <2> HIDE DEF x
  <2>6. /\ req' \in [Slot -> InFlight] /\ req'[r] = x
        /\ \A s \in Slot \ {r} : req'[s] = req[s]
    BY <2>3, <2>5, OneRequest, Zenon
  <2>7. Shape'
    BY <1>1, <2>6, Zenon DEF Shape
  <2>8. Quiet' /\ Routed'
    BY <1>1, <1>2, <2>3, <2>6 DEF Quiet, Routed, LookingUp
  <2>9. CredInv'
    <3>1. Current' /\ CachedRecently'
      BY <1>1, Zenon DEF CredInv, Current, CachedRecently
    <3>2. ReadRecently'
      BY <1>1, <2>3, <2>6 DEF CredInv, ReadRecently
    <3> QED
      BY <2>1, <3>1, <3>2, Constants, Zenon DEF CredInv, VerdictWasTrue
  <2>10. SingleFlight'
    BY <1>1, <2>1, <2>3, <2>6, SMTT(30) DEF KeyInv, SingleFlight, Refreshing
  <2>11. Ordered' /\ FetchesMissing'
    BY <1>1, <1>4, <2>3, <2>6, SMTT(30) DEF KeyInv, Ordered, FetchesMissing, Refreshing
  <2>12. Remembers'
    BY <1>1, <2>3, <2>4, <2>6, SMTT(30) DEF KeyInv, Remembers
  <2> QED
    BY <2>1, <2>7, <2>8, <2>9, <2>10, <2>11, <2>12, Constants
    DEF KeyInv, KeyIsFound, OutageSparesKnownKeys
<1> QED
  BY <1>3, <1>4, Zenon

LEMMA FetchKeysStep ==
  ASSUME IInv, NEW r \in Slot, FetchKeys(r)
  PROVE  IInv'
<1> USE DEF IInv
<1> DEFINE x == [req[r] EXCEPT !.pc = "doc", !.doc = published]
<1>1. /\ req[r].pc = "send" /\ reply' = NoReply
      /\ UNCHANGED <<boot, rows, positive, negative, published, keys, refresh_lock, age>>
  BY Zenon DEF FetchKeys
<1>2. req[r] \in InFlight /\ published \in Published
  BY Zenon DEF Shape
<1>3. /\ x \in InFlight /\ x.pc = "doc" /\ x.doc = published
      /\ x.q = req[r].q /\ x.waited = req[r].waited
  BY <1>2, Zenon DEF InFlight
<1>4. x.missed = req[r].missed
  BY <1>2, Zenon DEF InFlight
<1>5. req' = [req EXCEPT ![r] = x]
  BY <1>2, Zenon DEF FetchKeys, Shape, InFlight
<1> HIDE DEF x
<1>6. /\ req' \in [Slot -> InFlight] /\ req'[r] = x
      /\ \A s \in Slot \ {r} : req'[s] = req[s]
  BY <1>3, <1>5, OneRequest, Zenon
<1>7. Shape'
  BY <1>1, <1>6, Zenon DEF Shape
<1>8. Quiet' /\ Routed'
  BY <1>1, <1>3, <1>6 DEF Quiet, Routed, LookingUp
<1>9. CredInv'
  <2>1. Current' /\ CachedRecently'
    BY <1>1, SMTT(30) DEF CredInv, Current, CachedRecently
  <2>2. ReadRecently'
    BY <1>1, <1>3, <1>6, SMTT(30) DEF CredInv, ReadRecently
  <2> QED
    BY <1>1, <2>1, <2>2, Constants, Zenon DEF CredInv, VerdictWasTrue
<1>10. SingleFlight' /\ FetchesMissing'
  BY <1>1, <1>3, <1>6, SMTT(30) DEF KeyInv, SingleFlight, FetchesMissing, Refreshing
<1>11. Ordered'
  BY <1>1, <1>2, <1>3, <1>6, SMTT(30) DEF KeyInv, Ordered, Published
<1>12. Remembers'
  BY <1>1, <1>3, <1>4, <1>6, SMTT(30) DEF KeyInv, Remembers
<1> QED
  BY <1>1, <1>7, <1>8, <1>9, <1>10, <1>11, <1>12, Constants, Zenon
  DEF KeyInv, KeyIsFound, OutageSparesKnownKeys

LEMMA StoreKeysStep ==
  ASSUME IInv, NEW r \in Slot, StoreKeys(r)
  PROVE  IInv' /\ keys'.seq >= keys.seq
<1> USE DEF IInv
<1>1. /\ req' = [req EXCEPT ![r] = Idle] /\ req[r].pc = "doc"
      /\ refresh_lock' = NoOne
      /\ keys' = parse_jwks(req[r].doc)
      /\ UNCHANGED <<boot, rows, positive, negative, published, age>>
  BY Zenon DEF StoreKeys
<1>2. boot = "up"
  BY <1>1, SMTT(30) DEF Quiet
<1>3. /\ req' \in [Slot -> InFlight] /\ req'[r] = Idle
      /\ \A s \in Slot \ {r} : req'[s] = req[s]
      /\ Quiet' /\ Routed' /\ Current' /\ ReadRecently' /\ Remembers'
  BY <1>1, <1>2, RequestEnds, Zenon
<1>4. req[r].doc \in Published
  BY Zenon DEF Shape, InFlight
<1>5. /\ keys' \in Published /\ keys'.seq = req[r].doc.seq
      /\ keys'.kids = req[r].doc.kids \ Unsupported
  BY <1>1, <1>4, Parsed, Zenon
<1>6. Shape'
  BY <1>1, <1>3, <1>5, Zenon DEF Shape
<1>7. \A s \in Slot \ {r} : req[s].pc \notin Refreshing
  BY <1>1, SMTT(30) DEF KeyInv, SingleFlight, Refreshing
<1>8. SingleFlight' /\ FetchesMissing'
  BY <1>3, <1>7, Constants, SMTT(30) DEF SingleFlight, FetchesMissing, Refreshing
<1>9. Ordered' /\ keys'.seq >= keys.seq
  BY <1>1, <1>3, <1>4, <1>5, <1>7, Constants, SMTT(30)
  DEF Shape, Published, KeyInv, Ordered, Refreshing
<1>10. CachedRecently'
  BY <1>1, SMTT(30) DEF CredInv, CachedRecently
<1>11. VerdictWasTrue' /\ KeyIsFound' /\ OutageSparesKnownKeys'
  <2>1. CASE req[r].q.id \in keys'.kids
    <3>1. CheckClaims(req[r].q, req[r].missed)
      BY <2>1, SMTT(30) DEF StoreKeys
    <3> QED
      BY <3>1, ClaimsAreTrue, SMTT(30)
  <2>2. CASE req[r].q.id \notin keys'.kids
    <3>1. reply' = [kind |-> "UnknownKid", scheme |-> "none", q |-> req[r].q,
                    missed |-> req[r].missed]
      BY <2>2, SMTT(30) DEF StoreKeys, Say
    <3>2. req[r].missed \/ req[r].q.id \in Unsupported
      BY <1>1, <1>5, <2>2, Zenon DEF KeyInv, Remembers
    <3>3. KeyIsFound'
      BY <3>1, <3>2, SMTT(30) DEF KeyIsFound
    <3> QED
      BY <3>1, <3>3, SMTT(30) DEF VerdictWasTrue, OutageSparesKnownKeys
  <2> QED
    BY <2>1, <2>2, Zenon
<1> QED
  BY <1>3, <1>6, <1>8, <1>9, <1>10, <1>11, SMTT(30) DEF CredInv, KeyInv

--------------------------------------------------------------------------------
(* AuthChain::verify.                                                      *)

\* It answers at once ...
LEMMA AnswersAtOnce ==
  ASSUME IInv, boot = "up",
         UNCHANGED <<boot, rows, positive, negative, published, keys, refresh_lock, age, req>>,
         VerdictWasTrue' /\ KeyIsFound' /\ OutageSparesKnownKeys'
  PROVE  IInv'
  BY Zenon DEF IInv, Shape, Quiet, Routed, CredInv, Current, ReadRecently, CachedRecently,
         KeyInv, SingleFlight, Ordered, FetchesMissing, Remembers

\* ... or goes on to PostgreSQL or to the refresh lock.
LEMMA Enters ==
  ASSUME IInv, boot = "up", NEW r \in Slot, NEW q \in Requests, NEW pc,
         UNCHANGED <<boot, rows, positive, negative, published, keys, refresh_lock, age>>,
         reply' = NoReply, req[r].pc = "idle", Enter(r, q, pc),
         \/ pc = "fetch" /\ q.route \in {"sigv4", "opaque"}
         \/ pc = "lock" /\ q.route = "jwt"
  PROVE  IInv'
<1> USE DEF IInv
<1> DEFINE b == q.route = "jwt" /\ q.id \notin published.kids
           x == [Idle EXCEPT !.pc = pc, !.q = q, !.missed = b]
<1>1. req' = [req EXCEPT ![r] = x]
  BY Zenon DEF Enter
<1>2. b \in BOOLEAN
  BY Zenon
<1> HIDE DEF b
<1>3. x \in InFlight /\ x.pc = pc /\ x.q = q /\ x.waited = 0
  BY <1>2, Zenon DEF Idle, InFlight, Row, Published
<1>4. x.missed = b
  BY <1>2, Zenon DEF Idle
<1> HIDE DEF x
<1>5. pc = "lock" /\ q.id \notin published.kids => x.missed
  BY <1>4, Zenon DEF b
<1>6. /\ req' \in [Slot -> InFlight] /\ req'[r] = x
      /\ \A s \in Slot \ {r} : req'[s] = req[s]
  BY <1>1, <1>3, OneRequest, Zenon
<1>7. Shape'
  BY <1>6, Zenon DEF Shape
<1>8. Quiet' /\ Routed'
  BY <1>3, <1>6, SMTT(30) DEF Quiet, Routed, LookingUp, Cred
<1>9. CredInv'
  <2>1. Current' /\ CachedRecently'
    BY SMTT(30) DEF CredInv, Current, CachedRecently
  <2>2. ReadRecently'
    BY <1>3, <1>6, SMTT(40) DEF CredInv, ReadRecently
  <2> QED
    BY <2>1, <2>2, Constants, SMTT(30) DEF CredInv, VerdictWasTrue
<1>10. SingleFlight' /\ Ordered' /\ FetchesMissing'
  BY <1>3, <1>6, SMTT(30) DEF KeyInv, SingleFlight, Ordered, FetchesMissing, Refreshing
<1>11. Remembers'
  BY <1>3, <1>5, <1>6, SMTT(30) DEF KeyInv, Remembers
<1> QED
  BY <1>7, <1>8, <1>9, <1>10, <1>11, Constants, Zenon DEF KeyInv, KeyIsFound, OutageSparesKnownKeys

\* An answer that is not about a stored credential or a key set.
Neutral(kind, scheme, q) ==
  \/ kind \in {"UnsupportedScheme", "TokenFailed", "MalformedAuthorization",
               "MissingAuthorization"}
  \/ kind = "SignatureFailed" /\ q.fit = "bad"
  \/ kind = "Accepted" /\ scheme = "permissive"

LEMMA NeutralIsTrue ==
  ASSUME NEW kind, NEW scheme, NEW q, NEW b, Say(kind, scheme, q, b), Neutral(kind, scheme, q)
  PROVE  VerdictWasTrue' /\ KeyIsFound' /\ OutageSparesKnownKeys'
  BY SMTT(30) DEF Say, Neutral, VerdictWasTrue, KeyIsFound, OutageSparesKnownKeys

LEMMA LookUpStep ==
  ASSUME IInv, boot = "up", NEW r \in Slot, NEW q \in Requests,
         UNCHANGED <<boot, rows, positive, negative, published, keys, refresh_lock, age>>,
         req[r].pc = "idle", q.route \in {"sigv4", "opaque"}, LookUp(r, q)
  PROVE  IInv'
<1>1. q.id \in Cred
  BY SMTT(30) DEF Cred
<1>2. /\ positive[q.id] \in [secret : Secret \cup {NoOne}, left : Nat]
      /\ negative[q.id] \in Nat /\ \A v \in Row : age[q.id][v] \in Nat
  BY <1>1, SMTT(40) DEF IInv, Shape
<1>3. CASE positive[q.id].left > 0
  <2>1. CacheGet(q.id) = [hit |-> TRUE, found |-> TRUE, secret |-> positive[q.id].secret]
    BY <1>2, <1>3, SMTT(30) DEF CacheGet
  <2>2. Judge(q, positive[q.id].secret) /\ req' = req
    BY <2>1, SMTT(40) DEF LookUp
  <2>3. /\ positive[q.id].secret \in Secret
        /\ age[q.id][positive[q.id].secret] + positive[q.id].left <= Ttl + Timeout
    BY <1>1, <1>3, SMTT(30) DEF IInv, CredInv, CachedRecently
  <2>4. age'[q.id][positive[q.id].secret] < Ttl + Timeout
    BY <1>2, <1>3, <2>3, SMTT(40) DEF Row
  <2> QED
    BY <2>2, <2>3, <2>4, JudgeIsTrue, AnswersAtOnce, Zenon
<1>4. CASE positive[q.id].left = 0 /\ negative[q.id] > 0
  <2>1. CacheGet(q.id) = [hit |-> TRUE, found |-> FALSE, secret |-> NoOne]
    BY <1>2, <1>4, SMTT(30) DEF CacheGet
  <2>2. /\ req' = req
        /\ reply' = [kind |-> "IdentityNotFound", scheme |-> "none", q |-> q, missed |-> FALSE]
    <3> DEFINE cached == CacheGet(q.id)
    <3>1. cached.hit /\ ~ cached.found
      BY <2>1
    <3>2. Say("IdentityNotFound", "none", q, FALSE) /\ req' = req
      BY <3>1, Zenon DEF LookUp
    <3> QED
      BY <3>2, SMTT(30) DEF Say
  <2>3. PICK v \in Unusable : age[q.id][v] + negative[q.id] <= NegativeTtl + Timeout
    BY <1>1, <1>4, SMTT(30) DEF IInv, CredInv, CachedRecently
  <2>4. age'[q.id][v] < NegativeTtl + Timeout
    BY <1>2, <1>4, <2>3, SMTT(40) DEF Row
  <2>5. VerdictWasTrue' /\ KeyIsFound' /\ OutageSparesKnownKeys'
    <3>1. reply'.kind = "IdentityNotFound" /\ reply'.q = q
      BY <2>2
    <3>2. VerdictWasTrue'
      BY <2>3, <2>4, <3>1, Zenon DEF VerdictWasTrue
    <3>3. KeyIsFound' /\ OutageSparesKnownKeys'
      BY <3>1 DEF KeyIsFound, OutageSparesKnownKeys
    <3> QED
      BY <3>2, <3>3, Zenon
  <2> QED
    BY <2>2, <2>5, AnswersAtOnce, Zenon
<1>5. CASE positive[q.id].left = 0 /\ negative[q.id] = 0
  <2>1. CacheGet(q.id) = [hit |-> FALSE, found |-> FALSE, secret |-> NoOne]
    BY <1>2, <1>5, SMTT(30) DEF CacheGet
  <2>2. Enter(r, q, "fetch") /\ reply' = NoReply
    BY <2>1, SMTT(40) DEF LookUp
  <2> QED
    BY <2>2, Enters, Zenon
<1> QED
  BY <1>2, <1>3, <1>4, <1>5, SMTT(40)

LEMMA VerifyStep ==
  ASSUME IInv, NEW r \in Slot, NEW q \in Requests, Verify(r, q)
  PROVE  IInv'
<1>1. /\ boot = "up" /\ req[r].pc = "idle"
      /\ UNCHANGED <<boot, rows, positive, negative, published, keys, refresh_lock, age>>
  BY SMTT(30) DEF Verify
<1>2. ASSUME NEW kind, NEW scheme, Say(kind, scheme, q, FALSE), Neutral(kind, scheme, q),
             UNCHANGED req
      PROVE  IInv'
  BY <1>1, <1>2, NeutralIsTrue, AnswersAtOnce, Zenon
<1>3. CASE VerifySigv4(r, q)
  <2>1. CASE q.fit # "bad" /\ LookUp(r, q)
    BY <1>1, <1>3, <2>1, LookUpStep, Zenon DEF VerifySigv4
  <2>2. CASE /\ UNCHANGED req
             /\ \/ q.fit = "bad" /\ Say("SignatureFailed", "none", q, FALSE)
                \/ Say("Accepted", "permissive", q, FALSE)
                \/ Say("UnsupportedScheme", "none", q, FALSE)
    BY <1>2, <2>2, Zenon DEF Neutral
  <2> QED
    BY <1>3, <2>1, <2>2, Zenon DEF VerifySigv4
<1>4. CASE VerifyToken(r, q)
  <2>1. CASE LookUp(r, q)
    BY <1>1, <1>4, <2>1, LookUpStep, Zenon DEF VerifyToken
  <2>2. CASE /\ UNCHANGED req
             /\ \/ Say("UnsupportedScheme", "none", q, FALSE)
                \/ Say("TokenFailed", "none", q, FALSE)
    BY <1>2, <2>2, Zenon DEF Neutral
  <2> QED
    BY <1>4, <2>1, <2>2, Zenon DEF VerifyToken
<1>5. CASE VerifyJwt(r, q)
  <2>1. CASE Enter(r, q, "lock") /\ reply' = NoReply
    BY <1>1, <1>5, <2>1, Enters, Zenon DEF VerifyJwt
  <2>2. CASE CheckClaims(q, FALSE) /\ UNCHANGED req
    BY <1>1, <2>2, ClaimsAreTrue, AnswersAtOnce, Zenon
  <2>3. CASE /\ UNCHANGED req
             /\ \/ Say("UnsupportedScheme", "none", q, FALSE)
                \/ Say("TokenFailed", "none", q, FALSE)
    BY <1>2, <2>3, Zenon DEF Neutral
  <2> QED
    BY <1>5, <2>1, <2>2, <2>3, Zenon DEF VerifyJwt
<1>6. CASE VerifyOther(r, q)
  <2>1. CASE /\ UNCHANGED req
             /\ \/ Say("MalformedAuthorization", "none", q, FALSE)
                \/ Say("Accepted", "permissive", q, FALSE)
                \/ Say("MissingAuthorization", "none", q, FALSE)
    BY <1>2, <2>1, Zenon DEF Neutral
  <2> QED
    BY <1>6, <2>1, Zenon DEF VerifyOther
<1> QED
  BY <1>3, <1>4, <1>5, <1>6, SMTT(30) DEF Verify

--------------------------------------------------------------------------------
(* The theorems.                                                           *)

LEMMA Stutter == IInv /\ UNCHANGED vars => IInv'
<1> SUFFICES ASSUME IInv, UNCHANGED vars PROVE IInv'
  BY Zenon
<1> USE DEF vars, IInv
<1>1. Shape'
  BY Zenon DEF Shape
<1>2. Quiet' /\ Routed'
  BY SMTT(30) DEF Quiet, Routed
<1>3. Current' /\ ReadRecently'
  BY SMTT(30) DEF CredInv, Current, ReadRecently
<1>4. CachedRecently'
  BY SMTT(30) DEF CredInv, CachedRecently
<1>5. VerdictWasTrue'
  BY SMTT(30) DEF CredInv, VerdictWasTrue
<1>6. SingleFlight' /\ Ordered' /\ FetchesMissing'
  BY SMTT(30) DEF KeyInv, SingleFlight, Ordered, FetchesMissing
<1>7. Remembers'
  BY Zenon DEF KeyInv, Remembers
<1>8. KeyIsFound' /\ OutageSparesKnownKeys'
  BY Zenon DEF KeyInv, KeyIsFound, OutageSparesKnownKeys
<1> QED
  BY <1>1, <1>2, <1>3, <1>4, <1>5, <1>6, <1>7, <1>8 DEF CredInv, KeyInv

LEMMA NextStep == IInv /\ [Next]_vars => IInv'
<1> SUFFICES ASSUME IInv, [Next]_vars PROVE IInv'
  BY SMTT(30)
<1>1. CASE Next
  BY Zenon, <1>1, BootStep, CrashStep, ChangeRowStep, PublishStep, VerifyStep, FetchRowStep,
     FetchRowFailsStep, UseRowStep, TakeLockStep, FetchKeysStep, FetchKeysFailsStep,
     StoreKeysStep, RequestTimeoutStep, TickStep
  DEF Next
<1>2. CASE UNCHANGED vars
  BY <1>2, Stutter, Zenon
<1> QED
  BY <1>1, <1>2, Zenon

LEMMA Inductive == Spec => []IInv
  BY InitIInv, NextStep, PTL DEF Spec

(***************************************************************************)
(* However many requests race, whatever the lifetimes, and however the     *)
(* operator changes the tables, a verdict on a stored credential was the   *)
(* tables' verdict less than a cache lifetime and one request ago.         *)
(***************************************************************************)
THEOREM VerdictsAreFresh == Spec => []VerdictWasTrue
<1>1. IInv => VerdictWasTrue
  BY Zenon DEF IInv, CredInv
<1> QED
  BY <1>1, Inductive, PTL

(***************************************************************************)
(* A token is refused for an unknown key only if the issuer did not        *)
(* publish that key at some moment of its verification.                    *)
(***************************************************************************)
THEOREM KeysAreFound == Spec => []KeyIsFound
<1>1. IInv => KeyIsFound
  BY Zenon DEF IInv, KeyInv
<1> QED
  BY <1>1, Inductive, PTL

(***************************************************************************)
(* A fetch that fails is never the answer to a request whose key is        *)
(* cached: get_key looks again under the lock, and only the holder of the  *)
(* lock changes the cache.                                                 *)
(***************************************************************************)
THEOREM OutagesAreSpared == Spec => []OutageSparesKnownKeys
<1>1. IInv => OutageSparesKnownKeys
  BY Zenon DEF IInv, KeyInv
<1> QED
  BY <1>1, Inductive, PTL

(***************************************************************************)
(* While the process runs, the cached key set never goes back to an        *)
(* earlier publication.                                                    *)
(***************************************************************************)
THEOREM KeysNeverGoBack == Spec => KeysAdvance
<1>1. IInv /\ [Next]_vars => [boot = "up" /\ boot' = "up" => keys'.seq >= keys.seq]_vars
  <2> SUFFICES ASSUME IInv, Next, boot = "up", boot' = "up"
               PROVE  keys'.seq >= keys.seq
    BY Zenon
  <2>1. CASE \E r \in Slot : StoreKeys(r)
    BY <2>1, StoreKeysStep, Zenon
  <2>2. CASE UNCHANGED keys
    BY <2>2 DEF IInv, Shape, Published
  <2> QED
    BY <2>1, <2>2, Zenon
    DEF Next, Boot, Crash, ChangeRow, Publish, Verify, FetchRow, FetchRowFails, UseRow,
        TakeLock, FetchKeys, FetchKeysFails, RequestTimeout, Tick
<1> QED
  BY <1>1, Inductive, PTL DEF Spec, KeysAdvance

(***************************************************************************)
(* No configuration makes inflate_issuer panic: resolve_auth demands every *)
(* parameter of a preset that the wiring expects.                          *)
(***************************************************************************)
THEOREM BootNeverPanics == Spec => []BootDoesNotPanic
<1>1. Init => BootDoesNotPanic
  BY DEF Init, BootDoesNotPanic
<1>2. ASSUME NEW c, resolve_auth(c) PROVE ~inflate_panics(c)
  <2>1. \A i \in c.issuers : Required(i.preset) \subseteq i.given
    BY <1>2, Zenon DEF resolve_auth, resolve_jwt_issuer
  <2>2. \A preset : Unwrapped(preset) = Required(preset)
    BY Zenon DEF Unwrapped, Required
  <2> QED
    BY <2>1, <2>2, Zenon DEF inflate_panics
<1>3. BootDoesNotPanic /\ [Next]_vars => BootDoesNotPanic'
  <2> SUFFICES ASSUME BootDoesNotPanic, [Next]_vars PROVE boot' # "panicked"
    BY SMTT(30) DEF BootDoesNotPanic
  <2>1. ASSUME NEW c, Boot(c) PROVE boot' # "panicked"
    BY <1>2, <2>1 DEF Boot
  <2>2. CASE boot' = "down" \/ UNCHANGED boot
    BY <2>2 DEF BootDoesNotPanic
  <2> QED
    BY <2>1, <2>2, Zenon
    DEF vars, Next, Crash, ChangeRow, Publish, Verify, FetchRow, FetchRowFails, UseRow,
        TakeLock, FetchKeys, FetchKeysFails, StoreKeys, RequestTimeout, Tick
<1> QED
  BY <1>1, <1>3, PTL DEF Spec
================================================================================
