----------------------------- MODULE PagesProofs -----------------------------
(***************************************************************************)
(* Proofs about Pages, for any pages, rows and number of commits, loads    *)
(* and turns.                                                              *)
(***************************************************************************)
EXTENDS Pages, Site, FiniteSetTheorems, TLAPS

-----------------------------------------------------------------------------
(* Typing.                                                                 *)

\* Every commit that may still come has its number: the actions under way count already.
Bounded == Cardinality(Commits) + Cardinality(Unserved) <= MaxMoves

LEMMA OpenPage ==
    ASSUME PagesTypeOK
    PROVE  WellFormed(here) /\ here.kind \in DOMAIN Moves
BY PagesAssumption DEF PagesTypeOK, Sites, WellFormed

LEMMA MoveTypes ==
    ASSUME NEW kind \in DOMAIN Moves, NEW m \in Moves[kind]
    PROVE  m[1] \in Statuses[kind] /\ m[3] \in Statuses[kind]
BY DEF Statuses

\* An answer of the API is neither missing nor a refusal.
LEMMA AnswerIsNeither ==
    ASSUME PagesTypeOK, NEW v \in Version
    PROVE  v # None /\ v # Refused
<1>1. v \in Answers(here.kind)
  BY PagesAssumption DEF Version, P, Answers
<1> QED
  BY <1>1, PagesAssumption, OpenPage

LEMMA CommitsFinite ==
    IsFiniteSet(Commits) /\ Cardinality(Commits) \in Nat
<1>1. IsFiniteSet(Rows \X (1..MaxMoves))
  <2>1. IsFiniteSet(1..MaxMoves)
    BY PagesAssumption, FS_Interval
  <2> QED BY <2>1, PagesAssumption, FS_Product, Zenon
<1>2. Commits \subseteq Rows \X (1..MaxMoves)
  BY DEF Commits
<1> QED
  BY <1>1, <1>2, FS_Subset, FS_CardinalityType

LEMMA UnservedFinite ==
    IsFiniteSet(Unserved) /\ Cardinality(Unserved) \in Nat
<1>1. IsFiniteSet(Slots)
  BY PagesAssumption, FS_Interval DEF Slots
<1>2. Unserved \subseteq Slots
  BY DEF Unserved, UnderWay
<1> QED
  BY <1>1, <1>2, FS_Subset, FS_CardinalityType

\* The number of a commit is one of as many commits.
LEMMA VersionBound ==
    ASSUME PagesTypeOK, NEW x \in Rows
    PROVE  row[x].ver <= Cardinality(Commits)
<1> DEFINE n == row[x].ver
           own == {x} \X (1..n)
<1>1. n \in Nat /\ n <= MaxMoves
  BY PagesAssumption DEF PagesTypeOK, Version
<1>2. own \subseteq Commits
  BY <1>1, PagesAssumption DEF Commits
<1>3. IsFiniteSet({x}) /\ Cardinality({x}) = 1
  BY FS_Singleton
<1>4. IsFiniteSet(1..n) /\ Cardinality(1..n) = n
  <2>1. 1 \in Int /\ n \in Int
    BY <1>1
  <2>2. IsFiniteSet(1..n) /\ Cardinality(1..n) = IF 1 > n THEN 0 ELSE n - 1 + 1
    BY <2>1, FS_Interval
  <2> HIDE DEF n
  <2> QED BY <2>2, <1>1
<1>5. Cardinality(own) = n
  <2> HIDE DEF n
  <2>1. Cardinality(own) = Cardinality({x}) * Cardinality(1..n)
    BY <1>3, <1>4, FS_Product, Zenon
  <2> QED BY <2>1, <1>1, <1>3, <1>4
<1>6. Cardinality(own) <= Cardinality(Commits)
  BY <1>2, CommitsFinite, FS_Subset
<1> QED
  BY <1>5, <1>6

\* A commit is counted once.
LEMMA MoveCounts ==
    ASSUME PagesTypeOK, NEW x \in Rows, NEW s, Move(x, s), row[x].ver < MaxMoves
    PROVE  Cardinality(Commits') = Cardinality(Commits) + 1
<1> DEFINE c == <<x, row[x].ver + 1>>
<1>1. row[x].ver \in Nat /\ row \in [Rows -> Version] /\ \A y \in Rows : row[y].ver \in Nat
  BY PagesAssumption DEF PagesTypeOK, Version
<1>2. \A y \in Rows : row'[y].ver = IF y = x THEN row[x].ver + 1 ELSE row[y].ver
  BY <1>1 DEF Move
<1>3. c \notin Commits
  BY <1>1 DEF Commits
<1>4. Commits' = Commits \cup {c}
  <2>1. ASSUME NEW y \in Rows, NEW v \in 1..MaxMoves
        PROVE  v <= row'[y].ver <=> (v <= row[y].ver \/ <<y, v>> = c)
    BY <2>1, <1>1, <1>2, PagesAssumption
  <2>2. c \in Rows \X (1..MaxMoves)
    BY <1>1, PagesAssumption
  <2> QED BY <2>1, <2>2 DEF Commits
<1> QED
  BY <1>3, <1>4, CommitsFinite, FS_AddElement

LEMMA FreshCounts ==
    ASSUME NEW s, row' = Fresh(s)
    PROVE  Cardinality(Commits') = 0
<1>1. Commits' = {}
  BY PagesAssumption DEF Commits, Fresh
<1> QED
  BY <1>1, FS_EmptySet

-----------------------------------------------------------------------------

\* What a component starts with.
LEMMA BlankTyped ==
    ASSUME Blank
    PROVE  /\ (busy \in Rows \cup {None})'
           /\ (act \in [Slots -> Sent \cup {None}])'
           /\ (ack \in [Rows -> 0..MaxMoves])'
           /\ UnderWay' = {} /\ Unserved' = {} /\ result' = None
BY PagesAssumption DEF Blank, UnderWay, Unserved

\* What is on the screen is made of rows, whichever answer it comes from.
LEMMA ViewTyped ==
    ASSUME PagesTypeOK, result # None \/ shown # None
    PROVE  Screen(View)
<1>1. CASE result = None
  BY <1>1 DEF View, PagesTypeOK
<1>2. CASE result # None
  <2> DEFINE rows == [x \in {result.on} |-> result.is]
  <2>1. result.on \in Rows /\ result.is \in Version /\ P.detail
    BY <1>2, OpenPage DEF PagesTypeOK, WellFormed, P
  <2>2. rows \in [Asked(result.on) -> Version]
    BY <2>1 DEF Asked
  <2>3. View = [query |-> result.on, rows |-> rows]
    BY <1>2 DEF View
  <2> HIDE DEF rows
  <2> QED BY <2>1, <2>2, <2>3 DEF Screen
<1> QED BY <1>1, <1>2

\* A load that has just been sent.
LEMMA SentLoad ==
    ASSUME NEW q \in Rows, NEW l, l = [query |-> q, newest |-> TRUE, res |-> None]
    PROVE  Load(l)'
<1>1. l.query = q /\ l.newest = TRUE /\ l.res = None
  OBVIOUS
<1> QED
  BY <1>1, Zenon DEF Load

LEMMA StartTyped ==
    ASSUME PagesTypeOK, UNCHANGED here, NEW q \in Rows, Start(q)
    PROVE  /\ (shown = None \/ Screen(shown))'
           /\ loading' \in BOOLEAN
           /\ \A l \in loads' : Load(l)'
<1>1. (shown = None \/ Screen(shown))'
  BY DEF PagesTypeOK, Start, Screen, Asked, P, Version
<1>2. ASSUME NEW l \in loads'
      PROVE  Load(l)'
  <2>1. CASE l = [query |-> q, newest |-> TRUE, res |-> None]
    BY <2>1 DEF Load
  <2>2. CASE \E k \in loads : l = [k EXCEPT !.newest = FALSE]
    <3>1. PICK k \in loads : l = [k EXCEPT !.newest = FALSE]
      BY <2>2
    <3>2. Load(k)
      BY DEF PagesTypeOK
    <3> QED
      BY <3>1, <3>2 DEF Load, Asked, P, Version
  <2> QED
    BY <1>2, <2>1, <2>2 DEF Start, Requested
<1> QED
  BY <1>1, <1>2 DEF Start

LEMMA ArriveTyped ==
    ASSUME PagesTypeOK, UNCHANGED <<here, row, query>>, NEW s \in {"checking", "in", "out"}, Arrive(s)
    PROVE  PagesTypeOK'
<1>1. /\ (shown = None \/ Screen(shown))'
      /\ loading' \in BOOLEAN
      /\ \A l \in loads' : Load(l)'
  <2>1. shown' = None /\ loading' \in BOOLEAN
        /\ \A l \in loads' : l = [query |-> query, newest |-> TRUE, res |-> None]
    BY DEF Arrive
  <2>2. query \in Rows
    BY DEF PagesTypeOK
  <2>3. ASSUME NEW l \in loads'
        PROVE  Load(l)'
    BY <2>1, <2>2, <2>3, SentLoad
  <2> QED BY <2>1, <2>3
<1>2. Blank
  BY DEF Arrive
<1>3. (row \in [Rows -> Version])'
  BY DEF PagesTypeOK, Version, P
<1>4. /\ auth' \in {"checking", "in", "out"} /\ turns' \in 0..MaxTurns
      /\ place' \in {"page", "login", "away"}
  BY PagesAssumption DEF Arrive
<1> QED
  BY <1>1, <1>2, <1>3, <1>4, BlankTyped DEF PagesTypeOK

\* The rows of another visit: the statuses go on, the commits count anew.
LEMMA FreshTyped ==
    ASSUME PagesTypeOK, UNCHANGED here, row' = Fresh(row[First].st)
    PROVE  (row \in [Rows -> Version])'
<1>1. First \in Rows
  BY PagesAssumption DEF First
<1> QED
  BY <1>1, PagesAssumption DEF PagesTypeOK, Fresh, Version, P

LEMMA ServedTyped ==
    ASSUME PagesTypeOK, Served
    PROVE  PagesTypeOK'
<1>1. PICK l \in loads :
        loads' = (loads \ {l}) \cup {[l EXCEPT !.res = [x \in Asked(l.query) |-> row[x]]]}
  BY DEF Served
<1>2. UNCHANGED <<here, auth, place, row, query, turns, shown, result, loading, busy, act, ack>>
  BY DEF Served
<1>3. \A k \in loads : Load(k)
  BY DEF PagesTypeOK
<1>4. Load([l EXCEPT !.res = [x \in Asked(l.query) |-> row[x]]])
  <2>1. [x \in Asked(l.query) |-> row[x]] \in [Asked(l.query) -> Version]
    BY <1>3 DEF PagesTypeOK, Asked, Load
  <2> QED
    BY <1>3, <2>1 DEF Load
<1>5. \A k \in loads' : Load(k)
  BY <1>1, <1>3, <1>4
<1>6. \A k \in loads' : Load(k)'
  BY <1>5, <1>2 DEF Load, Asked, Version, P
<1> QED
  BY <1>2, <1>6 DEF PagesTypeOK, Screen, Asked, Version, P, Sent, Names

LEMMA ReturnTyped ==
    ASSUME PagesTypeOK, NEW l, Returned(l)
    PROVE  PagesTypeOK'
<1>1. UNCHANGED <<here, auth, place, row, query, turns, result, busy, act, ack>> /\ loads' \subseteq loads
      /\ l \in loads /\ loading' \in BOOLEAN
  BY DEF Returned, PagesTypeOK
<1>2. Load(l)
  BY <1>1 DEF PagesTypeOK
<1>3. shown' = None \/ shown' = shown \/ (l.res # None /\ shown' = [query |-> l.query, rows |-> l.res])
  BY DEF Returned
<1>4. (shown = None \/ Screen(shown))'
  <2>1. l.res # None => Screen([query |-> l.query, rows |-> l.res])
    BY <1>2 DEF Load, Screen
  <2>2. shown' = None \/ Screen(shown')
    BY <1>3, <2>1 DEF PagesTypeOK
  <2> QED
    BY <1>1, <2>2 DEF Screen, Asked, Version, P
<1>5. \A k \in loads' : Load(k)'
  BY <1>1 DEF PagesTypeOK, Load, Asked, Version, P
<1> QED
  BY <1>1, <1>4, <1>5 DEF PagesTypeOK, Version, P, Sent, Names

\* A press goes out with what was on the screen.
LEMMA ClickTyped ==
    ASSUME PagesTypeOK, NEW x \in Rows, NEW a, Click(x, a)
    PROVE  PagesTypeOK'
<1>1. Screen(View) /\ x \in Asked(View.query) /\ a \in Names
  BY ViewTyped DEF Click, Offered, Screen
<1>2. View.rows[x].ver \in 0..MaxMoves
  BY <1>1 DEF Screen, Version
<1>3. Target(x) \in Rows /\ query \in Rows
  BY DEF Target, PagesTypeOK
<1>4. PICK i \in Slots \ UnderWay :
        act' = [act EXCEPT ![i] = [on |-> x, row |-> Target(x), name |-> a, query |-> query,
                                   saw |-> View.rows[x].ver, res |-> None]]
  BY DEF Click
<1>5. [on |-> x, row |-> Target(x), name |-> a, query |-> query,
       saw |-> View.rows[x].ver, res |-> None] \in Sent
  BY <1>1, <1>2, <1>3 DEF Sent
<1>6. act' \in [Slots -> Sent \cup {None}]
  BY <1>4, <1>5 DEF PagesTypeOK
<1>7. UNCHANGED <<here, auth, place, row, query, turns, shown, loading, loads, ack>>
      /\ busy' \in Rows \cup {None} /\ result' = None
  BY DEF Click
<1> QED
  BY <1>6, <1>7 DEF PagesTypeOK, Screen, Load, Asked, Version, P, Sent, Names

LEMMA MoveTyped ==
    ASSUME PagesTypeOK, NEW x \in Rows, NEW m \in Moves[P.kind], Move(x, m[3]), row[x].ver < MaxMoves
    PROVE  row' \in [Rows -> Version] /\ [st |-> m[3], ver |-> row[x].ver + 1] \in Version
<1>1. m[3] \in Statuses[P.kind]
  BY OpenPage, MoveTypes DEF P
<1>2. row[x].ver \in Nat
  BY DEF PagesTypeOK, Version
<1>3. [st |-> m[3], ver |-> row[x].ver + 1] \in Version
  BY <1>1, <1>2, PagesAssumption DEF Version
<1> QED
  BY <1>3 DEF Move, PagesTypeOK

\* While an action has no answer, or there is room, the row may be committed once more.
LEMMA MayMove ==
    ASSUME PagesTypeOK, Bounded, NEW x \in Rows, Unserved # {} \/ Room
    PROVE  row[x].ver < MaxMoves
<1>1. Cardinality(Commits) < MaxMoves
  <2>1. Unserved # {} => Cardinality(Unserved) # 0
    BY UnservedFinite, FS_EmptySet
  <2> QED BY <2>1, UnservedFinite, CommitsFinite, PagesAssumption DEF Bounded, Room
<1>2. row[x].ver \in Nat
  BY DEF PagesTypeOK, Version
<1> QED
  BY <1>1, <1>2, VersionBound, CommitsFinite, PagesAssumption

LEMMA OthersTyped ==
    ASSUME PagesTypeOK, Bounded, NEW x \in Rows, Others(x)
    PROVE  PagesTypeOK'
<1>1. UNCHANGED <<here, auth, place, query, turns, shown, result, loading, loads, busy, act, ack>>
  BY DEF Others
<1>2. row' \in [Rows -> Version]
  BY MayMove, MoveTyped DEF Others
<1> QED
  BY <1>1, <1>2 DEF PagesTypeOK, Screen, Load, Asked, Version, P, Sent, Names

LEMMA ServeActTyped ==
    ASSUME PagesTypeOK, Bounded, NEW i \in Slots, ServeAct(i)
    PROVE  PagesTypeOK'
<1> DEFINE x == act[i].row
<1>1. UNCHANGED <<here, auth, place, query, turns, shown, result, loading, loads, busy, ack>>
  BY DEF ServeAct
<1>2. act[i] \in Sent /\ x \in Rows /\ i \in Unserved
  BY DEF ServeAct, PagesTypeOK, Sent, Unserved, UnderWay
<1>3. row' \in [Rows -> Version]
      /\ \E v \in Version \cup {Refused} : act' = [act EXCEPT ![i].res = v]
  <2>1. CASE UNCHANGED row /\ act' = [act EXCEPT ![i].res = Refused]
    BY <2>1 DEF PagesTypeOK
  <2>2. CASE UNCHANGED row /\ act' = [act EXCEPT ![i].res = row[x]]
    BY <2>2, <1>2 DEF PagesTypeOK
  <2>3. CASE \E m \in Moves[P.kind] :
                /\ Move(x, m[3])
                /\ act' = [act EXCEPT ![i].res = [st |-> m[3], ver |-> row[x].ver + 1]]
    BY <2>3, <1>2, MayMove, MoveTyped
  <2> QED
    BY <2>1, <2>2, <2>3 DEF ServeAct
<1>4. act' \in [Slots -> Sent \cup {None}]
  <2>1. PICK v \in Version \cup {Refused} : act' = [act EXCEPT ![i].res = v]
    BY <1>3
  <2>2. [act[i] EXCEPT !.res = v] \in Sent
    BY <1>2 DEF Sent
  <2> QED
    BY <2>1, <2>2 DEF PagesTypeOK
<1> QED
  BY <1>1, <1>3, <1>4 DEF PagesTypeOK, Screen, Load, Asked, Version, P, Sent, Names

-----------------------------------------------------------------------------
(* What comes of an answer.                                                *)

\* The component is gone and the user elsewhere.
Left ==
    /\ place' = "away" /\ row' = Fresh(row[First].st) /\ query' = First /\ loads' = {}
    /\ loading' = FALSE /\ shown' = None /\ turns' = 0
    /\ Blank
    /\ UNCHANGED <<here, auth>>

Told(i, answer) ==
    IF answer \in {Refused, None} \/ answer.ver <= ack[act[i].row] THEN ack
    ELSE [ack EXCEPT ![act[i].row] = answer.ver]

\* The component is there to go on.
Handled(i, answer, then) ==
    /\ busy' = None /\ act' = [act EXCEPT ![i] = None] /\ ack' = Told(i, answer)
    /\ \/ then = "reload" /\ Start(act[i].query) /\ UNCHANGED result
       \/ /\ then = "answer" /\ answer # None /\ answer = act[i].res
          /\ shown' = Patched(i) /\ UNCHANGED <<result, loads, loading>>
       \/ then = "error" /\ shown' = None /\ UNCHANGED <<result, loads, loading>>
       \/ then = "stay" /\ UNCHANGED <<shown, result, loads, loading>>
       \/ /\ then = "apart" /\ answer \notin {None, Refused} /\ answer = act[i].res /\ "apart" \in P.done
          /\ result' = [on |-> act[i].row, is |-> act[i].res]
          /\ UNCHANGED <<shown, loads, loading>>
    /\ UNCHANGED <<here, auth, place, turns, row, query>>

LEMMA Outcomes ==
    ASSUME PagesTypeOK, NEW i \in Slots, ActReturns(i)
    PROVE  /\ act[i] \in Sent
           /\ \/ Left
              \/ Arrive("checking") /\ UNCHANGED <<here, row, query>>
              \/ \E answer \in {act[i].res, None} : \E then \in Aftermath(answer) : Handled(i, answer, then)
<1>1. PICK answer \in {act[i].res, None} : \E then \in Aftermath(answer) :
             CASE then = "leave" ->
                       /\ place' = "away"
                       /\ row' = Fresh(row[First].st)
                       /\ query' = First
                       /\ loads' = {}
                       /\ loading' = FALSE
                       /\ shown' = None
                       /\ turns' = 0
                       /\ Blank
                       /\ UNCHANGED auth
                  [] then = "remount" -> Arrive("checking") /\ UNCHANGED <<row, query>>
                  [] OTHER ->
                       /\ busy' = Released(answer)
                       /\ act' = [act EXCEPT ![i] = None]
                       /\ ack' = Told(i, answer)
                       /\ result' = IF then = "apart" THEN [on |-> act[i].row, is |-> act[i].res] ELSE result
                       /\ CASE then = "reload" -> Start(act[i].query)
                            [] then = "answer" -> shown' = Patched(i) /\ UNCHANGED <<loads, loading>>
                            [] then = "error" -> shown' = None /\ UNCHANGED <<loads, loading>>
                            [] OTHER -> UNCHANGED <<shown, loads, loading>>
                       /\ UNCHANGED <<auth, place, turns, row, query>>
  BY DEF ActReturns, Told
<1>2. PICK then \in Aftermath(answer) :
        \/ then = "leave" /\ Left
        \/ then = "remount" /\ Arrive("checking") /\ UNCHANGED <<here, row, query>>
        \/ /\ then \notin {"leave", "remount"}
           /\ busy' = None /\ act' = [act EXCEPT ![i] = None] /\ ack' = Told(i, answer)
           /\ result' = IF then = "apart" THEN [on |-> act[i].row, is |-> act[i].res] ELSE result
           /\ \/ then = "reload" /\ Start(act[i].query)
              \/ then = "answer" /\ shown' = Patched(i) /\ UNCHANGED <<loads, loading>>
              \/ then = "error" /\ shown' = None /\ UNCHANGED <<loads, loading>>
              \/ then \notin {"reload", "answer", "error"} /\ UNCHANGED <<shown, loads, loading>>
           /\ UNCHANGED <<here, auth, place, turns, row, query>>
  BY <1>1 DEF ActReturns, Left, Released
<1>3. /\ then \in {"reload", "answer", "leave", "remount", "stay", "error", "apart"}
      /\ answer = None => then # "answer"
      /\ then = "apart" => answer \notin {None, Refused} /\ "apart" \in P.done
  BY OpenPage, PagesAssumption DEF Aftermath, WellFormed, P
<1>4. act[i] \in Sent
  BY DEF ActReturns, PagesTypeOK
<1>5. answer # None => answer = act[i].res
  OBVIOUS
<1>6. Left \/ (Arrive("checking") /\ UNCHANGED <<here, row, query>>) \/ Handled(i, answer, then)
  BY <1>2, <1>3, <1>5 DEF Handled
<1> QED
  BY <1>4, <1>6

\* A handler that does not load again changes the row it acted on, and no other.
LEMMA PatchedRow ==
    ASSUME PagesTypeOK, NEW i \in Slots, act[i] \in Sent, act[i].res # None
    PROVE  \/ Patched(i) = shown /\ (shown = None \/ act[i].on \notin DOMAIN shown.rows)
           \/ /\ Screen(shown) /\ act[i].on \in DOMAIN shown.rows
              /\ \E v \in Version :
                    /\ Patched(i) = [query |-> shown.query,
                                     rows |-> [shown.rows EXCEPT ![act[i].on] = v]]
                    /\ act[i].res = Refused => v.ver = shown.rows[act[i].on].ver
                    /\ act[i].res # Refused => v = act[i].res
<1>1. CASE shown = None \/ act[i].on \notin DOMAIN shown.rows
  BY <1>1 DEF Patched
<1>2. CASE shown # None /\ act[i].on \in DOMAIN shown.rows
  <2> DEFINE x == act[i].on
             to == (CHOOSE m \in Moves[P.kind] : m[2] = act[i].name)[3]
             v == IF act[i].res = Refused THEN [st |-> to, ver |-> shown.rows[x].ver] ELSE act[i].res
  <2>1. Screen(shown)
    BY <1>2 DEF PagesTypeOK
  <2>2. to \in Statuses[P.kind]
    <3>1. \E m \in Moves[P.kind] : m[2] = act[i].name
      BY OpenPage DEF WellFormed, Sent, Names, P
    <3>2. \A m \in Moves[P.kind] : m[3] \in Statuses[P.kind]
      BY OpenPage, MoveTypes DEF P
    <3> QED BY <3>1, <3>2
  <2>3. v \in Version
    BY <1>2, <2>1, <2>2 DEF Sent, Screen, Version
  <2>4. Patched(i) = [shown EXCEPT !.rows[x] = v]
    BY <1>2, <2>1 DEF Patched, Screen
  <2>5. Patched(i) = [query |-> shown.query, rows |-> [shown.rows EXCEPT ![x] = v]]
    <3> HIDE DEF v
    <3> QED BY <2>1, <2>4 DEF Screen
  <2> QED
    BY <1>2, <2>1, <2>3, <2>5
<1> QED
  BY <1>1, <1>2

LEMMA PatchedTyped ==
    ASSUME PagesTypeOK, NEW i \in Slots, act[i] \in Sent, act[i].res # None
    PROVE  Patched(i) = None \/ Screen(Patched(i))
<1>1. CASE Patched(i) = shown
  BY <1>1 DEF PagesTypeOK
<1>2. CASE Screen(shown) /\ act[i].on \in DOMAIN shown.rows /\ \E v \in Version :
             Patched(i) = [query |-> shown.query, rows |-> [shown.rows EXCEPT ![act[i].on] = v]]
  BY <1>2 DEF Screen
<1> QED
  BY <1>1, <1>2, PatchedRow

LEMMA HandledTyped ==
    ASSUME PagesTypeOK, NEW i \in Slots, act[i] \in Sent, NEW answer \in {act[i].res, None}, NEW then,
           Handled(i, answer, then)
    PROVE  PagesTypeOK'
<1>1. UNCHANGED <<here, auth, place, turns, row, query>> /\ busy' = None
      /\ act' \in [Slots -> Sent \cup {None}]
  BY DEF Handled, PagesTypeOK
<1>2. ack' \in [Rows -> 0..MaxMoves]
  <2>1. answer \notin {Refused, None} => answer.ver \in 0..MaxMoves
    BY DEF Sent, Version
  <2> QED BY <2>1 DEF Handled, Told, PagesTypeOK
<1>3. /\ (shown = None \/ Screen(shown))'
      /\ loading' \in BOOLEAN
      /\ \A l \in loads' : Load(l)'
  <2>1. CASE Start(act[i].query)
    BY <1>1, <2>1, StartTyped DEF Sent
  <2>2. CASE UNCHANGED <<loads, loading>> /\ (shown' = None \/ Screen(shown'))
    <3>1. Screen(shown') => Screen(shown)'
      BY <1>1 DEF Screen, Asked, Version, P
    <3>2. \A l \in loads' : Load(l)'
      BY <1>1, <2>2 DEF PagesTypeOK, Load, Asked, Version, P
    <3> QED
      BY <2>2, <3>1, <3>2 DEF PagesTypeOK
  <2>3. \/ Start(act[i].query)
        \/ UNCHANGED <<loads, loading>> /\ (shown' = None \/ Screen(shown'))
    BY PatchedTyped DEF Handled, PagesTypeOK
  <2> QED BY <2>1, <2>2, <2>3
<1>4. (row \in [Rows -> Version])' /\ (act \in [Slots -> Sent \cup {None}])'
  BY <1>1 DEF PagesTypeOK, Version, P, Sent, Names
<1>5. (result = None \/ ("apart" \in P.done /\ result \in [on : Rows, is : Version]))'
  <2>1. CASE UNCHANGED result
    BY <1>1, <2>1 DEF PagesTypeOK, Version, P
  <2>2. CASE /\ "apart" \in P.done /\ act[i].res \notin {None, Refused}
             /\ result' = [on |-> act[i].row, is |-> act[i].res]
    BY <1>1, <2>2 DEF Sent, Version, P
  <2> QED BY <2>1, <2>2 DEF Handled
<1> QED
  BY <1>1, <1>2, <1>3, <1>4, <1>5 DEF PagesTypeOK

LEMMA LeftTyped ==
    ASSUME PagesTypeOK, Left
    PROVE  PagesTypeOK'
<1>1. (row \in [Rows -> Version])'
  BY FreshTyped DEF Left
<1>2. First \in Rows /\ 0 \in 0..MaxTurns
  BY PagesAssumption DEF First
<1> QED
  BY <1>1, <1>2, BlankTyped DEF PagesTypeOK, Left

LEMMA TurnTyped ==
    ASSUME PagesTypeOK, Turn
    PROVE  PagesTypeOK'
<1>1. PICK q \in Rows \ {query} :
          /\ query' = q
          /\ IF P.keyed
             THEN /\ shown' = None
                  /\ loading' = TRUE
                  /\ loads' = {[query |-> q, newest |-> TRUE, res |-> None]}
                  /\ Blank
             ELSE Start(q) /\ UNCHANGED <<result, busy, act, ack>>
  BY DEF Turn
<1>2. UNCHANGED <<here, auth, place, row>> /\ turns' \in 0..MaxTurns
  BY PagesAssumption DEF Turn, PagesTypeOK
<1>3. /\ (busy \in Rows \cup {None})'
      /\ (act \in [Slots -> Sent \cup {None}])'
      /\ (ack \in [Rows -> 0..MaxMoves])'
  <2>1. UNCHANGED <<busy, act, ack>> \/ Blank
    BY <1>1
  <2>2. Sent' = Sent
    BY <1>2 DEF Sent, Names, Version, P
  <2> QED BY <2>1, <2>2, BlankTyped DEF PagesTypeOK
<1>4. /\ (shown = None \/ Screen(shown))'
      /\ loading' \in BOOLEAN
      /\ \A l \in loads' : Load(l)'
  <2>1. CASE P.keyed
    <3>1. ASSUME NEW l \in loads'
          PROVE  Load(l)'
      BY <1>1, <2>1, <3>1, SentLoad
    <3> QED BY <1>1, <2>1, <3>1
  <2>2. CASE Start(q)
    BY <1>2, <2>2, StartTyped
  <2> QED BY <1>1, <2>1, <2>2
<1>5. (row \in [Rows -> Version])'
  BY <1>2 DEF PagesTypeOK, Version, P
<1>6. (result = None \/ ("apart" \in P.done /\ result \in [on : Rows, is : Version]))'
  <2>1. UNCHANGED result \/ result' = None
    BY <1>1, BlankTyped
  <2> QED BY <1>2, <2>1 DEF PagesTypeOK, Version, P
<1> QED
  BY <1>1, <1>2, <1>3, <1>4, <1>5, <1>6 DEF PagesTypeOK

LEMMA AgainTyped ==
    ASSUME PagesTypeOK, Again
    PROVE  PagesTypeOK'
<1>1. UNCHANGED <<here, auth, place, row, query, turns, result, busy, act, ack>> /\ Start(query)
  BY DEF Again
<1>2. /\ (shown = None \/ Screen(shown))'
      /\ loading' \in BOOLEAN
      /\ \A l \in loads' : Load(l)'
  BY <1>1, StartTyped DEF PagesTypeOK
<1> QED
  BY <1>1, <1>2 DEF PagesTypeOK, Version, P, Sent, Names

\* loadMe answers in a page that waited for it, or anywhere else.
LEMMA KnownCases ==
    ASSUME Known
    PROVE  \/ \E s \in {"in", "out"} : Arrive(s) /\ place = "page" /\ P.gate # "open" /\ UNCHANGED <<here, row, query>>
           \/ /\ auth' \in {"in", "out"} /\ ~(place = "page" /\ P.gate # "open")
              /\ UNCHANGED <<here, place, row, query, turns, shown, result, loading, loads, busy, act, ack>>
BY DEF Known

LEMMA LeaveTyped ==
    ASSUME PagesTypeOK, Leave
    PROVE  PagesTypeOK'
<1>1. (row \in [Rows -> Version])'
  BY FreshTyped DEF Leave
<1>2. First \in Rows /\ 0 \in 0..MaxTurns /\ 0 \in 0..MaxMoves
  BY PagesAssumption DEF First
<1>3. UNCHANGED <<here, auth, loading, loads, busy, act>>
      /\ place' = "away" /\ query' = First /\ turns' = 0 /\ shown' = None /\ result' = None
      /\ ack' = [x \in Rows |-> 0]
  BY DEF Leave
<1>4. Sent' = Sent /\ \A l : Load(l)' <=> Load(l)
  BY <1>3 DEF Sent, Names, Version, P, Load, Asked
<1> QED
  BY <1>1, <1>2, <1>3, <1>4 DEF PagesTypeOK

\* What Next may do, for the case splits below.
LEMMA Steps ==
    ASSUME Next
    PROVE  \/ Open \/ Known \/ Visit \/ SignIn \/ Leave
           \/ Turn \/ Again \/ Served \/ \E l \in loads : Returned(l)
           \/ \E x \in Rows : Others(x)
           \/ \E x \in Rows, a \in Names : Click(x, a)
           \/ \E i \in Slots : ServeAct(i)
           \/ \E i \in Slots : ActReturns(i)
BY DEF Next, Return, Acted

LEMMA PageStays == Next => UNCHANGED here
BY Steps DEF Open, Known, Visit, SignIn, Leave, Turn, Again, Served, Returned, Others, Click, ServeAct, ActReturns

LEMMA NextTyped ==
    ASSUME PagesTypeOK, Bounded, Next
    PROVE  PagesTypeOK'
<1>1. CASE Open
  BY <1>1, ArriveTyped DEF Open
<1>2. CASE Known
  <2>1. CASE \E s \in {"in", "out"} : Arrive(s) /\ UNCHANGED <<here, row, query>>
    BY <2>1, ArriveTyped
  <2>2. CASE auth' \in {"in", "out"}
             /\ UNCHANGED <<here, place, row, query, turns, shown, result, loading, loads, busy, act, ack>>
    BY <2>2 DEF PagesTypeOK, Screen, Load, Asked, Version, P, Sent, Names
  <2> QED BY <1>2, <2>1, <2>2, KnownCases
<1>3. CASE Visit
  BY <1>3, ArriveTyped DEF Visit, PagesTypeOK
<1>4. CASE SignIn
  BY <1>4, ArriveTyped DEF SignIn
<1>5. CASE Leave
  BY <1>5, LeaveTyped
<1>6. CASE Turn
  BY <1>6, TurnTyped
<1>7. CASE Again
  BY <1>7, AgainTyped
<1>8. CASE Served
  BY <1>8, ServedTyped
<1>9. CASE \E l \in loads : Returned(l)
  BY <1>9, ReturnTyped
<1>10. CASE \E x \in Rows : Others(x)
  BY <1>10, OthersTyped
<1>11. CASE \E x \in Rows, a \in Names : Click(x, a)
  BY <1>11, ClickTyped
<1>12. CASE \E i \in Slots : ServeAct(i)
  BY <1>12, ServeActTyped
<1>13. CASE \E i \in Slots : ActReturns(i)
  <2>1. PICK i \in Slots : ActReturns(i)
    BY <1>13
  <2>2. CASE Left
    BY <2>2, LeftTyped
  <2>3. CASE Arrive("checking") /\ UNCHANGED <<here, row, query>>
    BY <2>3, ArriveTyped
  <2>4. CASE \E answer \in {act[i].res, None} : \E then \in Aftermath(answer) : Handled(i, answer, then)
    BY <2>1, <2>4, Outcomes, HandledTyped
  <2> QED BY <2>1, <2>2, <2>3, <2>4, Outcomes
<1> QED
  BY <1>1, <1>2, <1>3, <1>4, <1>5, <1>6, <1>7, <1>8, <1>9, <1>10, <1>11, <1>12, <1>13, Steps

-----------------------------------------------------------------------------
(* The bound on commits.                                                   *)

\* Nothing is committed and nothing is sent.
LEMMA SameCount ==
    ASSUME Bounded, UNCHANGED row, Unserved' \subseteq Unserved
    PROVE  Bounded'
<1>1. Commits' = Commits
  BY DEF Commits
<1>2. Cardinality(Unserved') <= Cardinality(Unserved) /\ Cardinality(Unserved') \in Nat
  BY UnservedFinite, FS_Subset, FS_CardinalityType
<1> QED
  BY <1>1, <1>2, UnservedFinite, CommitsFinite, PagesAssumption DEF Bounded

LEMMA FreshBounded ==
    ASSUME Bounded, NEW s, row' = Fresh(s), Unserved' \subseteq Unserved
    PROVE  Bounded'
<1>1. Cardinality(Unserved') <= Cardinality(Unserved) /\ Cardinality(Unserved') \in Nat
  BY UnservedFinite, FS_Subset, FS_CardinalityType
<1> QED
  BY <1>1, FreshCounts, UnservedFinite, CommitsFinite, PagesAssumption DEF Bounded

LEMMA BlankBounded ==
    ASSUME Bounded, Blank, UNCHANGED row
    PROVE  Bounded'
BY BlankTyped, SameCount

LEMMA ClickBounded ==
    ASSUME PagesTypeOK, Bounded, NEW x \in Rows, NEW a, Click(x, a)
    PROVE  Bounded'
<1>1. PICK i \in Slots : \E t : act' = [act EXCEPT ![i] = t]
  BY DEF Click
<1>2. Unserved' \subseteq Unserved \cup {i}
  BY <1>1 DEF PagesTypeOK, Unserved, UnderWay
<1>3. Cardinality(Unserved') <= Cardinality(Unserved) + 1 /\ Cardinality(Unserved') \in Nat
  <2>1. IsFiniteSet(Unserved \cup {i}) /\ Cardinality(Unserved \cup {i}) <= Cardinality(Unserved) + 1
    BY UnservedFinite, FS_AddElement
  <2>2. Cardinality(Unserved \cup {i}) \in Nat /\ IsFiniteSet(Unserved')
        /\ Cardinality(Unserved') <= Cardinality(Unserved \cup {i})
    BY <1>2, <2>1, FS_Subset, FS_CardinalityType
  <2>3. Cardinality(Unserved') \in Nat
    BY <2>2, FS_CardinalityType
  <2> QED BY <2>1, <2>2, <2>3, UnservedFinite
<1>4. Commits' = Commits
  BY DEF Click, Commits
<1> QED
  BY <1>3, <1>4, UnservedFinite, CommitsFinite, PagesAssumption DEF Bounded, Click, Room

LEMMA OthersBounded ==
    ASSUME PagesTypeOK, Bounded, NEW x \in Rows, Others(x)
    PROVE  Bounded'
<1>1. Unserved' = Unserved
  BY DEF Others, Unserved, UnderWay
<1>2. Cardinality(Commits') = Cardinality(Commits) + 1
  BY MayMove, MoveCounts DEF Others
<1> QED
  BY <1>1, <1>2, UnservedFinite, CommitsFinite, PagesAssumption DEF Bounded, Others, Room

LEMMA ServeActBounded ==
    ASSUME PagesTypeOK, Bounded, NEW i \in Slots, ServeAct(i)
    PROVE  Bounded'
<1> DEFINE x == act[i].row
<1>1. act[i] \in Sent /\ x \in Rows /\ i \in Unserved
  BY DEF ServeAct, PagesTypeOK, Sent, Unserved, UnderWay
<1>2. CASE UNCHANGED row /\ act' = [act EXCEPT ![i].res = Refused]
  <2>1. Unserved' \subseteq Unserved
    BY <1>1, <1>2, PagesAssumption DEF Unserved, UnderWay, PagesTypeOK, Sent
  <2> QED BY <1>2, <2>1, SameCount
<1>3. CASE \E m \in Moves[P.kind] :
              Move(x, m[3]) /\ act' = [act EXCEPT ![i].res = [st |-> m[3], ver |-> row[x].ver + 1]]
  <2>1. PICK m \in Moves[P.kind] :
              Move(x, m[3]) /\ act' = [act EXCEPT ![i].res = [st |-> m[3], ver |-> row[x].ver + 1]]
    BY <1>3
  <2>2. Cardinality(Commits') = Cardinality(Commits) + 1
    BY <1>1, <2>1, MayMove, MoveCounts
  <2>3. [st |-> m[3], ver |-> row[x].ver + 1] # None
    BY <1>1, <2>1, MayMove, MoveTyped, AnswerIsNeither
  <2>4. Unserved' \subseteq Unserved \ {i}
    BY <1>1, <2>1, <2>3 DEF Unserved, UnderWay, PagesTypeOK, Sent
  <2>5. IsFiniteSet(Unserved \ {i}) /\ Cardinality(Unserved \ {i}) = Cardinality(Unserved) - 1
    BY <1>1, UnservedFinite, FS_RemoveElement
  <2>6. Cardinality(Unserved') <= Cardinality(Unserved) - 1 /\ Cardinality(Unserved') \in Nat
    BY <2>4, <2>5, FS_Subset, FS_CardinalityType
  <2> QED
    BY <2>2, <2>6, UnservedFinite, CommitsFinite, PagesAssumption DEF Bounded
<1>4. CASE UNCHANGED row /\ act' = [act EXCEPT ![i].res = row[x]]
  <2>1. row[x] # None
    BY <1>1, AnswerIsNeither DEF PagesTypeOK
  <2>2. Unserved' \subseteq Unserved
    BY <1>1, <1>4, <2>1 DEF Unserved, UnderWay, PagesTypeOK, Sent
  <2> QED BY <1>4, <2>2, SameCount
<1> QED
  BY <1>2, <1>3, <1>4 DEF ServeAct

LEMMA HandledUnderWay ==
    ASSUME PagesTypeOK, NEW i \in Slots, NEW answer, NEW then, Handled(i, answer, then)
    PROVE  UnderWay' = UnderWay \ {i} /\ \A k \in UnderWay' : act'[k] = act[k]
BY DEF Handled, PagesTypeOK, UnderWay

LEMMA NextBounded ==
    ASSUME PagesTypeOK, Bounded, Next
    PROVE  Bounded'
<1>1. CASE UNCHANGED <<row, act>>
  BY <1>1, SameCount DEF Unserved, UnderWay
<1>2. CASE UNCHANGED row /\ Blank
  BY <1>2, BlankBounded
<1>3. CASE Leave
  BY <1>3, FreshBounded DEF Leave, Unserved, UnderWay
<1>4. CASE \E x \in Rows : Others(x)
  BY <1>4, OthersBounded
<1>5. CASE \E x \in Rows, a \in Names : Click(x, a)
  BY <1>5, ClickBounded
<1>6. CASE \E i \in Slots : ServeAct(i)
  BY <1>6, ServeActBounded
<1>7. CASE \E i \in Slots : ActReturns(i)
  <2>1. PICK i \in Slots : ActReturns(i)
    BY <1>7
  <2>2. CASE Left
    BY <2>2, FreshBounded, BlankTyped DEF Left
  <2>3. CASE Arrive("checking") /\ UNCHANGED <<here, row, query>>
    BY <2>3, BlankBounded DEF Arrive
  <2>4. CASE \E answer \in {act[i].res, None} : \E then \in Aftermath(answer) : Handled(i, answer, then)
    <3>1. Unserved' \subseteq Unserved /\ UNCHANGED row
      BY <2>4, HandledUnderWay DEF Unserved, Handled
    <3> QED BY <3>1, SameCount
  <2> QED BY <2>1, <2>2, <2>3, <2>4, Outcomes
<1>8. Open \/ Known \/ Visit \/ SignIn \/ Turn => UNCHANGED <<row, act>> \/ (UNCHANGED row /\ Blank)
  BY DEF Open, Known, Visit, SignIn, Turn, Arrive
<1>9. Again \/ Served \/ (\E l \in loads : Returned(l)) => UNCHANGED <<row, act>>
  BY DEF Again, Served, Returned
<1> QED
  BY <1>1, <1>2, <1>3, <1>4, <1>5, <1>6, <1>7, <1>8, <1>9, Steps

LEMMA InitTyped ==
    ASSUME Init
    PROVE  PagesTypeOK /\ Bounded
<1>1. First \in Rows /\ 0 \in 0..MaxTurns /\ 0 \in 0..MaxMoves
  BY PagesAssumption DEF First
<1>2. row \in [Rows -> Version]
  BY <1>1 DEF Init, Fresh, Version, P
<1>3. act \in [Slots -> Sent \cup {None}] /\ ack \in [Rows -> 0..MaxMoves]
  BY <1>1 DEF Init
<1>4. PagesTypeOK
  BY <1>1, <1>2, <1>3 DEF Init, PagesTypeOK
<1>5. Commits = {} /\ Unserved = {}
  BY PagesAssumption DEF Init, Commits, Fresh, Unserved, UnderWay
<1> QED
  BY <1>4, <1>5, FS_EmptySet, PagesAssumption DEF Bounded

LEMMA StutterTyped ==
    ASSUME PagesTypeOK, Bounded, UNCHANGED vars
    PROVE  PagesTypeOK' /\ Bounded'
<1>1. PagesTypeOK'
  BY DEF vars, PagesTypeOK, Screen, Load, Asked, Version, P, Sent, Names
<1> QED
  BY <1>1, SameCount DEF vars, Unserved, UnderWay

\* Pages, rows, loads and actions stay well typed, and no row is committed more often than the
\* bound says, however many pages, rows, loads and turns there are.
THEOREM TypeCorrect == Spec => [](PagesTypeOK /\ Bounded)
<1>1. Init => PagesTypeOK /\ Bounded
  BY InitTyped
<1>2. PagesTypeOK /\ Bounded /\ [Next]_vars => (PagesTypeOK /\ Bounded)'
  BY NextTyped, NextBounded, StutterTyped
<1> QED
  BY <1>1, <1>2, PTL DEF Spec

-----------------------------------------------------------------------------
(* Nothing goes on behind a page that is not there, and a page that says   *)
(* it loads waits for an answer that it will take.                         *)

Idle == ~Mounted => loads = {} /\ UnderWay = {} /\ ~loading /\ shown = None

Waits == loading => \E l \in loads : ~Dropped(l)

LEMMA ArriveIdle ==
    ASSUME NEW s, Arrive(s), UNCHANGED here
    PROVE  Idle' /\ Waits'
<1>1. UnderWay' = {}
  BY BlankTyped DEF Arrive
<1>2. Idle'
  BY <1>1 DEF Arrive, Idle, Mounted, P
<1>3. Waits'
  <2>1. loading' => [query |-> query, newest |-> TRUE, res |-> None] \in loads'
    BY DEF Arrive
  <2> QED BY <2>1 DEF Waits, Dropped
<1> QED BY <1>2, <1>3

LEMMA StartWaits ==
    ASSUME NEW q, Start(q)
    PROVE  Waits'
<1>1. [query |-> q, newest |-> TRUE, res |-> None] \in loads'
  BY DEF Start, Requested
<1> QED
  BY <1>1 DEF Waits, Dropped

LEMMA LeftIdle ==
    ASSUME Left
    PROVE  Idle' /\ Waits'
BY BlankTyped DEF Left, Idle, Waits, Mounted

LEMMA NextIdle ==
    ASSUME PagesTypeOK, Idle, Next
    PROVE  Idle'
<1>1. CASE Mounted' = Mounted /\ Mounted
  BY <1>1 DEF Idle
<1>2. CASE \E s : Arrive(s) /\ UNCHANGED here
  BY <1>2, ArriveIdle
<1>3. Open \/ Visit \/ SignIn => \E s : Arrive(s) /\ UNCHANGED here
  BY DEF Open, Visit, SignIn
<1>4. CASE Known
  <2>1. CASE UNCHANGED <<here, place, row, query, turns, shown, result, loading, loads, busy, act, ack>>
             /\ ~(place = "page" /\ P.gate # "open")
    BY <2>1 DEF Idle, UnderWay, Mounted, P
  <2> QED BY <1>2, <1>4, <2>1, KnownCases
<1>5. CASE Leave
  BY <1>5 DEF Leave, Idle, Mounted, UnderWay, P
<1>6. CASE \E i \in Slots : ActReturns(i)
  <2>1. PICK i \in Slots : ActReturns(i)
    BY <1>6
  <2>2. Mounted
    BY <2>1 DEF ActReturns, Idle, UnderWay
  <2>3. CASE \E answer \in {act[i].res, None} : \E then \in Aftermath(answer) : Handled(i, answer, then)
    <3>1. UNCHANGED <<here, auth, place>>
      BY <2>3 DEF Handled
    <3> QED BY <2>2, <3>1, <1>1 DEF Mounted, P
  <2> QED BY <2>1, <2>3, Outcomes, LeftIdle, ArriveIdle
<1>7. Turn \/ Again \/ Served \/ (\E l \in loads : Returned(l)) \/ (\E x \in Rows : Others(x))
      \/ (\E x \in Rows, a \in Names : Click(x, a)) \/ (\E i \in Slots : ServeAct(i))
      => Mounted /\ Mounted' = Mounted
  <2>1. Turn \/ Again \/ (\E x \in Rows : Others(x)) \/ (\E x \in Rows, a \in Names : Click(x, a))
        => Mounted /\ UNCHANGED <<here, auth, place>>
    BY DEF Turn, Again, Others, Click
  <2>2. Served \/ (\E l \in loads : Returned(l)) => loads # {} /\ UNCHANGED <<here, auth, place>>
    BY DEF Served, Returned
  <2>3. (\E i \in Slots : ServeAct(i)) => UnderWay # {} /\ UNCHANGED <<here, auth, place>>
    BY DEF ServeAct, UnderWay
  <2> QED BY <2>1, <2>2, <2>3 DEF Idle, Mounted, P
<1> QED
  BY <1>1, <1>2, <1>3, <1>4, <1>5, <1>6, <1>7, Steps

LEMMA NextWaits ==
    ASSUME PagesTypeOK, Idle, Waits, Next
    PROVE  Waits'
<1>1. CASE UNCHANGED <<here, loading, loads>>
  BY <1>1 DEF Waits, Dropped, P
<1>2. CASE \E s : Arrive(s) /\ UNCHANGED here
  BY <1>2, ArriveIdle
<1>3. CASE \E q : Start(q)
  BY <1>3, StartWaits
<1>4. CASE Served
  <2>1. PICK l \in loads :
          loads' = (loads \ {l}) \cup {[l EXCEPT !.res = [x \in Asked(l.query) |-> row[x]]]}
    BY <1>4 DEF Served
  <2>2. Load(l) /\ UNCHANGED <<here, loading>>
    BY <1>4 DEF PagesTypeOK, Served
  <2>3. [l EXCEPT !.res = [x \in Asked(l.query) |-> row[x]]].newest = l.newest
    BY <2>2 DEF Load
  <2> QED
    BY <2>1, <2>2, <2>3 DEF Waits, Dropped, P
<1>5. CASE \E l \in loads : Returned(l)
  BY <1>5 DEF Returned, Waits, Dropped, P
<1>6. CASE Turn
  <2>1. PICK q \in Rows : \/ loads' = {[query |-> q, newest |-> TRUE, res |-> None]}
                          \/ Start(q)
    BY <1>6 DEF Turn
  <2>2. CASE loads' = {[query |-> q, newest |-> TRUE, res |-> None]}
    BY <2>2 DEF Waits, Dropped
  <2> QED BY <2>1, <2>2, StartWaits
<1>7. CASE \E i \in Slots : ActReturns(i)
  <2>1. PICK i \in Slots : ActReturns(i)
    BY <1>7
  <2>2. CASE \E answer \in {act[i].res, None} : \E then \in Aftermath(answer) : Handled(i, answer, then)
    BY <2>2, <1>1, <1>3 DEF Handled
  <2> QED BY <2>1, <2>2, Outcomes, LeftIdle, ArriveIdle
<1>8. Open \/ Visit \/ SignIn \/ Known => UNCHANGED <<here, loading, loads>> \/ \E s : Arrive(s) /\ UNCHANGED here
  BY DEF Open, Visit, SignIn, Known
<1>9. Leave \/ (\E x \in Rows : Others(x)) \/ (\E x \in Rows, a \in Names : Click(x, a))
      \/ (\E i \in Slots : ServeAct(i)) => UNCHANGED <<here, loading, loads>>
  BY DEF Leave, Others, Click, ServeAct
<1>10. Again => Start(query)
  BY DEF Again
<1> QED
  BY <1>1, <1>2, <1>3, <1>4, <1>5, <1>6, <1>7, <1>8, <1>9, <1>10, Steps

-----------------------------------------------------------------------------
(* What was asked for, and what is shown and acted on.                     *)

\* Until the query changes, and in a component that is mounted anew when it does, everything is
\* about it.
SameQuery ==
    turns = 0 \/ P.keyed =>
        /\ \A l \in loads : l.query = query
        /\ shown # None => shown.query = query
        /\ result # None => result.on = query
        /\ \A i \in UnderWay : act[i].query = query /\ (P.target = "query" => act[i].row = query)

\* What a page that numbers its loads must do besides to show what it was last asked for: drop what
\* it showed when the newest load fails, not load for the query of an older render after an action,
\* and offer no action while it still shows the rows of the query before.
Following(p) ==
    p.guarded /\ ~p.keyed =>
        /\ p.loses
        /\ p.offers # {} => "reload" \notin p.done \cup p.refused \cup p.failed
        /\ p.target = "query" => ~p.keeps

NewestQuery ==
    P.guarded /\ ~P.keyed /\ Following(P) =>
        /\ \A l \in loads : l.newest => l.query = query
        /\ shown # None /\ ~loading => shown.query = query

QueryInv == SameQuery /\ NewestQuery

LEMMA ArriveQuery ==
    ASSUME NEW s, Arrive(s), UNCHANGED <<here, query>>
    PROVE  QueryInv'
<1>1. UnderWay' = {} /\ shown' = None /\ result' = None /\ \A l \in loads' : l.query = query
  BY BlankTyped DEF Arrive
<1> QED
  BY <1>1 DEF QueryInv, SameQuery, NewestQuery

LEMMA StartQuery ==
    ASSUME PagesTypeOK, NEW q, Start(q)
    PROVE  /\ shown' = None \/ (P.keeps /\ shown' = shown)
           /\ loading' = TRUE
           /\ \A l \in loads' :
                 \/ l.query = q /\ l.newest = TRUE /\ l.res = None
                 \/ l.newest = FALSE /\ \E k \in loads : l.query = k.query /\ l.res = k.res
<1>1. ASSUME NEW l \in loads'
      PROVE  \/ l.query = q /\ l.newest = TRUE /\ l.res = None
             \/ l.newest = FALSE /\ \E k \in loads : l.query = k.query /\ l.res = k.res
  <2>1. CASE \E k \in loads : l = [k EXCEPT !.newest = FALSE]
    <3>1. PICK k \in loads : l = [k EXCEPT !.newest = FALSE]
      BY <2>1
    <3>2. Load(k)
      BY DEF PagesTypeOK
    <3>3. l.newest = FALSE /\ l.query = k.query /\ l.res = k.res
      BY <3>1, <3>2 DEF Load
    <3> QED BY <3>3
  <2>2. CASE l = [query |-> q, newest |-> TRUE, res |-> None]
    BY <2>2
  <2> QED
    BY <1>1, <2>1, <2>2 DEF Start, Requested
<1> QED
  BY <1>1 DEF Start

LEMMA ServedLoads ==
    ASSUME PagesTypeOK, Served
    PROVE  \A k \in loads' : \/ k \in loads
                             \/ \E l \in loads : /\ k.query = l.query /\ k.newest = l.newest
                                                 /\ k.res = [x \in Asked(l.query) |-> row[x]]
<1>1. PICK l \in loads :
        loads' = (loads \ {l}) \cup {[l EXCEPT !.res = [x \in Asked(l.query) |-> row[x]]]}
  BY DEF Served
<1> DEFINE r == [x \in Asked(l.query) |-> row[x]]
           new == [l EXCEPT !.res = r]
<1> HIDE DEF r
<1>2. new.query = l.query /\ new.newest = l.newest /\ new.res = r
  BY DEF PagesTypeOK, Load
<1> HIDE DEF new
<1>3. loads' = (loads \ {l}) \cup {new}
  BY <1>1 DEF new, r
<1> QED
  BY <1>2, <1>3 DEF r

LEMMA TurnQuery ==
    ASSUME PagesTypeOK, QueryInv, Turn
    PROVE  QueryInv'
<1>1. PICK q \in Rows :
          /\ query' = q
          /\ IF P.keyed
             THEN /\ shown' = None
                  /\ loads' = {[query |-> q, newest |-> TRUE, res |-> None]}
                  /\ Blank
             ELSE Start(q)
  BY DEF Turn
<1>2. UNCHANGED here /\ turns' # 0
  BY PagesAssumption DEF Turn, PagesTypeOK
<1>3. CASE P.keyed
  <2>1. UnderWay' = {} /\ shown' = None /\ result' = None /\ \A l \in loads' : l.query = query'
    BY <1>1, <1>3, BlankTyped
  <2> QED BY <2>1 DEF QueryInv, SameQuery, NewestQuery
<1>4. CASE ~P.keyed
  <2>1. loading' = TRUE /\ \A l \in loads' : l.newest => l.query = query'
    BY <1>1, <1>4, StartQuery
  <2> QED BY <1>2, <1>4, <2>1 DEF QueryInv, SameQuery, NewestQuery, P
<1> QED BY <1>3, <1>4

LEMMA ServedQuery ==
    ASSUME PagesTypeOK, QueryInv, Served
    PROVE  QueryInv'
<1>1. UNCHANGED <<here, auth, place, row, query, turns, shown, result, loading, busy, act, ack>>
  BY DEF Served
<1>2. \A k \in loads' : \E o \in loads : k.query = o.query /\ k.newest = o.newest
  BY ServedLoads
<1> QED
  BY <1>1, <1>2 DEF QueryInv, SameQuery, NewestQuery, UnderWay, P

LEMMA ReturnedQuery ==
    ASSUME PagesTypeOK, QueryInv, NEW l \in loads, Returned(l)
    PROVE  QueryInv'
<1>1. UNCHANGED <<here, query, turns, result, act>> /\ loads' \subseteq loads
  BY DEF Returned
<1>2. shown' = None \/ shown' = shown \/ (shown' = [query |-> l.query, rows |-> l.res])
  BY DEF Returned
<1>3. SameQuery'
  BY <1>1, <1>2 DEF QueryInv, SameQuery, UnderWay, P
<1>4. P.guarded /\ P.loses =>
        IF l.newest THEN shown' = None \/ shown' = [query |-> l.query, rows |-> l.res]
        ELSE UNCHANGED <<shown, loading>>
  BY DEF Returned, Dropped
<1>5. NewestQuery'
  BY <1>1, <1>4 DEF QueryInv, NewestQuery, Following, P
<1> QED
  BY <1>3, <1>5 DEF QueryInv

LEMMA ClickQuery ==
    ASSUME PagesTypeOK, QueryInv, NEW x \in Rows, NEW a, Click(x, a)
    PROVE  QueryInv'
<1> DEFINE t == [on |-> x, row |-> Target(x), name |-> a, query |-> query,
                 saw |-> View.rows[x].ver, res |-> None]
<1>0. t.query = query /\ t.row = Target(x)
  OBVIOUS
<1> HIDE DEF t
<1>1. PICK i \in Slots : act' = [act EXCEPT ![i] = t]
  BY DEF Click, t
<1>2. UNCHANGED <<here, query, turns, shown, loading, loads>> /\ result' = None
  BY DEF Click
<1>3. \A k \in UnderWay' : \/ (act'[k].query = query /\ act'[k].row = Target(x))
                          \/ (k \in UnderWay /\ act'[k] = act[k])
  BY <1>0, <1>1 DEF PagesTypeOK, UnderWay
<1>4. P.target = "query" => Target(x) = query
  BY DEF Target
<1> QED
  BY <1>2, <1>3, <1>4 DEF QueryInv, SameQuery, NewestQuery, P

LEMMA ServeActQuery ==
    ASSUME PagesTypeOK, QueryInv, NEW i \in Slots, ServeAct(i)
    PROVE  QueryInv'
<1>1. UNCHANGED <<here, query, turns, shown, result, loading, loads>>
  BY DEF ServeAct
<1>2. i \in UnderWay /\ act[i] \in Sent /\ \E v : act' = [act EXCEPT ![i].res = v]
  BY DEF ServeAct, PagesTypeOK, UnderWay
<1>3. \A k \in UnderWay' : k \in UnderWay /\ act'[k].query = act[k].query /\ act'[k].row = act[k].row
  BY <1>2 DEF PagesTypeOK, UnderWay, Sent
<1> QED
  BY <1>1, <1>3 DEF QueryInv, SameQuery, NewestQuery, P

LEMMA HandledQuery ==
    ASSUME PagesTypeOK, QueryInv, NEW i \in Slots, ActReturns(i), act[i] \in Sent,
           NEW answer \in {act[i].res, None}, NEW then \in Aftermath(answer), Handled(i, answer, then)
    PROVE  QueryInv'
<1>1. UNCHANGED <<here, turns, query>>
  BY DEF Handled
<1>2. \A k \in UnderWay' : k \in UnderWay /\ act'[k] = act[k]
  BY HandledUnderWay
<1>3. i \in UnderWay
  BY DEF ActReturns, UnderWay
<1>4. CASE then = "reload" /\ Start(act[i].query) /\ UNCHANGED result
  <2>1. SameQuery'
    <3>1. ASSUME turns = 0 \/ P.keyed
          PROVE  /\ \A l \in loads' : l.query = query
                 /\ shown' # None => shown'.query = query
      BY <1>3, <1>4, <3>1, StartQuery DEF QueryInv, SameQuery
    <3> QED BY <1>1, <1>2, <1>4, <3>1 DEF QueryInv, SameQuery, P
  <2>2. P.guarded /\ ~P.keyed => ~Following(P)
    <3>1. P.offers # {}
      BY DEF Sent, Names
    <3>2. then \in P.done \cup P.refused \cup P.failed
      BY DEF Aftermath
    <3> QED BY <1>4, <3>1, <3>2 DEF Following
  <2> QED BY <1>1, <2>1, <2>2 DEF QueryInv, NewestQuery, P
<1>5. CASE UNCHANGED <<result, loads, loading>> /\ (shown' = None \/ (shown # None /\ shown'.query = shown.query))
  BY <1>1, <1>2, <1>5 DEF QueryInv, SameQuery, NewestQuery, P
<1>6. act[i].res # None => Patched(i) = None \/ (shown # None /\ Patched(i).query = shown.query)
  <2>1. ASSUME act[i].res # None, NEW v,
               Patched(i) = [query |-> shown.query, rows |-> [shown.rows EXCEPT ![act[i].on] = v]],
               Patched(i) # None
        PROVE  shown # None /\ Patched(i).query = shown.query
    BY <2>1 DEF Patched
  <2> QED BY <2>1, PatchedRow
<1>7. CASE "apart" \in P.done /\ result' = [on |-> act[i].row, is |-> act[i].res]
           /\ UNCHANGED <<shown, loads, loading>>
  <2>1. P.target = "query"
    BY <1>7, OpenPage DEF WellFormed, P
  <2> QED BY <1>1, <1>2, <1>3, <1>7, <2>1 DEF QueryInv, SameQuery, NewestQuery, P
<1> QED
  BY <1>4, <1>5, <1>6, <1>7 DEF Handled

LEMMA NextQuery ==
    ASSUME PagesTypeOK, Idle, QueryInv, Next
    PROVE  QueryInv'
<1>1. CASE Open \/ Visit \/ SignIn
  BY <1>1, ArriveQuery DEF Open, Visit, SignIn
<1>2. CASE UNCHANGED <<here, query, turns, shown, result, loading, loads, act>>
  BY <1>2 DEF QueryInv, SameQuery, NewestQuery, UnderWay, P
<1>3. CASE Known
  BY <1>2, <1>3, KnownCases, ArriveQuery
<1>4. CASE Leave
  <2>1. loads' = {} /\ UnderWay' = {} /\ shown' = None /\ result' = None
    BY <1>4 DEF Leave, Idle, Mounted, UnderWay
  <2> QED BY <2>1 DEF QueryInv, SameQuery, NewestQuery
<1>5. CASE Turn
  BY <1>5, TurnQuery
<1>6. CASE Again
  <2>1. UNCHANGED <<here, query, turns, result, act>> /\ Start(query)
    BY <1>6 DEF Again
  <2>2. \A l \in loads' : l.query = query \/ (~l.newest /\ \E k \in loads : l.query = k.query)
    BY <2>1, StartQuery
  <2>3. loading' = TRUE /\ (shown' = None \/ shown' = shown)
    BY <2>1, StartQuery
  <2> QED BY <2>1, <2>2, <2>3 DEF QueryInv, SameQuery, NewestQuery, UnderWay, P
<1>7. CASE Served
  BY <1>7, ServedQuery
<1>8. CASE \E l \in loads : Returned(l)
  BY <1>8, ReturnedQuery
<1>9. CASE \E x \in Rows : Others(x)
  BY <1>2, <1>9 DEF Others
<1>10. CASE \E x \in Rows, a \in Names : Click(x, a)
  BY <1>10, ClickQuery
<1>11. CASE \E i \in Slots : ServeAct(i)
  BY <1>11, ServeActQuery
<1>12. CASE \E i \in Slots : ActReturns(i)
  <2>1. PICK i \in Slots : ActReturns(i)
    BY <1>12
  <2>2. CASE Left
    <3>1. loads' = {} /\ UnderWay' = {} /\ shown' = None /\ result' = None
      BY <2>2, BlankTyped DEF Left
    <3> QED BY <3>1 DEF QueryInv, SameQuery, NewestQuery
  <2>3. CASE \E answer \in {act[i].res, None} : \E then \in Aftermath(answer) : Handled(i, answer, then)
    BY <2>1, <2>3, Outcomes, HandledQuery
  <2> QED BY <2>1, <2>2, <2>3, Outcomes, ArriveQuery
<1> QED
  BY <1>1, <1>3, <1>4, <1>5, <1>6, <1>7, <1>8, <1>9, <1>10, <1>11, <1>12, Steps

PageInv == PagesTypeOK /\ Bounded /\ Idle /\ Waits /\ QueryInv

\* The inductive invariant of every page: it is well typed, nothing goes on behind a page that is
\* not there, a page that says it loads waits for an answer it will take (the safety half of
\* PageSettles), and what is asked for, shown and acted on belongs to one query.
THEOREM PageCorrect == Spec => []PageInv
<1>1. Init => PageInv
  <2>1. Init => Idle /\ Waits /\ QueryInv
    BY DEF Init, Idle, Waits, QueryInv, SameQuery, NewestQuery, UnderWay
  <2> QED BY <2>1, InitTyped DEF PageInv
<1>2. PageInv /\ [Next]_vars => PageInv'
  <2>1. CASE Next
    BY <2>1, NextTyped, NextBounded, NextIdle, NextWaits, NextQuery DEF PageInv
  <2>2. CASE UNCHANGED vars
    <3>1. PageInv => Idle' /\ Waits' /\ QueryInv'
      BY <2>2 DEF vars, PageInv, Idle, Mounted, Waits, Dropped, QueryInv, SameQuery, NewestQuery, UnderWay, P
    <3> QED BY <2>2, <3>1, StutterTyped DEF PageInv
  <2> QED BY <2>1, <2>2
<1> QED
  BY <1>1, <1>2, PTL DEF Spec

\* The type invariant that the runs check.
THEOREM PagesTyped == Spec => []PagesTypeOK
<1>1. PagesTypeOK /\ Bounded => PagesTypeOK
  OBVIOUS
<1> QED
  BY <1>1, TypeCorrect, PTL

\* A page that shows an answer in place of what it loaded does not number its loads.
LEMMA AnswerAsked ==
    ASSUME PagesTypeOK, SameQuery, result # None, turns = 0 \/ P.guarded \/ P.keyed
    PROVE  result.on = query
<1>1. ~P.guarded
  BY OpenPage DEF PagesTypeOK, WellFormed, P
<1> QED
  BY <1>1 DEF SameQuery

BookFollows == \A p \in DOMAIN Book : Following(Book[p])

\* The answers of loads may come in any order: a page that numbers its loads, or is mounted anew
\* for another query, ends up with what it was last asked for.
THEOREM ShownCorrect ==
    ASSUME BookFollows
    PROVE  Spec => []ShowsWhatIsAsked
<1>1. PageInv => ShowsWhatIsAsked
  <2> SUFFICES ASSUME PageInv, Settled, View # None, turns = 0 \/ P.guarded \/ P.keyed
               PROVE  View.query = query
    BY DEF ShowsWhatIsAsked
  <2>1. Following(P)
    BY DEF PageInv, PagesTypeOK, Sites, BookFollows, P
  <2>2. CASE result = None
    BY <2>1, <2>2 DEF PageInv, QueryInv, SameQuery, NewestQuery, Settled, View
  <2>3. CASE result # None
    <3>1. result.on = query
      BY <2>3, AnswerAsked DEF PageInv, QueryInv
    <3>2. View.query = result.on
      BY <2>3 DEF View
    <3> QED BY <3>1, <3>2
  <2> QED BY <2>2, <2>3
<1> QED
  BY <1>1, PageCorrect, PTL

-----------------------------------------------------------------------------
(* The row an action is sent for.                                          *)

\* The row of the address and the row on the screen are the same when a button can be pressed.
LEMMA ClickTarget ==
    ASSUME PageInv, Following(P) \/ turns = 0, NEW x \in Rows, NEW a, Click(x, a),
           P.target = "row" \/ P.guarded \/ P.keyed \/ turns = 0
    PROVE  Target(x) = x
<1>1. CASE P.target = "row"
  BY <1>1 DEF Target
<1>2. CASE P.target # "row"
  <2>1. P.target = "query" /\ P.detail
    BY <1>2, OpenPage DEF PageInv, WellFormed, P
  <2>2. x = View.query
    BY <2>1, ViewTyped DEF Click, PageInv, Screen, Asked
  <2>3. CASE result = None
    <3>1. shown.query = query
      BY <1>2, <2>1, <2>3 DEF Click, PageInv, QueryInv, SameQuery, NewestQuery, Following
    <3> QED BY <1>2, <2>2, <2>3, <3>1 DEF Target, View
  <2>4. CASE result # None
    <3>1. result.on = query
      BY <1>2, <2>4, AnswerAsked DEF PageInv, QueryInv
    <3>2. View.query = result.on
      BY <2>4 DEF View
    <3> QED BY <1>2, <2>2, <3>1, <3>2 DEF Target
  <2> QED BY <2>3, <2>4
<1> QED BY <1>1, <1>2

LEMMA NextOnTarget ==
    ASSUME PageInv, BookFollows, ActsOnWhatIsShown, Next
    PROVE  ActsOnWhatIsShown'
<1>1. CASE UNCHANGED here /\ (turns' = 0 => turns = 0)
           /\ \A k \in UnderWay' : k \in UnderWay /\ act'[k].row = act[k].row /\ act'[k].on = act[k].on
  BY <1>1 DEF ActsOnWhatIsShown, P
<1>2. CASE UnderWay' = {}
  BY <1>2 DEF ActsOnWhatIsShown
<1>3. CASE UNCHANGED <<here, turns, act>>
  BY <1>1, <1>3 DEF UnderWay
<1>4. CASE Open \/ Visit \/ SignIn
  BY <1>2, <1>4, BlankTyped DEF Open, Visit, SignIn, Arrive
<1>5. CASE Known
  BY <1>2, <1>3, <1>5, KnownCases, BlankTyped DEF Arrive
<1>6. CASE Leave
  BY <1>2, <1>6 DEF Leave, PageInv, Idle, Mounted, UnderWay
<1>7. CASE Turn
  <2>1. UNCHANGED here /\ turns' # 0 /\ (UNCHANGED act \/ Blank)
    BY <1>7, PagesAssumption DEF Turn, PageInv, PagesTypeOK
  <2> QED BY <1>1, <1>2, <2>1, BlankTyped DEF UnderWay
<1>8. CASE Again \/ Served \/ (\E l \in loads : Returned(l)) \/ (\E x \in Rows : Others(x))
  BY <1>3, <1>8 DEF Again, Served, Returned, Others
<1>9. CASE \E x \in Rows, a \in Names : Click(x, a)
  <2>1. PICK x \in Rows, a \in Names : Click(x, a)
    BY <1>9
  <2>2. PICK i \in Slots : act' = [act EXCEPT ![i] = [on |-> x, row |-> Target(x), name |-> a, query |-> query,
                                                    saw |-> View.rows[x].ver, res |-> None]]
    BY <2>1 DEF Click
  <2>3. UNCHANGED <<here, turns>>
    BY <2>1 DEF Click
  <2>4. \A k \in UnderWay' :
          \/ k \in UnderWay /\ act'[k] = act[k]
          \/ act'[k].on = x /\ act'[k].row = Target(x)
    BY <2>2 DEF PageInv, PagesTypeOK, UnderWay
  <2>5. Following(P)
    BY DEF PageInv, PagesTypeOK, Sites, BookFollows, P
  <2> QED BY <2>1, <2>3, <2>4, <2>5, ClickTarget DEF ActsOnWhatIsShown, P
<1>10. CASE \E i \in Slots : ServeAct(i)
  <2>1. PICK i \in Slots : ServeAct(i)
    BY <1>10
  <2>2. i \in UnderWay /\ act[i] \in Sent /\ \E v : act' = [act EXCEPT ![i].res = v]
    BY <2>1 DEF ServeAct, PageInv, PagesTypeOK, UnderWay
  <2>3. \A k \in UnderWay' : k \in UnderWay /\ act'[k].row = act[k].row /\ act'[k].on = act[k].on
    BY <2>2 DEF PageInv, PagesTypeOK, UnderWay, Sent
  <2>4. UNCHANGED <<here, turns>>
    BY <2>1 DEF ServeAct
  <2> QED BY <1>1, <2>3, <2>4
<1>11. CASE \E i \in Slots : ActReturns(i)
  <2>1. PICK i \in Slots : ActReturns(i)
    BY <1>11
  <2>2. CASE Left \/ Arrive("checking")
    BY <1>2, <2>2, BlankTyped DEF Left, Arrive
  <2>3. CASE \E answer \in {act[i].res, None} : \E then \in Aftermath(answer) : Handled(i, answer, then)
    <3>1. UNCHANGED <<here, turns>> /\ \A k \in UnderWay' : k \in UnderWay /\ act'[k] = act[k]
      BY <2>1, <2>3, HandledUnderWay DEF Handled, PageInv
    <3> QED BY <1>1, <3>1
  <2> QED BY <2>1, <2>2, <2>3, Outcomes DEF PageInv
<1> QED
  BY <1>4, <1>5, <1>6, <1>7, <1>8, <1>9, <1>10, <1>11, Steps

\* A page that takes the row of an action from the address acts on the row that is shown, unless
\* its query changed and it neither numbers its loads nor is mounted anew.
THEOREM TargetCorrect ==
    ASSUME BookFollows
    PROVE  Spec => []ActsOnWhatIsShown
<1>1. Init => ActsOnWhatIsShown
  BY DEF Init, ActsOnWhatIsShown, UnderWay
<1>2. PageInv /\ ActsOnWhatIsShown /\ [Next]_vars => ActsOnWhatIsShown'
  <2>1. ASSUME ActsOnWhatIsShown, UNCHANGED vars
        PROVE  ActsOnWhatIsShown'
    BY <2>1 DEF ActsOnWhatIsShown, vars, UnderWay, P
  <2> QED BY <2>1, NextOnTarget
<1> QED
  BY <1>1, <1>2, PageCorrect, PTL DEF Spec

-----------------------------------------------------------------------------
(* Which version of a row a page knows, and what the API makes of it.      *)

\* The number of a commit names one state of a row in r.
Seen(r, x, v) == v.ver <= r[x].ver /\ (v.ver = r[x].ver => v.st = r[x].st)

Accepted(kind, s, a) == \E m \in Moves[kind] : m[1] = s /\ m[2] = a

\* The API never refuses the action.
Always(p, a) == \A s \in Statuses[p.kind] : Accepted(p.kind, s, a) /\ <<p.kind, s, a>> \notin Conditional

\* Whatever the page shows was the state of that row: no handler makes it up, and no answer of an
\* action covers what was loaded.
Plain(p) == "answer" \notin p.refused /\ ("answer" \in p.done => p.target = "row") /\ "apart" \notin p.done

\* What a page offers because of the status it shows is what the handlers accept in that status.
Honest(p) ==
    \A o \in p.offers :
        o[2] \in p.blind \/ Always(p, o[2]) \/ (Plain(p) /\ Accepted(p.kind, o[1], o[2]))

\* An action under way on page p, with the rows r.
Answered(p, r, t) ==
    /\ t.res \notin {None, Refused} => Seen(r, t.row, t.res)
    /\ p.target = "row" => t.row = t.on
    /\ Always(p, t.name) => t.res # Refused
    /\ Plain(p) /\ t.row = t.on /\ t.name \notin p.blind /\ ~Always(p, t.name) =>
          /\ t.saw <= r[t.row].ver
          /\ t.saw = r[t.row].ver =>
                /\ t.res = Refused => <<p.kind, r[t.row].st, t.name>> \in Conditional
                /\ t.res = None => Accepted(p.kind, r[t.row].st, t.name)

SeenLoads == \A l \in loads : l.res # None => \A x \in DOMAIN l.res : Seen(row, x, l.res[x])
SeenActs == \A i \in UnderWay : Answered(here, row, act[i])
SeenShown == Plain(here) /\ shown # None => \A x \in DOMAIN shown.rows : Seen(row, x, shown.rows[x])

VersionInv == SeenLoads /\ SeenActs /\ SeenShown

LEMMA SeenMove ==
    ASSUME PagesTypeOK, NEW x \in Rows, NEW s, Move(x, s), NEW y \in Rows, NEW v, v.ver \in Nat, Seen(row, y, v)
    PROVE  Seen(row', y, v)
<1>1. row[y].ver \in Nat /\ row' = [row EXCEPT ![x] = [st |-> s, ver |-> row[x].ver + 1]]
  BY DEF PagesTypeOK, Version, Move
<1>2. row'[y].ver = IF y = x THEN row[y].ver + 1 ELSE row[y].ver
  BY <1>1 DEF PagesTypeOK
<1>3. y # x => row'[y] = row[y]
  BY <1>1 DEF PagesTypeOK
<1> QED
  BY <1>1, <1>2, <1>3 DEF Seen

LEMMA AnsweredMove ==
    ASSUME PagesTypeOK, NEW x \in Rows, NEW s, Move(x, s), NEW t \in Sent, Answered(here, row, t)
    PROVE  Answered(here, row', t)
<1>1. t.row \in Rows /\ t.saw \in Nat /\ row[t.row].ver \in Nat
      /\ row' = [row EXCEPT ![x] = [st |-> s, ver |-> row[x].ver + 1]]
  BY DEF PagesTypeOK, Sent, Version, Move
<1>2. t.res \notin {None, Refused} => Seen(row', t.row, t.res)
  <2>1. t.res \notin {None, Refused} => t.res.ver \in Nat
    BY DEF Sent, Version
  <2> QED BY <1>1, <2>1, SeenMove DEF Answered
<1>3. row'[t.row].ver = IF t.row = x THEN row[t.row].ver + 1 ELSE row[t.row].ver
  BY <1>1 DEF PagesTypeOK
<1>4. t.row # x => row'[t.row] = row[t.row]
  BY <1>1 DEF PagesTypeOK
<1> QED
  BY <1>1, <1>2, <1>3, <1>4 DEF Answered

LEMMA ResetVersions ==
    ASSUME UnderWay' = {}, shown' = None, \A l \in loads' : l.res = None
    PROVE  VersionInv'
BY DEF VersionInv, SeenLoads, SeenActs, SeenShown

LEMMA ArriveVersions ==
    ASSUME NEW s, Arrive(s)
    PROVE  VersionInv'
<1>1. UnderWay' = {} /\ shown' = None /\ \A l \in loads' : l.res = None
  BY BlankTyped DEF Arrive
<1> QED
  BY <1>1, ResetVersions

LEMMA StartVersions ==
    ASSUME PagesTypeOK, VersionInv, NEW q, Start(q), UNCHANGED <<here, row>>
    PROVE  SeenLoads' /\ SeenShown'
<1>1. \A l \in loads' : l.res = None \/ \E k \in loads : l.res = k.res
  BY StartQuery
<1>2. shown' = None \/ shown' = shown
  BY StartQuery
<1> QED
  BY <1>1, <1>2 DEF VersionInv, SeenLoads, SeenShown

LEMMA TurnVersions ==
    ASSUME PagesTypeOK, VersionInv, Turn
    PROVE  VersionInv'
<1>1. PICK q \in Rows :
          IF P.keyed
          THEN /\ shown' = None
               /\ loads' = {[query |-> q, newest |-> TRUE, res |-> None]}
               /\ Blank
          ELSE Start(q) /\ UNCHANGED <<result, busy, act, ack>>
  BY DEF Turn
<1>2. UNCHANGED <<here, row>>
  BY DEF Turn
<1>3. CASE P.keyed
  BY <1>1, <1>3, BlankTyped, ResetVersions
<1>4. CASE ~P.keyed
  BY <1>1, <1>2, <1>4, StartVersions DEF VersionInv, SeenActs, UnderWay
<1> QED BY <1>3, <1>4

LEMMA ServedVersions ==
    ASSUME PagesTypeOK, VersionInv, Served
    PROVE  VersionInv'
<1>1. UNCHANGED <<here, row, shown, act>>
  BY DEF Served
<1>2. ASSUME NEW k \in loads', k.res # None, NEW x \in DOMAIN k.res
      PROVE  Seen(row, x, k.res[x])
  <2>1. CASE k \in loads
    BY <1>2, <2>1 DEF VersionInv, SeenLoads
  <2>2. CASE \E l \in loads : k.res = [y \in Asked(l.query) |-> row[y]]
    <3>1. k.res[x] = row[x]
      BY <1>2, <2>2
    <3>2. x \in Rows
      BY <1>2, <2>2 DEF Asked, PagesTypeOK, Load
    <3> QED
      BY <3>1, <3>2 DEF Seen, PagesTypeOK, Version
  <2> QED BY <2>1, <2>2, ServedLoads
<1> QED
  BY <1>1, <1>2 DEF VersionInv, SeenLoads, SeenActs, SeenShown, UnderWay

LEMMA ReturnedVersions ==
    ASSUME PagesTypeOK, VersionInv, NEW l \in loads, Returned(l)
    PROVE  VersionInv'
<1>1. UNCHANGED <<here, row, act>> /\ loads' \subseteq loads
  BY DEF Returned
<1>2. shown' = None \/ shown' = shown \/ (l.res # None /\ shown' = [query |-> l.query, rows |-> l.res])
  BY DEF Returned
<1>3. SeenShown'
  BY <1>1, <1>2 DEF VersionInv, SeenLoads, SeenShown
<1> QED
  BY <1>1, <1>3 DEF VersionInv, SeenLoads, SeenActs, UnderWay

\* A commit leaves what was read before it as it is.
LEMMA MoveVersions ==
    ASSUME PagesTypeOK, VersionInv, NEW x \in Rows, NEW s, Move(x, s), UNCHANGED <<here, shown, loads>>
    PROVE  SeenLoads' /\ SeenShown'
<1>1. ASSUME NEW l \in loads, l.res # None, NEW y \in DOMAIN l.res
      PROVE  Seen(row', y, l.res[y])
  <2>1. l.res \in [Asked(l.query) -> Version] /\ Asked(l.query) \subseteq Rows
    BY <1>1 DEF PagesTypeOK, Load, Asked
  <2>2. y \in Rows /\ l.res[y].ver \in Nat
    BY <1>1, <2>1 DEF Version
  <2> QED BY <1>1, <2>2, SeenMove DEF VersionInv, SeenLoads
<1>2. ASSUME Plain(here), shown # None, NEW y \in DOMAIN shown.rows
      PROVE  Seen(row', y, shown.rows[y])
  <2>1. y \in Rows /\ shown.rows[y].ver \in Nat
    BY <1>2 DEF PagesTypeOK, Screen, Asked, Version
  <2> QED BY <1>2, <2>1, SeenMove DEF VersionInv, SeenShown
<1> QED
  BY <1>1, <1>2 DEF SeenLoads, SeenShown

LEMMA OthersVersions ==
    ASSUME PagesTypeOK, VersionInv, NEW x \in Rows, Others(x)
    PROVE  VersionInv'
<1>1. PICK m \in Moves[P.kind] : Move(x, m[3])
  BY DEF Others
<1>2. UNCHANGED <<here, shown, loads, act>>
  BY DEF Others
<1>3. \A i \in UnderWay : act[i] \in Sent
  BY DEF PagesTypeOK, UnderWay
<1>4. SeenActs'
  BY <1>1, <1>2, <1>3, AnsweredMove DEF VersionInv, SeenActs, UnderWay
<1> QED
  BY <1>1, <1>2, <1>4, MoveVersions DEF VersionInv

LEMMA ClickVersions ==
    ASSUME PagesTypeOK, VersionInv, Honest(here), NEW x \in Rows, NEW a, Click(x, a)
    PROVE  VersionInv'
<1> DEFINE t == [on |-> x, row |-> Target(x), name |-> a, query |-> query,
                 saw |-> View.rows[x].ver, res |-> None]
           st == View.rows[x].st
<1>1. UNCHANGED <<here, row, shown, loads>> /\ \E i \in Slots \ UnderWay : act' = [act EXCEPT ![i] = t]
  BY DEF Click
<1>2. x \in DOMAIN View.rows /\ (result # None \/ shown # None) /\ <<st, a>> \in here.offers
  BY DEF Click, Offered, P
<1>3. t.res = None /\ t.name = a /\ t.on = x /\ t.saw = View.rows[x].ver /\ t.row = Target(x)
  OBVIOUS
<1> HIDE DEF t
<1>4. here.target = "row" => Target(x) = x
  BY DEF Target, P
<1>5. ASSUME Plain(here), Target(x) = x, a \notin here.blind, ~Always(here, a)
      PROVE  /\ t.saw <= row[x].ver
             /\ t.saw = row[x].ver => Accepted(here.kind, row[x].st, a)
  <2>1. View = shown /\ shown # None
    BY <1>2, <1>5 DEF Plain, PagesTypeOK, View, P
  <2>2. Seen(row, x, View.rows[x])
    BY <1>2, <1>5, <2>1 DEF VersionInv, SeenShown
  <2>3. Accepted(here.kind, st, a)
    BY <1>2, <1>5 DEF Honest
  <2> QED BY <1>3, <2>2, <2>3 DEF Seen
<1>6. Answered(here, row, t)
  BY <1>3, <1>4, <1>5, PagesAssumption DEF Answered
<1>7. \A k \in UnderWay' : act'[k] = t \/ (k \in UnderWay /\ act'[k] = act[k])
  BY <1>1 DEF PagesTypeOK, UnderWay
<1> QED
  BY <1>1, <1>6, <1>7 DEF VersionInv, SeenLoads, SeenActs, SeenShown

LEMMA ServeActVersions ==
    ASSUME PagesTypeOK, Bounded, VersionInv, NEW i \in Slots, ServeAct(i)
    PROVE  VersionInv'
<1> DEFINE x == act[i].row
<1>1. UNCHANGED <<here, shown, loads>>
  BY DEF ServeAct
<1>2. act[i] \in Sent /\ x \in Rows /\ i \in Unserved /\ i \in UnderWay /\ act[i].res = None
  BY DEF ServeAct, PagesTypeOK, Sent, Unserved, UnderWay
<1>3. \A k \in UnderWay : act[k] \in Sent
  BY DEF PagesTypeOK, UnderWay
<1>4. ASSUME NEW v, act' = [act EXCEPT ![i].res = v], Answered(here, row', [act[i] EXCEPT !.res = v]),
             \A k \in UnderWay : Answered(here, row', act[k])
      PROVE  SeenActs'
  <2>1. \A k \in UnderWay' : act'[k] = [act[i] EXCEPT !.res = v] \/ (k \in UnderWay /\ act'[k] = act[k])
    BY <1>2, <1>4 DEF PagesTypeOK, UnderWay
  <2> QED BY <1>1, <1>4, <2>1 DEF SeenActs
<1>5. CASE /\ ~Accepts(row[x].st, act[i].name) \/ <<P.kind, row[x].st, act[i].name>> \in Conditional
           /\ act' = [act EXCEPT ![i].res = Refused] /\ UNCHANGED row
  <2>1. Accepted(here.kind, row[x].st, act[i].name) => <<here.kind, row[x].st, act[i].name>> \in Conditional
    BY <1>5 DEF Accepts, Accepted, P
  <2>2. ~Always(here, act[i].name)
    BY <1>2, <2>1 DEF Always, PagesTypeOK, Version, P
  <2> DEFINE t == [act[i] EXCEPT !.res = Refused]
  <2>3. t.res = Refused /\ t.row = act[i].row /\ t.on = act[i].on /\ t.name = act[i].name /\ t.saw = act[i].saw
    BY <1>2 DEF Sent
  <2> HIDE DEF t
  <2>4. Answered(here, row, act[i])
    BY <1>2 DEF VersionInv, SeenActs
  <2>5. Answered(here, row, t)
    BY <1>2, <2>1, <2>2, <2>3, <2>4, PagesAssumption DEF Answered
  <2> QED
    BY <1>1, <1>4, <1>5, <2>5 DEF VersionInv, SeenLoads, SeenActs, SeenShown, t
<1>6. CASE \E m \in Moves[P.kind] :
              Move(x, m[3]) /\ act' = [act EXCEPT ![i].res = [st |-> m[3], ver |-> row[x].ver + 1]]
  <2>1. PICK m \in Moves[P.kind] :
              Move(x, m[3]) /\ act' = [act EXCEPT ![i].res = [st |-> m[3], ver |-> row[x].ver + 1]]
    BY <1>6
  <2> DEFINE v == [st |-> m[3], ver |-> row[x].ver + 1]
             t == [act[i] EXCEPT !.res = v]
  <2>2. v \in Version /\ row'[x] = v
    BY <1>2, <2>1, MayMove, MoveTyped DEF Move, PagesTypeOK
  <2>3. v # None /\ v # Refused
    BY <2>2, AnswerIsNeither
  <2>4. Seen(row', x, v)
    BY <2>2 DEF Seen, Version
  <2> HIDE DEF v
  <2>5. t.res = v /\ t.row = act[i].row /\ t.on = act[i].on /\ t.name = act[i].name /\ t.saw = act[i].saw
    BY <1>2 DEF Sent
  <2> HIDE DEF t
  <2>6. \A k \in UnderWay : Answered(here, row', act[k])
    BY <1>2, <1>3, <2>1, AnsweredMove DEF VersionInv, SeenActs
  <2>7. Answered(here, row', t)
    BY <1>2, <2>3, <2>4, <2>5, <2>6 DEF Answered
  <2>8. SeenActs'
    BY <1>4, <2>1, <2>6, <2>7 DEF t, v
  <2> QED
    BY <1>1, <1>2, <2>1, <2>8, MoveVersions DEF VersionInv
<1>7. CASE UNCHANGED row /\ act' = [act EXCEPT ![i].res = row[x]]
  <2> DEFINE v == row[x]
             t == [act[i] EXCEPT !.res = v]
  <2>1. v # None /\ v # Refused /\ Seen(row, x, v)
    BY <1>2, AnswerIsNeither DEF Seen, PagesTypeOK, Version
  <2>2. t.res = v /\ t.row = act[i].row /\ t.on = act[i].on /\ t.name = act[i].name /\ t.saw = act[i].saw
    BY <1>2 DEF Sent
  <2> HIDE DEF v, t
  <2>3. Answered(here, row, act[i])
    BY <1>2 DEF VersionInv, SeenActs
  <2>4. Answered(here, row, t)
    BY <1>2, <2>1, <2>2, <2>3 DEF Answered
  <2> QED
    BY <1>1, <1>4, <1>7, <2>4 DEF VersionInv, SeenLoads, SeenActs, SeenShown, v, t
<1> QED
  BY <1>5, <1>6, <1>7 DEF ServeAct

LEMMA HandledVersions ==
    ASSUME PagesTypeOK, VersionInv, NEW i \in Slots, ActReturns(i), act[i] \in Sent,
           NEW answer \in {act[i].res, None}, NEW then \in Aftermath(answer), Handled(i, answer, then)
    PROVE  VersionInv'
<1>1. UNCHANGED <<here, row>>
  BY DEF Handled
<1>2. SeenActs'
  BY <1>1, HandledUnderWay DEF VersionInv, SeenActs
<1>3. i \in UnderWay
  BY DEF ActReturns, UnderWay
<1>4. CASE Start(act[i].query)
  BY <1>1, <1>2, <1>4, StartVersions DEF VersionInv
<1>5. CASE UNCHANGED loads /\ (shown' = None \/ shown' = shown)
  BY <1>1, <1>2, <1>5 DEF VersionInv, SeenLoads, SeenShown
<1>6. CASE UNCHANGED loads /\ then = "answer" /\ answer # None /\ answer = act[i].res /\ shown' = Patched(i)
  <2>1. SeenLoads'
    BY <1>1, <1>6 DEF VersionInv, SeenLoads
  <2>2. ASSUME Plain(here), shown' # shown
        PROVE  \A x \in DOMAIN shown'.rows : Seen(row', x, shown'.rows[x])
    <3>1. act[i].res # Refused /\ "answer" \in here.done
      BY <1>6, <2>2 DEF Plain, Aftermath, P
    <3>2. act[i].row = act[i].on /\ Seen(row, act[i].row, act[i].res)
      BY <1>3, <1>6, <2>2, <3>1 DEF VersionInv, SeenActs, Answered, Plain
    <3>3. Screen(shown) /\ shown # None /\ act[i].on \in DOMAIN shown.rows
          /\ shown' = [query |-> shown.query, rows |-> [shown.rows EXCEPT ![act[i].on] = act[i].res]]
      BY <1>6, <2>2, <3>1, PatchedRow DEF Patched
    <3>4. \A x \in DOMAIN shown.rows : Seen(row, x, shown.rows[x])
      BY <2>2, <3>3 DEF VersionInv, SeenShown
    <3> QED
      BY <1>1, <3>2, <3>3, <3>4 DEF Screen
  <2>3. SeenShown'
    BY <1>1, <2>2 DEF VersionInv, SeenShown
  <2> QED BY <1>2, <2>1, <2>3 DEF VersionInv
<1> QED
  BY <1>4, <1>5, <1>6 DEF Handled

LEMMA NextVersions ==
    ASSUME PageInv, VersionInv, Honest(here), Next
    PROVE  VersionInv'
<1> USE DEF PageInv
<1>1. CASE Open \/ Visit \/ SignIn
  BY <1>1, ArriveVersions DEF Open, Visit, SignIn
<1>2. CASE UNCHANGED <<here, row, shown, loads, act>>
  BY <1>2 DEF VersionInv, SeenLoads, SeenActs, SeenShown, UnderWay
<1>3. CASE Known
  BY <1>2, <1>3, KnownCases, ArriveVersions
<1>4. CASE Leave
  <2>1. loads' = {} /\ UnderWay' = {} /\ shown' = None
    BY <1>4 DEF Leave, Idle, Mounted, UnderWay
  <2> QED BY <2>1, ResetVersions
<1>5. CASE Turn
  BY <1>5, TurnVersions
<1>6. CASE Again
  <2>1. UNCHANGED <<here, row, act>> /\ Start(query)
    BY <1>6 DEF Again
  <2> QED BY <2>1, StartVersions DEF VersionInv, SeenActs, UnderWay
<1>7. CASE Served
  BY <1>7, ServedVersions
<1>8. CASE \E l \in loads : Returned(l)
  BY <1>8, ReturnedVersions
<1>9. CASE \E x \in Rows : Others(x)
  BY <1>9, OthersVersions
<1>10. CASE \E x \in Rows, a \in Names : Click(x, a)
  BY <1>10, ClickVersions
<1>11. CASE \E i \in Slots : ServeAct(i)
  BY <1>11, ServeActVersions
<1>12. CASE \E i \in Slots : ActReturns(i)
  <2>1. PICK i \in Slots : ActReturns(i)
    BY <1>12
  <2>2. CASE Left
    BY <2>2, BlankTyped, ResetVersions DEF Left
  <2>3. CASE \E answer \in {act[i].res, None} : \E then \in Aftermath(answer) : Handled(i, answer, then)
    BY <2>1, <2>3, Outcomes, HandledVersions
  <2> QED BY <2>1, <2>2, <2>3, Outcomes, ArriveVersions
<1> QED
  BY <1>1, <1>3, <1>4, <1>5, <1>6, <1>7, <1>8, <1>9, <1>10, <1>11, <1>12, Steps

BookHonest == \A p \in DOMAIN Book : Honest(Book[p])

LEMMA OpenHonest ==
    ASSUME PagesTypeOK, BookHonest
    PROVE  Honest(here)
BY DEF PagesTypeOK, Sites, BookHonest

\* Whatever loads, actions and other clients overlap, a page that offers what the handlers accept
\* is refused only when somebody moved the row after it was loaded, or by one of the handlers that
\* ask more than its status.
THEOREM OfferedCorrect ==
    ASSUME BookHonest
    PROVE  Spec => []RefusedOnlyIfOvertaken
<1>1. Init => VersionInv
  BY DEF Init, VersionInv, SeenLoads, SeenActs, SeenShown, UnderWay
<1>2. PageInv /\ VersionInv /\ [Next]_vars => VersionInv'
  <2>1. ASSUME VersionInv, UNCHANGED vars
        PROVE  VersionInv'
    BY <2>1 DEF VersionInv, SeenLoads, SeenActs, SeenShown, UnderWay, vars
  <2> QED BY <2>1, NextVersions, OpenHonest DEF PageInv
<1>3. PageInv /\ VersionInv => RefusedOnlyIfOvertaken
  <2> SUFFICES ASSUME PageInv, VersionInv, NEW i \in UnderWay,
                      act[i].res = Refused, act[i].row = act[i].on, act[i].name \notin P.blind
               PROVE  \/ row[act[i].row].ver > act[i].saw
                      \/ <<P.kind, row[act[i].row].st, act[i].name>> \in Conditional
    BY DEF RefusedOnlyIfOvertaken
  <2>1. act[i] \in Sent /\ Answered(here, row, act[i])
    BY DEF PageInv, PagesTypeOK, UnderWay, VersionInv, SeenActs
  <2>2. row[act[i].row].ver \in Nat /\ act[i].saw \in Nat
    BY <2>1 DEF PageInv, PagesTypeOK, Version, Sent
  <2>3. PICK o \in here.offers : o[2] = act[i].name
    BY <2>1 DEF Sent, Names, P
  <2>4. Plain(here) /\ ~Always(here, act[i].name)
    BY <2>1, <2>3, OpenHonest DEF PageInv, Honest, Answered, P
  <2> QED
    BY <2>1, <2>2, <2>4 DEF Answered, P
<1> QED
  BY <1>1, <1>2, <1>3, PageCorrect, PTL DEF Spec

-----------------------------------------------------------------------------
(* What a page was told, and what it shows after that.                     *)

\* The pages of ReadYourWrites.
Strict(p) == p.busy = "page" /\ ~p.polls /\ "stay" \notin p.done

\* What such a page must do besides: when it numbers its loads, drop what it showed if the newest
\* fails, and end an action with a load; when it does not, show nothing while it loads, so that
\* nothing can be pressed before the only load is back.
Confirming(p) == Strict(p) => IF p.guarded THEN p.loses /\ "answer" \notin p.done ELSE ~p.keeps

UpTo(rows, a) == \A x \in DOMAIN rows : a[x] <= rows[x].ver

\* A component is told of commits only.
AckInv == \A x \in Rows : ack[x] <= row[x].ver

\* One action at a time, whose answer is news.
AloneInv ==
    P.busy = "page" =>
        /\ \A i, j \in UnderWay : i = j
        /\ \A i \in UnderWay : /\ busy # None
                               /\ act[i].res \notin {None, Refused} => ack[act[i].row] <= act[i].res.ver

\* The newest load of a page that numbers them was sent after the last answer.
NewestInv ==
    Strict(P) /\ P.guarded =>
        /\ \A l \in loads : l.newest /\ l.res # None => UpTo(l.res, ack)
        /\ shown # None /\ ~loading => UpTo(shown.rows, ack)

\* Any other page has one load under way, and no action meanwhile; one that shows an answer in place
\* of what it loaded does neither.
OnlyInv ==
    Strict(P) /\ ~P.guarded /\ turns = 0 =>
        /\ \A l \in loads : l.res # None => UpTo(l.res, ack)
        /\ shown # None /\ "apart" \notin P.done => UpTo(shown.rows, ack)
        /\ result # None => shown # None /\ loads = {} /\ UnderWay = {} /\ ack[result.on] <= result.is.ver
        /\ \A l, k \in loads : l = k
        /\ loads # {} => loading
        /\ \A i \in UnderWay : act[i].row = act[i].on /\ loads = {} /\ shown # None

ToldInv == AckInv /\ AloneInv /\ NewestInv /\ OnlyInv

LEMMA OneLoad ==
    ASSUME NEW q, NEW S, S \subseteq {[query |-> q, newest |-> TRUE, res |-> None]}
    PROVE  \A l, k \in S : l = k /\ l.res = None
<1> DEFINE one == [query |-> q, newest |-> TRUE, res |-> None]
<1>1. one.res = None /\ S \subseteq {one}
  OBVIOUS
<1> HIDE DEF one
<1> QED BY <1>1

LEMMA ResetTold ==
    ASSUME PagesTypeOK', UnderWay' = {}, shown' = None, result' = None, ack' = [x \in Rows |-> 0],
           NEW q, loads' \subseteq {[query |-> q, newest |-> TRUE, res |-> None]}, loads' # {} => loading'
    PROVE  ToldInv'
<1>1. AckInv'
  BY DEF AckInv, PagesTypeOK, Version
<1>2. \A l, k \in loads' : l = k /\ l.res = None
  BY OneLoad
<1> QED
  BY <1>1, <1>2 DEF ToldInv, AloneInv, NewestInv, OnlyInv

LEMMA ArriveTold ==
    ASSUME PagesTypeOK', NEW s, Arrive(s)
    PROVE  ToldInv'
<1>1. /\ UnderWay' = {} /\ shown' = None /\ result' = None /\ ack' = [x \in Rows |-> 0]
      /\ loads' \subseteq {[query |-> query, newest |-> TRUE, res |-> None]}
      /\ loads' # {} => loading'
  BY BlankTyped DEF Arrive, Blank
<1> QED
  BY <1>1, ResetTold

LEMMA TurnTold ==
    ASSUME PagesTypeOK, PagesTypeOK', ToldInv, Turn
    PROVE  ToldInv'
<1>1. PICK q \in Rows :
          IF P.keyed
          THEN /\ shown' = None
               /\ loading' = TRUE
               /\ loads' = {[query |-> q, newest |-> TRUE, res |-> None]}
               /\ Blank
          ELSE Start(q) /\ UNCHANGED <<result, busy, act, ack>>
  BY DEF Turn
<1>2. UNCHANGED <<here, row>> /\ turns' # 0
  BY PagesAssumption DEF Turn, PagesTypeOK
<1>3. CASE P.keyed
  <2>1. UnderWay' = {} /\ result' = None /\ ack' = [x \in Rows |-> 0]
    BY <1>1, <1>3, BlankTyped DEF Blank
  <2>2. shown' = None /\ loading' = TRUE /\ loads' \subseteq {[query |-> q, newest |-> TRUE, res |-> None]}
    BY <1>1, <1>3
  <2> QED BY <2>1, <2>2, ResetTold
<1>4. CASE ~P.keyed
  <2>1. loading' = TRUE /\ \A l \in loads' : l.newest => l.res = None
    BY <1>1, <1>4, StartQuery
  <2>2. UNCHANGED <<busy, act, ack>>
    BY <1>1, <1>4
  <2> QED
    BY <1>2, <2>1, <2>2 DEF ToldInv, AckInv, AloneInv, NewestInv, OnlyInv, UnderWay, P
<1> QED BY <1>3, <1>4

LEMMA AgainTold ==
    ASSUME PagesTypeOK, ToldInv, Again
    PROVE  ToldInv'
<1>1. UNCHANGED <<here, row, turns, result, busy, act, ack>> /\ Start(query) /\ ~loading
  BY DEF Again
<1>2. loading' = TRUE /\ \A l \in loads' : l.newest => l.res = None
  BY <1>1, StartQuery
<1>3. shown' = None \/ (P.keeps /\ shown' = shown)
  BY <1>1, StartQuery
<1>4. Again /\ Strict(P) => shown = None
  BY DEF Again, Strict
<1>5. loads = {} => loads' = {[query |-> query, newest |-> TRUE, res |-> None]}
  BY <1>1 DEF Start, Requested
<1>6. ASSUME Strict(P), ~P.guarded, turns = 0
      PROVE  /\ \A l, k \in loads' : l = k /\ l.res = None
             /\ shown' = None /\ result' = None /\ UnderWay' = {}
  <2>1. loads = {}
    BY <1>1, <1>6 DEF ToldInv, OnlyInv
  <2>2. shown' = None /\ shown = None /\ result' = None
    BY <1>1, <1>3, <1>4, <1>6 DEF ToldInv, OnlyInv
  <2>3. UnderWay = {}
    BY <1>6, <2>2 DEF ToldInv, OnlyInv
  <2>4. UnderWay' = {}
    BY <1>1, <2>3 DEF UnderWay
  <2> QED
    BY <1>5, <2>1, <2>2, <2>4, OneLoad
<1>7. OnlyInv'
  <2>1. ASSUME (Strict(P) /\ ~P.guarded /\ turns = 0)'
        PROVE  Strict(P) /\ ~P.guarded /\ turns = 0
    BY <1>1, <2>1 DEF P
  <2> QED
    BY <1>2, <1>6, <2>1 DEF OnlyInv
<1> QED
  BY <1>1, <1>2, <1>7 DEF ToldInv, AckInv, AloneInv, NewestInv, UnderWay, P

LEMMA ServedTold ==
    ASSUME PagesTypeOK, ToldInv, Served
    PROVE  ToldInv'
<1>1. UNCHANGED <<here, row, shown, result, loading, turns, busy, act, ack>>
  BY DEF Served
<1>2. ASSUME NEW l \in loads
      PROVE  UpTo([x \in Asked(l.query) |-> row[x]], ack)
  <2>1. Asked(l.query) \subseteq Rows
    BY <1>2 DEF PagesTypeOK, Load, Asked
  <2> QED BY <2>1 DEF UpTo, ToldInv, AckInv
<1>3. \A k \in loads' : \/ k \in loads
                        \/ UpTo(k.res, ack)
  BY <1>2, ServedLoads
<1>4. (\A l, k \in loads : l = k) => (\A l, k \in loads' : l = k)
  <2>1. PICK l \in loads : \E k : loads' = (loads \ {l}) \cup {k}
    BY DEF Served
  <2> QED BY <2>1
<1>5. loads # {}
  BY DEF Served
<1>6. NewestInv'
  BY <1>1, <1>3 DEF ToldInv, NewestInv, P
<1>7. OnlyInv'
  <2>1. ASSUME Strict(P), ~P.guarded, turns = 0
        PROVE  /\ \A l \in loads' : l.res # None => UpTo(l.res, ack)
               /\ \A l, k \in loads' : l = k
               /\ loading /\ UnderWay = {} /\ result = None
    BY <1>3, <1>4, <1>5, <2>1 DEF ToldInv, OnlyInv
  <2> QED BY <1>1, <2>1 DEF ToldInv, OnlyInv, UnderWay, P
<1> QED
  BY <1>1, <1>6, <1>7 DEF ToldInv, AckInv, AloneInv, UnderWay, P

LEMMA ReturnedTold ==
    ASSUME PagesTypeOK, ToldInv, Confirming(P), NEW l \in loads, Returned(l)
    PROVE  ToldInv'
<1>1. UNCHANGED <<here, row, turns, result, busy, act, ack>> /\ loads' = loads \ {l}
  BY DEF Returned
<1>2. IF Dropped(l) THEN UNCHANGED <<shown, loading>>
      ELSE \/ shown' = shown /\ l.res = None /\ ~P.loses
           \/ shown' = None
           \/ l.res # None /\ shown' = [query |-> l.query, rows |-> l.res]
  BY DEF Returned
<1>3. NewestInv'
  <2> SUFFICES ASSUME Strict(P), P.guarded
               PROVE  shown' # None /\ ~loading' => UpTo(shown'.rows, ack)
    BY <1>1 DEF ToldInv, NewestInv, P
  <2>1. P.loses
    BY DEF Confirming
  <2> QED
    BY <1>2, <2>1 DEF ToldInv, NewestInv, Dropped
<1>4. OnlyInv'
  <2> SUFFICES ASSUME Strict(P), ~P.guarded, turns = 0
               PROVE  /\ shown' # None /\ "apart" \notin P.done => UpTo(shown'.rows, ack)
                      /\ loads' = {} /\ UnderWay = {} /\ result = None
    BY <1>1 DEF OnlyInv, P, UnderWay
  <2> QED
    BY <1>1, <1>2 DEF ToldInv, OnlyInv, Dropped
<1> QED
  BY <1>1, <1>3, <1>4 DEF ToldInv, AckInv, AloneInv, UnderWay, P

\* A commit raises the version of a row.
LEMMA MoveTold ==
    ASSUME PagesTypeOK, AckInv, NEW x \in Rows, NEW s, Move(x, s), UNCHANGED ack
    PROVE  AckInv'
<1>1. \A y \in Rows : row'[y].ver = IF y = x THEN row[y].ver + 1 ELSE row[y].ver
  BY DEF Move, PagesTypeOK
<1>2. \A y \in Rows : row[y].ver \in Nat /\ ack[y] \in Nat
  BY DEF PagesTypeOK, Version
<1> QED
  BY <1>1, <1>2 DEF AckInv

LEMMA OthersTold ==
    ASSUME PagesTypeOK, ToldInv, NEW x \in Rows, Others(x)
    PROVE  ToldInv'
<1>1. UNCHANGED <<here, shown, result, loading, loads, turns, busy, act, ack>>
  BY DEF Others
<1>2. AckInv'
  BY <1>1, MoveTold DEF Others, ToldInv
<1> QED
  BY <1>1, <1>2 DEF ToldInv, AloneInv, NewestInv, OnlyInv, UnderWay, P

LEMMA ClickTold ==
    ASSUME PageInv, ToldInv, Confirming(P), NEW x \in Rows, NEW a, Click(x, a)
    PROVE  ToldInv'
<1> DEFINE t == [on |-> x, row |-> Target(x), name |-> a, query |-> query,
                 saw |-> View.rows[x].ver, res |-> None]
<1>1. t.res = None /\ t.on = x /\ t.row = Target(x)
  OBVIOUS
<1> HIDE DEF t
<1>2. PICK i \in Slots \ UnderWay : act' = [act EXCEPT ![i] = t]
  BY DEF Click, t
<1>3. UNCHANGED <<here, row, shown, loading, loads, turns, ack>> /\ result' = None
  BY DEF Click
<1>4. \A k \in UnderWay' : (k = i /\ act'[k] = t) \/ (k \in UnderWay /\ act'[k] = act[k])
  BY <1>2 DEF PageInv, PagesTypeOK, UnderWay
<1>5. AloneInv'
  <2> SUFFICES ASSUME P.busy = "page"
               PROVE  /\ \A j, k \in UnderWay' : j = k
                      /\ \A k \in UnderWay' : busy' # None /\ act'[k].res = None
    BY <1>3 DEF AloneInv, P
  <2>1. busy = None /\ busy' = x /\ x # None
    BY PagesAssumption DEF Click, Enabled
  <2>2. UnderWay = {}
    BY <2>1 DEF ToldInv, AloneInv
  <2> QED BY <1>1, <1>4, <2>1, <2>2
<1>6. OnlyInv'
  <2> SUFFICES ASSUME Strict(P), ~P.guarded, turns = 0
               PROVE  \A k \in UnderWay' : act'[k].row = act'[k].on /\ loads = {} /\ shown # None
    BY <1>3 DEF ToldInv, OnlyInv, P
  <2>1. ~P.keeps
    BY DEF Confirming
  <2>2. result # None \/ (~loading /\ shown # None)
    BY <2>1 DEF Click
  <2>3. loads = {} /\ shown # None
    BY <2>2 DEF ToldInv, OnlyInv
  <2>4. Target(x) = x
    BY ClickTarget
  <2> QED BY <1>1, <1>4, <2>2, <2>3, <2>4 DEF ToldInv, OnlyInv
<1> QED
  BY <1>3, <1>5, <1>6 DEF ToldInv, AckInv, NewestInv, P

LEMMA ServeActTold ==
    ASSUME PagesTypeOK, Bounded, ToldInv, NEW i \in Slots, ServeAct(i)
    PROVE  ToldInv'
<1> DEFINE x == act[i].row
<1>1. UNCHANGED <<here, shown, result, loading, loads, turns, busy, ack>>
  BY DEF ServeAct
<1>2. act[i] \in Sent /\ x \in Rows /\ i \in Unserved /\ i \in UnderWay
  BY DEF ServeAct, PagesTypeOK, Sent, Unserved, UnderWay
<1>3. PICK v : /\ act' = [act EXCEPT ![i].res = v]
               /\ v \notin {None, Refused} => v.ver \in {row[x].ver, row[x].ver + 1}
               /\ UNCHANGED row \/ \E s : Move(x, s)
  BY DEF ServeAct
<1>4. AckInv'
  BY <1>1, <1>2, <1>3, MoveTold DEF ToldInv, AckInv
<1>5. \A k \in UnderWay' : /\ k \in UnderWay
                           /\ act'[k].row = act[k].row /\ act'[k].on = act[k].on
                           /\ act'[k].res = IF k = i THEN v ELSE act[k].res
  BY <1>2, <1>3 DEF PagesTypeOK, UnderWay, Sent
<1>6. v \notin {None, Refused} => ack[x] <= v.ver
  <2>1. row[x].ver \in Nat /\ ack[x] \in Nat /\ ack[x] <= row[x].ver
    BY <1>2 DEF ToldInv, AckInv, PagesTypeOK, Version
  <2> QED BY <1>3, <2>1
<1>7. AloneInv'
  <2> SUFFICES ASSUME P.busy = "page"
               PROVE  /\ \A j, k \in UnderWay' : j = k
                      /\ \A k \in UnderWay' : /\ busy # None
                                              /\ act'[k].res \notin {None, Refused} =>
                                                     ack[act'[k].row] <= act'[k].res.ver
    BY <1>1 DEF AloneInv, P
  <2> QED BY <1>5, <1>6 DEF ToldInv, AloneInv
<1>8. NewestInv' /\ OnlyInv'
  BY <1>1, <1>5 DEF ToldInv, NewestInv, OnlyInv, P
<1> QED
  BY <1>4, <1>7, <1>8 DEF ToldInv

\* What the component was told is in the row, and no other row counts for it.
LEMMA ToldRow ==
    ASSUME PagesTypeOK, NEW i \in Slots, act[i] \in Sent, NEW answer \in {act[i].res, None}, NEW x \in Rows
    PROVE  \/ Told(i, answer)[x] = ack[x]
           \/ (answer \notin {Refused, None} /\ x = act[i].row /\ Told(i, answer)[x] = answer.ver)
BY DEF Told, PagesTypeOK, Sent

LEMMA ToldSame ==
    ASSUME NEW i, NEW answer \in {Refused, None}
    PROVE  Told(i, answer) = ack
BY DEF Told

LEMMA HandledTold ==
    ASSUME PageInv, VersionInv, ToldInv, Confirming(P), NEW i \in Slots, ActReturns(i), act[i] \in Sent,
           NEW answer \in {act[i].res, None}, NEW then \in Aftermath(answer), Handled(i, answer, then)
    PROVE  ToldInv'
<1>1. UNCHANGED <<here, row, turns>> /\ ack' = Told(i, answer)
  BY DEF Handled
<1>2. i \in UnderWay /\ UnderWay' = UnderWay \ {i} /\ \A k \in UnderWay' : act'[k] = act[k]
  BY HandledUnderWay DEF ActReturns, UnderWay, PageInv
<1>3. AckInv'
  <2>1. Answered(here, row, act[i])
    BY <1>2 DEF VersionInv, SeenActs
  <2>2. \A x \in Rows : Told(i, answer)[x] <= row[x].ver
    BY <2>1, ToldRow DEF PageInv, ToldInv, AckInv, Answered, Seen
  <2> QED BY <1>1, <2>2 DEF AckInv
<1>4. AloneInv'
  BY <1>1, <1>2 DEF ToldInv, AloneInv, P
<1>5. answer \notin {Refused, None} => then \in P.done /\ "error" \notin P.done
  BY OpenPage DEF Aftermath, WellFormed, P, PageInv
<1>6. NewestInv'
  <2> SUFFICES ASSUME Strict(P), P.guarded
               PROVE  /\ \A l \in loads' : l.newest /\ l.res # None => UpTo(l.res, ack')
                      /\ shown' # None /\ ~loading' => UpTo(shown'.rows, ack')
    BY <1>1 DEF NewestInv, P
  <2>0. "apart" \notin P.done
    BY OpenPage DEF WellFormed, P, PageInv
  <2>1. CASE Start(act[i].query)
    BY <2>1, StartQuery DEF PageInv
  <2>2. CASE ~Start(act[i].query)
    <3>1. answer \in {Refused, None} \/ then # "answer"
      BY <1>5 DEF Confirming
    <3>2. answer \in {Refused, None} /\ ack' = ack
      BY <1>1, <1>5, <2>0, <2>2, <3>1, ToldSame DEF Handled, Strict
    <3>3. UNCHANGED <<loads, loading>>
      BY <2>2 DEF Handled
    <3>4. shown' = None \/ shown' = shown \/ (answer # None /\ answer = act[i].res /\ shown' = Patched(i))
      BY <2>2 DEF Handled
    <3>5. CASE shown' = None \/ shown' = shown
      BY <3>2, <3>3, <3>5 DEF ToldInv, NewestInv
    <3>6. CASE answer # None /\ answer = act[i].res /\ shown' = Patched(i) /\ shown' # shown
      <4>1. PICK v \in Version :
               /\ shown' = [query |-> shown.query, rows |-> [shown.rows EXCEPT ![act[i].on] = v]]
               /\ v.ver = shown.rows[act[i].on].ver
        BY <3>2, <3>6, PatchedRow DEF PageInv
      <4>2. Screen(shown) /\ shown # None
        BY <3>2, <3>6, PatchedRow DEF PageInv, Patched
      <4>3. \A x \in DOMAIN shown'.rows : x \in DOMAIN shown.rows /\ shown'.rows[x].ver = shown.rows[x].ver
        BY <4>1, <4>2 DEF Screen
      <4> QED
        BY <3>2, <3>3, <4>2, <4>3 DEF ToldInv, NewestInv, UpTo
    <3> QED BY <3>4, <3>5, <3>6
  <2> QED BY <2>1, <2>2
<1>7. OnlyInv'
  <2> SUFFICES ASSUME Strict(P), ~P.guarded, turns = 0
               PROVE  /\ \A l, k \in loads' : l = k /\ l.res = None
                      /\ shown' # None /\ "apart" \notin P.done => UpTo(shown'.rows, ack')
                      /\ result' # None => shown' # None /\ loads' = {} /\ ack'[result'.on] <= result'.is.ver
                      /\ loads' # {} => loading'
                      /\ UnderWay' = {}
    BY <1>1 DEF OnlyInv, P
  <2>1. /\ loads = {} /\ shown # None /\ act[i].row = act[i].on /\ result = None
        /\ "apart" \notin P.done => UpTo(shown.rows, ack)
    BY <1>2 DEF ToldInv, OnlyInv
  <2>2. UnderWay' = {}
    BY <1>2 DEF ToldInv, AloneInv, Strict
  <2>3. CASE Start(act[i].query) /\ UNCHANGED result
    <3>1. loads' \subseteq {[query |-> act[i].query, newest |-> TRUE, res |-> None]} /\ loading'
      BY <2>1, <2>3 DEF Start, Requested
    <3>2. shown' = None
      BY <2>3 DEF Start, Confirming
    <3> DEFINE q == act[i].query
    <3>3. loads' \subseteq {[query |-> q, newest |-> TRUE, res |-> None]}
      BY <3>1
    <3>4. \A l, k \in loads' : l = k /\ l.res = None
      <4> HIDE DEF q
      <4> QED BY <3>3, OneLoad, Zenon
    <3> QED BY <2>1, <2>2, <2>3, <3>1, <3>2, <3>4
  <2>4. CASE UNCHANGED <<result, loads, loading>> /\ shown' = None
    BY <2>1, <2>2, <2>4
  <2>5. CASE UNCHANGED <<shown, result, loads, loading>> /\ then = "stay"
    <3>1. ack' = ack
      BY <1>1, <1>5, <2>5, ToldSame DEF Strict
    <3> QED BY <2>1, <2>2, <2>5, <3>1
  <2>6. CASE UNCHANGED <<result, loads, loading>> /\ then = "answer" /\ answer # None /\ answer = act[i].res /\ shown' = Patched(i)
    <3>1. Screen(shown) /\ UpTo(shown.rows, ack)
      <4>1. "apart" \notin P.done
        BY <2>6, OpenPage DEF Aftermath, WellFormed, P, PageInv
      <4> QED BY <2>1, <4>1 DEF PageInv, PagesTypeOK
    <3>2. CASE shown' = shown /\ act[i].on \notin DOMAIN shown.rows
      <4>1. \A x \in DOMAIN shown.rows : x \in Rows /\ ack'[x] = ack[x]
        BY <1>1, <2>1, <3>1, <3>2, ToldRow DEF PageInv, Screen, Asked
      <4> QED BY <2>1, <2>2, <2>6, <3>1, <3>2, <4>1 DEF UpTo
    <3>3. CASE /\ act[i].on \in DOMAIN shown.rows
               /\ \E v \in Version :
                    /\ shown' = [query |-> shown.query, rows |-> [shown.rows EXCEPT ![act[i].on] = v]]
                    /\ act[i].res = Refused => v.ver = shown.rows[act[i].on].ver
                    /\ act[i].res # Refused => v = act[i].res
      <4>1. PICK v \in Version :
               /\ shown' = [query |-> shown.query, rows |-> [shown.rows EXCEPT ![act[i].on] = v]]
               /\ act[i].res = Refused => v.ver = shown.rows[act[i].on].ver
               /\ act[i].res # Refused => v = act[i].res
        BY <3>3
      <4>2. DOMAIN shown'.rows = DOMAIN shown.rows
            /\ \A x \in DOMAIN shown.rows :
                  shown'.rows[x] = IF x = act[i].on THEN v ELSE shown.rows[x]
        BY <3>1, <4>1 DEF Screen
      <4>3. ASSUME NEW x \in DOMAIN shown.rows
            PROVE  ack'[x] <= shown'.rows[x].ver
        <5>1. x \in Rows
          BY <3>1, <4>3 DEF Screen, Asked, PageInv, PagesTypeOK
        <5>2. CASE act[i].res = Refused
          <6>1. ack' = ack
            BY <1>1, <2>6, <5>2, ToldSame
          <6> QED BY <3>1, <4>1, <4>2, <4>3, <5>2, <6>1 DEF UpTo
        <5>3. CASE act[i].res # Refused
          <6>1. ack[act[i].row] <= act[i].res.ver
            BY <1>2, <2>6, <5>3 DEF ToldInv, AloneInv, Strict
          <6>2. act[i].res.ver \in Nat
            BY <2>6, <5>3 DEF Sent, Version
          <6>3. ack'[x] = ack[x] \/ (x = act[i].row /\ ack'[x] = act[i].res.ver)
            BY <1>1, <2>6, <5>1, ToldRow DEF PageInv
          <6> QED BY <2>1, <3>1, <4>1, <4>2, <4>3, <5>3, <6>1, <6>2, <6>3 DEF UpTo
        <5> QED BY <5>2, <5>3
      <4> QED BY <2>1, <2>2, <2>6, <4>2, <4>3 DEF UpTo
    <3> QED BY <2>1, <2>6, <3>2, <3>3, PatchedRow DEF PageInv
  <2>7. CASE /\ "apart" \in P.done /\ answer \notin {None, Refused} /\ answer = act[i].res
             /\ result' = [on |-> act[i].row, is |-> act[i].res]
             /\ UNCHANGED <<shown, loads, loading>>
    <3>1. act[i].row \in Rows /\ act[i].res.ver \in Nat /\ ack[act[i].row] <= act[i].res.ver
      BY <1>2, <2>7 DEF ToldInv, AloneInv, Strict, Sent, Version
    <3>2. ack'[act[i].row] <= act[i].res.ver
      BY <1>1, <2>7, <3>1, ToldRow DEF PageInv
    <3>3. result'.on = act[i].row /\ result'.is = act[i].res
      BY <2>7
    <3> QED BY <2>1, <2>2, <2>7, <3>2, <3>3
  <2> QED BY <2>3, <2>4, <2>5, <2>6, <2>7 DEF Handled
<1> QED
  BY <1>3, <1>4, <1>6, <1>7 DEF ToldInv

LEMMA NextTold ==
    ASSUME PageInv, PageInv', VersionInv, ToldInv, Confirming(P), Next
    PROVE  ToldInv'
<1> USE DEF PageInv
<1>1. CASE Open \/ Visit \/ SignIn
  BY <1>1, ArriveTold DEF Open, Visit, SignIn
<1>2. CASE Known
  <2>1. CASE UNCHANGED <<here, place, row, query, turns, shown, result, loading, loads, busy, act, ack>>
    BY <2>1 DEF ToldInv, AckInv, AloneInv, NewestInv, OnlyInv, UnderWay, P
  <2> QED BY <1>2, <2>1, KnownCases, ArriveTold
<1>3. CASE Leave
  <2>1. loads' = {} /\ UnderWay' = {} /\ shown' = None /\ result' = None /\ ack' = [x \in Rows |-> 0]
    BY <1>3 DEF Leave, Idle, Mounted, UnderWay
  <2> QED BY <2>1, ResetTold
<1>4. CASE Turn
  BY <1>4, TurnTold
<1>5. CASE Again
  BY <1>5, AgainTold
<1>6. CASE Served
  BY <1>6, ServedTold
<1>7. CASE \E l \in loads : Returned(l)
  BY <1>7, ReturnedTold
<1>8. CASE \E x \in Rows : Others(x)
  BY <1>8, OthersTold
<1>9. CASE \E x \in Rows, a \in Names : Click(x, a)
  BY <1>9, ClickTold
<1>10. CASE \E i \in Slots : ServeAct(i)
  BY <1>10, ServeActTold
<1>11. CASE \E i \in Slots : ActReturns(i)
  <2>1. PICK i \in Slots : ActReturns(i)
    BY <1>11
  <2>2. CASE Left
    <3>1. loads' = {} /\ UnderWay' = {} /\ shown' = None /\ result' = None /\ ack' = [x \in Rows |-> 0]
      BY <2>2, BlankTyped DEF Left, Blank
    <3> QED BY <3>1, ResetTold
  <2>3. CASE \E answer \in {act[i].res, None} : \E then \in Aftermath(answer) : Handled(i, answer, then)
    BY <2>1, <2>3, Outcomes, HandledTold
  <2> QED BY <2>1, <2>2, <2>3, Outcomes, ArriveTold
<1> QED
  BY <1>1, <1>2, <1>3, <1>4, <1>5, <1>6, <1>7, <1>8, <1>9, <1>10, <1>11, Steps

BookConfirms == \A p \in DOMAIN Book : Confirming(Book[p])

\* A page with one action at a time, once nothing is under way, shows no row in a state older than
\* the change it was told was made, whatever loads and other clients overlap.
THEOREM AnswerShown ==
    ASSUME BookHonest, BookConfirms
    PROVE  Spec => []ReadYourWrites
<1>1. Init => VersionInv /\ ToldInv
  <2>1. Init => VersionInv
    BY DEF Init, VersionInv, SeenLoads, SeenActs, SeenShown, UnderWay
  <2>2. Init => ToldInv
    BY DEF Init, ToldInv, AckInv, AloneInv, NewestInv, OnlyInv, UnderWay, Fresh
  <2> QED BY <2>1, <2>2
<1>2. PageInv /\ PageInv' /\ VersionInv /\ ToldInv /\ [Next]_vars => (VersionInv /\ ToldInv)'
  <2>1. ASSUME VersionInv, ToldInv, UNCHANGED vars
        PROVE  VersionInv' /\ ToldInv'
    BY <2>1 DEF VersionInv, SeenLoads, SeenActs, SeenShown, UnderWay, vars, ToldInv, AckInv, AloneInv,
                NewestInv, OnlyInv, P
  <2>2. PageInv => Confirming(P)
    BY DEF PageInv, PagesTypeOK, Sites, BookConfirms, P
  <2> QED BY <2>1, <2>2, NextVersions, NextTold, OpenHonest DEF PageInv
<1>3. PageInv /\ ToldInv => ReadYourWrites
  <2> SUFFICES ASSUME PageInv, ToldInv, Accountable
               PROVE  \A x \in DOMAIN View.rows : View.rows[x].ver >= ack[x]
    BY DEF ReadYourWrites
  <2>1. Settled /\ View # None /\ Strict(P) /\ (turns = 0 \/ P.guarded) /\ ("apart" \in P.done => result # None)
    BY DEF Accountable, Strict
  <2>2. P.guarded => "apart" \notin P.done
    BY OpenPage DEF WellFormed, P, PageInv
  <2>3. CASE result = None
    <3>1. View = shown /\ shown # None /\ "apart" \notin P.done
      BY <2>1, <2>3 DEF View
    <3>2. UpTo(shown.rows, ack)
      BY <2>1, <3>1 DEF ToldInv, NewestInv, OnlyInv, Settled
    <3>3. \A x \in DOMAIN shown.rows : shown.rows[x].ver \in Nat /\ ack[x] \in Nat
      BY <3>1 DEF PageInv, PagesTypeOK, Screen, Asked, Version
    <3> QED BY <3>1, <3>2, <3>3 DEF UpTo
  <2>4. CASE result # None
    <3>1. result.on \in Rows /\ result.is.ver \in Nat /\ "apart" \in P.done
      BY <2>4 DEF PageInv, PagesTypeOK, Version
    <3>2. ack[result.on] \in Nat /\ ack[result.on] <= result.is.ver
      BY <2>1, <2>2, <2>4, <3>1 DEF ToldInv, OnlyInv, PageInv, PagesTypeOK
    <3> DEFINE rows == [x \in {result.on} |-> result.is]
    <3>3. DOMAIN rows = {result.on} /\ rows[result.on] = result.is
      OBVIOUS
    <3> HIDE DEF rows
    <3>4. View.rows = rows
      BY <2>4 DEF View, rows
    <3> QED BY <3>1, <3>2, <3>3, <3>4
  <2> QED BY <2>3, <2>4
<1> QED
  BY <1>1, <1>2, <1>3, PageCorrect, PTL DEF Spec

-----------------------------------------------------------------------------
(* The pages of the web client are such a book.                            *)

\* What a page must be for the theorems above.
Sound(p) == Honest(p) /\ Following(p) /\ Confirming(p)

LEMMA Granted ==
    ASSUME NEW kind, NEW S, NEW a, NEW to, From(S, a, to) \subseteq Moves[kind], NEW s \in S
    PROVE  Accepted(kind, s, a)
<1>1. <<s, a, to>> \in Moves[kind]
  BY DEF From
<1> QED BY <1>1 DEF Accepted

LEMMA GrantedStays ==
    ASSUME NEW kind, NEW S, NEW a, Stays(S, a) \subseteq Moves[kind], NEW s \in S
    PROVE  Accepted(kind, s, a)
<1>1. <<s, a, s>> \in Moves[kind]
  BY DEF Stays
<1> QED BY <1>1 DEF Accepted

LEMMA GrantedAny ==
    ASSUME NEW kind, NEW S, AnyOf(S) \subseteq Moves[kind], NEW s \in S, NEW t \in S
    PROVE  Accepted(kind, s, t)
<1>1. <<s, t, t>> \in Moves[kind]
  BY DEF AnyOf
<1> QED BY <1>1 DEF Accepted

LEMMA AcceptedListing ==
    /\ Accepted("listing", "ACTIVE", "remove") /\ Accepted("listing", "REMOVED", "restore")
    /\ Accepted("listing", "DRAFT", "publish") /\ Accepted("listing", "DRAFT", "archive")
    /\ Accepted("listing", "ACTIVE", "archive")
<1> DEFINE k == "listing"
<1>1. Moves[k] = ListingMoves
  BY DEF Moves
<1>2. /\ From({"ACTIVE"}, "remove", "REMOVED") \subseteq Moves[k]
      /\ From({"REMOVED"}, "restore", "ACTIVE") \subseteq Moves[k]
      /\ From({"DRAFT"}, "publish", "ACTIVE") \subseteq Moves[k]
      /\ From({"DRAFT", "ACTIVE", "ARCHIVED"}, "archive", "ARCHIVED") \subseteq Moves[k]
  BY <1>1 DEF ListingMoves
<1> QED
  BY <1>2, Granted

LEMMA AcceptedOffer ==
    /\ Accepted("offer", "ABSENT", "offer")
    /\ \A a \in {"accept", "reject", "withdraw"} : Accepted("offer", "PENDING", a)
<1> DEFINE k == "offer"
<1>1. Moves[k] = OfferMoves
  BY DEF Moves
<1>2. /\ From({"ABSENT"}, "offer", "PENDING") \subseteq Moves[k]
      /\ From({"PENDING"}, "accept", "ACCEPTED") \subseteq Moves[k]
      /\ From({"PENDING"}, "reject", "REJECTED") \subseteq Moves[k]
      /\ From({"PENDING"}, "withdraw", "WITHDRAWN") \subseteq Moves[k]
  BY <1>1 DEF OfferMoves
<1> QED
  BY <1>2, Granted

LEMMA AcceptedAuction ==
    Accepted("auction", "LIVE", "bid") /\ Accepted("auction", "AWAITING_CHECKOUT", "place")
<1> DEFINE k == "auction"
<1>1. Moves[k] = AuctionMoves
  BY DEF Moves
<1>2. /\ Stays({"LIVE"}, "bid") \subseteq Moves[k]
      /\ From({"AWAITING_CHECKOUT"}, "place", "ORDER_CREATED") \subseteq Moves[k]
  BY <1>1 DEF AuctionMoves
<1> QED
  BY <1>2, Granted, GrantedStays

LEMMA AcceptedUser ==
    /\ \A s \in CanSuspend : Accepted("user", s, "suspend")
    /\ Accepted("user", "SUSPENDED", "reactivate")
<1> DEFINE k == "user"
<1>1. Moves[k] = UserMoves
  BY DEF Moves
<1>2. /\ From({"ACTIVE", "PENDING_VERIFICATION"}, "suspend", "SUSPENDED") \subseteq Moves[k]
      /\ From({"SUSPENDED"}, "reactivate", "ACTIVE") \subseteq Moves[k]
  BY <1>1 DEF UserMoves
<1> QED
  BY <1>2, Granted DEF CanSuspend

LEMMA AcceptedTicket ==
    /\ \A s, t \in TicketStatus : Accepted("ticket", s, t)
    /\ \A s \in OpenTicket : Accepted("ticket", s, "answer") /\ Accepted("ticket", s, "reply")
    /\ Accepted("ticket", "ABSENT", "create")
<1> DEFINE k == "ticket"
<1>1. Moves[k] = TicketMoves
  BY DEF Moves
<1>2. /\ From({"ABSENT"}, "create", "OPEN") \subseteq Moves[k]
      /\ AnyOf(TicketStatus) \subseteq Moves[k]
      /\ Stays({"OPEN", "IN_PROGRESS"}, "reply") \subseteq Moves[k]
      /\ From({"WAITING_FOR_CUSTOMER"}, "reply", "IN_PROGRESS") \subseteq Moves[k]
      /\ From(OpenTicket, "answer", "WAITING_FOR_CUSTOMER") \subseteq Moves[k]
  BY <1>1 DEF TicketMoves, TicketStatus
<1>3. /\ \A s, t \in TicketStatus : Accepted(k, s, t)
      /\ \A s \in OpenTicket : Accepted(k, s, "answer")
      /\ Accepted(k, "ABSENT", "create")
  BY <1>2, Granted, GrantedAny
<1>4. \A s \in {"OPEN", "IN_PROGRESS"} : Accepted(k, s, "reply")
  BY <1>2, GrantedStays
<1>5. Accepted(k, "WAITING_FOR_CUSTOMER", "reply")
  BY <1>2, Granted
<1>6. \A s \in OpenTicket : Accepted(k, s, "reply")
  <2> HIDE DEF k
  <2> QED BY <1>4, <1>5 DEF OpenTicket
<1> QED
  BY <1>3, <1>6

LEMMA AcceptedReport ==
    /\ \A s, t \in {"OPEN", "UNDER_REVIEW", "RESOLVED", "DISMISSED"} : Accepted("report", s, t)
    /\ Accepted("report", "ABSENT", "report")
<1> DEFINE k == "report"
<1>1. Moves[k] = ReportMoves
  BY DEF Moves
<1>2. /\ AnyOf({"OPEN", "UNDER_REVIEW", "RESOLVED", "DISMISSED"}) \subseteq Moves[k]
      /\ From({"ABSENT"}, "report", "OPEN") \subseteq Moves[k]
  BY <1>1 DEF ReportMoves
<1> QED
  BY <1>2, Granted, GrantedAny

\* The small kinds.
LEMMA AcceptedElsewhere ==
    /\ Accepted("review", "ACTIVE", "remove")
    /\ Accepted("favorite", "OUT", "add") /\ Accepted("favorite", "IN", "drop")
    /\ Accepted("notice", "UNREAD", "read")
    /\ Accepted("profile", "SET", "save")
    /\ \A s \in Statuses["thread"] : Accepted("thread", s, "send")
    /\ \A s \in Statuses["address"] : Accepted("address", s, "add")
<1>1. /\ Moves["review"] = ReviewMoves /\ Moves["favorite"] = FavoriteMoves /\ Moves["notice"] = NoticeMoves
      /\ Moves["profile"] = ProfileMoves /\ Moves["thread"] = ThreadMoves /\ Moves["address"] = AddressMoves
      /\ {"thread", "address"} \subseteq DOMAIN Moves
  BY DEF Moves
<1>2. /\ From({"ACTIVE"}, "remove", "REMOVED") \subseteq ReviewMoves
      /\ From({"OUT"}, "add", "IN") \subseteq FavoriteMoves /\ From({"IN"}, "drop", "OUT") \subseteq FavoriteMoves
      /\ From({"UNREAD", "READ"}, "read", "READ") \subseteq NoticeMoves
      /\ Stays({"SET"}, "save") \subseteq ProfileMoves
  BY DEF ReviewMoves, FavoriteMoves, NoticeMoves, ProfileMoves
<1>3. \A s \in {"NEW", "OPEN"} : Accepted("thread", s, "send")
  BY <1>1, Granted DEF ThreadMoves
<1>4. \A s \in {"NONE", "SAVED"} : Accepted("address", s, "add")
  BY <1>1, Granted DEF AddressMoves
<1>5. Statuses["thread"] \subseteq {"NEW", "OPEN"} /\ Statuses["address"] \subseteq {"NONE", "SAVED"}
  BY <1>1 DEF Statuses, ThreadMoves, AddressMoves, From
<1> QED
  BY <1>1, <1>2, <1>3, <1>4, <1>5, Granted, GrantedStays


\* The four parts of the site, page by page.
LEMMA DeskSound == \A p \in DOMAIN Desk : Sound(Desk[p])
<1> USE DEF Reader, Sound, Honest, Plain, Following, Confirming, Strict
<1>1. /\ Sound(AdminTickets) /\ Sound(AdminReports) /\ Sound(AdminOrders) /\ Sound(AdminOrder)
      /\ Sound(AdminAuctions) /\ Sound(AdminAuction) /\ Sound(AdminPayments) /\ Sound(AdminDashboard)
      /\ Sound(AdminModeration) /\ Sound(AdminAction)
  BY DEF AdminTickets, AdminReports, AdminOrders, AdminOrder, AdminAuctions, AdminAuction, AdminPayments,
         AdminDashboard, AdminModeration, AdminAction, AdminDetail, AdminReader
<1>2. Sound(AdminListings) /\ Sound(AdminListing)
  BY AcceptedListing
     DEF AdminListings, AdminListing, AdminListingActions, Moderated, AdminDetail, AdminReader
<1>3. Sound(AdminUsers) /\ Sound(AdminUser)
  BY AcceptedUser
     DEF AdminUsers, AdminUser, AdminUserActions, Moderated, AdminDetail, AdminReader
<1>4. Sound(AdminReviews)
  BY AcceptedElsewhere DEF AdminReviews, AdminReviewActions, Moderated, AdminReader
<1>5. Sound(AdminTicket)
  <2>1. \A o \in AdminTicketActions : Accepted("ticket", o[1], o[2])
    <3>1. TicketStatus \ {"RESOLVED", "CLOSED"} \subseteq OpenTicket
      BY DEF TicketStatus
    <3> QED BY <3>1, AcceptedTicket DEF AdminTicketActions, OtherThan
  <2> QED BY <2>1 DEF AdminTicket, AdminDetail, AdminReader
<1>6. Sound(AdminReport)
  <2>1. \A o \in AdminReportActions : Accepted("report", o[1], o[2])
    BY AcceptedReport DEF AdminReportActions, OtherThan
  <2> QED BY <2>1 DEF AdminReport, AdminDetail, AdminReader
<1> HIDE DEF Reader, Sound, Honest, Plain, Following, Confirming, Strict
<1> QED
  BY <1>1, <1>2, <1>3, <1>4, <1>5, <1>6 DEF Desk

LEMMA TradeSound == \A p \in DOMAIN Trade : Sound(Trade[p])
<1> USE DEF Reader, Sound, Honest, Plain, Following, Confirming, Strict
<1>1. /\ Sound(MyPurchases) /\ Sound(BuyerOffers) /\ Sound(SellerOffers) /\ Sound(MyBids)
  BY DEF MyPurchases, BuyerOffers, SellerOffers, MyBids
<1>2. Sound(Checkout) /\ Sound(OfferCheckout) /\ Sound(Payment)
  BY DEF Checkout, CheckoutOffers, OfferCheckout, OfferCheckoutOffers, Payment, PaymentOffers
<1>3. Sound(OrderList) /\ Sound(OrderDetail)
  BY DEF OrderList, OrderDetail, Reviewable, ReviewOffers
<1>4. /\ Sound(AddressPanel) /\ Sound(OfferAddresses) /\ Sound(AuctionAddresses)
  BY AcceptedElsewhere DEF AddressPanel, OfferAddresses, AuctionAddresses
<1>5. Sound(OfferDetailModal)
  BY AcceptedOffer DEF OfferDetailModal, OfferActions
<1>6. Sound(MyListings)
  BY AcceptedListing DEF MyListings, MyListingActions
<1>7. Sound(AuctionPanel)
  BY AcceptedAuction DEF AuctionPanel, BidOffers
<1>8. Sound(OfferModal)
  BY AcceptedOffer DEF OfferModal
<1>9. Sound(AuctionCheckout)
  BY AcceptedAuction DEF AuctionCheckout, AuctionCheckoutOffers
<1> HIDE DEF Reader, Sound, Honest, Plain, Following, Confirming, Strict
<1> QED
  BY <1>1, <1>2, <1>3, <1>4, <1>5, <1>6, <1>7, <1>8, <1>9 DEF Trade

LEMMA ShopSound == \A p \in DOMAIN Shop : Sound(Shop[p])
<1> USE DEF Reader, Sound, Honest, Plain, Following, Confirming, Strict
<1>1. /\ Sound(Catalog) /\ Sound(ListingDetail) /\ Sound(Categories) /\ Sound(SellerProfile)
      /\ Sound(ReviewsSection) /\ Sound(FavoritesPage) /\ Sound(AccountOverview)
      /\ Sound(AccountListings) /\ Sound(MyAccount) /\ Sound(AccountWorkspace)
  BY DEF Catalog, ListingDetail, Categories, SellerProfile, ReviewsSection, FavoritesPage, AccountOverview,
         AccountListings, MyAccount, AccountWorkspace
<1>2. Sound(Hearts) /\ Sound(MySavedItems)
  BY AcceptedElsewhere DEF Hearts, HeartActions, MySavedItems, FavoritesPage
<1>3. /\ Sound(AccountSettings) /\ Sound(AccountSettingsPage) /\ Sound(EditProfileModal)
  BY AcceptedElsewhere DEF AccountSettings, AccountSettingsPage, EditProfileModal, ProfileForm
<1> HIDE DEF Reader, Sound, Honest, Plain, Following, Confirming, Strict
<1> QED
  BY <1>1, <1>2, <1>3 DEF Shop

LEMMA ContactSound == \A p \in DOMAIN Contact : Sound(Contact[p])
<1> USE DEF Reader, Sound, Honest, Plain, Following, Confirming, Strict
<1>1. /\ Sound(CategoryObjects) /\ Sound(Reports) /\ Sound(MessageList) /\ Sound(NotificationBell)
  BY DEF CategoryObjects, Reports, OwnGate, MessageList, NotificationBell
<1>2. Sound(Support) /\ Sound(SupportDetail)
  BY AcceptedTicket DEF Support, SupportOffers, SupportDetail, ReplyOffers, OwnGate
<1>3. Sound(ReportModal)
  BY AcceptedReport DEF ReportModal
<1>4. Sound(NotificationsPage) /\ Sound(NotificationPanel)
  BY AcceptedElsewhere DEF NotificationsPage, NotificationPanel, NoticeOffers
<1>5. Sound(MessageCompose)
  <2>1. "NEW" \in Statuses["thread"]
    <3>1. <<"NEW", "send", "OPEN">> \in Moves["thread"]
      BY DEF Moves, ThreadMoves, From
    <3>2. Statuses["thread"] = {m[1] : m \in Moves["thread"]} \cup {m[3] : m \in Moves["thread"]}
      BY DEF Statuses, Moves
    <3> QED BY <3>1, <3>2
  <2> QED BY <2>1, AcceptedElsewhere DEF MessageCompose
<1>6. Sound(MessageThread)
  BY AcceptedElsewhere DEF MessageThread, ThreadOffers, Always, Conditional
<1> HIDE DEF Reader, Sound, Honest, Plain, Following, Confirming, Strict
<1> QED
  BY <1>1, <1>2, <1>3, <1>4, <1>5, <1>6 DEF Contact

\* The book of the program itself has what the theorems ask of a book.
LEMMA SiteSound == \A p \in DOMAIN Site : Sound(Site[p])
BY DeskSound, TradeSound, ShopSound, ContactSound DEF Site

LEMMA SiteKnown ==
    ASSUME Book = Site
    PROVE  BookFollows /\ BookHonest /\ BookConfirms
BY SiteSound DEF Sound, BookFollows, BookHonest, BookConfirms

\* The client as it is written, for any number of rows, commits, loads and turns: a button offered
\* for a status is refused only for a row that somebody moved or by a handler that asks more than
\* the status, a change made is a change shown, the screen shows what was asked for last, and an
\* action goes to the row that was on the screen, each on the pages that the property names.
THEOREM ClientCorrect ==
    ASSUME Book = Site
    PROVE  Spec => [](RefusedOnlyIfOvertaken /\ ReadYourWrites /\ ShowsWhatIsAsked /\ ActsOnWhatIsShown)
<1>1. BookFollows /\ BookHonest /\ BookConfirms
  BY SiteKnown
<1>2. Spec => []RefusedOnlyIfOvertaken
  BY <1>1, OfferedCorrect
<1>3. Spec => []ReadYourWrites
  BY <1>1, AnswerShown
<1>4. Spec => []ShowsWhatIsAsked
  BY <1>1, ShownCorrect
<1>5. Spec => []ActsOnWhatIsShown
  BY <1>1, TargetCorrect
<1> QED
  BY <1>2, <1>3, <1>4, <1>5, PTL

=============================================================================
