------------------------------- MODULE Pages -------------------------------
(***************************************************************************)
(* The pages of the web client against the API: one browser tab in which   *)
(* one page is open at a time.  A page loads rows, shows them, offers      *)
(* actions on what it shows, and sends them; its loads and actions answer  *)
(* in any order or fail, while other clients move the same rows.  What     *)
(* differs from page to page is its record in Book (see Api!Reader); the   *)
(* state of a component is lost when it is mounted again.                  *)
(***************************************************************************)
EXTENDS Api

CONSTANTS
    Book,        \* the pages: a record each
    Rows,        \* the rows of the kind that the open page shows
    MaxMoves,    \* bounds the commits of a behaviour and the actions under way
    MaxLoads,    \* bounds the loads under way
    MaxTurns,    \* bounds the queries after the one a page is opened with
    None, Refused   \* no answer yet; a 409

VARIABLES
    here,        \* the record of the open page
    auth,        \* AuthContext: "checking" while the session loads, then "in" or "out"
    place,       \* "page", "login" where the browser was sent to sign in, "away" on another page
    row,         \* the database: the status of a row and the number of its commits
    query,       \* what is asked for: a tab, a filter, a page number, the id in the hash
    turns,       \* how often the query changed since the component was mounted
    shown,       \* what was loaded: the rows and the query they were loaded for
    result,      \* the answer that a page shows in place of that, and the row it is about
    loading,
    loads,       \* requests for rows under way
    busy,        \* the row an action disables its buttons for
    act,         \* the actions under way
    ack          \* the commits of a row that the component was told of

vars == <<here, auth, place, row, query, turns, shown, result, loading, loads, busy, act, ack>>

Answers(kind) == [st : Statuses[kind], ver : Nat]

\* Model values stand for None and Refused: neither is a row, or what the API answers about one.
ASSUME PagesAssumption ==
    /\ Rows # {} /\ IsFiniteSet(Rows)
    /\ MaxMoves \in Nat /\ MaxLoads \in Nat /\ MaxTurns \in Nat
    /\ \A p \in DOMAIN Book : WellFormed(Book[p])
    /\ None # Refused /\ None \notin Rows
    /\ \A kind \in DOMAIN Moves : None \notin Answers(kind) /\ Refused \notin Answers(kind)

P == here
Sites == {Book[p] : p \in DOMAIN Book}
Slots == 1..MaxMoves
Version == [st : Statuses[P.kind], ver : 0..MaxMoves]

\* A detail page asks for one row, any other page for all of them.
Asked(q) == IF P.detail THEN {q} ELSE Rows

Screen(s) ==
    /\ s = [query |-> s.query, rows |-> s.rows]
    /\ s.query \in Rows
    /\ s.rows \in [Asked(s.query) -> Version]

Load(l) ==
    /\ l = [query |-> l.query, newest |-> l.newest, res |-> l.res]
    /\ l.query \in Rows
    /\ l.newest \in BOOLEAN
    /\ l.res = None \/ l.res \in [Asked(l.query) -> Version]

Names == {o[2] : o \in P.offers}

Sent == [on : Rows, row : Rows, name : Names, query : Rows, saw : 0..MaxMoves,
         res : Version \cup {None, Refused}]

PagesTypeOK ==
    /\ here \in Sites
    /\ auth \in {"checking", "in", "out"}
    /\ place \in {"page", "login", "away"}
    /\ row \in [Rows -> Version]
    /\ query \in Rows
    /\ turns \in 0..MaxTurns
    /\ shown = None \/ Screen(shown)
    /\ result = None \/ ("apart" \in P.done /\ result \in [on : Rows, is : Version])
    /\ loading \in BOOLEAN
    /\ \A l \in loads : Load(l)
    /\ busy \in Rows \cup {None}
    /\ act \in [Slots -> Sent \cup {None}]
    /\ ack \in [Rows -> 0..MaxMoves]

-----------------------------------------------------------------------------
\* Every commit of a row, by its number.
Commits == {c \in Rows \X (1..MaxMoves) : c[2] <= row[c[1]].ver}
First == CHOOSE x \in Rows : TRUE
UnderWay == {i \in Slots : act[i] # None}
Unserved == {i \in UnderWay : act[i].res = None}
Room == Cardinality(Commits) + Cardinality(Unserved) < MaxMoves

\* What is on the screen.
View == IF result = None THEN shown
        ELSE [query |-> result.on, rows |-> [x \in {result.on} |-> result.is]]

Offered(s) == {a \in Names : <<s, a>> \in P.offers}
Accepts(s, a) == \E m \in Moves[P.kind] : m[1] = s /\ m[2] = a

\* load(): a request for query q; the loads before it are overtaken.
Requested(q) == {[l EXCEPT !.newest = FALSE] : l \in loads} \cup {[query |-> q, newest |-> TRUE, res |-> None]}

Start(q) ==
    /\ loads' = Requested(q)
    /\ loading' = TRUE
    /\ shown' = IF P.keeps THEN shown ELSE None

Blank == result' = None /\ busy' = None /\ act' = [i \in Slots |-> None] /\ ack' = [x \in Rows |-> 0]

\* A component is mounted in a tab whose session is s: it loads at once when it is shown at all.
Arrive(s) ==
    /\ auth' = s
    /\ turns' = 0
    /\ Blank
    /\ shown' = None
    /\ LET mounts == s = "in" \/ P.gate = "open"
           sent == P.gate = "own" \/ (P.gate = "auth" /\ s = "out")
       IN /\ place' = IF ~mounts /\ sent THEN "login" ELSE "page"
          /\ loading' = mounts
          /\ loads' = IF mounts THEN {[query |-> query, newest |-> TRUE, res |-> None]} ELSE {}

Fresh(s) == [x \in Rows |-> [st |-> s, ver |-> 0]]

Init ==
    /\ here \in Sites
    /\ \E s \in Statuses[P.kind] : row = Fresh(s)
    /\ query = First
    /\ auth \in {"in", "out"}
    /\ place = "away"
    /\ turns = 0
    /\ shown = None
    /\ result = None
    /\ loading = FALSE
    /\ loads = {}
    /\ busy = None
    /\ act = [i \in Slots |-> None]
    /\ ack = [x \in Rows |-> 0]

-----------------------------------------------------------------------------
(* The page is opened.                                                     *)

\* The address is typed or the tab reloaded; the session of the user is not known yet.
Open ==
    /\ place = "away"
    /\ Arrive("checking")
    /\ UNCHANGED <<here, row, query>>

\* loadMe answers: whoever waited for it mounts its page or is sent to sign in.
Known ==
    /\ auth = "checking"
    /\ \E s \in {"in", "out"} :
          IF place = "page" /\ P.gate # "open"
          THEN Arrive(s)
          ELSE auth' = s /\ UNCHANGED <<place, turns, shown, result, loading, loads, busy, act, ack>>
    /\ UNCHANGED <<here, row, query>>

\* A link inside the client: the session is known, nothing is reloaded.
Visit ==
    /\ place = "away"
    /\ auth # "checking"
    /\ Arrive(auth)
    /\ UNCHANGED <<here, row, query>>

\* The user turns to other rows, and their commits count anew.
Leave ==
    /\ place = "login" \/ (place = "page" /\ ~loading /\ loads = {} /\ UnderWay = {})
    /\ auth # "checking"
    /\ place' = "away"
    /\ row' = Fresh(row[First].st)
    /\ query' = First
    /\ turns' = 0
    /\ shown' = None
    /\ result' = None
    /\ ack' = [x \in Rows |-> 0]
    /\ UNCHANGED <<here, auth, loading, loads, busy, act>>

\* The user signs in and is led back.
SignIn ==
    /\ place = "login"
    /\ auth # "checking"
    /\ Arrive("in")
    /\ UNCHANGED <<here, row, query>>

-----------------------------------------------------------------------------
(* Loading.                                                                *)

Mounted == place = "page" /\ (auth = "in" \/ P.gate = "open")

\* Another tab, filter, page number or id in the hash.
Turn ==
    /\ Mounted
    /\ turns < MaxTurns
    /\ Cardinality(loads) < MaxLoads
    /\ \E q \in Rows \ {query} :
          /\ query' = q
          /\ IF P.keyed
             THEN /\ shown' = None
                  /\ loading' = TRUE
                  /\ loads' = {[query |-> q, newest |-> TRUE, res |-> None]}
                  /\ Blank
             ELSE Start(q) /\ UNCHANGED <<result, busy, act, ack>>
    /\ turns' = turns + 1
    /\ UNCHANGED <<here, auth, place, row>>

\* The retry button of a page with nothing to show; a timer or an event of a page that polls.
Again ==
    /\ Mounted
    /\ ~loading
    /\ Cardinality(loads) < MaxLoads
    /\ shown = None \/ P.polls
    /\ Start(query)
    /\ UNCHANGED <<here, auth, place, row, query, turns, result, busy, act, ack>>

\* The API reads the rows.
Served ==
    /\ \E l \in loads :
          /\ l.res = None
          /\ loads' = (loads \ {l}) \cup {[l EXCEPT !.res = [x \in Asked(l.query) |-> row[x]]]}
    /\ UNCHANGED <<here, auth, place, row, query, turns, shown, result, loading, busy, act, ack>>

\* Seeded bug: the answers that nobody waits for any more are shown.
DroppedNever(l) == FALSE

Dropped(l) == P.guarded /\ ~l.newest

\* The answer of a load is shown; a load that comes back without one has failed.
Returned(l) ==
    /\ l \in loads
    /\ loads' = loads \ {l}
    /\ IF Dropped(l)
       THEN UNCHANGED <<shown, loading>>
       ELSE /\ loading' = FALSE
            /\ shown' = IF l.res # None THEN [query |-> l.query, rows |-> l.res]
                        ELSE IF P.loses THEN None ELSE shown
    /\ UNCHANGED <<here, auth, place, row, query, turns, result, busy, act, ack>>

-----------------------------------------------------------------------------
(* Acting.                                                                 *)

Enabled(x) == CASE P.busy = "page" -> busy = None
                [] P.busy = "row" -> busy # x
                [] OTHER -> TRUE

\* Seeded bug: the handler takes the row of the list that the click did not mean.
TargetOther(x) == CHOOSE y \in Rows : y # x

Target(x) == IF P.target = "row" THEN x ELSE query

\* A button is pressed; the request goes out with what the render knew, and an answer that was
\* shown in place of the rows is gone.
Click(x, a) ==
    /\ Mounted
    /\ auth = "in"      \* the handlers of an open page send a visitor to sign in first
    /\ result # None \/ (shown # None /\ (P.keeps \/ ~loading))
    /\ x \in DOMAIN View.rows
    /\ a \in Offered(View.rows[x].st)
    /\ Enabled(x)
    /\ Room
    /\ \E i \in Slots \ UnderWay :
          /\ \A k \in 1..(i - 1) : k \in UnderWay
          /\ act' = [act EXCEPT ![i] = [on |-> x, row |-> Target(x), name |-> a, query |-> query,
                                       saw |-> View.rows[x].ver, res |-> None]]
    /\ result' = None
    /\ busy' = IF P.busy = "nothing" THEN None ELSE x
    /\ UNCHANGED <<here, auth, place, row, query, turns, shown, loading, loads, ack>>

Move(x, s) == row' = [row EXCEPT ![x] = [st |-> s, ver |-> @.ver + 1]]

\* The API commits the action, refuses it, or repeats what came of an earlier one.
ServeAct(i) ==
    /\ act[i] # None
    /\ act[i].res = None
    /\ LET x == act[i].row
           case == <<P.kind, row[x].st, act[i].name>>
       IN \/ /\ ~Accepts(row[x].st, act[i].name) \/ case \in Conditional
             /\ act' = [act EXCEPT ![i].res = Refused]
             /\ UNCHANGED row
          \/ /\ case \in Repeatable
             /\ act' = [act EXCEPT ![i].res = row[x]]
             /\ UNCHANGED row
          \/ \E m \in Moves[P.kind] :
                /\ m[1] = row[x].st
                /\ m[2] = act[i].name
                /\ Move(x, m[3])
                /\ act' = [act EXCEPT ![i].res = [st |-> m[3], ver |-> row[x].ver + 1]]
    /\ UNCHANGED <<here, auth, place, query, turns, shown, result, loading, loads, busy, ack>>

\* Seeded bug: the buttons stay disabled after a failure.
ReleasedOnSuccess(answer) == IF answer \in {Refused, None} THEN busy ELSE None

Released(answer) == None

\* Seeded bug: the row is given what was asked for in place of what came of it.
PatchedRequest(i) ==
    IF shown = None \/ act[i].on \notin DOMAIN shown.rows THEN shown
    ELSE [shown EXCEPT !.rows[act[i].on] = [st |-> act[i].name, ver |-> @.ver + 1]]

\* What the row looks like to a handler that does not load again.
Patched(i) ==
    IF shown = None \/ act[i].on \notin DOMAIN shown.rows THEN shown
    ELSE LET to == (CHOOSE m \in Moves[P.kind] : m[2] = act[i].name)[3]
         IN [shown EXCEPT !.rows[act[i].on] =
               IF act[i].res = Refused THEN [st |-> to, ver |-> @.ver] ELSE act[i].res]

\* Seeded bug: a list is not loaded again after a success.
AftermathNone(answer) ==
    CASE answer = Refused -> P.refused
      [] answer = None -> P.failed
      [] OTHER -> {IF then = "reload" THEN "stay" ELSE then : then \in P.done}

Aftermath(answer) ==
    CASE answer = Refused -> P.refused
      [] answer = None -> P.failed
      [] OTHER -> P.done

\* The handler goes on with the answer, or with a failure when it got lost; a reload asks for the
\* query of the render the handler ran in.  reloadUser loads the session again, so that RequireAuth
\* unmounts the page until it is known.
ActReturns(i) ==
    /\ act[i] # None
    /\ \E answer \in {act[i].res, None} : \E then \in Aftermath(answer) :
             /\ then = "reload" => Cardinality(loads) < MaxLoads
             /\ CASE then = "leave" ->
                       /\ place' = "away"
                       /\ row' = Fresh(row[First].st)
                       /\ query' = First
                       /\ loads' = {}
                       /\ loading' = FALSE
                       /\ shown' = None
                       /\ turns' = 0
                       /\ Blank
                       /\ UNCHANGED auth
                  [] then = "remount" -> Arrive("checking") /\ UNCHANGED <<row, query>>
                  [] OTHER ->
                       /\ busy' = Released(answer)
                       /\ act' = [act EXCEPT ![i] = None]
                       /\ ack' = IF answer \in {Refused, None} \/ answer.ver <= ack[act[i].row] THEN ack
                                 ELSE [ack EXCEPT ![act[i].row] = answer.ver]
                       /\ result' = IF then = "apart" THEN [on |-> act[i].row, is |-> act[i].res] ELSE result
                       /\ CASE then = "reload" -> Start(act[i].query)
                            [] then = "answer" -> shown' = Patched(i) /\ UNCHANGED <<loads, loading>>
                            [] then = "error" -> shown' = None /\ UNCHANGED <<loads, loading>>
                            [] OTHER -> UNCHANGED <<shown, loads, loading>>   \* "stay", "apart"
                       /\ UNCHANGED <<auth, place, turns, row, query>>
    /\ UNCHANGED here

\* Another client, or the clock, moves a row.
Others(x) ==
    /\ Mounted
    /\ Room
    /\ \E m \in Moves[P.kind] : m[1] = row[x].st /\ Move(x, m[3])
    /\ UNCHANGED <<here, auth, place, query, turns, shown, result, loading, loads, busy, act, ack>>

Return == \E l \in loads : Returned(l)
Acted == \E i \in Slots : ActReturns(i)

Next ==
    \/ Open \/ Known \/ Visit \/ SignIn \/ Leave
    \/ Turn \/ Again \/ Served \/ Return
    \/ \E x \in Rows : Others(x) \/ \E a \in Names : Click(x, a)
    \/ \E i \in Slots : ServeAct(i)
    \/ Acted

\* Every request is answered or fails, and the browser runs the handler; the API and the users owe
\* nothing.
Fairness == WF_vars(Return) /\ WF_vars(Acted)

Spec == Init /\ [][Next]_vars /\ Fairness

-----------------------------------------------------------------------------
(* Properties.                                                             *)

Settled == Mounted /\ ~loading /\ loads = {} /\ UnderWay = {}

\* A button that a page offers because of the status it shows is refused by the API only
\* when somebody moved the row after it was loaded, or where the handler asks more than the
\* status: what the page offers and what the handlers accept agree, for every page and status.
RefusedOnlyIfOvertaken ==
    \A i \in UnderWay :
        LET x == act[i].row
        IN  act[i].res = Refused /\ x = act[i].on /\ act[i].name \notin P.blind
                => row[x].ver > act[i].saw \/ <<P.kind, row[x].st, act[i].name>> \in Conditional

\* When a page must show what the user was told of.
Accountable ==
    /\ Settled /\ View # None
    /\ P.busy = "page" /\ ~P.polls /\ "stay" \notin P.done
    /\ turns = 0 \/ P.guarded
    /\ "apart" \notin P.done \/ result # None

\* A page with one action at a time, once nothing is under way, shows no row in a state older
\* than the change it was told was made; an unguarded page only until its query changes, a page
\* that shows the answer in place of the rows only until the next press drops it, and not a page
\* that counts a failure to load again as a failure of the action.
ReadYourWrites ==
    Accountable => \A x \in DOMAIN View.rows : View.rows[x].ver >= ack[x]

\* The answers of two loads may come in any order; a page that numbers its loads (or is
\* mounted anew for another id) ends up with what it was last asked for.
ShowsWhatIsAsked ==
    Settled /\ View # None /\ (turns = 0 \/ P.guarded \/ P.keyed) => View.query = query

\* An action goes to the row that was on the screen when the button was pressed, unless the
\* page takes its id from the address and shows late answers for another one.
ActsOnWhatIsShown ==
    \A i \in UnderWay :
        P.target = "row" \/ P.guarded \/ P.keyed \/ turns = 0 => act[i].row = act[i].on

\* Nothing spins or stays disabled for ever: a page that says it loads waits for a request whose
\* answer it will take, and the buttons an action disabled come back.
PageSettles == [](loading => \E l \in loads : ~Dropped(l)) /\ (busy # None ~> busy = None)

=============================================================================
