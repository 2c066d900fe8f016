------------------------------- MODULE Search -------------------------------
(***************************************************************************)
(* The missions' searches for one object, one after another over one saved *)
(* scene graph: where a search looks and in which order (search_order),    *)
(* what a detection records (record_object), when the language model is    *)
(* asked and its picks are cached or forgotten, and when the graph is      *)
(* saved.  What happens at one place is module Look's: here a visit finds  *)
(* the object, does not, or raises.                                        *)
(*                                                                         *)
(* Places lie on a line of Spots.  The order within one round (nearest     *)
(* first, tables first) is any order.                                      *)
(***************************************************************************)
EXTENDS Integers, Sequences, FiniteSets, FiniteSetsExt

CONSTANTS
    Furniture,      \* the graph's furniture nodes
    None,           \* no furniture: None in the code
    NoGuesses,      \* no entry for the object under llm_guesses
    Spots,          \* where things lie
    PieceAt,        \* each piece's spot
    SameInstance,   \* SAME_INSTANCE
    TopKs,          \* the values of --top-k
    MaxNodes        \* bound: object nodes in the graph

ASSUME SearchAssumption ==
    /\ Furniture # {} /\ IsFiniteSet(Furniture)
    /\ None \notin Furniture
    /\ \A picks \in SUBSET Furniture : NoGuesses # picks
    /\ Spots \subseteq Int
    /\ PieceAt \in [Furniture -> Spots]
    /\ SameInstance \in Nat
    /\ TopKs \subseteq Nat \ {0}
    /\ MaxNodes \in Nat

VARIABLES
    at,         \* where the mission is
    file,       \* the saved graph
    readable,   \* whether the file holds a whole graph
    graph,      \* the running mission's graph
    only,       \* --furniture, or None
    topK,       \* --top-k
    key,        \* whether there is a DeepSeek key
    round,      \* where search_order's generator is
    todo,       \* the locations it has still to yield in this round
    excluded,   \* the pieces a guess must not name
    outcome,    \* how the last search ended
    searched,   \* history: the pieces this search has visited
    asked,      \* history: how often this search has asked DeepSeek
    seenAt      \* history: where the object was last detected

vars == <<at, file, readable, graph, only, topK, key, round, todo, excluded,
          outcome, searched, asked, seenAt>>
options == <<only, topK, key>>
order == <<round, todo, excluded>>

Node == [spot : Spots, on : Furniture \cup {None}]
Graph == [nodes : Seq(Node), guesses : {NoGuesses} \cup SUBSET Furniture]
Location == [piece : Furniture \cup {None}, node : 0..MaxNodes]

Near(a, b) == a - b \in -SameInstance..SameInstance

(* The locations of the object's nodes: each is kept, also without an edge. *)
Remembered(g) == { [piece |-> g.nodes[n].on, node |-> n] : n \in DOMAIN g.nodes }

(* The locations of a set of picks. *)
Guessed(pieces) == { [piece |-> p, node |-> 0] : p \in pieces }

(* The furniture a detection stands on or in; none on the open floor. *)
ObservedFurniture(s) ==
    IF \E p \in Furniture : PieceAt[p] = s
    THEN CHOOSE p \in Furniture : PieceAt[p] = s
    ELSE None

(* What predict may answer: exactly k distinct eligible pieces, k the most *)
(* that --top-k and the furniture left allow.  An empty list is not asked. *)
Predictions ==
    LET left == Furniture \ excluded
        k == Min({topK, Cardinality(left)})
    IN  kSubset(k, left)

Init ==
    /\ at = "idle"
    /\ file = [nodes |-> <<>>, guesses |-> NoGuesses]
    /\ readable = TRUE
    /\ graph = file
    /\ only = None
    /\ topK \in TopKs
    /\ key = TRUE
    /\ round = "known"
    /\ todo = {}
    /\ excluded = {}
    /\ outcome = "none"
    /\ searched = {}
    /\ asked = 0
    /\ seenAt \in Spots

(***************************************************************************)
(* A mission loads the file (a torn one raises, and nothing runs) and      *)
(* either searches or, with --navigate-only, chooses a place to drive to.  *)
(***************************************************************************)
Start(step, furniture) ==
    /\ at = "idle"
    /\ readable
    /\ at' = step
    /\ graph' = file
    /\ only' = furniture
    /\ topK' \in TopKs
    /\ key' \in BOOLEAN
    /\ round' = IF furniture = None THEN "known" ELSE "one"
    /\ todo' = IF furniture = None THEN Remembered(file) ELSE Guessed({furniture})
    /\ excluded' = {}
    /\ outcome' = "none"
    /\ searched' = {}
    /\ asked' = 0
    /\ UNCHANGED <<file, readable, seenAt>>

Find == \E f \in Furniture \cup {None} : Start("search", f)
Choose == \E f \in Furniture \cup {None} : Start("choose", f)

(***************************************************************************)
(* search_order, one location at a time.                                   *)
(***************************************************************************)
(* What is known of the pieces searched when the generator is resumed.  A  *)
(* round of guesses joins the excluded ones only when it is over, which    *)
(* is the same: nothing reads excluded in between.                         *)
Tried(l) == excluded' = excluded \cup ({l.piece} \ {None})

(* The object is not detected at this place, or the place is not reached. *)
Miss ==
    /\ at = "search"
    /\ \E l \in todo :
        /\ todo' = todo \ {l}
        /\ Tried(l)
        /\ searched' = searched \cup {l.piece}
    /\ UNCHANGED <<at, file, readable, graph, options, round, outcome, asked, seenAt>>

(* Variant: the cached picks are all tried. *)
RecallAll ==
    /\ round = "known" /\ todo = {}
    /\ graph.guesses # NoGuesses
    /\ todo' = Guessed(graph.guesses)
    /\ round' = IF todo' = {} THEN "over" ELSE "guessed"
    /\ UNCHANGED <<graph, excluded, asked>>

(* Picks from the cache, less those already tried for a remembered object. *)
RecallGuesses ==
    /\ round = "known" /\ todo = {}
    /\ graph.guesses # NoGuesses
    /\ todo' = Guessed(graph.guesses \ excluded)
    /\ round' = IF todo' = {} THEN "over" ELSE "guessed"
    /\ UNCHANGED <<graph, excluded, asked>>

(* No picks and no key: only what is remembered. *)
GoWithout ==
    /\ round = "known" /\ todo = {}
    /\ graph.guesses = NoGuesses
    /\ ~key
    /\ round' = "over"
    /\ UNCHANGED <<graph, todo, excluded, asked>>

(* DeepSeek is asked and its picks join the graph. *)
AskFirst ==
    /\ round = "known" /\ todo = {}
    /\ graph.guesses = NoGuesses
    /\ key
    /\ \E picks \in Predictions :
        /\ todo' = Guessed(picks)
        /\ graph' = [graph EXCEPT !.guesses = picks]
    /\ round' = IF todo' = {} THEN "over" ELSE "guessed"
    /\ asked' = asked + (IF todo' = {} THEN 0 ELSE 1)
    /\ UNCHANGED excluded

(* Every pick came up empty: one more round, without them and not cached. *)
AskAgain ==
    /\ round = "guessed" /\ todo = {}
    /\ key
    /\ \E picks \in Predictions : todo' = Guessed(picks)
    /\ round' = "over"
    /\ asked' = asked + (IF todo' = {} THEN 0 ELSE 1)
    /\ UNCHANGED <<graph, excluded>>

Advance ==
    /\ at = "search"
    /\ RecallGuesses \/ GoWithout \/ AskFirst \/ AskAgain
    /\ UNCHANGED <<at, file, readable, options, outcome, searched, seenAt>>

(* The generator is exhausted: not found, and the cached picks are dropped. *)
Exhausted ==
    /\ todo = {}
    /\ round \in {"one", "over"} \/ (round = "guessed" /\ ~key)

(* Variant: the picks are kept. *)
GiveUpKeeping ==
    /\ at = "search"
    /\ Exhausted
    /\ outcome' = "not_found"
    /\ at' = "save"
    /\ UNCHANGED <<file, readable, graph, options, order, searched, asked, seenAt>>

GiveUp ==
    /\ at = "search"
    /\ Exhausted
    /\ outcome' = "not_found"
    /\ graph' = [graph EXCEPT !.guesses = NoGuesses]
    /\ at' = "save"
    /\ UNCHANGED <<file, readable, options, order, searched, asked, seenAt>>

(***************************************************************************)
(* A detection.  The searched node is reused if the detection is near it,  *)
(* else the nearest node if that is near, else the object is a new node.   *)
(***************************************************************************)
NearestTo(s) ==
    LET distance(n) == IF graph.nodes[n].spot < s THEN s - graph.nodes[n].spot
                                                  ELSE graph.nodes[n].spot - s
    IN  { n \in DOMAIN graph.nodes :
            \A m \in DOMAIN graph.nodes : distance(n) <= distance(m) }

(* Variant: the searched node is reused wherever the detection is. *)
SearchedAnyway(l, s) ==
    IF l.node # 0
    THEN {l.node}
    ELSE { n \in NearestTo(s) : Near(graph.nodes[n].spot, s) }

Reused(l, s) ==
    IF l.node # 0 /\ Near(graph.nodes[l.node].spot, s)
    THEN {l.node}
    ELSE { n \in NearestTo(s) : Near(graph.nodes[n].spot, s) }

(* Variant: the old furniture link stays. *)
KeepEdge(l, s) ==
    LET record == [spot |-> s, on |-> ObservedFurniture(s)]
    IN  \/ \E n \in Reused(l, s) : graph' = [graph EXCEPT !.nodes[n].spot = s]
        \/ /\ Reused(l, s) = {}
           /\ Len(graph.nodes) < MaxNodes
           /\ graph' = [graph EXCEPT !.nodes = Append(@, record)]

RecordObject(l, s) ==
    LET record == [spot |-> s, on |-> ObservedFurniture(s)]
    IN  \/ \E n \in Reused(l, s) : graph' = [graph EXCEPT !.nodes[n] = record]
        \/ /\ Reused(l, s) = {}
           /\ Len(graph.nodes) < MaxNodes
           /\ graph' = [graph EXCEPT !.nodes = Append(@, record)]

Detect ==
    /\ at = "search"
    /\ \E l \in todo, s \in Spots :
        /\ RecordObject(l, s)
        /\ todo' = todo \ {l}
        /\ seenAt' = s
        /\ searched' = searched \cup {l.piece}
    /\ outcome' = "found"
    /\ at' = "save"
    /\ UNCHANGED <<file, readable, options, round, excluded, asked>>

(***************************************************************************)
(* The rest of the mission.                                                *)
(***************************************************************************)
(* choose takes the first location only, and forgets nothing. *)
FirstPlace ==
    \/ todo # {} /\ UNCHANGED <<graph, order, asked>>
    \/ RecallGuesses \/ GoWithout \/ AskFirst

TakeFirst ==
    /\ at = "choose"
    /\ FirstPlace
    /\ outcome' = "chosen"
    /\ at' = "save"
    /\ UNCHANGED <<file, readable, options, searched, seenAt>>

(* The steps after Find run only on a find; Park to Pick change no graph. *)
Save ==
    /\ at = "save"
    /\ file' = graph
    /\ at' = IF outcome = "found" THEN "park" ELSE "idle"
    /\ UNCHANGED <<readable, graph, options, order, outcome, searched, asked, seenAt>>

Park ==
    /\ at = "park"
    /\ at' = "idle"
    /\ UNCHANGED <<file, readable, graph, options, order, outcome, searched, asked, seenAt>>

(* An exception or Ctrl+C ends the mission with its graph in memory only;  *)
(* save truncates the file before it writes, so one during it may tear it. *)
Abort ==
    /\ at # "idle"
    /\ at' = "idle"
    /\ outcome' = "aborted"
    /\ readable' \in IF at = "save" THEN BOOLEAN ELSE {TRUE}
    /\ UNCHANGED <<file, graph, options, order, searched, asked, seenAt>>

(* The graph is built anew after it was torn. *)
Rebuild ==
    /\ ~readable
    /\ readable' = TRUE
    /\ file' = [nodes |-> <<>>, guesses |-> NoGuesses]
    /\ UNCHANGED <<at, graph, options, order, outcome, searched, asked, seenAt>>

Next == \/ Find \/ Choose \/ Miss \/ Advance \/ GiveUp \/ Detect \/ TakeFirst
        \/ Save \/ Park \/ Abort \/ Rebuild

Spec == Init /\ [][Next]_vars
-----------------------------------------------------------------------------
TypeOK ==
    /\ at \in {"idle", "search", "choose", "save", "park"}
    /\ file \in Graph /\ graph \in Graph
    /\ Len(file.nodes) <= MaxNodes /\ Len(graph.nodes) <= MaxNodes
    /\ readable \in BOOLEAN
    /\ only \in Furniture \cup {None}
    /\ topK \in TopKs
    /\ key \in BOOLEAN
    /\ round \in {"known", "guessed", "over", "one"}
    /\ todo \subseteq Location
    /\ excluded \subseteq Furniture
    /\ outcome \in {"none", "found", "not_found", "chosen", "aborted"}
    /\ searched \subseteq Furniture \cup {None}
    /\ asked \in 0..2
    /\ seenAt \in Spots

(* A guess, cached or fresh, of either round never sends the robot to a    *)
(* piece that this search has already visited: for a remembered object, as *)
(* a cached pick or in the first round (query.py:285, 296, 311).           *)
NeverTwice == \A l \in todo : l.node = 0 => l.piece \notin searched

(* "A search that finds nothing forgets them, so the next query asks       *)
(* again" (core/scene_graph/README.md): once a search has ended without    *)
(* the object, no pick of the language model is left in the file, whatever *)
(* earlier searches and choices saved.                                     *)
NextAsks == (at = "idle" /\ outcome = "not_found") => file.guesses = NoGuesses

(* "Save observations and cached guesses before later motion steps can     *)
(* fail" (mission_tree.py:195): from Park on, the file holds the object    *)
(* where it was detected, on the furniture it was seen on, once.           *)
FoundIsSaved ==
    at = "park" =>
        /\ readable
        /\ \E n \in DOMAIN file.nodes :
            file.nodes[n] = [spot |-> seenAt, on |-> ObservedFurniture(seenAt)]

(* With a key, a search over the whole graph gives up only when every      *)
(* piece was visited or DeepSeek was asked in this very search.  The code  *)
(* breaks it: a search all of whose cached picks are remembered objects'   *)
(* pieces ends without a question (query.py:305).                          *)
GivesUpLast ==
    (at = "save" /\ outcome = "not_found" /\ only = None /\ key) =>
        asked > 0 \/ Furniture \subseteq searched

(* Of a step that records a detection. *)
NearSeen(n) == Near(graph.nodes[n].spot, seenAt')
Keeps(n) == graph'.nodes[n] = graph.nodes[n]

(* A find moves one node, which is near the detection, or, with no node     *)
(* near it, adds one; every other node stays where it was                   *)
(* (actions.py:591-600): no search multiplies the object it finds where it  *)
(* was, nor takes one instance for another.                                 *)
NewOnlyIfFar ==
    [][at' = "save" /\ outcome' = "found" =>
        \/ /\ Len(graph'.nodes) = Len(graph.nodes)
           /\ \E n \in DOMAIN graph.nodes :
                NearSeen(n) /\ \A m \in DOMAIN graph.nodes : m # n => Keeps(m)
        \/ /\ Len(graph'.nodes) = Len(graph.nodes) + 1
           /\ \A n \in DOMAIN graph.nodes : ~NearSeen(n) /\ Keeps(n)]_vars

(* "Every place failed, DeepSeek's cached picks included: ask afresh next  *)
(* time" (mission_tree.py:193): what a failed search forgets, it has       *)
(* visited.                                                                *)
ForgetsOnlyTried ==
    [][outcome' = "not_found" /\ graph'.guesses = NoGuesses /\ graph.guesses # NoGuesses
        => graph.guesses \subseteq searched]_vars
=============================================================================
