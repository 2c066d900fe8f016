---------------------------- MODULE SearchProofs ----------------------------
(***************************************************************************)
(* Proofs about the search.  Search, for any furniture, any places and any *)
(* number of missions over one file: no piece is searched twice on a       *)
(* guess, a search that finds nothing leaves no guess behind, what was     *)
(* found is saved, and is a new node only away from the others.  Look, for *)
(* any surface, poses and budget: a place is left with nothing out that    *)
(* was not in a view or counted as seen from one.                          *)
(***************************************************************************)
EXTENDS Search, Look, WellFoundedInduction, TLAPS

Piece == Furniture \cup {None}
Guesses == {NoGuesses} \cup SUBSET Furniture

GraphTypes ==
    /\ file.guesses \in Guesses /\ graph.guesses \in Guesses
    /\ file \in Graph /\ graph \in Graph
TodoTypes == todo \subseteq [piece : Piece, node : Nat]

(* While the generator runs, todo holds the places of the round it is in:  *)
(* nodes of the graph in the first, and guesses in the others.             *)
RoundTells ==
    /\ round = "known" => \A l \in todo : l.node # 0
    /\ round # "known" => \A l \in todo : l.node = 0
NodesExist ==
    at \in {"search", "choose"} =>
        \A l \in todo : l.node # 0 => l.node \in DOMAIN graph.nodes

(* A piece that was searched is excluded from the guesses to come. *)
SearchedIsExcluded == at \in {"search", "choose"} => searched \ {None} \subseteq excluded

(* What a search that ended has decided, until the file says it. *)
Forgets == at = "save" /\ outcome = "not_found" => graph.guesses = NoGuesses
Records ==
    at = "save" /\ outcome = "found" =>
        \E n \in DOMAIN graph.nodes :
            graph.nodes[n] = [spot |-> seenAt, on |-> ObservedFurniture(seenAt)]
Loaded == at # "idle" => readable
ParksOnFind == at = "park" => outcome = "found"

(* The inductive invariant. *)
IInv ==
    /\ GraphTypes /\ TodoTypes /\ seenAt \in Spots
    /\ RoundTells /\ NodesExist /\ SearchedIsExcluded /\ Forgets /\ Records /\ Loaded /\ ParksOnFind
    /\ NeverTwice /\ NextAsks /\ FoundIsSaved

(* What is on is a piece of furniture or none (ObservedFurniture).         *)
LEMMA SeenOnPiece == \A s \in Spots : ObservedFurniture(s) \in Piece
BY DEF ObservedFurniture, Piece

(* The first mission finds an empty graph. *)
LEMMA InitHolds == Init => IInv
<1> SUFFICES ASSUME Init PROVE IInv
  OBVIOUS
<1>1. <<>> \in Seq(Node) /\ file \in Graph /\ graph = file /\ file.guesses = NoGuesses
  BY DEF Init, Graph
<1>2. GraphTypes
  BY <1>1 DEF GraphTypes, Guesses
<1> QED
  BY <1>2 DEF Init, IInv, TodoTypes, RoundTells, NodesExist, SearchedIsExcluded, Forgets, Records,
              Loaded, ParksOnFind, NeverTwice, NextAsks, FoundIsSaved

(* A mission starts from the file, with nothing searched; what it          *)
(* remembers are nodes of that graph.                                      *)
LEMMA StartKeeps ==
    ASSUME IInv, NEW step \in {"search", "choose"}, NEW f \in Piece, Start(step, f)
    PROVE  IInv'
<1> USE DEF Start
<1>1. GraphTypes' /\ file.nodes \in Seq(Node)
  BY DEF IInv, GraphTypes, Graph
<1>2. DOMAIN file.nodes \subseteq Nat \ {0} /\ \A n \in DOMAIN file.nodes : file.nodes[n].on \in Piece
  <2>1. DOMAIN file.nodes = 1..Len(file.nodes) /\ Len(file.nodes) \in Nat
    BY <1>1
  <2>2. \A n \in DOMAIN file.nodes : file.nodes[n] \in Node
    BY <1>1, <2>1
  <2>3. \A n \in 1..Len(file.nodes) : n \in Nat \ {0}
    BY <2>1
  <2> QED
    BY <2>1, <2>2, <2>3 DEF Node, Piece
<1>3. CASE f = None
  <2>1. todo' = Remembered(file) /\ round' = "known"
    BY <1>3
  <2>2. \A l \in todo' : l.node \in DOMAIN file.nodes /\ l.node # 0 /\ l \in [piece : Piece, node : Nat]
    BY <1>2, <2>1 DEF Remembered
  <2> QED
    BY <1>1, <2>1, <2>2 DEF IInv, TodoTypes, RoundTells, NodesExist, SearchedIsExcluded, Forgets,
       Records, Loaded, ParksOnFind, NeverTwice, NextAsks, FoundIsSaved
<1>4. CASE f # None
  <2>1. todo' = Guessed({f}) /\ round' = "one"
    BY <1>4
  <2>2. \A l \in todo' : l.node = 0 /\ l \in [piece : Piece, node : Nat]
    BY <2>1 DEF Guessed
  <2> QED
    BY <1>1, <2>1, <2>2 DEF IInv, TodoTypes, RoundTells, NodesExist, SearchedIsExcluded, Forgets,
       Records, Loaded, ParksOnFind, NeverTwice, NextAsks, FoundIsSaved
<1> QED
  BY <1>3, <1>4

(* Two places of one round name two pieces, if they are guesses.           *)
LEMMA OtherGuess ==
    ASSUME TodoTypes, RoundTells, NEW l \in todo, NEW m \in todo, m # l, m.node = 0
    PROVE  m.piece # l.piece
<1>1. l.node = 0
  BY DEF RoundTells
<1>2. l \in [piece : Piece, node : Nat] /\ m \in [piece : Piece, node : Nat]
  BY DEF TodoTypes
<1> QED
  BY <1>1, <1>2

(* A piece missed is excluded; the places left in the round name others.   *)
LEMMA MissKeeps == IInv /\ Miss => IInv'
<1> SUFFICES ASSUME IInv, Miss PROVE IInv'
  OBVIOUS
<1>1. PICK l \in todo : /\ todo' = todo \ {l} /\ Tried(l) /\ searched' = searched \cup {l.piece}
  BY DEF Miss
<1>2. UNCHANGED <<at, file, readable, graph, options, round, outcome, asked, seenAt>> /\ at = "search"
  BY DEF Miss
<1>3. NeverTwice'
  BY <1>1, <1>2, OtherGuess DEF IInv, NeverTwice
<1>4. SearchedIsExcluded'
  BY <1>1, <1>2 DEF IInv, SearchedIsExcluded, Tried
<1> QED
  BY <1>1, <1>2, <1>3, <1>4 DEF IInv, GraphTypes, TodoTypes, RoundTells, NodesExist, Forgets,
     Records, Loaded, ParksOnFind, NextAsks, FoundIsSaved

(* Every round but the first is of guesses that are not excluded.          *)
NewRound == RecallGuesses \/ GoWithout \/ AskFirst \/ AskAgain
LEMMA RoundIsOfGuesses ==
    ASSUME IInv, NewRound
    PROVE  /\ \A l \in todo' : \E p \in Furniture \ excluded : l = [piece |-> p, node |-> 0]
           /\ round' # "known" /\ excluded' = excluded
           /\ graph' \in Graph /\ graph'.guesses \in Guesses
<1>1. graph \in Graph /\ graph.guesses \in Guesses
  BY DEF IInv, GraphTypes
<1>2. Predictions \subseteq SUBSET (Furniture \ excluded)
  BY DEF Predictions, kSubset
<1>3. CASE RecallGuesses
  <2>1. graph.guesses \subseteq Furniture
    BY <1>1, <1>3 DEF RecallGuesses, Guesses
  <2> QED
    BY <1>1, <1>3, <2>1 DEF RecallGuesses, Guessed
<1>4. CASE GoWithout
  BY <1>1, <1>4 DEF GoWithout
<1>5. CASE AskFirst
  <2>1. PICK picks \in Predictions :
            todo' = Guessed(picks) /\ graph' = [graph EXCEPT !.guesses = picks]
    BY <1>5 DEF AskFirst
  <2>2. picks \subseteq Furniture \ excluded
    BY <1>2
  <2>3. graph' \in Graph /\ graph'.guesses \in Guesses
    BY <1>1, <2>1, <2>2 DEF Graph, Guesses
  <2> QED
    BY <1>5, <2>1, <2>2, <2>3 DEF AskFirst, Guessed
<1>6. CASE AskAgain
  <2>1. PICK picks \in Predictions : todo' = Guessed(picks)
    BY <1>6 DEF AskAgain
  <2>2. picks \subseteq Furniture \ excluded
    BY <1>2
  <2> QED
    BY <1>1, <1>6, <2>1, <2>2 DEF AskAgain, Guessed
<1> QED
  BY <1>3, <1>4, <1>5, <1>6 DEF NewRound

(* So such a round repeats no piece, and names no node.                    *)
LEMMA RoundKeeps ==
    ASSUME IInv, NewRound, at \in {"search", "choose"}, searched' = searched, file' = file
    PROVE  GraphTypes' /\ TodoTypes' /\ RoundTells' /\ NeverTwice' /\ \A l \in todo' : l.node = 0
<1>1. \A l \in todo' : \E p \in Furniture \ excluded : l = [piece |-> p, node |-> 0]
  BY RoundIsOfGuesses
<1>2. \A l \in todo' : l.node = 0 /\ l.piece \in Furniture \ excluded /\ l \in [piece : Piece, node : Nat]
  BY <1>1 DEF Piece
<1>3. NeverTwice'
  BY <1>2, SearchAssumption DEF IInv, SearchedIsExcluded, NeverTwice, SearchAssumption
<1> QED
  BY <1>2, <1>3, RoundIsOfGuesses DEF IInv, GraphTypes, TodoTypes, RoundTells

(* A search goes on to its next round. *)
LEMMA AdvanceKeeps == IInv /\ Advance => IInv'
<1> SUFFICES ASSUME IInv, Advance PROVE IInv'
  OBVIOUS
<1>1. NewRound /\ at = "search" /\ UNCHANGED <<at, file, readable, options, outcome, searched, seenAt>>
  BY DEF Advance, NewRound
<1>2. excluded' = excluded
  BY <1>1, RoundIsOfGuesses
<1> QED
  BY <1>1, <1>2, RoundKeeps DEF IInv, NodesExist, SearchedIsExcluded, Forgets, Records, Loaded,
     ParksOnFind, NextAsks, FoundIsSaved

(* Choosing a place ends in a save, with nothing forgotten or found. *)
LEMMA TakeFirstKeeps == IInv /\ TakeFirst => IInv'
<1> SUFFICES ASSUME IInv, TakeFirst PROVE IInv'
  OBVIOUS
<1>1. /\ at = "choose" /\ at' = "save" /\ outcome' = "chosen"
      /\ UNCHANGED <<file, readable, options, searched, seenAt>>
  BY DEF TakeFirst
<1>2. NewRound \/ UNCHANGED <<graph, order>>
  BY DEF TakeFirst, FirstPlace, NewRound
<1>3. GraphTypes' /\ TodoTypes' /\ RoundTells' /\ NeverTwice'
  <2>1. CASE NewRound
    BY <1>1, <2>1, RoundKeeps
  <2>2. CASE UNCHANGED <<graph, order>>
    BY <1>1, <2>2 DEF order, IInv, GraphTypes, TodoTypes, RoundTells, NeverTwice
  <2> QED
    BY <1>2, <2>1, <2>2
<1> QED
  BY <1>1, <1>3 DEF IInv, NodesExist, SearchedIsExcluded, Forgets, Records, Loaded,
     ParksOnFind, NextAsks, FoundIsSaved

(* A search that found nothing has forgotten its guesses when it saves.    *)
LEMMA GiveUpKeeps == IInv /\ GiveUp => IInv'
<1> SUFFICES ASSUME IInv, GiveUp PROVE IInv'
  OBVIOUS
<1>1. graph' \in Graph /\ graph'.guesses = NoGuesses
  BY DEF GiveUp, IInv, GraphTypes, Graph
<1> QED
  BY <1>1 DEF GiveUp, options, order, IInv, GraphTypes, Guesses, TodoTypes, RoundTells, NodesExist,
     SearchedIsExcluded, Forgets, Records, Loaded, ParksOnFind, NeverTwice, NextAsks, FoundIsSaved

(* What is detected is recorded, in a node there is or in a new one.       *)
LEMMA RecordIsMade ==
    ASSUME IInv, NEW l \in todo, NEW s \in Spots, RecordObject(l, s), at = "search"
    PROVE  /\ graph' \in Graph /\ graph'.guesses = graph.guesses
           /\ \E n \in DOMAIN graph'.nodes :
                graph'.nodes[n] = [spot |-> s, on |-> ObservedFurniture(s)]
<1> DEFINE record == [spot |-> s, on |-> ObservedFurniture(s)]
<1>1. record \in Node
  BY SeenOnPiece DEF Node, Piece
<1>2. graph \in Graph /\ graph.nodes \in Seq(Node)
  BY DEF IInv, GraphTypes, Graph
<1>3. Reused(l, s) \subseteq DOMAIN graph.nodes
  BY DEF IInv, NodesExist, Reused, NearestTo
<1> HIDE DEF record
<1>4. CASE \E n \in Reused(l, s) : graph' = [graph EXCEPT !.nodes[n] = record]
  <2>1. PICK n \in DOMAIN graph.nodes : graph' = [graph EXCEPT !.nodes[n] = record]
    BY <1>3, <1>4
  <2>2. graph'.nodes = [graph.nodes EXCEPT ![n] = record] /\ graph'.guesses = graph.guesses
    BY <1>2, <2>1 DEF Graph
  <2>3. graph'.nodes \in Seq(Node)
    BY <1>1, <1>2, <2>2
  <2>4. graph' \in Graph
    BY <1>2, <2>1, <2>3 DEF Graph
  <2> QED
    BY <1>2, <2>2, <2>4 DEF record
<1>5. CASE graph' = [graph EXCEPT !.nodes = Append(@, record)]
  <2>1. graph'.nodes = Append(graph.nodes, record) /\ graph'.guesses = graph.guesses
    BY <1>2, <1>5 DEF Graph
  <2>2. graph'.nodes \in Seq(Node)
    BY <1>1, <1>2, <2>1
  <2>3. graph' \in Graph
    BY <1>2, <1>5, <2>2 DEF Graph
  <2>4. Len(graph.nodes) + 1 \in DOMAIN graph'.nodes /\ graph'.nodes[Len(graph.nodes) + 1] = record
    BY <1>1, <1>2, <2>1
  <2> QED
    BY <2>1, <2>3, <2>4 DEF record
<1> QED
  BY <1>4, <1>5 DEF RecordObject, record

(* A search that found the object has it in its graph when it saves. *)
LEMMA DetectKeeps == IInv /\ Detect => IInv'
<1> SUFFICES ASSUME IInv, Detect PROVE IInv'
  OBVIOUS
<1>1. PICK l \in todo, s \in Spots :
        /\ RecordObject(l, s) /\ todo' = todo \ {l} /\ seenAt' = s
        /\ searched' = searched \cup {l.piece}
  BY DEF Detect
<1>2. /\ at = "search" /\ at' = "save" /\ outcome' = "found"
      /\ UNCHANGED <<file, readable, options, round, excluded, asked>>
  BY DEF Detect
<1>3. /\ graph' \in Graph /\ graph'.guesses = graph.guesses
      /\ \E n \in DOMAIN graph'.nodes :
            graph'.nodes[n] = [spot |-> s, on |-> ObservedFurniture(s)]
  BY <1>1, <1>2, RecordIsMade
<1>4. NeverTwice'
  BY <1>1, <1>2, OtherGuess DEF IInv, NeverTwice
<1>5. Records'
  BY <1>1, <1>3 DEF Records, ObservedFurniture
<1>6. GraphTypes'
  BY <1>2, <1>3 DEF IInv, GraphTypes
<1> QED
  BY <1>1, <1>2, <1>4, <1>5, <1>6 DEF IInv, TodoTypes, RoundTells, NodesExist,
     SearchedIsExcluded, Forgets, Loaded, ParksOnFind, NextAsks, FoundIsSaved

(* Saving makes the decision the file's; a mission that dies before it     *)
(* decides nothing, and one that tears the file leaves none to load.       *)
LEMMA EndKeeps == IInv /\ (Save \/ Park \/ Abort \/ Rebuild \/ UNCHANGED vars) => IInv'
<1> USE DEF options, order
<1>1. IInv /\ Save => IInv'
  <2> SUFFICES ASSUME IInv, Save PROVE IInv'
    OBVIOUS
  <2>1. FoundIsSaved'
    BY DEF Save, IInv, Loaded, Records, FoundIsSaved, ObservedFurniture
  <2> QED
    BY <2>1 DEF Save, IInv, GraphTypes, TodoTypes, RoundTells, NodesExist, SearchedIsExcluded,
       Forgets, Records, Loaded, ParksOnFind, NeverTwice, NextAsks
<1>2. IInv /\ Park => IInv'
  BY DEF Park, IInv, GraphTypes, TodoTypes, RoundTells, NodesExist, SearchedIsExcluded,
     Forgets, Records, Loaded, ParksOnFind, NeverTwice, NextAsks, FoundIsSaved
<1>3. IInv /\ Abort => IInv'
  BY DEF Abort, IInv, GraphTypes, TodoTypes, RoundTells, NodesExist, SearchedIsExcluded,
     Forgets, Records, Loaded, ParksOnFind, NeverTwice, NextAsks, FoundIsSaved
<1>4. IInv /\ Rebuild => IInv'
  <2> SUFFICES ASSUME IInv, Rebuild PROVE IInv'
    OBVIOUS
  <2>1. file' \in Graph /\ file'.guesses = NoGuesses /\ at = "idle"
    BY DEF Rebuild, Graph, IInv, Loaded
  <2> QED
    BY <2>1 DEF Rebuild, IInv, GraphTypes, Guesses, TodoTypes, RoundTells, NodesExist,
       SearchedIsExcluded, Forgets, Records, Loaded, ParksOnFind, NeverTwice, NextAsks, FoundIsSaved
<1>5. IInv /\ UNCHANGED vars => IInv'
  BY DEF vars, IInv, GraphTypes, TodoTypes, RoundTells, NodesExist, SearchedIsExcluded,
     Forgets, Records, Loaded, ParksOnFind, NeverTwice, NextAsks, FoundIsSaved, ObservedFurniture
<1> QED
  BY <1>1, <1>2, <1>3, <1>4, <1>5

(* IInv holds of every state of every sequence of missions. *)
LEMMA SearchesKeepIInv == Spec => []IInv
<1>1. IInv /\ (Find \/ Choose) => IInv'
  BY StartKeeps DEF Find, Choose, Piece
<1>2. IInv /\ [Next]_vars => IInv'
  BY <1>1, MissKeeps, AdvanceKeeps, GiveUpKeeps, DetectKeeps, TakeFirstKeeps, EndKeeps DEF Next
<1> QED
  BY InitHolds, <1>2, PTL DEF Spec

(* No guess, cached or fresh, of either round sends the robot to a piece   *)
(* that this search has visited (query.py search_order).                   *)
THEOREM GuessesAreNew == Spec => []NeverTwice
<1>1. IInv => NeverTwice
  BY DEF IInv
<1> QED
  BY <1>1, SearchesKeepIInv, PTL

(* After a search that found nothing the file holds no guess, whatever     *)
(* earlier missions saved (mission_tree.py find).                          *)
THEOREM NextSearchAsks == Spec => []NextAsks
<1>1. IInv => NextAsks
  BY DEF IInv
<1> QED
  BY <1>1, SearchesKeepIInv, PTL

(* From Park on the file is whole and holds the object where it was        *)
(* detected (mission_tree.py find, actions.py record_object).              *)
THEOREM FindIsKept == Spec => []FoundIsSaved
<1>1. IInv => FoundIsSaved
  BY DEF IInv
<1> QED
  BY <1>1, SearchesKeepIInv, PTL

(***************************************************************************)
(* When a detection is a new node.                                         *)
(***************************************************************************)
(* A set of naturals has a least member.                                   *)
LEMMA NatLeast ==
    ASSUME NEW S, S \subseteq Nat, S # {}
    PROVE  \E m \in S : \A n \in S : m <= n
<1> DEFINE R == {p \in Nat \X Nat : p[1] < p[2]}
<1>1. IsWellFoundedOn(R, Nat)
  BY NatLessThanWellFounded DEF OpToRel
<1> HIDE DEF R
<1>2. PICK m \in S : \A n \in S : ~(<<n, m>> \in R)
  BY <1>1, WFMin
<1>3. \A n \in S : ~(n < m)
  BY <1>2 DEF R
<1> QED
  BY <1>3, SMT

Far(a, b) == IF a < b THEN b - a ELSE a - b

(* Near is a bound on the distance.                                        *)
LEMMA NearIsClose == \A a, b \in Spots : Far(a, b) \in Nat /\ (Near(a, b) <=> Far(a, b) <= SameInstance)
BY SearchAssumption DEF SearchAssumption, Near, Far

(* If any node is near a detection, one of the nearest is, so a node is    *)
(* reused (graph.find_object, actions.search).                             *)
LEMMA NearIsReused ==
    ASSUME GraphTypes, NodesExist, at = "search", NEW l \in todo, NEW s \in Spots,
           NEW n \in DOMAIN graph.nodes, Near(graph.nodes[n].spot, s)
    PROVE  Reused(l, s) # {}
<1> DEFINE D == DOMAIN graph.nodes
           far(k) == Far(graph.nodes[k].spot, s)
<1>1. \A k \in D : graph.nodes[k].spot \in Spots /\ far(k) \in Nat
  <2>1. graph.nodes \in Seq(Node)
    BY DEF GraphTypes, Graph
  <2>2. \A k \in D : graph.nodes[k] \in Node
    BY <2>1
  <2> QED
    BY <2>2, NearIsClose DEF Node
<1>2. PICK m \in D : \A k \in D : far(m) <= far(k)
  <2> DEFINE S == {far(k) : k \in D}
  <2>1. S \subseteq Nat /\ S # {}
    BY <1>1
  <2> HIDE DEF S
  <2>2. PICK d \in S : \A e \in S : d <= e
    BY <2>1, NatLeast
  <2> QED
    BY <2>2 DEF S
<1>3. m \in NearestTo(s)
  BY <1>2 DEF NearestTo, Far
<1>4. far(n) <= SameInstance
  BY <1>1, NearIsClose
<1>5. far(m) <= SameInstance
  <2>1. far(m) \in Nat /\ far(n) \in Nat /\ far(m) <= far(n) /\ SameInstance \in Nat
    BY <1>1, <1>2, SearchAssumption DEF SearchAssumption
  <2> HIDE DEF far
  <2> QED
    BY <1>4, <2>1
<1>6. Near(graph.nodes[m].spot, s)
  BY <1>1, <1>5, NearIsClose
<1> QED
  BY <1>3, <1>6 DEF Reused

(* A sequence that grows keeps what it had.                                *)
LEMMA AppendKeeps ==
    ASSUME NEW S, NEW q \in Seq(S), NEW e
    PROVE  Len(Append(q, e)) = Len(q) + 1 /\ \A n \in DOMAIN q : Append(q, e)[n] = q[n]
OBVIOUS

(* A node that is reused is near what was detected.                        *)
LEMMA ReusedIsNear ==
    ASSUME NodesExist, at = "search", NEW l \in todo, NEW s \in Spots, NEW n \in Reused(l, s)
    PROVE  n \in DOMAIN graph.nodes /\ Near(graph.nodes[n].spot, s)
BY DEF NodesExist, Reused, NearestTo

(* A find moves one node that is near it, or adds one when none is, and    *)
(* leaves the others as they are (actions.search).                         *)
THEOREM FarIsNew == Spec => NewOnlyIfFar
<1> DEFINE Moved == /\ Len(graph'.nodes) = Len(graph.nodes)
                    /\ \E n \in DOMAIN graph.nodes :
                         NearSeen(n) /\ \A m \in DOMAIN graph.nodes : m # n => Keeps(m)
           New == /\ Len(graph'.nodes) = Len(graph.nodes) + 1
                  /\ \A n \in DOMAIN graph.nodes : ~NearSeen(n) /\ Keeps(n)
<1>1. IInv /\ [Next]_vars => [at' = "save" /\ outcome' = "found" => Moved \/ New]_vars
  <2> SUFFICES ASSUME IInv, Next, at' = "save", outcome' = "found" PROVE Moved \/ New
    OBVIOUS
  <2>1. CASE Detect
    <3>1. PICK l \in todo, s \in Spots : RecordObject(l, s) /\ seenAt' = s
      BY <2>1 DEF Detect
    <3>2. at = "search" /\ GraphTypes /\ NodesExist
      BY <2>1 DEF Detect, IInv
    <3>3. graph \in Graph /\ graph.nodes \in Seq(Node)
      BY <3>2 DEF GraphTypes, Graph
    <3>4. CASE /\ Reused(l, s) = {}
               /\ graph' = [graph EXCEPT !.nodes = Append(@, [spot |-> s, on |-> ObservedFurniture(s)])]
      <4>1. \A n \in DOMAIN graph.nodes : ~NearSeen(n)
        BY <3>1, <3>2, <3>4, NearIsReused DEF NearSeen
      <4>2. graph'.nodes = Append(graph.nodes, [spot |-> s, on |-> ObservedFurniture(s)])
        BY <3>3, <3>4 DEF Graph
      <4>3. Len(graph'.nodes) = Len(graph.nodes) + 1 /\ \A n \in DOMAIN graph.nodes : Keeps(n)
        <5> DEFINE record == [spot |-> s, on |-> ObservedFurniture(s)]
        <5> HIDE DEF record
        <5>1. graph'.nodes = Append(graph.nodes, record)
          BY <4>2 DEF record
        <5> QED
          BY <3>3, <5>1, AppendKeeps DEF Keeps
      <4> QED
        BY <4>1, <4>3
    <3>5. CASE \E n \in Reused(l, s) : graph' = [graph EXCEPT !.nodes[n] =
                                            [spot |-> s, on |-> ObservedFurniture(s)]]
      <4>1. PICK n \in Reused(l, s) : graph' = [graph EXCEPT !.nodes[n] =
                                            [spot |-> s, on |-> ObservedFurniture(s)]]
        BY <3>5
      <4>2. n \in DOMAIN graph.nodes /\ NearSeen(n)
        BY <3>1, <3>2, ReusedIsNear DEF NearSeen
      <4>3. graph'.nodes = [graph.nodes EXCEPT ![n] = [spot |-> s, on |-> ObservedFurniture(s)]]
        BY <3>3, <4>1 DEF Graph
      <4>4. Len(graph'.nodes) = Len(graph.nodes) /\ \A m \in DOMAIN graph.nodes : m # n => Keeps(m)
        BY <3>3, <4>3 DEF Keeps
      <4> QED
        BY <4>2, <4>4
    <3> QED
      BY <3>1, <3>4, <3>5 DEF RecordObject
  <2>2. CASE Find \/ Choose \/ Miss \/ Advance \/ GiveUp \/ TakeFirst \/ Save \/ Park \/ Abort \/ Rebuild
    BY <2>2 DEF Find, Choose, Start, Miss, Advance, GiveUp, TakeFirst, Save, Park, Abort, Rebuild, IInv, Loaded
  <2> QED
    BY <2>1, <2>2 DEF Next
<1> QED
  BY <1>1, SearchesKeepIInv, PTL DEF Spec, NewOnlyIfFar

(***************************************************************************)
(* A search at one place: for any surface, any poses and budget, what is   *)
(* left out was in another view, or was counted as seen from a pose whose  *)
(* aims did not all show it.                                               *)
(***************************************************************************)
LookTypes ==
    /\ poses \in Seq(SUBSET Samples) /\ here \subseteq Samples /\ seen \subseteq Samples
    /\ i \in 0..Len(poses) /\ failed \in Nat

(* The samples counted as seen were in a view, or stand in the history as  *)
(* those that were not, until the object is found.                         *)
Known == viewed \cup assumed
SeenWasViewed == stage # "found" => seen \subseteq Known

LooksWhereItStands == stage = "look" => i = 0 \/ i \in visited

(* A pose that is passed was visited or lost, or shows nothing unseen.     *)
Handled(j) == j \in visited \cup lost \/ poses[j] \subseteq seen
PassedAreHandled == \A j \in 1..Len(poses) : j < i => Handled(j)
LeftWhenHandled ==
    stage = "left" =>
        failed >= FailedDrives \/ oversized \/ \A j \in 1..Len(poses) : Handled(j)

(* The inductive invariant. *)
LookIInv ==
    /\ LookTypes /\ SeenWasViewed /\ LooksWhereItStands
    /\ PassedAreHandled /\ LeftWhenHandled

(* Nothing is seen, nothing passed. *)
LEMMA NothingPassed == LookInit => LookIInv
<1> SUFFICES ASSUME LookInit PROVE LookIInv
  OBVIOUS
<1>1. PICK n \in 0..MaxPoses : poses \in [1..n -> SUBSET Samples]
  BY DEF LookInit
<1>2. poses \in Seq(SUBSET Samples)
  BY <1>1, LookAssumption DEF LookAssumption
<1> QED
  BY <1>2 DEF LookInit, LookIInv, LookTypes, SeenWasViewed, LooksWhereItStands, PassedAreHandled,
              LeftWhenHandled

(* What a step may do to the histories. *)
Grows ==
    /\ UNCHANGED place /\ visited \subseteq visited' /\ lost \subseteq lost'
    /\ seen \subseteq seen' /\ seen' \subseteq Samples
    /\ failed' \in Nat /\ (stage' # "found" => seen' \subseteq Known')

(* What a step makes of a pose. *)
Settles(j) == j \in visited' \cup lost' \/ poses[j] \subseteq seen'

(* A pose is passed when it was visited, lost or not worth it.             *)
LEMMA NextPoseKeeps ==
    ASSUME LookIInv, Grows, NextPose, i > 0 => Settles(i)
    PROVE  LookIInv'
<1> USE DEF LookIInv, LookTypes, Grows, place, NextPose
<1>1. Len(poses) \in Nat /\ i \in Nat /\ i <= Len(poses) /\ poses' = poses
  OBVIOUS
<1>2. \A j \in 1..Len(poses) : (Handled(j) => Settles(j)) /\ (Settles(j) => Handled(j)')
  BY DEF Handled, Settles
<1>3. \A j \in 1..Len(poses) : j <= i => Settles(j)
  <2> SUFFICES ASSUME NEW j \in 1..Len(poses), j <= i PROVE Settles(j)
    OBVIOUS
  <2>1. CASE j = i
    BY <1>1, <2>1
  <2>2. CASE j < i
    BY <1>2, <2>2 DEF PassedAreHandled
  <2> QED
    BY <1>1, <2>1, <2>2
<1>4. LookTypes' /\ SeenWasViewed' /\ LooksWhereItStands'
  BY <1>1 DEF SeenWasViewed, LooksWhereItStands
<1>5. PassedAreHandled'
  BY <1>1, <1>2, <1>3 DEF PassedAreHandled
<1>6. LeftWhenHandled'
  BY <1>1, <1>2, <1>3 DEF LeftWhenHandled
<1> QED
  BY <1>4, <1>5, <1>6

(* The place is left for its reasons.                                      *)
LEMMA LeaveKeeps ==
    ASSUME LookIInv, Grows, Leave,
           failed' >= FailedDrives \/ oversized' \/ seen' = Samples
    PROVE  LookIInv'
<1> USE DEF LookIInv, LookTypes, Grows, place, Leave
<1>1. \A j \in 1..Len(poses) : (Handled(j) => Handled(j)') /\ poses[j] \subseteq Samples
  BY DEF Handled
<1>2. PassedAreHandled'
  BY <1>1 DEF PassedAreHandled
<1>3. LeftWhenHandled'
  BY <1>1 DEF LeftWhenHandled, Handled
<1> QED
  BY <1>2, <1>3 DEF SeenWasViewed, LooksWhereItStands

(* The robot looks, or the search is over: no pose is passed.              *)
LEMMA StayKeeps ==
    ASSUME LookIInv, Grows, i' = i, stage' \in {"look", "found", "raised"},
           stage' = "look" => i = 0 \/ i \in visited'
    PROVE  LookIInv'
BY DEF LookIInv, LookTypes, Grows, place, SeenWasViewed, LooksWhereItStands, PassedAreHandled,
       LeftWhenHandled, Handled

(* A view counts all that is in range of the pose, shown or not. *)
LEMMA ViewShows ==
    ASSUME LookIInv, stage = "look", View, UNCHANGED <<place, failed, lost, visited>>
    PROVE  Grows
<1>1. Within \subseteq Samples
  BY DEF Within, LookIInv, LookTypes
<1>2. seen' = seen \cup Within /\ Known' = Known \cup Within
  BY DEF View, Known
<1> QED
  BY <1>1, <1>2 DEF Grows, LookIInv, LookTypes, SeenWasViewed

(* The end of a view: the place is left, or the next pose is up.           *)
LEMMA AfterViewKeeps ==
    ASSUME LookIInv, Grows, stage = "look", AfterView
    PROVE  LookIInv'
<1>1. i > 0 => Settles(i)
  BY DEF LookIInv, LookTypes, LooksWhereItStands, Grows, Settles
<1>2. CASE observations >= limit /\ seen' = Samples
  BY <1>2, LeaveKeeps DEF AfterView
<1>3. CASE ~(observations >= limit /\ seen' = Samples)
  BY <1>1, <1>3, NextPoseKeeps DEF AfterView
<1> QED
  BY <1>2, <1>3

(* Whatever comes of a pose, LookIInv holds.                               *)
LEMMA PoseStep == LookIInv /\ [LookNext]_look => LookIInv'
<1> SUFFICES ASSUME LookIInv, [LookNext]_look PROVE LookIInv'
  OBVIOUS
<1> USE DEF place
<1>1. CASE Skip
  <2>1. i > 0 => poses[i] \subseteq seen
    BY <1>1 DEF Skip, Worth, Within, LookIInv, LookTypes
  <2>2. Grows /\ (i > 0 => Settles(i))
    BY <1>1, <2>1 DEF Skip, Grows, Settles, LookIInv, LookTypes, SeenWasViewed, Known
  <2> QED
    BY <1>1, <2>2, NextPoseKeeps DEF Skip
<1>2. CASE NoPath \/ DriveFails
  <2>1. Grows /\ Settles(i)
    BY <1>2 DEF NoPath, DriveFails, Grows, Settles, LookIInv, LookTypes, SeenWasViewed, Known
  <2>2. NextPose \/ (failed' >= FailedDrives /\ Leave)
    BY <1>2 DEF NoPath, DriveFails
  <2> QED
    BY <2>1, <2>2, NextPoseKeeps, LeaveKeeps
<1>3. CASE LookFromHere \/ Arrive \/ Raise
  <2>1. Grows
    BY <1>3 DEF LookFromHere, Arrive, Raise, Grows, LookIInv, LookTypes, SeenWasViewed, Known
  <2> QED
    BY <1>3, <2>1, StayKeeps DEF LookFromHere, Arrive, Raise
<1>4. CASE Detected
  <2>1. Grows
    BY <1>4 DEF Detected, Within, Known, Grows, LookIInv, LookTypes
  <2> QED
    BY <1>4, <2>1, StayKeeps DEF Detected
<1>5. CASE CannotAim
  <2>1. Grows
    BY <1>5 DEF CannotAim, Grows, LookIInv, LookTypes, SeenWasViewed, Known
  <2> QED
    BY <1>5, <2>1, AfterViewKeeps DEF CannotAim
<1>6. CASE NotDetected
  BY <1>6, ViewShows, AfterViewKeeps DEF NotDetected
<1>7. CASE Oversized
  <2>1. Grows
    BY <1>7, ViewShows DEF Oversized
  <2>2. i > 0 => Settles(i)
    BY <1>7 DEF Oversized, LookIInv, LookTypes, LooksWhereItStands, Settles
  <2>3. NextPose \/ (oversized' /\ Leave)
    BY <1>7 DEF Oversized
  <2> QED
    BY <2>1, <2>2, <2>3, NextPoseKeeps, LeaveKeeps
<1>8. CASE UNCHANGED look
  BY <1>8 DEF look, LookIInv, LookTypes, SeenWasViewed, Known, LooksWhereItStands, PassedAreHandled,
              LeftWhenHandled, Handled
<1> QED
  BY <1>1, <1>2, <1>3, <1>4, <1>5, <1>6, <1>7, <1>8 DEF LookNext, Done

(* Unless drives keep failing or the last view was discarded, a pose is    *)
(* left out only when all it would have shown was in the view of another,  *)
(* or counted as seen from one that did not show it (actions.search).      *)
THEOREM NothingIsLeftOut == LookSpec => []LeavesNothing
<1>1. LookIInv => LeavesNothing
  <2> SUFFICES ASSUME LookIInv, stage = "left", failed < FailedDrives, ~oversized,
                      NEW j \in (1..Len(poses)) \ (visited \cup lost)
               PROVE  poses[j] \subseteq viewed \cup assumed
    BY DEF LeavesNothing
  <2>1. ~(failed >= FailedDrives)
    BY LookAssumption DEF LookAssumption, LookIInv, LookTypes
  <2>2. Handled(j) /\ seen \subseteq Known
    BY <2>1 DEF LookIInv, LeftWhenHandled, SeenWasViewed
  <2> QED
    BY <2>2 DEF Handled, Known
<1> QED
  BY <1>1, NothingPassed, PoseStep, PTL DEF LookSpec
=============================================================================
