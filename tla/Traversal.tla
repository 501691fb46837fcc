----------------------------- MODULE Traversal -----------------------------
(***************************************************************************)
(* The queries over an investigation's evidence graph                      *)
(* (core/graph/traversal.py): the neighbourhood of an entity, the paths    *)
(* between two entities, the whole graph and the part of it that a finding *)
(* cites.  Every SELECT of a query is a step of its own, and between two   *)
(* of them a correlation may commit more of the graph, or a purge delete   *)
(* the investigation.  A SELECT without ORDER BY answers in any order.     *)
(*                                                                         *)
(* Rows are never changed and, but for the purge, never deleted: the graph *)
(* a query began with is part of the one it ends with.                     *)
(***************************************************************************)
EXTENDS Naturals, FiniteSets, Sequences, SequencesExt

CONSTANTS
  Entities,        \* entities that can be recorded
  Edges,           \* entity_edges rows that can be recorded
  From, To,        \* the two ends of each of them
  Backing,         \* the evidence that asserts it
  Depths, Limits,  \* what a client may ask for
  MaxDepth,        \* ABSOLUTE_MAX_DEPTH
  MaxResults,      \* ABSOLUTE_RESULT_CAP
  MaxPaths,        \* the cap of paths_between
  Commits          \* commits of correlation, the first before the behaviour (a bound)

ASSUME EndsAssumption ==
  /\ IsFiniteSet(Edges)
  /\ From \in [Edges -> Entities]
  /\ To \in [Edges -> Entities]
ASSUME BoundsAssumption ==
  /\ Depths \subseteq Nat \ {0} /\ Limits \subseteq Nat \ {0}
  /\ MaxDepth \in Nat \ {0} /\ MaxResults \in Nat \ {0} /\ MaxPaths \in Nat \ {0}
  /\ Commits \in Nat \ {0}

VARIABLES
  nodes,      \* the committed entities
  born,       \* the commit that inserted an edge, 0 while there is none
  deleted,    \* the investigation was purged
  query,      \* what is asked, with its bounds applied
  phase,      \* "idle", "search", "entities" or "done"
  queue,      \* what is still to be visited
  visited,    \* the entities neighbours has met
  collected,  \* the edges of the answer, in the order they were read
  paths,      \* the paths of the answer
  entities,   \* the entities of the answer
  truncated,  \* its flag
  before      \* the edges there were when the query was asked (history)

graphVars  == <<nodes, born, deleted>>
answerVars == <<visited, collected, paths, entities, truncated>>
queryVars == <<graphVars, query, phase, queue, answerVars, before>>

Present == {e \in Edges : born[e] > 0}
EndsOf(S) == UNION {{From[e], To[e]} : e \in S}
Smaller(m, n) == IF m < n THEN m ELSE n

(***************************************************************************)
(* Data.  The bounds of a query are clamped when it starts; only the       *)
(* subgraph of a finding takes its limit as it is.                         *)
(***************************************************************************)
Queries ==
  [op : {"neighbours"}, start : Entities,
     depth : {Smaller(d, MaxDepth) : d \in Depths},
     cap : {Smaller(l, MaxResults) : l \in Limits}]
  \cup [op : {"paths"}, start : Entities, target : Entities,
          depth : {Smaller(d, MaxDepth) : d \in Depths},
          cap : {Smaller(l, MaxPaths) : l \in Limits}]
  \cup [op : {"full"}, cap : {Smaller(l, MaxResults) : l \in Limits}]
  \cup [op : {"finding"}, cites : SUBSET {Backing[e] : e \in Edges},
          cap : Limits]

NoQuery == [op |-> "none"]

TypeOK ==
  /\ nodes \subseteq Entities
  /\ born \in [Edges -> 0..Commits]
  /\ EndsOf(Present) \subseteq nodes
  /\ deleted \in BOOLEAN
  /\ query \in Queries \cup {NoQuery}
  /\ phase \in {"idle", "search", "entities", "done"}
  /\ \A i \in DOMAIN queue :
       /\ queue[i].at \in Entities
       /\ query.op = "neighbours" => queue[i].depth \in 0..query.depth
       /\ query.op = "paths" => Len(queue[i].trail) <= query.depth
  /\ visited \subseteq Entities /\ entities \subseteq Entities
  /\ collected \in Seq(Edges)
  /\ Cardinality(Range(collected)) = Len(collected)
  /\ \A i \in DOMAIN paths : paths[i] \in Seq(Edges)
  /\ query # NoQuery =>
       Len(collected) <= query.cap /\ Len(paths) <= query.cap
  /\ truncated \in BOOLEAN
  /\ before \subseteq Edges

\* An earlier correlation may have committed any part of the graph.
GraphInit ==
  /\ born \in [Edges -> {0, 1}] /\ deleted = FALSE
  /\ nodes \in {S \in SUBSET Entities : EndsOf(Present) \subseteq S}
  /\ query = NoQuery /\ phase = "idle" /\ queue = <<>>
  /\ visited = {} /\ collected = <<>> /\ paths = <<>> /\ entities = {}
  /\ truncated = FALSE /\ before = {}

-----------------------------------------------------------------------------
(* The writers, while a query runs: what they commit before it is the       *)
(* initial state, and what they commit after it touches no answer.          *)

Running == phase \in {"search", "entities"}

Latest == CHOOSE n \in 0..Commits :
            (n = 0 \/ \E e \in Edges : born[e] = n)
            /\ \A e \in Edges : born[e] <= n

\* Correlation commits the entities and edges it found, all at once.
CommitGraph ==
  /\ Running /\ ~deleted /\ Latest < Commits
  /\ \E new \in SUBSET (Edges \ Present) \ {{}}, lone \in SUBSET Entities :
       /\ Cardinality(lone) <= 1
       /\ born' = [e \in Edges |-> IF e \in new THEN Latest + 1 ELSE born[e]]
       /\ nodes' = nodes \cup EndsOf(new) \cup lone
  /\ UNCHANGED <<deleted, query, phase, queue, answerVars, before>>

\* A purge deletes the investigation, and the graph goes with it.
Purge ==
  /\ Running /\ ~deleted
  /\ deleted' = TRUE /\ nodes' = {} /\ born' = [e \in Edges |-> 0]
  /\ UNCHANGED <<query, phase, queue, answerVars, before>>

-----------------------------------------------------------------------------
(* The reader.                                                              *)

\* A route, or the reasoning agent, starts a query on an empty answer; a
\* behaviour holds one query, for queries share nothing but the graph.
Ask ==
  /\ phase = "idle"
  /\ query' \in Queries
  /\ queue' = CASE query'.op = "neighbours" ->
                     <<[at |-> query'.start, depth |-> 0]>>
                [] query'.op = "paths" /\ query'.start # query'.target ->
                     <<[at |-> query'.start, trail |-> <<>>]>>
                [] OTHER -> <<>>
  /\ phase' = "search" /\ before' = Present
  /\ visited' = IF query'.op = "neighbours" THEN {query'.start} ELSE {}
  /\ UNCHANGED <<graphVars, collected, paths, entities, truncated>>

Full == Len(collected) >= query.cap \/ Len(paths) >= query.cap
Searching(op) == phase = "search" /\ query.op = op /\ queue # <<>> /\ ~Full

\* An entity at the depth bound is taken from the queue and left at that.
TooDeep ==
  \/ /\ Searching("neighbours") /\ Head(queue).depth >= query.depth
     /\ queue' = Tail(queue)
     /\ UNCHANGED <<graphVars, query, phase, answerVars, before>>
  \/ /\ Searching("paths") /\ Len(Head(queue).trail) >= query.depth
     /\ queue' = Tail(queue)
     /\ UNCHANGED <<graphVars, query, phase, answerVars, before>>

\* Slip: the loop follows an edge in one direction only.
GatherOutward(item, state, e) ==
  IF state.ended \/ Len(state.edges) >= query.cap THEN state
  ELSE [state EXCEPT
          !.edges = IF e \in Range(@) THEN @ ELSE Append(@, e),
          !.seen  = @ \cup {To[e]},
          !.todo  = IF To[e] \in state.seen THEN @
                    ELSE Append(@, [at |-> To[e], depth |-> item.depth + 1])]
\* One edge of the loop over an entity's edges, in either direction.  The
\* edge that fills the answer ends the loop before its far end is met.
Gather(item, state, e) ==
  LET new   == e \notin Range(state.edges)
      edges == IF new THEN Append(state.edges, e) ELSE state.edges
      far   == IF From[e] = item.at THEN To[e] ELSE From[e]
  IN IF state.ended THEN state
     ELSE IF new /\ Len(edges) >= query.cap
     THEN [state EXCEPT !.edges = edges, !.ended = TRUE]
     ELSE [state EXCEPT
             !.edges = edges,
             !.seen  = @ \cup {far},
             !.todo  = IF far \in state.seen THEN @
                       ELSE Append(@, [at |-> far, depth |-> item.depth + 1])]

Neighbours ==
  /\ Searching("neighbours") /\ Head(queue).depth < query.depth
  /\ \E rows \in SetToSeqs({e \in Present : Head(queue).at \in {From[e], To[e]}}) :
       LET last == FoldLeft(LAMBDA state, e : Gather(Head(queue), state, e),
                            [edges |-> collected, seen |-> visited,
                             todo |-> Tail(queue), ended |-> FALSE], rows)
       IN /\ collected' = last.edges
          /\ visited' = last.seen
          /\ queue' = last.todo
  /\ UNCHANGED <<graphVars, query, phase, paths, entities, truncated, before>>

\* One edge of the loop over an entity's outgoing edges.
\* Slip: the start of a path is not among the entities it has met.
OnTrailAfterStart(trail) == {To[trail[i]] : i \in DOMAIN trail}
OnTrail(trail) == {query.start} \cup {To[trail[i]] : i \in DOMAIN trail}
Extend(item, state, e) ==
  LET longer == Append(item.trail, e)
  IN IF Len(state.found) >= query.cap THEN state
     ELSE IF To[e] = query.target
     THEN [state EXCEPT !.found = Append(@, longer)]
     ELSE IF To[e] \notin OnTrail(item.trail)
     THEN [state EXCEPT !.todo = Append(@, [at |-> To[e], trail |-> longer])]
     ELSE state

Paths ==
  /\ Searching("paths") /\ Len(Head(queue).trail) < query.depth
  /\ \E rows \in SetToSeqs({e \in Present : From[e] = Head(queue).at}) :
       LET last == FoldLeft(LAMBDA state, e : Extend(Head(queue), state, e),
                            [found |-> paths, todo |-> Tail(queue)], rows)
       IN paths' = last.found /\ queue' = last.todo
  /\ UNCHANGED <<graphVars, query, phase, visited, collected, entities,
                 truncated, before>>

\* Nothing is left to visit, or the answer is full.
SearchEnds ==
  /\ phase = "search" /\ query.op \in {"neighbours", "paths"}
  /\ queue = <<>> \/ Full
  /\ phase' = IF query.op = "paths" THEN "done" ELSE "entities"
  /\ truncated' = (query.op = "neighbours" /\ Full)
  /\ UNCHANGED <<graphVars, query, queue, visited, collected, paths, entities,
                 before>>

\* The edges of the whole graph, the oldest first, and one more than asked
\* for to learn whether there are more.
Oldest(S) == \A e \in S, f \in Present \ S : born[e] <= born[f]
ReadEdges ==
  /\ phase = "search" /\ query.op = "full"
  /\ \E S \in SUBSET Present :
       /\ Cardinality(S) = Smaller(Cardinality(Present), query.cap)
       /\ Oldest(S)
       /\ collected' = SetToSeq(S)
  /\ truncated' = (Cardinality(Present) > query.cap)
  /\ phase' = "entities"
  /\ UNCHANGED <<graphVars, query, queue, visited, paths, entities, before>>

\* The edges the evidence of a finding asserts.  Its citations are the rows
\* of finding_evidence or, before a correlation wrote them, its own list.
ReadCited ==
  /\ phase = "search" /\ query.op = "finding"
  /\ LET backed == {e \in Present : Backing[e] \in query.cites}
     IN \E S \in SUBSET backed :
          /\ Cardinality(S) = Smaller(Cardinality(backed), query.cap)
          /\ collected' = SetToSeq(S)
  /\ truncated' = (Len(collected') >= query.cap)
  /\ phase' = "entities"
  /\ UNCHANGED <<graphVars, query, queue, visited, paths, entities, before>>

\* The entities the answer names; those of a graph without edges are listed
\* up to the cap.
\* Slip: of an edge only the source is fetched.
SourcesOnly == IF query.op = "neighbours" THEN visited
               ELSE {From[e] : e \in Range(collected)}
NamedEntities == IF query.op = "neighbours" THEN visited
                 ELSE EndsOf(Range(collected))
ReadEntities ==
  /\ phase = "entities"
  /\ IF query.op = "full" /\ collected = <<>>
     THEN entities' \in {S \in SUBSET nodes :
            Cardinality(S) = Smaller(Cardinality(nodes), query.cap)}
     ELSE entities' = nodes \cap NamedEntities
  /\ phase' = "done"
  /\ UNCHANGED <<graphVars, query, queue, visited, collected, paths, truncated,
                 before>>

Reader == TooDeep \/ Neighbours \/ Paths \/ SearchEnds
          \/ ReadEdges \/ ReadCited \/ ReadEntities
GraphNext == CommitGraph \/ Purge \/ Ask \/ Reader

GraphSpec == GraphInit /\ [][GraphNext]_queryVars

-----------------------------------------------------------------------------
(***************************************************************************)
(* What an answer means: reference definitions over a set of edges.        *)
(***************************************************************************)
Beside(S, g) == S \cup EndsOf({e \in g : {From[e], To[e]} \cap S # {}})
Within(g) ==     \* the entities at most n hops away, in either direction
  LET w[n \in 0..MaxDepth] == IF n = 0 THEN {query.start} ELSE Beside(w[n - 1], g)
  IN w
Touching(S, g) == {e \in g : {From[e], To[e]} \cap S # {}}

IsPath(p, n) ==  \* p leads from start to target and meets no entity twice
  /\ Len(p) \in 1..n
  /\ From[p[1]] = query.start /\ To[Last(p)] = query.target
  /\ \A i \in 1..Len(p) - 1 : To[p[i]] = From[p[i + 1]]
  /\ \A i, j \in 0..Len(p) :
       LET Met(k) == IF k = 0 THEN query.start ELSE To[p[k]]
       IN i # j => Met(i) # Met(j)
PathsIn(g, n) == {p \in UNION {[1..k -> g] : k \in 1..n} : IsPath(p, n)}

\* An answer for which the graph was there to the end: what a query returns when a
\* purge came between its SELECTs may have edges whose ends it lacks.
Answered(op) == phase = "done" /\ query.op = op /\ ~deleted

\* A neighbourhood that is not marked truncated holds every edge within reach
\* when it was asked for and none that is beyond reach when it is answered,
\* with all its entities, however the graph grew while it was gathered, unless
\* it was purged meanwhile.  One that is truncated is not asked anything: its
\* last edge may lack an end (neighbours: "within max_depth hops", traversal.py:152-210).
NeighbourhoodIsComplete ==
  Answered("neighbours") /\ ~truncated =>
    LET d == query.depth
    IN /\ Touching(Within(before)[d - 1], before) \subseteq Range(collected)
       /\ Range(collected) \subseteq Touching(Within(Present)[d - 1], Present)
       /\ nodes \cap Within(before)[d] \subseteq entities
       /\ entities \subseteq Within(Present)[d]
       /\ EndsOf(Range(collected)) \subseteq entities

\* The paths of an answer below its cap are those of the graph it was asked
\* of, and maybe some of what was added since; none comes twice, none passes
\* an entity twice, none is longer than asked for, and the shorter come
\* first (paths_between, traversal.py:212-253).
PathsAreComplete ==
  Answered("paths") =>
    /\ Range(paths) \subseteq PathsIn(Present, query.depth)
    /\ Cardinality(Range(paths)) = Len(paths)
    /\ \A i, j \in DOMAIN paths : i < j => Len(paths[i]) <= Len(paths[j])
    /\ Len(paths) < query.cap /\ query.start # query.target =>
         PathsIn(before, query.depth) \subseteq Range(paths)

\* The whole graph and the subgraph of a finding name the ends of all their
\* edges, and an answer that is not marked truncated left no edge out that
\* was there when it was asked for (get_full_graph, subgraph_for_finding).
GraphsAreClosed ==
  \A op \in {"full", "finding"} : Answered(op) =>
    /\ EndsOf(Range(collected)) \subseteq entities
    /\ truncated => Len(collected) = query.cap
    /\ ~truncated =>
         {e \in before : op = "finding" => Backing[e] \in query.cites}
           \subseteq Range(collected)

\* A client may rely on the answers of the graph endpoints, whatever a
\* correlation committed between their SELECTs: what is not marked truncated is
\* all there was when it was asked for, a whole graph and the graph of a finding
\* name the ends of all their edges, and so does a neighbourhood that is not
\* truncated.  Nothing is promised of an answer during which the investigation
\* was purged.
AnswersAreComplete ==
  NeighbourhoodIsComplete /\ PathsAreComplete /\ GraphsAreClosed
=============================================================================
