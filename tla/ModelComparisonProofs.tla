------------------------ MODULE ModelComparisonProofs ------------------------
(***************************************************************************)
(* Theorems about the comparison of models, for all schemas and documents: *)
(* an answer that lacks or changes something is not accepted, and one that *)
(* conforms is.                                                            *)
(***************************************************************************)
EXTENDS ModelComparison, TLAPS, FunctionTheorems, FiniteSetTheorems, SequenceTheorems, WellFoundedInduction

-----------------------------------------------------------------------------
(* Sequences.                                                               *)

(* A set of numbers that is not empty has a least one.                      *)
LEMMA LeastIs ==
  ASSUME NEW S, S \subseteq Nat, S # {}
  PROVE  \E m \in S : \A n \in S : m <= n
<1> DEFINE less == {pair \in Nat \X Nat : pair[1] < pair[2]}
<1>1. IsWellFoundedOn(less, Nat)
  BY NatLessThanWellFounded DEF OpToRel
<1> HIDE DEF less
<1>2. PICK m \in S : \A n \in S : ~ (<<n, m>> \in less)
  BY <1>1, WFMin
<1>3. ASSUME NEW n \in S PROVE m <= n
  <2>1. n \in Nat /\ m \in Nat /\ ~ (n < m)
    BY <1>2 DEF less
  <2> QED BY <2>1
<1> QED BY <1>3

(* Min of a set of numbers is its least member.                             *)
LEMMA MinIs ==
  ASSUME NEW S, S \subseteq Nat, S # {}
  PROVE  Min(S) \in S /\ \A n \in S : Min(S) <= n
<1>1. PICK m \in S : \A n \in S : m <= n
  BY LeastIs
<1> QED BY <1>1 DEF Min

(* The first n elements of a sequence.                                      *)
Up(s, n) == SubSeq(s, 1, n)

(* The first elements of a sequence.                                        *)
LEMMA UpIs ==
  ASSUME NEW S, NEW s \in Seq(S), NEW n \in 0 .. Len(s)
  PROVE  /\ Up(s, n) \in Seq(S) /\ Len(Up(s, n)) = n /\ DOMAIN Up(s, n) = 1 .. n
         /\ \A i \in 1 .. n : Up(s, n)[i] = s[i]
<1>1. Len(s) \in Nat
  OBVIOUS
<1> QED BY <1>1 DEF Up

(* Sequences are the same if their elements are.                            *)
LEMMA SameSequence ==
  ASSUME NEW S, NEW s \in Seq(S), NEW t \in Seq(S), Len(s) = Len(t),
         \A i \in 1 .. Len(s) : s[i] = t[i]
  PROVE  s = t
  OBVIOUS

(* The first elements, longer and shorter.                                  *)
LEMMA UpFacts ==
  ASSUME NEW S, NEW s \in Seq(S)
  PROVE  /\ Up(s, 0) = <<>> /\ Up(s, Len(s)) = s
         /\ \A n \in 0 .. Len(s) : \A m \in 0 .. n : Up(Up(s, n), m) = Up(s, m)
         /\ \A n \in 1 .. Len(s) : /\ Append(Up(s, n - 1), s[n]) = Up(s, n)
                                   /\ Front(Up(s, n)) = Up(s, n - 1) /\ Last(Up(s, n)) = s[n]
<1>1. Len(s) \in Nat
  OBVIOUS
<1>2. Up(s, 0) = <<>>
  BY <1>1 DEF Up
<1>3. Up(s, Len(s)) = s
  BY SubSeqFull DEF Up
<1>4. ASSUME NEW n \in 0 .. Len(s), NEW m \in 0 .. n
      PROVE  Up(Up(s, n), m) = Up(s, m)
  <2>1. Up(s, n) \in Seq(S) /\ Len(Up(s, n)) = n /\ \A i \in 1 .. n : Up(s, n)[i] = s[i]
    BY UpIs
  <2>2. m \in 0 .. Len(s) /\ m \in 0 .. Len(Up(s, n)) /\ m \in Nat
    BY <1>1, <2>1
  <2>3. Up(s, m) \in Seq(S) /\ Len(Up(s, m)) = m /\ \A i \in 1 .. m : Up(s, m)[i] = s[i]
    BY UpIs, <2>2
  <2>4. /\ Up(Up(s, n), m) \in Seq(S) /\ Len(Up(Up(s, n), m)) = m
        /\ \A i \in 1 .. m : Up(Up(s, n), m)[i] = Up(s, n)[i]
    BY UpIs, <2>1, <2>2
  <2>5. \A i \in 1 .. m : Up(Up(s, n), m)[i] = Up(s, m)[i]
    BY <2>1, <2>3, <2>4, <1>1
  <2> HIDE DEF Up
  <2> QED BY <2>3, <2>4, <2>5, SameSequence
<1>5. ASSUME NEW n \in 1 .. Len(s)
      PROVE  /\ Append(Up(s, n - 1), s[n]) = Up(s, n)
             /\ Front(Up(s, n)) = Up(s, n - 1) /\ Last(Up(s, n)) = s[n]
  <2>1. Up(s, n) \in Seq(S) /\ Len(Up(s, n)) = n /\ \A i \in 1 .. n : Up(s, n)[i] = s[i]
    BY UpIs, <1>1
  <2>2. /\ Up(s, n - 1) \in Seq(S) /\ Len(Up(s, n - 1)) = n - 1
        /\ \A i \in 1 .. n - 1 : Up(s, n - 1)[i] = s[i]
    <3>1. n - 1 \in 0 .. Len(s)
      BY <1>1
    <3> HIDE DEF Up
    <3> QED BY UpIs, <3>1
  <2>3. Last(Up(s, n)) = s[n]
    BY <2>1 DEF Last
  <2>4. Front(Up(s, n)) = Up(Up(s, n), n - 1)
    BY <2>1 DEF Front, Up
  <2>5. Up(Up(s, n), n - 1) = Up(s, n - 1)
    BY <1>4, <1>1
  <2>6. s[n] \in S
    BY <1>1
  <2> HIDE DEF Up
  <2>7. Append(Up(s, n - 1), s[n]) = Up(s, n)
    <3> DEFINE a == Append(Up(s, n - 1), s[n])
    <3>1. /\ a \in Seq(S) /\ Len(a) = n /\ a[n] = s[n]
          /\ \A i \in 1 .. n - 1 : a[i] = Up(s, n - 1)[i]
      BY <2>2, <2>6
    <3> HIDE DEF a
    <3>2. \A i \in 1 .. n : a[i] = Up(s, n)[i]
      BY <3>1, <2>1, <2>2
    <3>3. a = Up(s, n)
      BY <3>1, <3>2, <2>1, SameSequence
    <3> QED BY <3>3 DEF a
  <2> QED BY <2>3, <2>4, <2>5, <2>7
<1> QED BY <1>2, <1>3, <1>4, <1>5

(* One sequence begins another if its elements are those.                   *)
LEMMA PrefixIs ==
  ASSUME NEW S, NEW s \in Seq(S), NEW t \in Seq(S)
  PROVE  /\ IsPrefix(s, t) <=> Len(s) <= Len(t) /\ \A i \in 1 .. Len(s) : s[i] = t[i]
         /\ IsPrefix(s, t) <=> Len(s) <= Len(t) /\ s = Up(t, Len(s))
<1>1. Len(s) \in Nat /\ Len(t) \in Nat
  OBVIOUS
<1>2. SubSeq(s, 1, Len(s)) = s
  BY SubSeqFull
<1>3. IsPrefix(s, t) <=> Len(s) <= Len(t) /\ s = Up(t, Len(s))
  BY <1>2 DEF IsPrefix, Up
<1>4. ASSUME Len(s) <= Len(t)
      PROVE  s = Up(t, Len(s)) <=> \A i \in 1 .. Len(s) : s[i] = t[i]
  <2>1. /\ Up(t, Len(s)) \in Seq(S) /\ Len(Up(t, Len(s))) = Len(s)
        /\ \A i \in 1 .. Len(s) : Up(t, Len(s))[i] = t[i]
    BY <1>1, <1>4, UpIs
  <2> QED BY <2>1, SameSequence
<1> QED BY <1>3, <1>4

(* The keys of a position.                                                  *)
LEMMA RouteIs ==
  ASSUME NEW p \in Seq(Step)
  PROVE  /\ Route(p) \in Seq(Keys) /\ Len(Route(p)) = Len(p)
         /\ \A i \in 1 .. Len(p) : Route(p)[i] = p[i].key
         /\ \A n \in 0 .. Len(p) : Route(Up(p, n)) = Up(Route(p), n)
<1>0. Len(p) \in Nat /\ DOMAIN p = 1 .. Len(p) /\ \A i \in 1 .. Len(p) : p[i] \in Step
  OBVIOUS
<1>1. /\ Len(p) \in Nat /\ DOMAIN p = 1 .. Len(p)
      /\ \A i \in 1 .. Len(p) : p[i].key \in Keys
  BY <1>0 DEF Step
<1>2. Route(p) \in Seq(Keys) /\ Len(Route(p)) = Len(p) /\ \A i \in 1 .. Len(p) : Route(p)[i] = p[i].key
  BY <1>1 DEF Route
<1>3. ASSUME NEW n \in 0 .. Len(p) PROVE Route(Up(p, n)) = Up(Route(p), n)
  <2>1. /\ Up(p, n) \in Seq(Step) /\ Len(Up(p, n)) = n /\ DOMAIN Up(p, n) = 1 .. n
        /\ \A i \in 1 .. n : Up(p, n)[i] = p[i]
    BY UpIs
  <2>2. /\ Up(Route(p), n) \in Seq(Keys) /\ Len(Up(Route(p), n)) = n /\ DOMAIN Up(Route(p), n) = 1 .. n
        /\ \A i \in 1 .. n : Up(Route(p), n)[i] = Route(p)[i]
    BY UpIs, <1>2
  <2>3. n \in Nat /\ \A i \in 1 .. n : i \in 1 .. Len(p)
    BY <1>1
  <2> HIDE DEF Up
  <2>4. /\ Route(Up(p, n)) \in Seq(Keys) /\ Len(Route(Up(p, n))) = n
        /\ \A i \in 1 .. n : Route(Up(p, n))[i] = p[i].key
    BY <1>1, <2>1, <2>3 DEF Route
  <2>5. \A i \in 1 .. n : Route(Up(p, n))[i] = Up(Route(p), n)[i]
    BY <1>2, <2>2, <2>3, <2>4
  <2> QED BY <2>2, <2>4, <2>5, SameSequence
<1> QED BY <1>2, <1>3

(* A function on 0 .. N is defined by its first value and a step.           *)
Steps(f, N, base, step) == f[0] = base /\ \A n \in 1 .. N : f[n] = step[<<n, f[n - 1]>>]

(* There is such a function (recursion on the length of a path).            *)
LEMMA RecursionExists ==
  ASSUME NEW N \in Nat, NEW S, NEW base \in S, NEW step \in [(1 .. N) \X S -> S]
  PROVE  \E f \in [0 .. N -> S] : Steps(f, N, base, step)
<1> DEFINE Good(k) == \E f \in [0 .. k -> S] :
                        f[0] = base /\ \A n \in 1 .. k : f[n] = step[<<n, f[n - 1]>>]
           bad == {k \in 0 .. N : ~Good(k)}
<1>1. Good(0)
  <2> DEFINE f == [i \in 0 .. 0 |-> base]
  <2>1. f \in [0 .. 0 -> S] /\ f[0] = base /\ \A n \in 1 .. 0 : f[n] = step[<<n, f[n - 1]>>]
    OBVIOUS
  <2> HIDE DEF f
  <2> QED BY <2>1
<1>2. ASSUME NEW m \in 1 .. N, Good(m - 1)
      PROVE  Good(m)
  <2>1. PICK f \in [0 .. m - 1 -> S] :
          f[0] = base /\ \A n \in 1 .. m - 1 : f[n] = step[<<n, f[n - 1]>>]
    BY <1>2
  <2> DEFINE g == [i \in 0 .. m |-> IF i = m THEN step[<<m, f[m - 1]>>] ELSE f[i]]
  <2>2. f[m - 1] \in S /\ step[<<m, f[m - 1]>>] \in S
    <3>1. m - 1 \in 0 .. m - 1
      OBVIOUS
    <3>2. f[m - 1] \in S
      BY <3>1
    <3>3. <<m, f[m - 1]>> \in (1 .. N) \X S
      BY <3>2
    <3> QED BY <3>2, <3>3
  <2>3. \A i \in 0 .. m : i = m \/ i \in 0 .. m - 1
    OBVIOUS
  <2>4. g \in [0 .. m -> S]
    BY <2>2, <2>3
  <2>5. /\ g[m] = step[<<m, f[m - 1]>>] /\ \A i \in 0 .. m - 1 : g[i] = f[i]
    OBVIOUS
  <2> HIDE DEF g
  <2>6. g[0] = base
    BY <2>1, <2>5
  <2>7. ASSUME NEW n \in 1 .. m PROVE g[n] = step[<<n, g[n - 1]>>]
    <3>1. n - 1 \in 0 .. m - 1 /\ g[n - 1] = f[n - 1]
      BY <2>5
    <3>2. CASE n = m
      BY <3>1, <3>2, <2>5
    <3>3. CASE n # m
      <4>1. n \in 1 .. m - 1 /\ n \in 0 .. m - 1
        BY <3>3
      <4> QED BY <4>1, <3>1, <2>1, <2>5
    <3> QED BY <3>2, <3>3
  <2> QED BY <2>4, <2>6, <2>7
<1> HIDE DEF Good
<1>3. bad = {}
  <2> SUFFICES ASSUME bad # {} PROVE FALSE
    OBVIOUS
  <2>0. bad \subseteq 0 .. N /\ bad \subseteq Nat /\ \A k \in bad : ~Good(k)
    OBVIOUS
  <2>a. \A k \in 0 .. N : Good(k) \/ k \in bad
    OBVIOUS
  <2> HIDE DEF bad
  <2>1. PICK m \in bad : \A n \in bad : m <= n
    BY <2>0, LeastIs
  <2>2. m \in 0 .. N /\ ~Good(m) /\ m # 0
    BY <1>1, <2>0
  <2>3. m \in 1 .. N /\ m - 1 \in 0 .. N /\ ~(m <= m - 1)
    BY <2>2
  <2>4. Good(m - 1)
    BY <2>1, <2>3, <2>a
  <2> QED BY <2>2, <2>3, <2>4, <1>2
<1>4. Good(N)
  BY <1>3
<1> QED BY <1>4 DEF Good, Steps

-----------------------------------------------------------------------------
(* The trees of a schema and the places in them.                            *)
Trees(schema) == {schema.root} \cup {schema.definitions[name] : name \in DOMAIN schema.definitions}
Places(schema) == [nodes : Trees(schema), at : Seq(Keys)]

LEMMA TreesAre ==
  ASSUME NEW schema, IsSchema(schema), NEW nodes \in Trees(schema)
  PROVE  IsTree(schema, nodes)
BY DEF Trees, IsSchema

(* What the nodes of a tree are.                                            *)
LEMMA TreeHas ==
  ASSUME NEW schema, NEW nodes, IsTree(schema, nodes)
  PROVE  /\ nodes \in Seq(Node) /\ Len(nodes) \in Nat /\ DOMAIN nodes = 1 .. Len(nodes)
         /\ 1 \in DOMAIN nodes /\ nodes[1].at = <<>>
         /\ \A i \in DOMAIN nodes : /\ nodes[i].at \in Seq(Keys)
                                    /\ nodes[i].k \in {"scalar", "array", "object", "ref"}
                                    /\ nodes[i].ordered \in BOOLEAN
                                    /\ nodes[i].k = "ref" => nodes[i].to \in DOMAIN schema.definitions
<1>1. nodes \in Seq(Node) /\ nodes # <<>> /\ nodes[1].at = <<>>
  BY DEF IsTree
<1>2. Len(nodes) \in Nat /\ DOMAIN nodes = 1 .. Len(nodes) /\ 1 \in DOMAIN nodes
  BY <1>1
<1>3. ASSUME NEW i \in DOMAIN nodes
      PROVE  /\ nodes[i].at \in Seq(Keys)
             /\ nodes[i].k \in {"scalar", "array", "object", "ref"}
             /\ nodes[i].ordered \in BOOLEAN
             /\ nodes[i].k = "ref" => nodes[i].to \in DOMAIN schema.definitions
  <2>1. nodes[i] \in Node
    BY <1>1, <1>2
  <2>2. nodes[i].k = "ref" => nodes[i].to \in DOMAIN schema.definitions
    BY DEF IsTree
  <2> QED BY <2>1, <2>2 DEF Node
<1> QED BY <1>1, <1>2, <1>3

(* What is at a path is the one node that has it.                           *)
LEMMA NodeAtIs ==
  ASSUME NEW schema, NEW nodes, IsTree(schema, nodes), NEW at
  PROVE  /\ \A i \in DOMAIN nodes : nodes[i].at = at => NodeAt([nodes |-> nodes, at |-> at]) = nodes[i]
         /\ \/ \E i \in DOMAIN nodes : nodes[i].at = at
            \/ NodeAt([nodes |-> nodes, at |-> at]) = NoNode
<1> DEFINE place == [nodes |-> nodes, at |-> at]
           found == {i \in DOMAIN nodes : nodes[i].at = at}
<1>1. NodeAt(place) = IF found = {} THEN NoNode ELSE nodes[CHOOSE i \in found : TRUE]
  BY DEF NodeAt
<1>2. ASSUME NEW i \in DOMAIN nodes, nodes[i].at = at
      PROVE  NodeAt(place) = nodes[i]
  <2>1. i \in found
    BY <1>2
  <2> DEFINE j == CHOOSE j \in found : TRUE
  <2>2. j \in found
    BY <2>1
  <2>3. j \in DOMAIN nodes /\ nodes[j].at = at
    BY <2>2
  <2> HIDE DEF j
  <2>4. i = j
    BY <2>3, <1>2 DEF IsTree
  <2> QED BY <1>1, <2>1, <2>4 DEF j
<1> QED BY <1>1, <1>2

(* A place stays a place when a reference is followed.                      *)
LEMMA ResolvedIs ==
  ASSUME NEW schema, IsSchema(schema), NEW place \in Places(schema)
  PROVE  Resolved(schema, place) \in Places(schema)
<1>1. place.nodes \in Trees(schema) /\ place = [nodes |-> place.nodes, at |-> place.at]
  BY DEF Places
<1>2. IsTree(schema, place.nodes)
  BY <1>1, TreesAre
<1>3. CASE NodeAt(place).k = "ref"
  <2>1. NodeAt(place) # NoNode
    BY <1>3 DEF NoNode
  <2>2. PICK i \in DOMAIN place.nodes : NodeAt(place) = place.nodes[i]
    BY <1>1, <1>2, <2>1, NodeAtIs
  <2>3. NodeAt(place).to \in DOMAIN schema.definitions
    BY <1>2, <1>3, <2>2, TreeHas
  <2>4. Definition(schema, NodeAt(place).to) \in Places(schema)
    BY <2>3 DEF Definition, Places, Trees
  <2> QED BY <1>3, <2>4 DEF Resolved
<1>4. CASE NodeAt(place).k # "ref"
  BY <1>4 DEF Resolved
<1> QED BY <1>3, <1>4

LEMMA ChildIs ==
  ASSUME NEW schema, NEW place \in Places(schema), NEW key \in Keys
  PROVE  /\ Child(place, key) \in Places(schema)
         /\ Child(place, key) = [nodes |-> place.nodes, at |-> Append(place.at, key)]
BY DEF Child, Places

LEMMA RootIs ==
  ASSUME NEW schema
  PROVE  Root(schema) \in Places(schema)
BY DEF Root, Places, Trees

(* What a path means is found key by key.                                   *)
LEMMA MeantPlaceIs ==
  ASSUME NEW schema, IsSchema(schema), NEW path \in Seq(Keys)
  PROVE  \E at \in [0 .. Len(path) -> Places(schema)] :
           /\ at[0] = Root(schema)
           /\ \A n \in 1 .. Len(path) : at[n] = Resolved(schema, Child(at[n - 1], path[n]))
           /\ MeantPlace(schema, path) = at[Len(path)]
<1> DEFINE N == Len(path)
           S == Places(schema)
           step == [x \in (1 .. N) \X S |-> Resolved(schema, Child(x[2], path[x[1]]))]
           Eq(g) == g = [n \in 0 .. N |-> IF n = 0 THEN Root(schema)
                                          ELSE Resolved(schema, Child(g[n - 1], path[n]))]
           at == CHOOSE g : Eq(g)
<1>1. N \in Nat /\ \A n \in 1 .. N : path[n] \in Keys
  OBVIOUS
<1>2. \A n \in 1 .. N : \A place \in S : Resolved(schema, Child(place, path[n])) \in S
  BY <1>1, ChildIs, ResolvedIs
<1>3. step \in [(1 .. N) \X S -> S]
  BY <1>2
<1>4. \A n \in 1 .. N : \A place \in S : step[<<n, place>>] = Resolved(schema, Child(place, path[n]))
  OBVIOUS
<1>5. Root(schema) \in S
  BY RootIs
<1>m. MeantPlace(schema, path) = at[N]
  BY DEF MeantPlace
<1> HIDE DEF step, N, S
<1> DEFINE base == Root(schema)
<1>b. base \in S
  BY <1>5
<1>n. N \in Nat
  BY <1>1
<1> HIDE DEF base
<1>c. \E f \in [0 .. N -> S] : Steps(f, N, base, step)
  BY <1>n, <1>b, <1>3, RecursionExists
<1>6. PICK f \in [0 .. N -> S] :
        f[0] = Root(schema) /\ \A n \in 1 .. N : f[n] = step[<<n, f[n - 1]>>]
  BY <1>c DEF base, Steps
<1>7. \A n \in 1 .. N : f[n - 1] \in S /\ f[n] = Resolved(schema, Child(f[n - 1], path[n]))
  <2>1. \A n \in 1 .. N : n - 1 \in 0 .. N
    BY <1>1
  <2>2. \A n \in 1 .. N : f[n - 1] \in S
    BY <2>1
  <2> QED BY <2>2, <1>4, <1>6
<1>8. Eq(f)
  BY <1>1, <1>6, <1>7
<1>9. Eq(at)
  BY <1>8
<1> HIDE DEF at
<1>10. /\ at[0] = Root(schema)
       /\ \A n \in 1 .. N : at[n] = Resolved(schema, Child(at[n - 1], path[n]))
  <2>1. 0 \in 0 .. N /\ \A n \in 1 .. N : n \in 0 .. N /\ n # 0
    BY <1>1
  <2> HIDE DEF Eq
  <2>2. \A n \in 0 .. N : at[n] = IF n = 0 THEN Root(schema) ELSE Resolved(schema, Child(at[n - 1], path[n]))
    BY <1>9 DEF Eq
  <2> QED BY <2>1, <2>2
<1>11. at \in [0 .. N -> S]
  <2> DEFINE bad == {n \in 0 .. N : at[n] \notin S}
  <2>1. bad = {}
    <3> SUFFICES ASSUME bad # {} PROVE FALSE
      OBVIOUS
    <3>0. bad \subseteq Nat /\ bad \subseteq 0 .. N /\ \A n \in bad : at[n] \notin S
      BY <1>1
    <3>a. \A n \in 0 .. N : n \in bad \/ at[n] \in S
      OBVIOUS
    <3> HIDE DEF bad
    <3>1. PICK m \in bad : \A n \in bad : m <= n
      BY <3>0, LeastIs
    <3>2. m \in 0 .. N /\ m # 0
      BY <1>5, <1>10, <3>0
    <3>3. m \in 1 .. N /\ m - 1 \in 0 .. N /\ ~(m <= m - 1)
      BY <1>1, <3>2
    <3>4. at[m - 1] \in S
      BY <3>1, <3>3, <3>a
    <3> QED BY <1>2, <1>10, <3>0, <3>1, <3>3, <3>4
  <2>2. \E g : at = [n \in 0 .. N |-> g[n]]
    <3> DEFINE g == [n \in 0 .. N |-> IF n = 0 THEN Root(schema)
                                          ELSE Resolved(schema, Child(at[n - 1], path[n]))]
    <3>1. at = g
      BY <1>9
    <3>2. g = [n \in 0 .. N |-> g[n]]
      OBVIOUS
    <3> HIDE DEF g
    <3> QED BY <3>1, <3>2
  <2> QED BY <2>1, <2>2
<1> QED BY <1>10, <1>11, <1>m DEF N, S

-----------------------------------------------------------------------------
(* The lookup.                                                              *)

(* A place where there is something is the place of one node.               *)
LEMMA PlaceIs ==
  ASSUME NEW schema, IsSchema(schema), NEW place \in Places(schema)
  PROVE  /\ IsTree(schema, place.nodes) /\ place.at \in Seq(Keys)
         /\ place = [nodes |-> place.nodes, at |-> place.at]
         /\ place.nodes \in Trees(schema)
         /\ NodeAt(place).k # "missing" =>
              \E i \in DOMAIN place.nodes : place.nodes[i].at = place.at /\ NodeAt(place) = place.nodes[i]
<1>1. /\ place.nodes \in Trees(schema) /\ place.at \in Seq(Keys)
      /\ place = [nodes |-> place.nodes, at |-> place.at]
  BY DEF Places
<1>2. IsTree(schema, place.nodes)
  BY <1>1, TreesAre
<1> DEFINE nodes == place.nodes
           at == place.at
<1>3. \/ \E i \in DOMAIN nodes : nodes[i].at = at
      \/ NodeAt([nodes |-> nodes, at |-> at]) = NoNode
  BY <1>2, NodeAtIs
<1>4. \A i \in DOMAIN nodes : nodes[i].at = at => NodeAt([nodes |-> nodes, at |-> at]) = nodes[i]
  BY <1>2, NodeAtIs
<1>5. NodeAt(place) = NodeAt([nodes |-> nodes, at |-> at])
  BY <1>1
<1>6. NoNode.k = "missing"
  BY DEF NoNode
<1> QED BY <1>1, <1>2, <1>3, <1>4, <1>5, <1>6

(* What nested_lookup finds, and that it is numbers.                        *)
LEMMA NestedIs ==
  ASSUME NEW place, NEW k, NEW i
  PROVE  i \in NestedLookup(place, k) <=>
           /\ i \in DOMAIN place.nodes /\ IsPrefix(place.at, place.nodes[i].at)
           /\ place.nodes[i].k = k
BY DEF NestedLookup

LEMMA NestedNumbers ==
  ASSUME NEW schema, IsSchema(schema), NEW place \in Places(schema), NEW k
  PROVE  NestedLookup(place, k) \subseteq DOMAIN place.nodes /\ NestedLookup(place, k) \subseteq Nat
<1>1. IsTree(schema, place.nodes)
  BY PlaceIs
<1>2. Len(place.nodes) \in Nat /\ DOMAIN place.nodes = 1 .. Len(place.nodes)
  BY <1>1, TreeHas
<1> QED BY <1>2, NestedIs

(* The first object inside a place is a place.                              *)
LEMMA PropertiesIs ==
  ASSUME NEW schema, IsSchema(schema), NEW place \in Places(schema)
  PROVE  Properties(place) \in Places(schema)
<1> DEFINE inner == NestedLookup(place, "object")
<1>1. CASE inner = {}
  BY <1>1 DEF Properties
<1>2. CASE inner # {}
  <2>1. inner \subseteq DOMAIN place.nodes /\ inner \subseteq Nat
    BY NestedNumbers
  <2>2. Min(inner) \in inner
    <3> HIDE DEF inner
    <3> QED BY <1>2, <2>1, MinIs
  <2>3. IsTree(schema, place.nodes) /\ place \in Places(schema)
    BY PlaceIs
  <2>4. place.nodes[Min(inner)].at \in Seq(Keys)
    BY <2>1, <2>2, <2>3, TreeHas
  <2>5. Properties(place) = [place EXCEPT !.at = place.nodes[Min(inner)].at]
    BY <1>2 DEF Properties
  <2> HIDE DEF inner
  <2> QED BY <2>4, <2>5 DEF Places
<1> QED BY <1>1, <1>2

(* The lookup goes from place to place.                                     *)
LEMMA ResolveRefIs ==
  ASSUME NEW schema, IsSchema(schema), NEW place \in Places(schema), NEW last_step \in BOOLEAN
  PROVE  ResolveRef(schema, place, last_step) \in Places(schema)
<1> DEFINE refs == NestedLookup(place, "ref")
           end == Definition(schema, place.nodes[Min(refs)].to)
<1>1. CASE last_step = TRUE /\ NodeAt(place).k # "ref"
  BY <1>1 DEF ResolveRef
<1>2. CASE ~(last_step = TRUE /\ NodeAt(place).k # "ref")
  <2>1. CASE refs = {}
    <3>1. ResolveRef(schema, place, last_step) = Properties(place)
      BY <1>2, <2>1 DEF ResolveRef
    <3> QED BY <3>1, PropertiesIs
  <2>2. CASE refs # {}
    <3>1. refs \subseteq DOMAIN place.nodes /\ refs \subseteq Nat
      BY NestedNumbers
    <3>2. Min(refs) \in refs
      <4> HIDE DEF refs
      <4> QED BY <2>2, <3>1, MinIs
    <3>3. IsTree(schema, place.nodes)
      BY PlaceIs
    <3>4. place.nodes[Min(refs)].k = "ref" /\ Min(refs) \in DOMAIN place.nodes
      BY <3>2, NestedIs
    <3>5. place.nodes[Min(refs)].to \in DOMAIN schema.definitions
      BY <3>3, <3>4, TreeHas
    <3>6. end \in Places(schema)
      BY <3>5 DEF Definition, Places, Trees
    <3>7. ResolveRef(schema, place, last_step) = Properties(end)
      BY <1>2, <2>2 DEF ResolveRef
    <3> QED BY <3>6, <3>7, PropertiesIs
  <2> QED BY <2>1, <2>2
<1> QED BY <1>1, <1>2

(* A lookup goes on step by step too.                                       *)
LookupStep(schema, path, n, place) ==
  IF path[n] = "*" THEN place
  ELSE ResolveRef(schema, Child(place, path[n]), IndexOf(path, path[n]) = Len(path))

(* The places that a lookup goes through, one for each step.                *)
LEMMA TraverseIs ==
  ASSUME NEW schema, IsSchema(schema), NEW path \in Seq(Keys)
  PROVE  \E at \in [0 .. Len(path) -> Places(schema)] :
           /\ at[0] = Root(schema)
           /\ \A n \in 1 .. Len(path) : at[n] = LookupStep(schema, path, n, at[n - 1])
           /\ TraverseRawSchema(schema, path) = at[Len(path)]
<1> DEFINE N == Len(path)
           S == Places(schema)
           step == [x \in (1 .. N) \X S |-> LookupStep(schema, path, x[1], x[2])]
           Eq(g) == g = [n \in 0 .. N |-> IF n = 0 THEN Root(schema)
                                          ELSE LookupStep(schema, path, n, g[n - 1])]
           at == CHOOSE g : Eq(g)
<1>1. N \in Nat /\ \A n \in 1 .. N : path[n] \in Keys
  OBVIOUS
<1>2. ASSUME NEW n \in 1 .. N, NEW place \in S PROVE LookupStep(schema, path, n, place) \in S
  <2>1. path[n] \in Keys
    BY <1>1
  <2>2. Child(place, path[n]) \in S
    BY <2>1, ChildIs
  <2> DEFINE last_step == IndexOf(path, path[n]) = Len(path)
  <2>3. last_step \in BOOLEAN
    OBVIOUS
  <2> HIDE DEF last_step
  <2>4. ResolveRef(schema, Child(place, path[n]), last_step) \in S
    BY <2>2, <2>3, ResolveRefIs
  <2> QED BY <2>4 DEF LookupStep, last_step
<1>3. step \in [(1 .. N) \X S -> S]
  BY <1>2
<1>4. \A n \in 1 .. N : \A place \in S : step[<<n, place>>] = LookupStep(schema, path, n, place)
  OBVIOUS
<1>5. Root(schema) \in S
  BY RootIs
<1>m. TraverseRawSchema(schema, path) = at[N]
  BY DEF TraverseRawSchema, LookupStep
<1> HIDE DEF step, N, S
<1> DEFINE base == Root(schema)
<1>b. base \in S
  BY <1>5
<1>n. N \in Nat
  BY <1>1
<1> HIDE DEF base
<1>c. \E f \in [0 .. N -> S] : Steps(f, N, base, step)
  BY <1>n, <1>b, <1>3, RecursionExists
<1>6. PICK f \in [0 .. N -> S] :
        f[0] = Root(schema) /\ \A n \in 1 .. N : f[n] = step[<<n, f[n - 1]>>]
  BY <1>c DEF base, Steps
<1>7. \A n \in 1 .. N : f[n - 1] \in S /\ f[n] = LookupStep(schema, path, n, f[n - 1])
  <2>1. \A n \in 1 .. N : n - 1 \in 0 .. N
    BY <1>1
  <2>2. \A n \in 1 .. N : f[n - 1] \in S
    BY <2>1
  <2> QED BY <2>2, <1>4, <1>6
<1>8. Eq(f)
  BY <1>1, <1>6, <1>7
<1>9. Eq(at)
  BY <1>8
<1> HIDE DEF at
<1>10. /\ at[0] = Root(schema)
       /\ \A n \in 1 .. N : at[n] = LookupStep(schema, path, n, at[n - 1])
  <2>1. 0 \in 0 .. N /\ \A n \in 1 .. N : n \in 0 .. N /\ n # 0
    BY <1>1
  <2> HIDE DEF Eq
  <2>2. \A n \in 0 .. N : at[n] = IF n = 0 THEN Root(schema) ELSE LookupStep(schema, path, n, at[n - 1])
    BY <1>9 DEF Eq
  <2> QED BY <2>1, <2>2
<1>11. at \in [0 .. N -> S]
  <2> DEFINE bad == {n \in 0 .. N : at[n] \notin S}
  <2>1. bad = {}
    <3> SUFFICES ASSUME bad # {} PROVE FALSE
      OBVIOUS
    <3>0. bad \subseteq Nat /\ bad \subseteq 0 .. N /\ \A n \in bad : at[n] \notin S
      BY <1>1
    <3>a. \A n \in 0 .. N : n \in bad \/ at[n] \in S
      OBVIOUS
    <3> HIDE DEF bad
    <3>1. PICK m \in bad : \A n \in bad : m <= n
      BY <3>0, LeastIs
    <3>2. m \in 0 .. N /\ m # 0
      BY <1>5, <1>10, <3>0
    <3>3. m \in 1 .. N /\ m - 1 \in 0 .. N /\ ~(m <= m - 1)
      BY <1>1, <3>2
    <3>4. at[m - 1] \in S
      BY <3>1, <3>3, <3>a
    <3> QED BY <1>2, <1>10, <3>0, <3>1, <3>3, <3>4
  <2>2. \E g : at = [n \in 0 .. N |-> g[n]]
    <3> DEFINE g == [n \in 0 .. N |-> IF n = 0 THEN Root(schema)
                                          ELSE LookupStep(schema, path, n, at[n - 1])]
    <3>1. at = g
      BY <1>9
    <3>2. g = [n \in 0 .. N |-> g[n]]
      OBVIOUS
    <3> HIDE DEF g
    <3> QED BY <3>1, <3>2
  <2> QED BY <2>1, <2>2
<1> QED BY <1>10, <1>11, <1>m DEF N, S

(* What a path means does not depend on what follows.                       *)
LEMMA MeantUp ==
  ASSUME NEW schema, IsSchema(schema), NEW path \in Seq(Keys)
  PROVE  /\ MeantPlace(schema, <<>>) = Root(schema)
         /\ \A n \in 0 .. Len(path) : MeantPlace(schema, Up(path, n)) \in Places(schema)
         /\ \A n \in 1 .. Len(path) :
              MeantPlace(schema, Up(path, n)) = Resolved(schema, Child(MeantPlace(schema, Up(path, n - 1)), path[n]))
<1>1. Len(path) \in Nat
  OBVIOUS
<1>2. MeantPlace(schema, <<>>) = Root(schema)
  <2> DEFINE s == Up(path, 0)
  <2>1. s \in Seq(Keys) /\ Len(s) = 0
    BY <1>1, UpIs
  <2>2. s = <<>>
    BY UpFacts
  <2> HIDE DEF s
  <2>3. PICK f \in [0 .. Len(s) -> Places(schema)] : f[0] = Root(schema) /\ MeantPlace(schema, s) = f[Len(s)]
    BY <2>1, MeantPlaceIs
  <2> QED BY <2>1, <2>2, <2>3
<1>3. ASSUME NEW n \in 0 .. Len(path)
      PROVE  MeantPlace(schema, Up(path, n)) \in Places(schema)
  <2>1. Up(path, n) \in Seq(Keys) /\ Len(Up(path, n)) = n /\ n \in 0 .. n
    BY UpIs
  <2> QED BY <2>1, MeantPlaceIs
<1>4. ASSUME NEW n \in 1 .. Len(path)
      PROVE  MeantPlace(schema, Up(path, n)) = Resolved(schema, Child(MeantPlace(schema, Up(path, n - 1)), path[n]))
  <2>0. n \in 0 .. Len(path) /\ n - 1 \in 0 .. Len(path) /\ n \in Nat /\ n - 1 \in 0 .. n
    BY <1>1
  <2>1. Up(path, n) \in Seq(Keys) /\ Len(Up(path, n)) = n /\ \A i \in 1 .. n : Up(path, n)[i] = path[i]
    BY <2>0, UpIs
  <2>2. Up(path, n - 1) \in Seq(Keys) /\ Len(Up(path, n - 1)) = n - 1
        /\ \A i \in 1 .. n - 1 : Up(path, n - 1)[i] = path[i]
    BY <2>0, UpIs
  <2>3. PICK f \in [0 .. n -> Places(schema)] :
          /\ f[0] = Root(schema)
          /\ \A i \in 1 .. n : f[i] = Resolved(schema, Child(f[i - 1], path[i]))
          /\ MeantPlace(schema, Up(path, n)) = f[n]
    <3> DEFINE s == Up(path, n)
    <3>1. s \in Seq(Keys) /\ Len(s) = n /\ \A i \in 1 .. n : s[i] = path[i]
      BY <2>1
    <3> HIDE DEF s
    <3>2. PICK f \in [0 .. Len(s) -> Places(schema)] :
           /\ f[0] = Root(schema)
           /\ \A i \in 1 .. Len(s) : f[i] = Resolved(schema, Child(f[i - 1], s[i]))
           /\ MeantPlace(schema, s) = f[Len(s)]
      BY <3>1, MeantPlaceIs
    <3>3. /\ f \in [0 .. n -> Places(schema)] /\ f[0] = Root(schema)
          /\ \A i \in 1 .. n : f[i] = Resolved(schema, Child(f[i - 1], path[i]))
          /\ MeantPlace(schema, s) = f[n]
      BY <3>1, <3>2
    <3> QED BY <3>3 DEF s
  <2>4. PICK g \in [0 .. n - 1 -> Places(schema)] :
          /\ g[0] = Root(schema)
          /\ \A i \in 1 .. n - 1 : g[i] = Resolved(schema, Child(g[i - 1], path[i]))
          /\ MeantPlace(schema, Up(path, n - 1)) = g[n - 1]
    <3> DEFINE s == Up(path, n - 1)
    <3>1. s \in Seq(Keys) /\ Len(s) = n - 1 /\ \A i \in 1 .. n - 1 : s[i] = path[i]
      BY <2>2
    <3> HIDE DEF s
    <3>2. PICK f2 \in [0 .. Len(s) -> Places(schema)] :
           /\ f2[0] = Root(schema)
           /\ \A i \in 1 .. Len(s) : f2[i] = Resolved(schema, Child(f2[i - 1], s[i]))
           /\ MeantPlace(schema, s) = f2[Len(s)]
      BY <3>1, MeantPlaceIs
    <3>3. /\ f2 \in [0 .. n - 1 -> Places(schema)] /\ f2[0] = Root(schema)
          /\ \A i \in 1 .. n - 1 : f2[i] = Resolved(schema, Child(f2[i - 1], path[i]))
          /\ MeantPlace(schema, s) = f2[n - 1]
      BY <3>1, <3>2
    <3> QED BY <3>3 DEF s
  <2> DEFINE bad == {i \in 0 .. n - 1 : f[i] # g[i]}
  <2>5. bad = {}
    <3> SUFFICES ASSUME bad # {} PROVE FALSE
      OBVIOUS
    <3>0. bad \subseteq Nat /\ bad \subseteq 0 .. n - 1 /\ \A i \in bad : f[i] # g[i]
      BY <2>0
    <3>a. \A i \in 0 .. n - 1 : i \in bad \/ f[i] = g[i]
      OBVIOUS
    <3> HIDE DEF bad
    <3>1. PICK m \in bad : \A i \in bad : m <= i
      BY <3>0, LeastIs
    <3>2. m \in 0 .. n - 1 /\ m # 0
      BY <2>3, <2>4, <3>0
    <3>3. m \in 1 .. n /\ m \in 1 .. n - 1 /\ m - 1 \in 0 .. n - 1 /\ ~(m <= m - 1)
      BY <2>0, <3>2
    <3>4. f[m - 1] = g[m - 1]
      BY <3>1, <3>3, <3>a
    <3> QED BY <2>3, <2>4, <3>0, <3>3, <3>4
  <2>6. n - 1 \in 0 .. n - 1 /\ n \in 1 .. n
    BY <2>0
  <2>7. f[n - 1] = g[n - 1]
    BY <2>5, <2>6
  <2> QED BY <2>3, <2>4, <2>6, <2>7
<1> QED BY <1>2, <1>3, <1>4

(* Everything on the way to a node comes before it and is what the next key *)
(* says.                                                                    *)
OnTheWay(nodes, i, m) ==
  \E j \in 1 .. i - 1 : /\ nodes[j].at = Up(nodes[i].at, m)
                        /\ nodes[j].k = IF nodes[i].at[m + 1] = "*" THEN "array" ELSE "object"

(* All that is above a node is a node before it.                            *)
LEMMA AncestorsAre ==
  ASSUME NEW schema, NEW nodes, IsTree(schema, nodes), NEW i \in DOMAIN nodes,
         NEW m \in 0 .. Len(nodes[i].at) - 1
  PROVE  OnTheWay(nodes, i, m)
<1> DEFINE bad == {x \in DOMAIN nodes : \E n \in 0 .. Len(nodes[x].at) - 1 : ~OnTheWay(nodes, x, n)}
<1>1. /\ DOMAIN nodes = 1 .. Len(nodes) /\ Len(nodes) \in Nat
      /\ \A x \in DOMAIN nodes : nodes[x].at \in Seq(Keys)
  BY TreeHas
<1>2. bad \subseteq Nat /\ bad \subseteq DOMAIN nodes
  BY <1>1
<1>3. bad = {}
  <2> SUFFICES ASSUME bad # {} PROVE FALSE
    OBVIOUS
  <2>1. \E x \in bad : \A y \in bad : x <= y
    <3> HIDE DEF bad
    <3> QED BY <1>2, LeastIs
  <2>2. PICK x \in bad : \A y \in bad : x <= y
    BY <2>1
  <2>3. PICK n \in 0 .. Len(nodes[x].at) - 1 : ~OnTheWay(nodes, x, n)
    OBVIOUS
  <2> DEFINE at == nodes[x].at
  <2>4. x \in DOMAIN nodes /\ at \in Seq(Keys) /\ Len(at) \in Nat /\ x \in Nat
    BY <1>1, <1>2
  <2>5. at # <<>> /\ Len(at) - 1 \in 0 .. Len(at) /\ Len(at) \in 1 .. Len(at)
    BY <2>4, <2>3
  <2>6. PICK j \in 1 .. x - 1 :
          nodes[j].at = Front(at) /\ nodes[j].k = IF Last(at) = "*" THEN "array" ELSE "object"
    BY <2>4, <2>5 DEF IsTree
  <2>7. Front(at) = Up(at, Len(at) - 1) /\ Last(at) = at[Len(at)]
    <3>1. Up(at, Len(at)) = at
      BY <2>4, UpFacts
    <3>2. Front(Up(at, Len(at))) = Up(at, Len(at) - 1) /\ Last(Up(at, Len(at))) = at[Len(at)]
      BY <2>4, <2>5, UpFacts
    <3> QED BY <3>1, <3>2
  <2>8. CASE n = Len(at) - 1
    <3>1. n + 1 = Len(at)
      BY <2>4, <2>8
    <3> QED BY <2>3, <2>6, <2>7, <2>8, <3>1 DEF OnTheWay
  <2>9. CASE n # Len(at) - 1
    <3>1. /\ n \in 0 .. Len(at) - 2 /\ n \in 0 .. Len(at) - 1 /\ n + 1 \in 1 .. Len(at) - 1
          /\ n \in Nat
      BY <2>4, <2>9
    <3>2. /\ Up(at, Len(at) - 1) \in Seq(Keys) /\ Len(Up(at, Len(at) - 1)) = Len(at) - 1
          /\ \A k \in 1 .. Len(at) - 1 : Up(at, Len(at) - 1)[k] = at[k]
      BY <2>4, <2>5, UpIs
    <3>3. j \in DOMAIN nodes /\ j \notin bad
      <4>1. j \in 1 .. Len(nodes) /\ ~(x <= j)
        BY <1>1, <2>4, <2>6
      <4> HIDE DEF bad
      <4> QED BY <1>1, <2>2, <4>1
    <3>4. Len(nodes[j].at) = Len(at) - 1 /\ n \in 0 .. Len(nodes[j].at) - 1
      BY <2>4, <2>6, <2>7, <3>1, <3>2
    <3>5. OnTheWay(nodes, j, n)
      BY <3>3, <3>4
    <3>6. Up(nodes[j].at, n) = Up(at, n) /\ nodes[j].at[n + 1] = at[n + 1]
      <4>1. Up(Up(at, Len(at) - 1), n) = Up(at, n)
        BY <2>4, <2>5, <3>1, UpFacts
      <4> QED BY <4>1, <2>6, <2>7, <3>1, <3>2
    <3>7. 1 .. j - 1 \subseteq 1 .. x - 1
      BY <2>4, <2>6
    <3> QED BY <2>3, <3>5, <3>6, <3>7 DEF OnTheWay
  <2> QED BY <2>8, <2>9
<1> QED BY <1>3

(* What a node is inside of comes before it, and is what the next key says. *)
LEMMA BelowIs ==
  ASSUME NEW schema, NEW nodes, IsTree(schema, nodes), NEW i \in DOMAIN nodes, NEW j \in DOMAIN nodes,
         i # j, IsPrefix(nodes[i].at, nodes[j].at)
  PROVE  /\ i < j /\ Len(nodes[i].at) + 1 \in 1 .. Len(nodes[j].at)
         /\ nodes[i].k = IF nodes[j].at[Len(nodes[i].at) + 1] = "*" THEN "array" ELSE "object"
<1> DEFINE s == nodes[i].at
           t == nodes[j].at
<1>1. /\ s \in Seq(Keys) /\ t \in Seq(Keys) /\ Len(s) \in Nat /\ Len(t) \in Nat
      /\ DOMAIN nodes = 1 .. Len(nodes) /\ Len(nodes) \in Nat
  BY TreeHas
<1>2. s # t
  BY DEF IsTree
<1>3. Len(s) <= Len(t) /\ s = Up(t, Len(s))
  <2> HIDE DEF s, t
  <2>1. IsPrefix(s, t)
    BY DEF s, t
  <2> QED BY <1>1, <2>1, PrefixIs
<1>4. Len(s) # Len(t)
  <2>1. Up(t, Len(t)) = t
    BY <1>1, UpFacts
  <2> QED BY <1>2, <1>3, <2>1
<1>5. Len(s) \in 0 .. Len(t) - 1 /\ Len(s) + 1 \in 1 .. Len(t)
  BY <1>1, <1>3, <1>4
<1>6. OnTheWay(nodes, j, Len(s))
  BY <1>5, AncestorsAre
<1>7. PICK x \in 1 .. j - 1 : /\ nodes[x].at = s
                              /\ nodes[x].k = IF t[Len(s) + 1] = "*" THEN "array" ELSE "object"
  BY <1>3, <1>6 DEF OnTheWay
<1>8. x \in DOMAIN nodes /\ x < j
  BY <1>1, <1>7
<1>9. x = i
  BY <1>7, <1>8 DEF IsTree
<1> QED BY <1>5, <1>7, <1>8, <1>9

(* What is looked up from a reference, from an object, and from an array.   *)
LEMMA RefBelow ==
  ASSUME NEW schema, IsSchema(schema), NEW place \in Places(schema), NodeAt(place).k = "ref"
  PROVE  \E i \in DOMAIN place.nodes : NestedLookup(place, "ref") = {i} /\ NodeAt(place) = place.nodes[i]
<1> DEFINE nodes == place.nodes
<1>1. IsTree(schema, nodes) /\ place.at \in Seq(Keys)
  BY PlaceIs
<1>2. PICK i \in DOMAIN nodes : nodes[i].at = place.at /\ NodeAt(place) = nodes[i]
  BY PlaceIs
<1>3. IsPrefix(nodes[i].at, nodes[i].at)
  <2>1. Len(place.at) <= Len(place.at)
    BY <1>1
  <2>2. IsPrefix(place.at, place.at)
    BY <1>1, <2>1, PrefixIs
  <2> QED BY <1>2, <2>2
<1>4. i \in NestedLookup(place, "ref")
  BY <1>2, <1>3, NestedIs
<1>5. ASSUME NEW j \in NestedLookup(place, "ref"), j # i PROVE FALSE
  <2>1. j \in DOMAIN nodes /\ IsPrefix(nodes[i].at, nodes[j].at)
    BY <1>2, NestedIs
  <2>2. nodes[i].k = "array" \/ nodes[i].k = "object"
    BY <1>1, <1>5, <2>1, BelowIs
  <2> QED BY <1>2, <2>2
<1>6. NestedLookup(place, "ref") = {i}
  BY <1>4, <1>5
<1> QED BY <1>2, <1>6

(* The first object at an object is the object.                             *)
LEMMA ObjectBelow ==
  ASSUME NEW schema, IsSchema(schema), NEW place \in Places(schema), NodeAt(place).k = "object"
  PROVE  Properties(place) = place
<1> DEFINE nodes == place.nodes
           inner == NestedLookup(place, "object")
<1>1. /\ IsTree(schema, nodes) /\ place.at \in Seq(Keys)
      /\ place = [nodes |-> place.nodes, at |-> place.at]
  BY PlaceIs
<1>2. PICK i \in DOMAIN nodes : nodes[i].at = place.at /\ NodeAt(place) = nodes[i]
  BY PlaceIs
<1>3. IsPrefix(nodes[i].at, nodes[i].at)
  <2>1. Len(place.at) <= Len(place.at)
    BY <1>1
  <2>2. IsPrefix(place.at, place.at)
    BY <1>1, <2>1, PrefixIs
  <2> QED BY <1>2, <2>2
<1>4. i \in inner
  BY <1>2, <1>3, NestedIs
<1>5. inner \subseteq Nat /\ inner \subseteq DOMAIN nodes
  BY NestedNumbers
<1>6. Min(inner) \in inner /\ \A x \in inner : Min(inner) <= x
  <2> HIDE DEF inner
  <2> QED BY <1>4, <1>5, MinIs
<1>7. Min(inner) = i
  <2> SUFFICES ASSUME Min(inner) # i PROVE FALSE
    OBVIOUS
  <2> DEFINE j == Min(inner)
  <2>1. j \in inner /\ j \in DOMAIN nodes /\ j <= i /\ j \in Nat /\ i \in Nat
    BY <1>4, <1>5, <1>6
  <2> HIDE DEF j
  <2>2. IsPrefix(nodes[i].at, nodes[j].at)
    BY <1>2, <2>1, NestedIs
  <2>3. i # j
    BY DEF j
  <2>4. i < j
    BY <1>1, <2>1, <2>2, <2>3, BelowIs
  <2> QED BY <2>1, <2>4
<1>8. Properties(place) = [place EXCEPT !.at = nodes[i].at]
  BY <1>4, <1>7 DEF Properties
<1> QED BY <1>1, <1>2, <1>8

(* An array holds what its items hold.                                      *)
LEMMA ArrayBelow ==
  ASSUME NEW schema, IsSchema(schema), NEW place \in Places(schema), NodeAt(place).k = "array",
         NEW k, k # "array"
  PROVE  NestedLookup(place, k) = NestedLookup(Child(place, "*"), k)
<1> DEFINE nodes == place.nodes
           items == Append(place.at, "*")
<1>1. /\ IsTree(schema, nodes) /\ place.at \in Seq(Keys) /\ Len(place.at) \in Nat
  BY PlaceIs
<1>2. PICK i \in DOMAIN nodes : nodes[i].at = place.at /\ NodeAt(place) = nodes[i]
  BY PlaceIs
<1>a. "*" \in Keys
  BY DEF Keys
<1>3. Child(place, "*") = [nodes |-> nodes, at |-> items]
  BY <1>a, ChildIs
<1>4. /\ items \in Seq(Keys) /\ Len(items) = Len(place.at) + 1 /\ items[Len(place.at) + 1] = "*"
      /\ \A n \in 1 .. Len(place.at) : items[n] = place.at[n]
  <2> DEFINE at == place.at
  <2> HIDE DEF at
  <2>1. at \in Seq(Keys) /\ items = Append(at, "*")
    BY <1>1 DEF at
  <2>2. /\ Append(at, "*") \in Seq(Keys) /\ Len(Append(at, "*")) = Len(at) + 1
        /\ Append(at, "*")[Len(at) + 1] = "*"
        /\ \A n \in 1 .. Len(at) : Append(at, "*")[n] = at[n]
    BY <1>a, <2>1
  <2> QED BY <2>1, <2>2 DEF at
<1> HIDE DEF items
<1>5. ASSUME NEW j \in DOMAIN nodes, nodes[j].k = k
      PROVE  IsPrefix(place.at, nodes[j].at) <=> IsPrefix(items, nodes[j].at)
  <2> DEFINE t == nodes[j].at
  <2>1. t \in Seq(Keys) /\ Len(t) \in Nat
    BY <1>1, TreeHas
  <2>a. IsPrefix(place.at, t) <=> Len(place.at) <= Len(t) /\ \A n \in 1 .. Len(place.at) : place.at[n] = t[n]
    BY <1>1, <2>1, PrefixIs
  <2>b. IsPrefix(items, t) <=> Len(items) <= Len(t) /\ \A n \in 1 .. Len(items) : items[n] = t[n]
    BY <1>4, <2>1, PrefixIs
  <2>2. ASSUME IsPrefix(items, t) PROVE IsPrefix(place.at, t)
    <3>1. Len(place.at) <= Len(t) /\ \A n \in 1 .. Len(place.at) : n \in 1 .. Len(items)
      BY <1>1, <1>4, <2>1, <2>2, <2>b
    <3>2. \A n \in 1 .. Len(place.at) : place.at[n] = t[n]
      BY <1>4, <2>2, <2>b, <3>1
    <3> QED BY <2>a, <3>1, <3>2
  <2>3. ASSUME IsPrefix(place.at, t) PROVE IsPrefix(items, t)
    <3>1. i # j
      BY <1>2, <1>5
    <3>2. IsPrefix(nodes[i].at, nodes[j].at)
      BY <1>2, <2>3
    <3>3. /\ Len(nodes[i].at) + 1 \in 1 .. Len(nodes[j].at)
          /\ nodes[i].k = IF nodes[j].at[Len(nodes[i].at) + 1] = "*" THEN "array" ELSE "object"
      BY <1>1, <3>1, <3>2, BelowIs
    <3>4. t[Len(place.at) + 1] = "*" /\ Len(items) <= Len(t)
      BY <1>1, <1>2, <1>4, <2>1, <3>3
    <3>5. \A n \in 1 .. Len(items) : n \in 1 .. Len(place.at) \/ n = Len(place.at) + 1
      BY <1>1, <1>4
    <3>6. \A n \in 1 .. Len(items) : items[n] = t[n]
      BY <1>4, <2>3, <2>a, <3>4, <3>5
    <3> QED BY <2>b, <3>4, <3>6
  <2> QED BY <2>2, <2>3
<1>6. ASSUME NEW j PROVE j \in NestedLookup(place, k) <=> j \in NestedLookup(Child(place, "*"), k)
  <2>1. j \in NestedLookup(place, k) <=>
          j \in DOMAIN nodes /\ IsPrefix(place.at, nodes[j].at) /\ nodes[j].k = k
    BY NestedIs
  <2>2. j \in NestedLookup(Child(place, "*"), k) <=>
          j \in DOMAIN nodes /\ IsPrefix(items, nodes[j].at) /\ nodes[j].k = k
    BY <1>3, NestedIs
  <2> QED BY <1>5, <2>1, <2>2
<1> QED BY <1>6

-----------------------------------------------------------------------------
(* The lookup where objects are definitions or hold no reference.           *)

(* What the lookup relies on in the schema.                                 *)
SchemaIsSafe(schema) ==
  /\ \A nodes \in Trees(schema) : ObjectsHoldNoReference(nodes)
  /\ \A name \in DOMAIN schema.definitions : schema.definitions[name][1].k = "object"

LEMMA SafeSchema ==
  ASSUME NEW schema, NEW document, LookupIsSafe(schema, document)
  PROVE  SchemaIsSafe(schema)
BY DEF LookupIsSafe, SchemaIsSafe, Trees

LEMMA DefinitionIs ==
  ASSUME NEW schema, IsSchema(schema), SchemaIsSafe(schema), NEW name \in DOMAIN schema.definitions
  PROVE  /\ Definition(schema, name) \in Places(schema)
         /\ NodeAt(Definition(schema, name)).k = "object"
         /\ Properties(Definition(schema, name)) = Definition(schema, name)
<1> DEFINE nodes == schema.definitions[name]
           end == Definition(schema, name)
<1>1. end = [nodes |-> nodes, at |-> <<>>] /\ end \in Places(schema)
  BY DEF Definition, Places, Trees
<1>2. IsTree(schema, nodes)
  BY DEF IsSchema
<1>3. 1 \in DOMAIN nodes /\ nodes[1].at = <<>>
  BY <1>2, TreeHas
<1>4. NodeAt([nodes |-> nodes, at |-> <<>>]) = nodes[1]
  BY <1>2, <1>3, NodeAtIs
<1>5. NodeAt(end).k = "object"
  BY <1>1, <1>4 DEF SchemaIsSafe
<1> HIDE DEF end
<1>6. Properties(end) = end
  BY <1>1, <1>5, ObjectBelow
<1> QED BY <1>1, <1>5, <1>6 DEF end

(* The root of a schema is an object.                                       *)
LEMMA RootKind ==
  ASSUME NEW schema, IsSchema(schema)
  PROVE  Root(schema) \in Places(schema) /\ NodeAt(Root(schema)).k = "object"
<1> DEFINE nodes == schema.root
<1>1. IsTree(schema, nodes) /\ nodes[1].k = "object"
  BY DEF IsSchema
<1>2. 1 \in DOMAIN nodes /\ nodes[1].at = <<>>
  BY <1>1, TreeHas
<1>3. NodeAt([nodes |-> nodes, at |-> <<>>]) = nodes[1]
  BY <1>1, <1>2, NodeAtIs
<1> QED BY <1>1, <1>3, RootIs DEF Root

(* Following a reference gets to what the reference means.                  *)
LEMMA FollowsRef ==
  ASSUME NEW schema, IsSchema(schema), SchemaIsSafe(schema), NEW place \in Places(schema),
         NEW i \in DOMAIN place.nodes, place.nodes[i].k = "ref", NestedLookup(place, "ref") = {i}
  PROVE  /\ \A last_step \in BOOLEAN : ~(last_step /\ NodeAt(place).k # "ref") =>
              ResolveRef(schema, place, last_step) = Definition(schema, place.nodes[i].to)
         /\ NodeAt(Definition(schema, place.nodes[i].to)).k = "object"
<1> DEFINE nodes == place.nodes
           refs == NestedLookup(place, "ref")
<1>1. nodes[i].to \in DOMAIN schema.definitions
  <2>1. IsTree(schema, nodes)
    BY PlaceIs
  <2> QED BY <2>1, TreeHas
<1>2. Min(refs) = i
  <2>1. refs \subseteq Nat /\ refs # {}
    BY NestedNumbers
  <2>2. Min(refs) \in refs
    <3> HIDE DEF refs
    <3> QED BY <2>1, MinIs
  <2> QED BY <2>2
<1>3. /\ NodeAt(Definition(schema, nodes[i].to)).k = "object"
      /\ Properties(Definition(schema, nodes[i].to)) = Definition(schema, nodes[i].to)
  BY <1>1, DefinitionIs
<1>4. ASSUME NEW last_step \in BOOLEAN, ~(last_step /\ NodeAt(place).k # "ref")
      PROVE  ResolveRef(schema, place, last_step) = Properties(Definition(schema, nodes[Min(refs)].to))
  BY <1>4 DEF ResolveRef
<1> QED BY <1>2, <1>3, <1>4

LEMMA ResolveRefOfRef ==
  ASSUME NEW schema, IsSchema(schema), SchemaIsSafe(schema), NEW place \in Places(schema),
         NodeAt(place).k = "ref"
  PROVE  /\ \A last_step \in BOOLEAN : ResolveRef(schema, place, last_step) = Resolved(schema, place)
         /\ NodeAt(Resolved(schema, place)).k = "object"
<1>1. PICK i \in DOMAIN place.nodes : NestedLookup(place, "ref") = {i} /\ NodeAt(place) = place.nodes[i]
  BY RefBelow
<1>2. Resolved(schema, place) = Definition(schema, place.nodes[i].to)
  BY <1>1 DEF Resolved
<1>3. place.nodes[i].k = "ref"
  BY <1>1
<1>4. \A last_step \in BOOLEAN : ~(last_step /\ NodeAt(place).k # "ref")
  OBVIOUS
<1>5. /\ \A last_step \in BOOLEAN : ~(last_step /\ NodeAt(place).k # "ref") =>
              ResolveRef(schema, place, last_step) = Definition(schema, place.nodes[i].to)
      /\ NodeAt(Definition(schema, place.nodes[i].to)).k = "object"
  BY <1>1, <1>3, FollowsRef
<1> QED BY <1>2, <1>4, <1>5

LEMMA ResolveRefOfObject ==
  ASSUME NEW schema, IsSchema(schema), SchemaIsSafe(schema), NEW place \in Places(schema),
         NodeAt(place).k = "object", place.at # <<>>
  PROVE  ResolveRef(schema, place, FALSE) = place /\ NestedLookup(place, "ref") = {}
<1> DEFINE nodes == place.nodes
<1>1. /\ IsTree(schema, nodes) /\ place = [nodes |-> nodes, at |-> place.at] /\ nodes \in Trees(schema)
  BY PlaceIs
<1>2. PICK i \in DOMAIN nodes : nodes[i].at = place.at /\ NodeAt(place) = nodes[i]
  BY PlaceIs
<1>3. i # 1
  BY <1>1, <1>2, TreeHas
<1>4. NestedLookup(place, "ref") = {}
  <2>1. ObjectsHoldNoReference(nodes)
    BY <1>1 DEF SchemaIsSafe
  <2>2. NestedLookup([nodes |-> nodes, at |-> nodes[i].at], "ref") = {}
    BY <1>2, <1>3, <2>1 DEF ObjectsHoldNoReference
  <2> QED BY <1>1, <1>2, <2>2
<1>5. Properties(place) = place
  BY ObjectBelow
<1> QED BY <1>4, <1>5 DEF ResolveRef

(* One step of a lookup, from an object and from an array.                  *)
LEMMA KeyStep ==
  ASSUME NEW schema, IsSchema(schema), SchemaIsSafe(schema), NEW place \in Places(schema),
         NEW key \in Keys
  PROVE  /\ NodeAt(Resolved(schema, Child(place, key))).k = "object" =>
              ResolveRef(schema, Child(place, key), FALSE) = Resolved(schema, Child(place, key))
         /\ NodeAt(Resolved(schema, Child(place, key))).k = "array" =>
              /\ Resolved(schema, Child(place, key)) = Child(place, key)
              /\ NodeAt(Child(place, key)).k = "array"
              /\ ResolveRef(schema, Child(place, key), TRUE) = Child(place, key)
<1> DEFINE child == Child(place, key)
<1>1. /\ child \in Places(schema) /\ child = [nodes |-> place.nodes, at |-> Append(place.at, key)]
  BY ChildIs
<1>2. child.at # <<>>
  <2>1. place.at \in Seq(Keys)
    BY PlaceIs
  <2> DEFINE at == place.at
  <2> HIDE DEF at
  <2>2. at \in Seq(Keys)
    BY <2>1 DEF at
  <2>3. Append(at, key) # <<>>
    <3>1. Len(Append(at, key)) = Len(at) + 1 /\ Len(at) \in Nat
      BY <2>2
    <3>2. Len(Append(at, key)) # 0
      BY <3>1
    <3> QED BY <3>2
  <2>4. child.at = Append(place.at, key)
    BY <1>1
  <2> QED BY <2>3, <2>4 DEF at
<1> HIDE DEF child
<1>3. CASE NodeAt(child).k = "ref"
  <2>1. /\ \A last_step \in BOOLEAN : ResolveRef(schema, child, last_step) = Resolved(schema, child)
        /\ NodeAt(Resolved(schema, child)).k = "object"
    BY <1>1, <1>3, ResolveRefOfRef
  <2> QED BY <2>1 DEF child
<1>4. CASE NodeAt(child).k # "ref"
  <2>1. Resolved(schema, child) = child
    BY <1>4 DEF Resolved
  <2>2. NodeAt(child).k = "object" => ResolveRef(schema, child, FALSE) = child
    BY <1>1, <1>2, ResolveRefOfObject
  <2>3. ResolveRef(schema, child, TRUE) = child
    BY <1>4 DEF ResolveRef
  <2> QED BY <2>1, <2>2, <2>3 DEF child
<1> QED BY <1>3, <1>4

(* A lookup can go on from an array if something is inside.                 *)
Inside(place) == NestedLookup(place, "ref") # {} \/ NestedLookup(place, "object") # {}

(* A step into a list is passed over, and what the place means is inside.   *)
LEMMA MemberStep ==
  ASSUME NEW schema, IsSchema(schema), SchemaIsSafe(schema), NEW place \in Places(schema),
         NodeAt(place).k = "array"
  PROVE  /\ NodeAt(Resolved(schema, Child(place, "*"))).k = "object" =>
              /\ Inside(place)
              /\ ResolveRef(schema, place, FALSE) = Resolved(schema, Child(place, "*"))
         /\ NodeAt(Resolved(schema, Child(place, "*"))).k = "array" =>
              /\ Resolved(schema, Child(place, "*")) = Child(place, "*")
              /\ Inside(Child(place, "*")) =>
                   /\ Inside(place)
                   /\ ResolveRef(schema, place, FALSE) = ResolveRef(schema, Child(place, "*"), FALSE)
<1> DEFINE child == Child(place, "*")
<1>a. "*" \in Keys
  BY DEF Keys
<1>1. /\ child \in Places(schema) /\ child = [nodes |-> place.nodes, at |-> Append(place.at, "*")]
      /\ child.nodes = place.nodes
  BY <1>a, ChildIs
<1>2. child.at # <<>>
  <2>1. place.at \in Seq(Keys)
    BY PlaceIs
  <2> DEFINE at == place.at
  <2> HIDE DEF at
  <2>2. at \in Seq(Keys)
    BY <2>1 DEF at
  <2>3. Append(at, "*") # <<>>
    BY <2>2
  <2>4. child.at = Append(place.at, "*")
    BY <1>1
  <2> QED BY <2>3, <2>4 DEF at
<1>3. /\ NestedLookup(place, "ref") = NestedLookup(child, "ref")
      /\ NestedLookup(place, "object") = NestedLookup(child, "object")
  <2>1. "ref" # "array" /\ "object" # "array"
    OBVIOUS
  <2>2. NestedLookup(place, "ref") = NestedLookup(Child(place, "*"), "ref")
    BY <2>1, ArrayBelow
  <2>3. NestedLookup(place, "object") = NestedLookup(Child(place, "*"), "object")
    BY <2>1, ArrayBelow
  <2> QED BY <2>2, <2>3
<1>4. place = [nodes |-> place.nodes, at |-> place.at]
  BY PlaceIs
<1> HIDE DEF child
<1>5. CASE NodeAt(child).k = "ref"
  <2>1. PICK i \in DOMAIN child.nodes : NestedLookup(child, "ref") = {i} /\ NodeAt(child) = child.nodes[i]
    BY <1>1, <1>5, RefBelow
  <2>2. /\ i \in DOMAIN place.nodes /\ NestedLookup(place, "ref") = {i} /\ NodeAt(child) = place.nodes[i]
        /\ place.nodes[i].k = "ref"
    BY <1>1, <1>3, <1>5, <2>1
  <2>3. Resolved(schema, child) = Definition(schema, place.nodes[i].to)
    BY <1>5, <2>2 DEF Resolved
  <2>4. /\ \A last_step \in BOOLEAN : ~(last_step /\ NodeAt(place).k # "ref") =>
              ResolveRef(schema, place, last_step) = Definition(schema, place.nodes[i].to)
        /\ NodeAt(Definition(schema, place.nodes[i].to)).k = "object"
    BY <2>2, FollowsRef
  <2>5. ResolveRef(schema, place, FALSE) = Definition(schema, place.nodes[i].to)
    BY <2>4
  <2>6. Inside(place)
    BY <2>2 DEF Inside
  <2>7. NodeAt(Resolved(schema, child)).k = "object" /\ ResolveRef(schema, place, FALSE) = Resolved(schema, child)
    BY <2>3, <2>4, <2>5
  <2> QED BY <2>6, <2>7 DEF child
<1>6. CASE NodeAt(child).k # "ref"
  <2>1. Resolved(schema, child) = child
    BY <1>6 DEF Resolved
  <2>2. CASE NodeAt(child).k = "object"
    <3>1. NestedLookup(child, "ref") = {} /\ Properties(child) = child
      BY <1>1, <1>2, <2>2, ResolveRefOfObject, ObjectBelow
    <3>2. PICK i \in DOMAIN child.nodes : child.nodes[i].at = child.at /\ NodeAt(child) = child.nodes[i]
      BY <1>1, <2>2, PlaceIs
    <3>3. IsPrefix(child.at, child.nodes[i].at)
      <4>1. child.at \in Seq(Keys) /\ Len(child.at) <= Len(child.at)
        <5>1. child.at \in Seq(Keys)
          BY <1>1, PlaceIs
        <5>2. Len(child.at) \in Nat
          BY <5>1
        <5> QED BY <5>1, <5>2
      <4>2. IsPrefix(child.at, child.at)
        BY <4>1, PrefixIs
      <4> QED BY <3>2, <4>2
    <3>4. i \in NestedLookup(child, "object")
      BY <2>2, <3>2, <3>3, NestedIs
    <3>5. Inside(place)
      BY <1>3, <3>4 DEF Inside
    <3> DEFINE first == Min(NestedLookup(child, "object"))
    <3>6. Properties(child) = [child EXCEPT !.at = child.nodes[first].at]
      BY <3>4 DEF Properties
    <3>7. Properties(place) = [place EXCEPT !.at = place.nodes[first].at]
      BY <1>3, <3>4 DEF Properties
    <3> HIDE DEF first
    <3>8. Properties(place) = child
      BY <1>1, <1>4, <3>1, <3>6, <3>7
    <3>9. ResolveRef(schema, place, FALSE) = Properties(place)
      BY <1>3, <3>1 DEF ResolveRef
    <3> QED BY <2>1, <2>2, <3>5, <3>8, <3>9 DEF child
  <2>3. CASE NodeAt(child).k = "array" /\ Inside(child)
    <3>1. Inside(place)
      BY <1>3, <2>3 DEF Inside
    <3>2. CASE NestedLookup(child, "ref") # {}
      BY <1>1, <1>3, <2>1, <2>3, <3>1, <3>2 DEF ResolveRef, child
    <3>3. CASE NestedLookup(child, "ref") = {}
      <4>1. NestedLookup(child, "object") # {}
        BY <2>3, <3>3 DEF Inside
      <4> DEFINE first == Min(NestedLookup(child, "object"))
      <4>2. Properties(child) = [child EXCEPT !.at = child.nodes[first].at]
        BY <4>1 DEF Properties
      <4>3. Properties(place) = [place EXCEPT !.at = place.nodes[first].at]
        BY <1>3, <4>1 DEF Properties
      <4> HIDE DEF first
      <4>4. Properties(place) = Properties(child)
        BY <1>1, <1>4, <4>2, <4>3
      <4>5. ResolveRef(schema, place, FALSE) = ResolveRef(schema, child, FALSE)
        BY <1>3, <3>3, <4>4 DEF ResolveRef
      <4> QED BY <2>1, <2>3, <3>1, <4>5 DEF child
    <3> QED BY <3>2, <3>3
  <2>4. CASE NodeAt(child).k # "object" /\ ~(NodeAt(child).k = "array" /\ Inside(child))
    BY <2>1, <2>4 DEF child
  <2> QED BY <2>2, <2>3, <2>4
<1> QED BY <1>5, <1>6

-----------------------------------------------------------------------------
(* Documents.                                                               *)

KindOf == [dict |-> "object", list |-> "array", scalar |-> "scalar"]

(* What a position of a model has before it, and what it means.             *)
LEMMA PositionIs ==
  ASSUME NEW schema, NEW document, IsModel(schema, document), NEW p \in DOMAIN document
  PROVE  /\ p \in Seq(Step) /\ Len(p) \in Nat /\ document[p] \in Value
         /\ document[p].k \in {"dict", "list", "scalar"}
         /\ document[p].k = "list" => document[p].len \in Nat
         /\ Meant(schema, Route(p)).k = KindOf[document[p].k]
         /\ \A n \in 0 .. Len(p) : Up(p, n) \in DOMAIN document
         /\ \A n \in 1 .. Len(p) :
              /\ Up(p, n - 1) \in DOMAIN document
              /\ p[n].key = "*" => /\ document[Up(p, n - 1)].k = "list"
                                   /\ p[n].at \in 1 .. document[Up(p, n - 1)].len
              /\ p[n].key # "*" => document[Up(p, n - 1)].k = "dict" /\ p[n].at = 0
<1>1. \A q \in DOMAIN document :
        /\ q \in Seq(Step) /\ document[q] \in Value
        /\ q # <<>> => /\ Front(q) \in DOMAIN document
                       /\ IF Last(q).key = "*"
                          THEN document[Front(q)].k = "list" /\ Last(q).at \in 1 .. document[Front(q)].len
                          ELSE document[Front(q)].k = "dict" /\ Last(q).at = 0
        /\ Meant(schema, Route(q)).k = KindOf[document[q].k]
  BY DEF IsModel, KindOf
<1>2. p \in Seq(Step) /\ Len(p) \in Nat /\ document[p] \in Value
  <2>1. p \in Seq(Step) /\ document[p] \in Value
    BY <1>1
  <2>2. Len(p) \in Nat
    BY <2>1
  <2> QED BY <2>1, <2>2
<1>3. document[p].k \in {"dict", "list", "scalar"} /\ (document[p].k = "list" => document[p].len \in Nat)
  BY <1>2 DEF Value
<1> DEFINE bad == {d \in 0 .. Len(p) : Up(p, Len(p) - d) \notin DOMAIN document}
<1>4. bad = {}
  <2> SUFFICES ASSUME bad # {} PROVE FALSE
    OBVIOUS
  <2>0. bad \subseteq Nat /\ \A d \in bad : d \in 0 .. Len(p) /\ Up(p, Len(p) - d) \notin DOMAIN document
    BY <1>2
  <2>a. \A d \in 0 .. Len(p) : d \in bad \/ Up(p, Len(p) - d) \in DOMAIN document
    OBVIOUS
  <2> HIDE DEF bad
  <2>1. PICK d \in bad : \A e \in bad : d <= e
    BY <2>0, LeastIs
  <2>2. d \in 0 .. Len(p) /\ Up(p, Len(p) - d) \notin DOMAIN document
    BY <2>0
  <2>3. d # 0
    <3>1. Up(p, Len(p)) = p /\ Len(p) - 0 = Len(p)
      BY <1>2, UpFacts
    <3> QED BY <2>2, <3>1
  <2> DEFINE n == Len(p) - (d - 1)
  <2>4. /\ d - 1 \in 0 .. Len(p) /\ ~(d <= d - 1) /\ n \in 1 .. Len(p) /\ n \in 0 .. Len(p)
        /\ n - 1 = Len(p) - d
    BY <1>2, <2>2, <2>3
  <2>5. Up(p, n) \in DOMAIN document
    BY <2>1, <2>4, <2>a
  <2> HIDE DEF n
  <2>6. Front(Up(p, n)) = Up(p, n - 1) /\ Len(Up(p, n)) = n
    BY <1>2, <2>4, UpFacts, UpIs
  <2>7. Up(p, n) # <<>>
    <3>1. Len(Up(p, n)) # 0
      BY <2>4, <2>6
    <3> QED BY <3>1
  <2> QED BY <1>1, <2>2, <2>4, <2>5, <2>6, <2>7
<1>5. ASSUME NEW n \in 0 .. Len(p) PROVE Up(p, n) \in DOMAIN document
  <2> DEFINE d == Len(p) - n
  <2>1. d \in 0 .. Len(p) /\ Len(p) - d = n
    BY <1>2
  <2>2. d \notin bad
    BY <1>4
  <2> QED BY <2>1, <2>2
<1>6. ASSUME NEW n \in 1 .. Len(p)
      PROVE  /\ Up(p, n - 1) \in DOMAIN document
             /\ p[n].key = "*" => /\ document[Up(p, n - 1)].k = "list"
                                  /\ p[n].at \in 1 .. document[Up(p, n - 1)].len
             /\ p[n].key # "*" => document[Up(p, n - 1)].k = "dict" /\ p[n].at = 0
  <2>1. n \in 0 .. Len(p) /\ n - 1 \in 0 .. Len(p) /\ n # 0
    BY <1>2
  <2>2. Up(p, n) \in DOMAIN document /\ Up(p, n - 1) \in DOMAIN document
    BY <1>5, <2>1
  <2>3. /\ Front(Up(p, n)) = Up(p, n - 1) /\ Last(Up(p, n)) = p[n] /\ Len(Up(p, n)) = n
    BY <1>2, <2>1, UpFacts, UpIs
  <2>4. Up(p, n) # <<>>
    BY <2>1, <2>3
  <2> QED BY <1>1, <2>2, <2>3, <2>4
<1> QED BY <1>1, <1>2, <1>3, <1>5, <1>6

(* The first place of a key that a path does not repeat.                    *)
LEMMA IndexOfIs ==
  ASSUME NEW path \in Seq(Keys), NEW n \in 1 .. Len(path),
         \A m \in 1 .. Len(path) : path[m] = path[n] => m = n
  PROVE  IndexOf(path, path[n]) = n
<1> DEFINE same == {m \in DOMAIN path : path[m] = path[n]}
<1>1. same = {n} /\ same \subseteq Nat
  OBVIOUS
<1>2. Min(same) \in same
  <2> HIDE DEF same
  <2> QED BY <1>1, MinIs
<1> QED BY <1>1, <1>2 DEF IndexOf

(* The lookup of a list ends where its path means, so that insertionOrder   *)
(* is that of the list: if the schema is safe and no key of the path        *)
(* repeats.                                                                 *)
KeysDiffer(p) == \A i, j \in DOMAIN p : p[i].key = p[j].key /\ p[i].key # "*" => i = j

(* Where objects are definitions or hold no reference, and no name repeats, *)
(* the lookup of a list finds the property that its path means, and so      *)
(* whether its order counts (traverse_raw_schema, compare_model).           *)
THEOREM LookupIs ==
  ASSUME NEW schema, IsSchema(schema), SchemaIsSafe(schema), NEW document, IsModel(schema, document),
         NEW p \in DOMAIN document, KeysDiffer(p), p # <<>>, document[p].k = "list", Last(p).key # "*"
  PROVE  IsOrdered(schema, p) = Meant(schema, Route(p)).ordered
<1> DEFINE N == Len(p)
           path == Route(p)
           Place(n) == MeantPlace(schema, Up(path, n))
<1>1. p \in Seq(Step) /\ N \in Nat /\ \A n \in 0 .. N : Up(p, n) \in DOMAIN document
  BY PositionIs
<1>2. /\ path \in Seq(Keys) /\ Len(path) = N /\ \A n \in 1 .. N : path[n] = p[n].key /\ path[n] \in Keys
      /\ \A n \in 0 .. N : Route(Up(p, n)) = Up(path, n)
  <2>1. path \in Seq(Keys) /\ Len(path) = N /\ \A n \in 1 .. N : path[n] = p[n].key
    BY <1>1, RouteIs
  <2>2. \A n \in 0 .. N : Route(Up(p, n)) = Up(path, n)
    BY <1>1, RouteIs
  <2> HIDE DEF path
  <2>3. \A n \in 1 .. N : path[n] \in Keys
    BY <2>1
  <2> QED BY <2>1, <2>2, <2>3
<1>3. N \in 1 .. N /\ Last(p) = p[N]
  <2>1. N # 0
    BY <1>1
  <2>2. Last(p) = p[N]
    BY DEF Last
  <2> QED BY <1>1, <2>1, <2>2
<1>4. \A n \in 0 .. N : Place(n) \in Places(schema)
  BY <1>2, MeantUp
<1>5. \A n \in 1 .. N : Place(n) = Resolved(schema, Child(Place(n - 1), path[n]))
  <2> HIDE DEF path
  <2> QED BY <1>2, MeantUp
<1>6. Place(0) = Root(schema) /\ MeantPlace(schema, path) = Place(N)
  <2>1. Up(path, 0) = <<>> /\ Up(path, N) = path /\ MeantPlace(schema, <<>>) = Root(schema)
    BY <1>2, UpFacts, MeantUp
  <2> QED BY <2>1
<1>7. \A n \in 1 .. N :
        /\ path[n] = "*" => NodeAt(Place(n - 1)).k = "array"
        /\ path[n] # "*" => NodeAt(Place(n - 1)).k = "object"
  <2> TAKE n \in 1 .. N
  <2>1. n - 1 \in 0 .. N
    BY <1>1
  <2>2. Up(p, n - 1) \in DOMAIN document /\ Route(Up(p, n - 1)) = Up(path, n - 1)
    BY <1>1, <1>2, <2>1
  <2>3. NodeAt(Place(n - 1)).k = KindOf[document[Up(p, n - 1)].k]
    BY <2>2, PositionIs DEF Meant
  <2>4. /\ p[n].key = "*" => document[Up(p, n - 1)].k = "list"
        /\ p[n].key # "*" => document[Up(p, n - 1)].k = "dict"
    BY PositionIs
  <2>5. KindOf["list"] = "array" /\ KindOf["dict"] = "object"
    BY DEF KindOf
  <2> QED BY <1>2, <2>3, <2>4, <2>5
<1>8. NodeAt(Place(N)).k = "array"
  <2>1. Meant(schema, path).k = KindOf[document[p].k]
    BY PositionIs
  <2>2. KindOf["list"] = "array"
    BY DEF KindOf
  <2> QED BY <1>6, <2>1, <2>2 DEF Meant
<1>9. PICK at \in [0 .. N -> Places(schema)] :
        /\ at[0] = Root(schema)
        /\ \A n \in 1 .. N : at[n] = LookupStep(schema, path, n, at[n - 1])
        /\ TraverseRawSchema(schema, path) = at[N]
  <2> HIDE DEF N, path
  <2>1. path \in Seq(Keys) /\ Len(path) = N
    BY <1>2
  <2> QED BY <2>1, TraverseIs
<1>10. ASSUME NEW n \in 1 .. N, path[n] # "*"
       PROVE  /\ n < N => at[n] = ResolveRef(schema, Child(at[n - 1], path[n]), FALSE)
              /\ n = N => at[n] = ResolveRef(schema, Child(at[n - 1], path[n]), TRUE)
  <2>1. \A m \in 1 .. N : path[m] = path[n] => m = n
    <3>1. \A m \in 1 .. N : m \in DOMAIN p
      BY <1>1
    <3> QED BY <1>2, <1>10, <3>1 DEF KeysDiffer
  <2>2. IndexOf(path, path[n]) = n
    <3> HIDE DEF path, N
    <3>1. path \in Seq(Keys) /\ n \in 1 .. Len(path) /\ \A m \in 1 .. Len(path) : path[m] = path[n] => m = n
      BY <1>2, <2>1
    <3> QED BY <3>1, IndexOfIs
  <2>3. at[n] = ResolveRef(schema, Child(at[n - 1], path[n]), n = N)
    BY <1>2, <1>9, <1>10, <2>2 DEF LookupStep
  <2>4. (n < N => (n = N) = FALSE) /\ (n = N => (n = N) = TRUE)
    BY <1>1
  <2> QED BY <2>3, <2>4
<1> HIDE DEF path, Place, N
<1> DEFINE Holds(n) ==
             /\ NodeAt(Place(n)).k = "object" => at[n] = Place(n)
             /\ NodeAt(Place(n)).k = "array" /\ Inside(Place(n)) => at[n] = ResolveRef(schema, Place(n), FALSE)
<1>11. Holds(0)
  <2>1. NodeAt(Root(schema)).k = "object"
    BY RootKind
  <2> QED BY <1>6, <1>9, <2>1
<1>12. ASSUME NEW n \in 1 .. N, n < N, Holds(n - 1) PROVE Holds(n)
  <2>1. n - 1 \in 0 .. N /\ n \in 0 .. N
    BY <1>1
  <2>2. Place(n - 1) \in Places(schema) /\ Place(n) \in Places(schema) /\ path[n] \in Keys
    BY <1>2, <1>4, <2>1
  <2>3. CASE path[n] # "*"
    <3>1. NodeAt(Place(n - 1)).k = "object" /\ at[n - 1] = Place(n - 1)
      BY <1>7, <1>12, <2>3
    <3>2. at[n] = ResolveRef(schema, Child(Place(n - 1), path[n]), FALSE)
      BY <1>10, <1>12, <2>3, <3>1
    <3>3. NodeAt(Place(n)).k = "object" => ResolveRef(schema, Child(Place(n - 1), path[n]), FALSE) = Place(n)
      <4> DEFINE place == Place(n - 1)
                 key == path[n]
      <4>1. place \in Places(schema) /\ key \in Keys /\ Place(n) = Resolved(schema, Child(place, key))
        BY <1>5, <2>2
      <4> HIDE DEF place, key
      <4>2. NodeAt(Resolved(schema, Child(place, key))).k = "object" =>
              ResolveRef(schema, Child(place, key), FALSE) = Resolved(schema, Child(place, key))
        BY <4>1, KeyStep
      <4> QED BY <4>1, <4>2 DEF place, key
    <3>4. NodeAt(Place(n)).k = "array" => Place(n) = Child(Place(n - 1), path[n])
      BY <1>5, <2>2, KeyStep
    <3> QED BY <3>2, <3>3, <3>4
  <2>4. CASE path[n] = "*"
    <3>1. NodeAt(Place(n - 1)).k = "array" /\ at[n] = at[n - 1]
      BY <1>7, <1>9, <2>4 DEF LookupStep
    <3>2. Inside(Place(n - 1)) => at[n - 1] = ResolveRef(schema, Place(n - 1), FALSE)
      BY <1>12, <3>1
    <3>3. Place(n) = Resolved(schema, Child(Place(n - 1), "*"))
      BY <1>5, <2>4
    <3>4. NodeAt(Place(n)).k = "object" =>
            Inside(Place(n - 1)) /\ ResolveRef(schema, Place(n - 1), FALSE) = Place(n)
      BY <2>2, <3>1, <3>3, MemberStep
    <3>5. NodeAt(Place(n)).k = "array" /\ Inside(Place(n)) =>
            /\ Inside(Place(n - 1))
            /\ ResolveRef(schema, Place(n - 1), FALSE) = ResolveRef(schema, Place(n), FALSE)
      <4> DEFINE place == Place(n - 1)
                 child == Child(place, "*")
      <4>1. place \in Places(schema) /\ NodeAt(place).k = "array" /\ Place(n) = Resolved(schema, child)
        BY <2>2, <3>1, <3>3
      <4> HIDE DEF place
      <4>2. NodeAt(Resolved(schema, child)).k = "array" =>
              /\ Resolved(schema, child) = child
              /\ Inside(child) =>
                   /\ Inside(place)
                   /\ ResolveRef(schema, place, FALSE) = ResolveRef(schema, child, FALSE)
        BY <4>1, MemberStep
      <4> HIDE DEF child
      <4> QED BY <4>1, <4>2 DEF place
    <3> QED BY <3>1, <3>2, <3>4, <3>5
  <2> QED BY <2>3, <2>4
<1> HIDE DEF Holds
<1> DEFINE bad == {n \in 0 .. N - 1 : ~Holds(n)}
<1>13. bad = {}
  <2> SUFFICES ASSUME bad # {} PROVE FALSE
    OBVIOUS
  <2>0. bad \subseteq Nat /\ \A n \in bad : n \in 0 .. N - 1 /\ ~Holds(n)
    BY <1>1
  <2>a. \A n \in 0 .. N - 1 : n \in bad \/ Holds(n)
    OBVIOUS
  <2> HIDE DEF bad
  <2>1. PICK n \in bad : \A m \in bad : n <= m
    BY <2>0, LeastIs
  <2>2. n \in 0 .. N - 1 /\ n # 0
    BY <1>11, <2>0
  <2>3. n \in 1 .. N /\ n < N /\ n - 1 \in 0 .. N - 1 /\ ~(n <= n - 1)
    BY <1>1, <2>2
  <2>4. Holds(n - 1)
    BY <2>1, <2>3, <2>a
  <2> QED BY <1>12, <2>0, <2>3, <2>4
<1>14. at[N] = Place(N)
  <2>1. N - 1 \in 0 .. N - 1 /\ N - 1 \in 0 .. N
    BY <1>1, <1>3
  <2>2. Holds(N - 1)
    BY <1>13, <2>1
  <2>3. path[N] # "*" /\ path[N] \in Keys
    BY <1>2, <1>3
  <2>4. at[N - 1] = Place(N - 1)
    BY <1>3, <1>7, <2>2, <2>3 DEF Holds
  <2>5. at[N] = ResolveRef(schema, Child(Place(N - 1), path[N]), TRUE)
    BY <1>3, <1>10, <2>3, <2>4
  <2>6. Place(N - 1) \in Places(schema) /\ Place(N) = Resolved(schema, Child(Place(N - 1), path[N]))
    BY <1>3, <1>4, <1>5, <2>1
  <2> QED BY <1>8, <2>3, <2>5, <2>6, KeyStep
<1> QED BY <1>6, <1>9, <1>14 DEF IsOrdered, Meant, path

-----------------------------------------------------------------------------
(* What hashes that are equal say of two lists.                             *)

(* An injection of a finite interval into itself is a bijection.            *)
LEMMA PermutationIs ==
  ASSUME NEW n \in Nat, NEW f \in [1 .. n -> 1 .. n], \A i, j \in 1 .. n : f[i] = f[j] => i = j
  PROVE  f \in Bijection(1 .. n, 1 .. n)
<1> DEFINE S == 1 .. n
<1>1. f \in Injection(S, S)
  BY DEF Injection, IsInjective
<1>2. IsFiniteSet(S)
  BY FS_Interval
<1> HIDE DEF S
<1>3. Cardinality(S) = Cardinality(S) <=> f \in Surjection(S, S)
  BY <1>1, <1>2, FS_Injection
<1>4. f \in Bijection(S, S)
  BY <1>1, <1>3 DEF Bijection
<1> QED BY <1>4 DEF S

(* A document that is part of another, and has whatever its positions are in. *)
PartOf(part, whole) ==
  /\ DOMAIN part \subseteq DOMAIN whole /\ \A p \in DOMAIN part : part[p] = whole[p]
  /\ \A p \in DOMAIN part : \A n \in 0 .. Len(p) : Up(p, n) \in DOMAIN part

(* What is at a position is of the kind that the schema gives to its path.  *)
LEMMA SameKind ==
  ASSUME NEW schema, NEW one, NEW other, IsModel(schema, one), IsModel(schema, other),
         NEW p \in DOMAIN one, NEW q \in DOMAIN other, Route(p) = Route(q)
  PROVE  one[p].k = other[q].k /\ (one[p].k = "dict" => one[p] = other[q])
<1>1. /\ Meant(schema, Route(p)).k = KindOf[one[p].k] /\ one[p].k \in {"dict", "list", "scalar"}
      /\ one[p] \in Value
  BY PositionIs
<1>2. /\ Meant(schema, Route(q)).k = KindOf[other[q].k] /\ other[q].k \in {"dict", "list", "scalar"}
      /\ other[q] \in Value
  BY PositionIs
<1>3. KindOf["dict"] = "object" /\ KindOf["list"] = "array" /\ KindOf["scalar"] = "scalar"
  BY DEF KindOf
<1>4. one[p].k = other[q].k
  BY <1>1, <1>2, <1>3
<1>5. \A v \in Value : v.k = "dict" => v = [k |-> "dict"]
  BY DEF Value
<1> QED BY <1>1, <1>2, <1>4, <1>5

(* A list is loose if and only if its lookup finds it unordered.            *)
LEMMA LooseIs ==
  ASSUME NEW schema, IsSchema(schema), NEW document, IsModel(schema, document),
         LookupIsSafe(schema, document), NEW l \in DOMAIN document, document[l].k = "list"
  PROVE  /\ l # <<>>
         /\ Last(l).key # "*" => (l \in Loose(schema, document) <=> ~IsOrdered(schema, l))
<1>1. l # <<>>
  <2> SUFFICES ASSUME l = <<>> PROVE FALSE
    OBVIOUS
  <2>1. l \in Seq(Step) /\ Meant(schema, Route(l)).k = KindOf["list"]
    BY PositionIs
  <2>2. Len(Route(l)) = 0 /\ Route(l) \in Seq(Keys)
    <3>1. Len(l) = 0
      OBVIOUS
    <3> QED BY <2>1, <3>1, RouteIs
  <2>3. Route(l) = <<>>
    BY <2>2
  <2>4. MeantPlace(schema, <<>>) = Root(schema)
    BY <2>2, <2>3, MeantUp
  <2>5. Meant(schema, Route(l)).k = "object"
    BY <2>3, <2>4, RootKind DEF Meant
  <2> QED BY <2>1, <2>5 DEF KindOf
<1>2. ASSUME Last(l).key # "*"
      PROVE  IsOrdered(schema, l) = Meant(schema, Route(l)).ordered
  <2>1. SchemaIsSafe(schema)
    BY SafeSchema
  <2>2. KeysDiffer(l)
    BY DEF LookupIsSafe, KeysDiffer
  <2> QED BY <1>1, <1>2, <2>1, <2>2, LookupIs
<1>3. l \in Loose(schema, document) <=> ~Meant(schema, Route(l)).ordered
  BY DEF Loose
<1>4. Last(l).key # "*" => (l \in Loose(schema, document) <=> ~IsOrdered(schema, l))
  BY <1>2, <1>3, Zenon
<1> QED BY <1>1, <1>4

(* A step that keeps a comparison from reaching what is below.              *)
Blocks(schema, p, i) ==
  p[i].key = "*" /\ (p[i - 1].key = "*" \/ ~IsOrdered(schema, Up(p, i - 1)))

(* Nothing blocks what a comparison reaches.                                *)
LEMMA ReachedIs ==
  ASSUME NEW schema, NEW p \in Seq(Step)
  PROVE  Reached(schema, p) <=> \A i \in 1 .. Len(p) : ~Blocks(schema, p, i)
<1>1. DOMAIN p = 1 .. Len(p)
  OBVIOUS
<1>2. Reached(schema, p) <=> \A i \in DOMAIN p :
          p[i].key = "*" => p[i - 1].key # "*" /\ IsOrdered(schema, Up(p, i - 1))
  BY DEF Reached, Up
<1>3. \A i : (p[i].key = "*" => p[i - 1].key # "*" /\ IsOrdered(schema, Up(p, i - 1)))
               <=> ~Blocks(schema, p, i)
  BY DEF Blocks
<1> QED BY <1>1, <1>2, <1>3, Zenon

(* What blocks a part of a position blocks the position.                    *)
LEMMA BlocksUp ==
  ASSUME NEW schema, NEW p \in Seq(Step), NEW n \in 0 .. Len(p), NEW i \in 1 .. n, i # 1 \/ p[1].key # "*"
  PROVE  Blocks(schema, Up(p, n), i) <=> Blocks(schema, p, i)
<1>1. Len(p) \in Nat
  OBVIOUS
<1>2. \A m \in 1 .. n : Up(p, n)[m] = p[m]
  BY UpIs
<1>3. i - 1 \in 0 .. n /\ i \in Nat
  BY <1>1
<1>4. Up(Up(p, n), i - 1) = Up(p, i - 1)
  BY <1>3, UpFacts
<1>5. CASE i = 1
  BY <1>2, <1>5 DEF Blocks
<1>6. CASE i # 1
  <2>1. i - 1 \in 1 .. n
    BY <1>3, <1>6
  <2>2. Up(p, n)[i] = p[i] /\ Up(p, n)[i - 1] = p[i - 1]
    BY <1>2, <2>1
  <2> QED BY <1>4, <2>2 DEF Blocks
<1> QED BY <1>5, <1>6

(* Where a member of a list is.                                             *)
LEMMA MemberIsIn ==
  ASSUME NEW schema, IsSchema(schema), NEW document, IsModel(schema, document),
         LookupIsSafe(schema, document), NEW p \in DOMAIN document, NEW i \in 1 .. Len(p)
  PROVE  /\ p[i].key = "*" =>
              /\ i # 1 /\ Up(p, i - 1) \in DOMAIN document /\ document[Up(p, i - 1)].k = "list"
              /\ Last(Up(p, i - 1)) = p[i - 1] /\ p[i] = Member(p[i].at)
              /\ p[i].at \in 1 .. document[Up(p, i - 1)].len
         /\ p[i].key # "*" => document[Up(p, i - 1)].k = "dict"
         /\ Up(p, i - 1) \in Loose(schema, document) => p[i].key = "*"
<1>1. p \in Seq(Step) /\ Len(p) \in Nat /\ p[i] \in Step /\ i - 1 \in 0 .. Len(p)
  <2>1. p \in Seq(Step) /\ Len(p) \in Nat
    BY PositionIs
  <2> QED BY <2>1
<1>2. /\ Up(p, i - 1) \in DOMAIN document
      /\ p[i].key = "*" => /\ document[Up(p, i - 1)].k = "list"
                           /\ p[i].at \in 1 .. document[Up(p, i - 1)].len
      /\ p[i].key # "*" => document[Up(p, i - 1)].k = "dict"
  BY PositionIs
<1>3. ASSUME p[i].key = "*"
      PROVE  i # 1 /\ Last(Up(p, i - 1)) = p[i - 1] /\ p[i] = Member(p[i].at)
  <2>1. Up(p, i - 1) # <<>>
    BY <1>2, <1>3, LooseIs
  <2>2. i # 1
    <3>1. Up(p, 0) = <<>>
      BY <1>1, UpFacts
    <3> QED BY <2>1, <3>1
  <2>3. i - 1 \in 1 .. Len(p)
    BY <1>1, <2>2
  <2>4. Last(Up(p, i - 1)) = p[i - 1]
    BY <1>1, <2>3, UpFacts
  <2>5. p[i] = [key |-> "*", at |-> p[i].at]
    BY <1>1, <1>3 DEF Step
  <2> QED BY <2>2, <2>4, <2>5 DEF Member
<1>4. Up(p, i - 1) \in Loose(schema, document) => p[i].key = "*"
  BY <1>2 DEF Loose
<1> QED BY <1>2, <1>3, <1>4

(* A list whose members the comparison matches by their hashes.             *)
Matched(schema, inputs, l) == l \in DOMAIN inputs /\ Reached(schema, l) /\ Last(l).key # "*"

(* For a loose list the equal hashes give an order of its members.          *)
LEMMA MatchExists ==
  ASSUME NEW schema, IsSchema(schema), NEW given, IsModel(schema, given), LookupIsSafe(schema, given),
         NEW inputs, PartOf(inputs, given), NEW outputs, HashTells(schema, inputs),
         CompareModel(schema, inputs, outputs),
         NEW l \in Loose(schema, given), Matched(schema, inputs, l)
  PROVE  /\ l \in DOMAIN outputs /\ outputs[l] = given[l] /\ given[l].len \in Nat
         /\ \E match \in Bijection(1 .. given[l].len, 1 .. given[l].len) :
              \A i \in 1 .. given[l].len :
                ItemHash(outputs, Append(l, Member(match[i]))) = ItemHash(inputs, Append(l, Member(i)))
<1>1. /\ l \in DOMAIN given /\ given[l].k = "list" /\ l \in DOMAIN inputs /\ inputs[l] = given[l]
      /\ Last(l).key # "*" /\ Reached(schema, l)
  BY DEF Loose, Matched, PartOf
<1>2. given[l].len \in Nat
  BY <1>1, PositionIs
<1>3. ~IsOrdered(schema, l)
  BY <1>1, LooseIs
<1>4. /\ l \in DOMAIN outputs /\ outputs[l] = given[l]
      /\ CompareCollection(schema, inputs, outputs, l)
  BY <1>1 DEF CompareModel
<1>5. ItemHashes(inputs, l) = ItemHashes(outputs, l)
  BY <1>1, <1>3, <1>4, Zenon DEF CompareCollection
<1>6. l \in Loose(schema, inputs)
  BY <1>1 DEF Loose
<1> DEFINE S == 1 .. given[l].len
           Asked(i) == ItemHash(inputs, Append(l, Member(i)))
           Found(i) == ItemHash(outputs, Append(l, Member(i)))
<1>7. ItemHashes(inputs, l) = {Asked(i) : i \in S} /\ ItemHashes(outputs, l) = {Found(i) : i \in S}
  BY <1>1, <1>4 DEF ItemHashes
<1>8. \A i, j \in S : Asked(i) = Asked(j) => i = j
  BY <1>1, <1>6 DEF HashTells
<1> HIDE DEF Asked, Found
<1>9. \A i \in S : \E j \in S : Found(j) = Asked(i)
  <2> TAKE i \in S
  <2>1. Asked(i) \in {Found(j) : j \in S}
    BY <1>5, <1>7
  <2> QED BY <2>1
<1> DEFINE match == [i \in S |-> CHOOSE j \in S : Found(j) = Asked(i)]
<1>10. \A i \in S : match[i] \in S /\ Found(match[i]) = Asked(i)
  BY <1>9
<1>11. match \in [S -> S]
  BY <1>10
<1> HIDE DEF match
<1>12. \A i, j \in S : match[i] = match[j] => i = j
  <2> TAKE i, j \in S
  <2> HAVE match[i] = match[j]
  <2>1. Asked(i) = Asked(j)
    BY <1>10
  <2> QED BY <1>8, <2>1
<1> DEFINE n == given[l].len
<1>13. n \in Nat /\ match \in [1 .. n -> 1 .. n] /\ \A i, j \in 1 .. n : match[i] = match[j] => i = j
  BY <1>2, <1>11, <1>12
<1> HIDE DEF n
<1>14. match \in Bijection(1 .. n, 1 .. n)
  BY <1>13, PermutationIs
<1>15. \A i \in S : ItemHash(outputs, Append(l, Member(match[i]))) = ItemHash(inputs, Append(l, Member(i)))
  BY <1>10 DEF Asked, Found
<1> QED BY <1>2, <1>4, <1>14, <1>15 DEF n

(* All the matches make an order of the loose lists, other lists keep       *)
(* theirs.                                                                  *)
Matches(order, schema, given, inputs, outputs) ==
  /\ DOMAIN order = Loose(schema, given)
  /\ \A l \in Loose(schema, given) : \A i \in 1 .. given[l].len :
       /\ order[l][i] \in 1 .. given[l].len
       /\ Matched(schema, inputs, l) =>
            ItemHash(outputs, Append(l, Member(order[l][i]))) = ItemHash(inputs, Append(l, Member(i)))
       /\ ~Matched(schema, inputs, l) => order[l][i] = i

(* Equal hashes give an order of the members of every loose list.           *)
LEMMA OrderExists ==
  ASSUME NEW schema, IsSchema(schema), NEW given, IsModel(schema, given), LookupIsSafe(schema, given),
         NEW inputs, PartOf(inputs, given), NEW outputs, HashTells(schema, inputs),
         CompareModel(schema, inputs, outputs)
  PROVE  \E order \in Orders(schema, given) : Matches(order, schema, given, inputs, outputs)
<1> DEFINE loose == Loose(schema, given)
           S(l) == 1 .. given[l].len
           Good(l, match) ==
             \A i \in S(l) :
               /\ Matched(schema, inputs, l) =>
                     ItemHash(outputs, Append(l, Member(match[i]))) = ItemHash(inputs, Append(l, Member(i)))
               /\ ~Matched(schema, inputs, l) => match[i] = i
<1>1. ASSUME NEW l \in loose
      PROVE  \E match \in Bijection(S(l), S(l)) : Good(l, match)
  <2>1. CASE Matched(schema, inputs, l)
    <3>1. PICK match \in Bijection(S(l), S(l)) : \A i \in S(l) :
                ItemHash(outputs, Append(l, Member(match[i]))) = ItemHash(inputs, Append(l, Member(i)))
      BY <2>1, MatchExists
    <3> QED BY <2>1, <3>1
  <2>2. CASE ~Matched(schema, inputs, l)
    <3> DEFINE n == given[l].len
               match == [i \in 1 .. n |-> i]
    <3>1. n \in Nat
      BY PositionIs DEF Loose
    <3>2. match \in [1 .. n -> 1 .. n] /\ \A i \in 1 .. n : match[i] = i
      OBVIOUS
    <3> HIDE DEF match, n
    <3>3. match \in Bijection(1 .. n, 1 .. n)
      BY <3>1, <3>2, PermutationIs
    <3>4. match \in Bijection(S(l), S(l)) /\ Good(l, match)
      BY <2>2, <3>2, <3>3 DEF n
    <3> QED BY <3>4
  <2> QED BY <2>1, <2>2
<1> HIDE DEF Good
<1> DEFINE order == [l \in loose |-> CHOOSE match \in Bijection(S(l), S(l)) : Good(l, match)]
<1>2. \A l \in loose : order[l] \in Bijection(S(l), S(l)) /\ Good(l, order[l])
  BY <1>1
<1>3. DOMAIN order = loose
  OBVIOUS
<1>4. order \in [loose -> UNION {Bijection(S(l), S(l)) : l \in loose}]
  <2>1. \A l \in loose : order[l] \in UNION {Bijection(S(x), S(x)) : x \in loose}
    BY <1>2
  <2>2. order = [l \in loose |-> order[l]]
    OBVIOUS
  <2> HIDE DEF order, loose
  <2> QED BY <2>1, <2>2
<1>5. order \in Orders(schema, given)
  BY <1>2, <1>4 DEF Orders
<1>6. ASSUME NEW l \in loose, NEW i \in S(l) PROVE order[l][i] \in S(l)
  <2>1. order[l] \in [S(l) -> S(l)]
    BY <1>2 DEF Bijection, Injection
  <2> QED BY <2>1
<1> HIDE DEF order
<1> QED BY <1>2, <1>3, <1>5, <1>6 DEF Good, Matches

-----------------------------------------------------------------------------
(* What is accepted is there.                                               *)

(* Where a position is moved to, step by step.                              *)
LEMMA MovedIs ==
  ASSUME NEW order, NEW p \in Seq(Step)
  PROVE  /\ DOMAIN Moved(order, p) = 1 .. Len(p)
         /\ \A i \in 1 .. Len(p) :
              /\ Up(p, i - 1) \in DOMAIN order =>
                   Moved(order, p)[i] = Member(order[Up(p, i - 1)][p[i].at])
              /\ Up(p, i - 1) \notin DOMAIN order => Moved(order, p)[i] = p[i]
<1>1. DOMAIN p = 1 .. Len(p)
  OBVIOUS
<1> QED BY <1>1 DEF Moved, Up

LEMMA SameAsMoved ==
  ASSUME NEW order, NEW p \in Seq(Step), NEW q \in Seq(Step), Len(q) = Len(p),
         \A i \in 1 .. Len(p) : Moved(order, p)[i] = q[i]
  PROVE  Moved(order, p) = q
<1>1. /\ DOMAIN Moved(order, p) = 1 .. Len(p) /\ DOMAIN q = 1 .. Len(p)
      /\ Moved(order, p) = [i \in DOMAIN p |-> Moved(order, p)[i]]
      /\ q = [i \in 1 .. Len(p) |-> q[i]] /\ DOMAIN p = 1 .. Len(p)
  <2>1. Moved(order, p) = [i \in DOMAIN p |-> Moved(order, p)[i]]
    BY DEF Moved
  <2> QED BY <2>1, MovedIs
<1> HIDE DEF Moved
<1> QED BY <1>1

(* Where a list is matched and where not.                                   *)
LEMMA StaysWhereOrdered ==
  ASSUME NEW schema, IsSchema(schema), NEW given, IsModel(schema, given), LookupIsSafe(schema, given),
         NEW inputs, NEW outputs, NEW order, Matches(order, schema, given, inputs, outputs),
         NEW p \in DOMAIN given, NEW i \in 1 .. Len(p), ~Matched(schema, inputs, Up(p, i - 1))
  PROVE  Moved(order, p)[i] = p[i]
<1> DEFINE l == Up(p, i - 1)
<1>1. p \in Seq(Step) /\ DOMAIN order = Loose(schema, given)
  BY PositionIs DEF Matches
<1>2. CASE l \in Loose(schema, given)
  <2>1. p[i] = Member(p[i].at) /\ p[i].at \in 1 .. given[l].len
    BY <1>2, MemberIsIn
  <2>2. order[l][p[i].at] = p[i].at
    BY <1>2, <2>1 DEF Matches
  <2> QED BY <1>1, <1>2, <2>1, <2>2, MovedIs
<1>3. CASE l \notin Loose(schema, given)
  BY <1>1, <1>3, MovedIs
<1> QED BY <1>2, <1>3

(* The lists on the way to what the comparison reaches are ordered.         *)
LEMMA NotLoose ==
  ASSUME NEW schema, IsSchema(schema), NEW given, IsModel(schema, given), LookupIsSafe(schema, given),
         NEW p \in DOMAIN given, NEW i \in 1 .. Len(p), ~Blocks(schema, p, i)
  PROVE  Up(p, i - 1) \notin Loose(schema, given)
<1> DEFINE l == Up(p, i - 1)
<1> SUFFICES ASSUME l \in Loose(schema, given) PROVE FALSE
  OBVIOUS
<1>1. p[i].key = "*"
  BY MemberIsIn
<1>2. l \in DOMAIN given /\ given[l].k = "list" /\ Last(l) = p[i - 1]
  BY <1>1, MemberIsIn
<1>3. p[i - 1].key # "*" /\ IsOrdered(schema, l)
  BY <1>1, Zenon DEF Blocks
<1>4. Last(l).key # "*" => (l \in Loose(schema, given) <=> ~IsOrdered(schema, l))
  BY <1>2, LooseIs
<1> QED BY <1>2, <1>3, <1>4, Zenon

(* What the comparison reaches is where it was.                             *)
LEMMA StaysWhereNotBlocked ==
  ASSUME NEW schema, IsSchema(schema), NEW given, IsModel(schema, given), LookupIsSafe(schema, given),
         NEW inputs, NEW outputs, NEW order, Matches(order, schema, given, inputs, outputs),
         NEW p \in DOMAIN given, NEW i \in 1 .. Len(p), ~Blocks(schema, p, i)
  PROVE  Moved(order, p)[i] = p[i]
<1> DEFINE l == Up(p, i - 1)
<1>1. p \in Seq(Step) /\ DOMAIN order = Loose(schema, given)
  BY PositionIs DEF Matches
<1>2. l \notin Loose(schema, given)
  BY NotLoose
<1> QED BY <1>1, <1>2, MovedIs

(* A position of the documents is a prefix of those inside.                 *)
LEMMA UpIsPrefix ==
  ASSUME NEW S, NEW p \in Seq(S), NEW n \in 0 .. Len(p)
  PROVE  IsPrefix(Up(p, n), p)
<1>1. Up(p, n) \in Seq(S) /\ Len(Up(p, n)) = n /\ n <= Len(p) /\ \A i \in 1 .. n : Up(p, n)[i] = p[i]
  <2>1. Len(p) \in Nat
    OBVIOUS
  <2> QED BY <2>1, UpIs
<1> QED BY <1>1, PrefixIs

(* What the comparison reaches is in the output.                            *)
LEMMA ReachedIsThere ==
  ASSUME NEW schema, IsSchema(schema), NEW given, IsModel(schema, given), LookupIsSafe(schema, given),
         NEW returned, IsModel(schema, returned),
         NEW inputs, PartOf(inputs, given), NEW outputs, PartOf(outputs, returned),
         CompareModel(schema, inputs, outputs),
         NEW order, Matches(order, schema, given, inputs, outputs),
         NEW p \in DOMAIN inputs, Reached(schema, p)
  PROVE  Moved(order, p) \in DOMAIN returned /\ returned[Moved(order, p)] = given[p]
<1>1. p \in DOMAIN given /\ inputs[p] = given[p] /\ p \in Seq(Step)
  <2>1. p \in DOMAIN given /\ inputs[p] = given[p]
    BY DEF PartOf
  <2> QED BY <2>1, PositionIs
<1>2. p \in DOMAIN outputs /\ (inputs[p].k # "dict" => outputs[p] = inputs[p])
  BY DEF CompareModel
<1>3. p \in DOMAIN returned /\ outputs[p] = returned[p]
  BY <1>2 DEF PartOf
<1>4. returned[p] = given[p]
  <2>1. given[p].k = returned[p].k /\ (given[p].k = "dict" => given[p] = returned[p])
    BY <1>1, <1>3, SameKind
  <2> QED BY <1>1, <1>2, <1>3, <2>1
<1>5. \A i \in 1 .. Len(p) : ~Blocks(schema, p, i)
  BY <1>1, ReachedIs
<1>6. \A i \in 1 .. Len(p) : Moved(order, p)[i] = p[i]
  BY <1>1, <1>5, StaysWhereNotBlocked
<1>7. Moved(order, p) = p
  BY <1>1, <1>6, SameAsMoved
<1> QED BY <1>3, <1>4, <1>7

(* A position that is not reached is in a first list that blocks it.        *)
LEMMA FirstBlock ==
  ASSUME NEW schema, NEW p \in Seq(Step), ~Reached(schema, p)
  PROVE  \E i \in 1 .. Len(p) : Blocks(schema, p, i) /\ \A m \in 1 .. i - 1 : ~Blocks(schema, p, m)
<1> DEFINE S == {i \in 1 .. Len(p) : Blocks(schema, p, i)}
<1>1. S \subseteq Nat /\ S # {}
  BY ReachedIs
<1>2. \E i \in S : \A m \in S : i <= m
  <2> HIDE DEF S
  <2> QED BY <1>1, LeastIs
<1>3. PICK i \in S : \A m \in S : i <= m
  BY <1>2
<1>4. i \in 1 .. Len(p) /\ Blocks(schema, p, i) /\ Len(p) \in Nat
  OBVIOUS
<1>5. ASSUME NEW m \in 1 .. i - 1 PROVE ~Blocks(schema, p, m)
  <2>1. m \in 1 .. Len(p) /\ ~(i <= m)
    BY <1>4
  <2>2. m \notin S
    BY <1>3, <2>1
  <2> QED BY <2>1, <2>2
<1> QED BY <1>4, <1>5

(* Of what is in that list only its own step is moved, if it is matched.    *)
LEMMA BlockedIs ==
  ASSUME NEW schema, IsSchema(schema), NEW given, IsModel(schema, given), LookupIsSafe(schema, given),
         NEW inputs, PartOf(inputs, given), NEW outputs,
         NEW order, Matches(order, schema, given, inputs, outputs),
         NEW p \in DOMAIN inputs, NEW i \in 1 .. Len(p),
         Blocks(schema, p, i), \A m \in 1 .. i - 1 : ~Blocks(schema, p, m)
  PROVE  /\ p \in DOMAIN given /\ inputs[p] = given[p] /\ p \in Seq(Step) /\ Len(p) \in Nat
         /\ Up(p, i - 1) \in DOMAIN inputs /\ inputs[Up(p, i - 1)] = given[Up(p, i - 1)]
         /\ given[Up(p, i - 1)].k = "list" /\ Last(Up(p, i - 1)) = p[i - 1]
         /\ p[i] = Member(p[i].at) /\ p[i].at \in 1 .. given[Up(p, i - 1)].len
         /\ Reached(schema, Up(p, i - 1))
         /\ \A m \in 1 .. Len(p) : m # i => Moved(order, p)[m] = p[m]
<1>1. p \in DOMAIN given /\ inputs[p] = given[p]
  BY DEF PartOf
<1>2. p \in Seq(Step) /\ Len(p) \in Nat
  BY <1>1, PositionIs
<1>3. i - 1 \in 0 .. Len(p) /\ i \in Nat
  BY <1>2
<1>4. p[i].key = "*"
  BY DEF Blocks
<1>5. /\ i # 1 /\ given[Up(p, i - 1)].k = "list" /\ Last(Up(p, i - 1)) = p[i - 1]
      /\ p[i] = Member(p[i].at) /\ p[i].at \in 1 .. given[Up(p, i - 1)].len
  BY <1>1, <1>4, MemberIsIn
<1>6. Up(p, i - 1) \in DOMAIN inputs /\ inputs[Up(p, i - 1)] = given[Up(p, i - 1)]
  BY <1>3 DEF PartOf
<1>7. p[1].key # "*"
  <2>1. 1 \in 1 .. Len(p)
    BY <1>2
  <2> QED BY <1>1, <2>1, MemberIsIn
<1>8. Reached(schema, Up(p, i - 1))
  <2>1. Up(p, i - 1) \in Seq(Step) /\ Len(Up(p, i - 1)) = i - 1
    BY <1>2, <1>3, UpIs
  <2>2. \A m \in 1 .. i - 1 : ~Blocks(schema, Up(p, i - 1), m)
    BY <1>2, <1>3, <1>7, BlocksUp
  <2> QED BY <2>1, <2>2, ReachedIs
<1>9. ASSUME NEW m \in 1 .. Len(p), m # i PROVE Moved(order, p)[m] = p[m]
  <2>1. CASE m < i
    <3>1. m \in 1 .. i - 1
      BY <1>2, <2>1
    <3> QED BY <1>1, <3>1, StaysWhereNotBlocked
  <2>2. CASE m > i
    <3> DEFINE l == Up(p, m - 1)
    <3>1. m - 1 \in 0 .. Len(p) /\ i \in 1 .. m - 1
      BY <1>2, <2>2
    <3>2. l \in Seq(Step) /\ Len(l) = m - 1
      BY <1>2, <3>1, UpIs
    <3>3. Blocks(schema, l, i)
      BY <1>2, <1>5, <3>1, BlocksUp
    <3>4. ~Reached(schema, l)
      BY <3>1, <3>2, <3>3, ReachedIs
    <3>5. ~Matched(schema, inputs, Up(p, m - 1))
      BY <3>4 DEF Matched
    <3> QED BY <1>1, <3>5, StaysWhereOrdered
  <2>3. m < i \/ m > i
    BY <1>2, <1>9
  <2> QED BY <2>1, <2>2, <2>3
<1> QED BY <1>1, <1>2, <1>5, <1>6, <1>8, <1>9

(* In a list that is the member of a list everything is as in the input.    *)
LEMMA NestedIsThere ==
  ASSUME NEW schema, IsSchema(schema), NEW given, IsModel(schema, given), LookupIsSafe(schema, given),
         NEW returned, IsModel(schema, returned),
         NEW inputs, PartOf(inputs, given), NEW outputs, PartOf(outputs, returned),
         CompareModel(schema, inputs, outputs),
         NEW order, Matches(order, schema, given, inputs, outputs),
         NEW p \in DOMAIN inputs, NEW i \in 1 .. Len(p),
         Blocks(schema, p, i), \A m \in 1 .. i - 1 : ~Blocks(schema, p, m), p[i - 1].key = "*"
  PROVE  Moved(order, p) \in DOMAIN returned /\ returned[Moved(order, p)] = given[p]
<1> DEFINE l == Up(p, i - 1)
<1>1. /\ p \in DOMAIN given /\ inputs[p] = given[p] /\ p \in Seq(Step) /\ Len(p) \in Nat
      /\ l \in DOMAIN inputs /\ inputs[l] = given[l] /\ given[l].k = "list" /\ Last(l) = p[i - 1]
      /\ Reached(schema, l)
      /\ \A m \in 1 .. Len(p) : m # i => Moved(order, p)[m] = p[m]
  BY BlockedIs
<1>2. i - 1 \in 0 .. Len(p)
  BY <1>1
<1>3. Moved(order, p)[i] = p[i]
  <2>1. ~Matched(schema, inputs, Up(p, i - 1))
    BY <1>1 DEF Matched
  <2> QED BY <1>1, <2>1, StaysWhereOrdered
<1>4. Moved(order, p) = p
  <2>1. \A m \in 1 .. Len(p) : Moved(order, p)[m] = p[m]
    BY <1>1, <1>3
  <2> QED BY <1>1, <2>1, SameAsMoved
<1>5. CompareCollection(schema, inputs, outputs, l)
  BY <1>1 DEF CompareModel
<1>6. Restrict(inputs, Within(inputs, l)) = Restrict(outputs, Within(outputs, l))
  BY <1>1, <1>5 DEF CompareCollection
<1>7. p \in Within(inputs, l)
  BY <1>1, <1>2, UpIsPrefix DEF Within
<1>8. p \in Within(outputs, l) /\ outputs[p] = inputs[p]
  <2> DEFINE one == Within(inputs, l)
             other == Within(outputs, l)
  <2>1. DOMAIN Restrict(inputs, one) = one /\ DOMAIN Restrict(outputs, other) = other
    BY DEF Restrict
  <2>2. \A q \in one : Restrict(inputs, one)[q] = inputs[q]
    BY DEF Restrict
  <2>3. \A q \in other : Restrict(outputs, other)[q] = outputs[q]
    BY DEF Restrict
  <2> HIDE DEF one, other
  <2>4. p \in one /\ Restrict(inputs, one) = Restrict(outputs, other)
    BY <1>6, <1>7 DEF one, other
  <2> HIDE DEF Restrict
  <2>5. p \in other /\ outputs[p] = inputs[p]
    BY <2>1, <2>2, <2>3, <2>4
  <2> QED BY <2>5 DEF other
<1>9. p \in DOMAIN outputs
  BY <1>8 DEF Within
<1>10. p \in DOMAIN returned /\ returned[p] = outputs[p]
  BY <1>9 DEF PartOf
<1> QED BY <1>1, <1>4, <1>8, <1>10

(* The last elements of a sequence.                                         *)
LEMMA RestIs ==
  ASSUME NEW S, NEW s \in Seq(S), NEW n \in 0 .. Len(s)
  PROVE  /\ SubSeq(s, n + 1, Len(s)) \in Seq(S) /\ Len(SubSeq(s, n + 1, Len(s))) = Len(s) - n
         /\ \A m \in 1 .. Len(s) - n : SubSeq(s, n + 1, Len(s))[m] = s[n + m]
<1>1. Len(s) \in Nat /\ n \in Nat /\ n <= Len(s)
  OBVIOUS
<1>2. \A m \in 1 .. Len(s) - n : (n + 1) + m - 1 = n + m /\ n + m \in 1 .. Len(s)
  BY <1>1
<1> DEFINE rest == SubSeq(s, n + 1, Len(s))
<1>3. rest = [m \in 1 .. (Len(s) - (n + 1)) + 1 |-> s[((n + 1) + m) - 1]]
  BY <1>1
<1>4. 1 .. (Len(s) - (n + 1)) + 1 = 1 .. Len(s) - n
  BY <1>1
<1> HIDE DEF rest
<1>5. \A m \in 1 .. Len(s) - n : rest[m] = s[n + m]
  BY <1>1, <1>2, <1>3, <1>4
<1>6. rest = [m \in 1 .. Len(s) - n |-> rest[m]]
  BY <1>3, <1>4
<1>7. \A m \in 1 .. Len(s) - n : rest[m] \in S
  BY <1>2, <1>5
<1>8. Len(s) - n \in Nat
  BY <1>1
<1>9. rest \in Seq(S) /\ Len(rest) = Len(s) - n
  BY <1>6, <1>7, <1>8
<1> QED BY <1>5, <1>9 DEF rest

(* In an unordered list everything is in the member that the hash matches.  *)
LEMMA HashedIsThere ==
  ASSUME NEW schema, IsSchema(schema), NEW given, IsModel(schema, given), LookupIsSafe(schema, given),
         NEW returned, IsModel(schema, returned),
         NEW inputs, PartOf(inputs, given), NEW outputs, PartOf(outputs, returned),
         HashTells(schema, inputs),
         NEW order, Matches(order, schema, given, inputs, outputs),
         NEW p \in DOMAIN inputs, NEW i \in 1 .. Len(p),
         Blocks(schema, p, i), \A m \in 1 .. i - 1 : ~Blocks(schema, p, m), p[i - 1].key # "*"
  PROVE  Moved(order, p) \in DOMAIN returned /\ returned[Moved(order, p)] = given[p]
<1> DEFINE l == Up(p, i - 1)
           at == p[i].at
           j == order[l][at]
           item == Append(l, Member(at))
           found == Append(l, Member(j))
<1>1. /\ p \in DOMAIN given /\ inputs[p] = given[p] /\ p \in Seq(Step) /\ Len(p) \in Nat
      /\ l \in DOMAIN inputs /\ inputs[l] = given[l] /\ given[l].k = "list" /\ Last(l) = p[i - 1]
      /\ p[i] = Member(at) /\ at \in 1 .. given[l].len
      /\ Reached(schema, l)
      /\ \A m \in 1 .. Len(p) : m # i => Moved(order, p)[m] = p[m]
  BY BlockedIs
<1>2. l \in DOMAIN given /\ i - 1 \in 0 .. Len(p) /\ i \in 0 .. Len(p) /\ i \in Nat
  BY <1>1 DEF PartOf
<1>3. ~IsOrdered(schema, l)
  BY Zenon DEF Blocks
<1>4. l \in Loose(schema, given) /\ l \in Loose(schema, inputs)
  <2>1. Last(l).key # "*" => (l \in Loose(schema, given) <=> ~IsOrdered(schema, l))
    BY <1>1, <1>2, LooseIs
  <2>2. l \in Loose(schema, given)
    BY <1>1, <1>3, <2>1, Zenon
  <2> QED BY <1>1, <2>2 DEF Loose
<1>5. Matched(schema, inputs, l)
  BY <1>1 DEF Matched
<1>6. j \in 1 .. given[l].len /\ ItemHash(outputs, found) = ItemHash(inputs, item)
  BY <1>1, <1>4, <1>5 DEF Matches
<1>7. item = Up(p, i)
  BY <1>1, UpFacts
<1>8. /\ l \in Seq(Step) /\ Len(l) = i - 1 /\ \A m \in 1 .. i - 1 : l[m] = p[m]
  BY <1>1, <1>2, UpIs
<1>9. j \in Nat /\ Member(j) \in Step /\ given[l].len \in Nat
  <2>1. given[l].len \in Nat
    BY <1>1, <1>2, PositionIs
  <2>2. j \in Nat
    BY <1>6, <2>1
  <2> QED BY <2>1, <2>2 DEF Member, Step, Keys
<1> HIDE DEF l, j, at
<1>10. /\ found \in Seq(Step) /\ Len(found) = i /\ found[i] = Member(j)
       /\ \A m \in 1 .. i - 1 : found[m] = p[m]
  <2>1. /\ found \in Seq(Step) /\ Len(found) = Len(l) + 1 /\ found[Len(l) + 1] = Member(j)
        /\ \A m \in 1 .. Len(l) : found[m] = l[m]
    BY <1>8, <1>9
  <2> QED BY <1>2, <1>8, <2>1
<1>11. item \in Seq(Step) /\ Len(item) = i
  BY <1>1, <1>2, <1>7, UpIs
<1> HIDE DEF item, found
<1>12. p \in Within(inputs, item)
  BY <1>1, <1>2, <1>7, UpIsPrefix DEF Within
<1>13. \A q \in Within(inputs, item) : inputs[q].k # "list"
  <2>1. inputs[l] = given[l]
    BY <1>1
  <2> QED BY <1>1, <1>4, <2>1 DEF HashTells, item
<1>14. \A m \in Len(item) + 1 .. Len(p) : p[m].key # "*"
  <2> SUFFICES ASSUME NEW m \in Len(item) + 1 .. Len(p), p[m].key = "*" PROVE FALSE
    OBVIOUS
  <2>1. m \in 1 .. Len(p) /\ m - 1 \in 0 .. Len(p) /\ i \in 0 .. m - 1
    BY <1>1, <1>2, <1>11
  <2>2. Up(p, m - 1) \in DOMAIN inputs /\ given[Up(p, m - 1)].k = "list"
    BY <1>1, <2>1, MemberIsIn DEF PartOf
  <2>3. inputs[Up(p, m - 1)].k = "list"
    BY <2>2 DEF PartOf
  <2>4. /\ Up(p, m - 1) \in Seq(Step) /\ Len(Up(p, m - 1)) = m - 1
        /\ Up(Up(p, m - 1), i) = Up(p, i)
    BY <1>1, <2>1, UpIs, UpFacts
  <2>5. IsPrefix(item, Up(p, m - 1))
    BY <1>7, <2>1, <2>4, UpIsPrefix
  <2> QED BY <1>13, <2>2, <2>3, <2>5 DEF Within
<1> DEFINE rest(q) == SubSeq(q, i + 1, Len(q))
<1>15. <<rest(p), inputs[p]>> \in ItemHash(inputs, item)
  <2>1. p \in {q \in Within(inputs, item) : \A m \in Len(item) + 1 .. Len(q) : q[m].key # "*"}
    BY <1>12, <1>14
  <2>2. inputs[p].k # "list" /\ Len(item) + 1 = i + 1
    BY <1>11, <1>12, <1>13
  <2> HIDE DEF rest
  <2>3. <<rest(p), inputs[p]>> = <<SubSeq(p, Len(item) + 1, Len(p)), IF inputs[p].k = "list" THEN Null ELSE inputs[p]>>
    BY <2>2 DEF rest
  <2> QED BY <2>1, <2>3 DEF ItemHash
<1>16. PICK q \in Within(outputs, found) :
         /\ \A m \in Len(found) + 1 .. Len(q) : q[m].key # "*"
         /\ <<rest(p), inputs[p]>> =
              <<SubSeq(q, Len(found) + 1, Len(q)), IF outputs[q].k = "list" THEN Null ELSE outputs[q]>>
  BY <1>6, <1>15 DEF ItemHash
<1>17. /\ rest(p) = rest(q) /\ inputs[p] = IF outputs[q].k = "list" THEN Null ELSE outputs[q]
  BY <1>10, <1>16
<1>18. q \in DOMAIN returned /\ outputs[q] = returned[q] /\ IsPrefix(found, q)
  BY <1>16 DEF Within, PartOf
<1>19. q \in Seq(Step) /\ Len(q) \in Nat
  BY <1>18, PositionIs
<1>20. i <= Len(q) /\ \A m \in 1 .. i : q[m] = found[m]
  BY <1>10, <1>18, <1>19, PrefixIs
<1>21. Len(q) = Len(p) /\ \A m \in i + 1 .. Len(p) : q[m] = p[m]
  <2>1. /\ Len(rest(p)) = Len(p) - i /\ Len(rest(q)) = Len(q) - i
        /\ \A m \in 1 .. Len(p) - i : rest(p)[m] = p[i + m]
        /\ \A m \in 1 .. Len(q) - i : rest(q)[m] = q[i + m]
    <3>1. i \in 0 .. Len(p) /\ i \in 0 .. Len(q)
      BY <1>2, <1>19, <1>20
    <3> QED BY <1>1, <1>19, <3>1, RestIs
  <2> HIDE DEF rest
  <2>2. Len(q) = Len(p)
    BY <1>1, <1>2, <1>17, <1>19, <2>1
  <2>3. ASSUME NEW m \in i + 1 .. Len(p) PROVE q[m] = p[m]
    <3>1. m - i \in 1 .. Len(p) - i /\ i + (m - i) = m
      BY <1>1, <1>2
    <3>2. rest(p)[m - i] = p[i + (m - i)] /\ rest(q)[m - i] = q[i + (m - i)]
      BY <2>1, <2>2, <3>1
    <3> QED BY <1>17, <3>1, <3>2
  <2> QED BY <2>2, <2>3
<1>22. \A m \in 1 .. Len(p) : Moved(order, p)[m] = q[m]
  <2> TAKE m \in 1 .. Len(p)
  <2>1. CASE m = i
    <3>1. l \in DOMAIN order
      BY <1>4 DEF Matches
    <3>2. Moved(order, p)[i] = Member(j)
      BY <1>1, <3>1, MovedIs DEF l, j, at
    <3> QED BY <1>2, <1>10, <1>20, <2>1, <3>2
  <2>2. CASE m \in 1 .. i - 1
    BY <1>1, <1>2, <1>10, <1>20, <2>2
  <2>3. CASE m \in i + 1 .. Len(p)
    BY <1>1, <1>2, <1>21, <2>3
  <2>4. m = i \/ m \in 1 .. i - 1 \/ m \in i + 1 .. Len(p)
    BY <1>1, <1>2
  <2> QED BY <2>1, <2>2, <2>3, <2>4
<1>23. Moved(order, p) = q
  BY <1>1, <1>19, <1>21, <1>22, SameAsMoved
<1>24. Route(q) = Route(p)
  <2>1. \A m \in 1 .. Len(p) : q[m].key = p[m].key
    <3> TAKE m \in 1 .. Len(p)
    <3>1. CASE m = i
      BY <1>1, <1>2, <1>10, <1>20, <3>1 DEF Member
    <3>2. CASE m \in 1 .. i - 1
      BY <1>1, <1>2, <1>10, <1>20, <3>2
    <3>3. CASE m \in i + 1 .. Len(p)
      BY <1>21, <3>3
    <3>4. m = i \/ m \in 1 .. i - 1 \/ m \in i + 1 .. Len(p)
      BY <1>1, <1>2
    <3> QED BY <3>1, <3>2, <3>3, <3>4
  <2>2. DOMAIN p = 1 .. Len(p) /\ DOMAIN q = 1 .. Len(p)
    BY <1>1, <1>19, <1>21
  <2> QED BY <2>1, <2>2 DEF Route
<1>25. returned[q].k = given[p].k
  BY <1>1, <1>18, <1>24, SameKind
<1>26. outputs[q] = inputs[p]
  <2>1. outputs[q].k # "list"
    BY <1>1, <1>12, <1>13, <1>18, <1>25
  <2> QED BY <1>17, <2>1
<1> QED BY <1>1, <1>18, <1>23, <1>26

(* An accepted output has everything that is compared of the input.         *)
LEMMA ComparedIsThere ==
  ASSUME NEW schema, IsSchema(schema), NEW given, IsModel(schema, given), LookupIsSafe(schema, given),
         NEW returned, IsModel(schema, returned),
         NEW inputs, PartOf(inputs, given), NEW outputs, PartOf(outputs, returned),
         HashTells(schema, inputs), CompareModel(schema, inputs, outputs)
  PROVE  \E order \in Orders(schema, given) : \A p \in DOMAIN inputs :
           Moved(order, p) \in DOMAIN returned /\ returned[Moved(order, p)] = given[p]
<1>1. PICK order \in Orders(schema, given) : Matches(order, schema, given, inputs, outputs)
  BY OrderExists
<1>2. ASSUME NEW p \in DOMAIN inputs
      PROVE  Moved(order, p) \in DOMAIN returned /\ returned[Moved(order, p)] = given[p]
  <2>1. CASE Reached(schema, p)
    BY <1>1, <2>1, ReachedIsThere
  <2>2. CASE ~Reached(schema, p)
    <3>1. p \in Seq(Step)
      BY PositionIs DEF PartOf
    <3>2. PICK i \in 1 .. Len(p) : Blocks(schema, p, i) /\ \A m \in 1 .. i - 1 : ~Blocks(schema, p, m)
      BY <2>2, <3>1, FirstBlock
    <3>3. CASE p[i - 1].key = "*"
      BY <1>1, <3>2, <3>3, NestedIsThere
    <3>4. CASE p[i - 1].key # "*"
      BY <1>1, <3>2, <3>4, HashedIsThere
    <3> QED BY <3>3, <3>4
  <2> QED BY <2>1, <2>2
<1> QED BY <1>2

-----------------------------------------------------------------------------
(* Pruning.                                                                 *)

(* What a schema and its models are.                                        *)
LEMMA ContextIs ==
  ASSUME NEW schema \in Schemas
  PROVE  /\ IsSchema(schema)
         /\ \A document \in Documents[schema] : IsModel(schema, document)
         /\ \A path \in Hidden(schema) \cup schema.createOnly :
              path \in Seq(Keys) /\ path # <<>> /\ Last(path) # "*"
         /\ schema.readOnly \subseteq Hidden(schema) /\ schema.writeOnly \subseteq Hidden(schema)
<1>1. IsSchema(schema) /\ \A document \in Documents[schema] : IsModel(schema, document)
  BY DocumentsAssumption DEF DocumentsAssumption
<1>2. \A path \in Hidden(schema) \cup schema.createOnly :
        path \in Seq(Keys) /\ path # <<>> /\ Last(path) # "*"
  BY <1>1 DEF IsSchema
<1> QED BY <1>1, <1>2 DEF Hidden

(* The positions of a path and of what is inside.                           *)
LEMMA RouteUp ==
  ASSUME NEW p \in Seq(Step), NEW n \in 0 .. Len(p), NEW path \in Seq(Keys),
         IsPrefix(path, Route(Up(p, n)))
  PROVE  IsPrefix(path, Route(p))
<1>1. /\ Len(p) \in Nat /\ Route(p) \in Seq(Keys) /\ Len(Route(p)) = Len(p)
      /\ Route(Up(p, n)) = Up(Route(p), n)
  BY RouteIs
<1> DEFINE route == Route(p)
<1> HIDE DEF route
<1>2. n \in 0 .. Len(route) /\ route \in Seq(Keys) /\ IsPrefix(path, Up(route, n))
  BY <1>1 DEF route
<1>3. Up(route, n) \in Seq(Keys) /\ Len(Up(route, n)) = n /\ \A i \in 1 .. n : Up(route, n)[i] = route[i]
  BY <1>2, UpIs
<1>4. Len(path) <= n /\ \A i \in 1 .. Len(path) : path[i] = Up(route, n)[i]
  BY <1>2, <1>3, PrefixIs
<1>5. Len(path) \in Nat /\ Len(route) \in Nat
  BY <1>2
<1>6. Len(path) <= Len(route) /\ \A i \in 1 .. Len(path) : path[i] = route[i]
  BY <1>2, <1>3, <1>4, <1>5
<1>7. IsPrefix(path, route)
  BY <1>2, <1>6, PrefixIs
<1> QED BY <1>7 DEF route

(* What is left when what a path leads to is deleted.                       *)
LEMMA DeletedIs ==
  ASSUME NEW document, NEW path
  PROVE  /\ DOMAIN Deleted(document, path) = {p \in DOMAIN document : ~IsPrefix(path, Route(p))}
         /\ \A p \in DOMAIN Deleted(document, path) : Deleted(document, path)[p] = document[p]
BY DEF Deleted, Restrict

(* Pruning leaves a part of a document.                                     *)
LEMMA DeletedIsPart ==
  ASSUME NEW schema, NEW document, IsModel(schema, document), NEW part, PartOf(part, document),
         NEW path \in Seq(Keys)
  PROVE  PartOf(Deleted(part, path), document)
<1> DEFINE rest == Deleted(part, path)
<1>1. /\ DOMAIN rest = {p \in DOMAIN part : ~IsPrefix(path, Route(p))}
      /\ \A p \in DOMAIN rest : rest[p] = part[p]
  BY DeletedIs
<1> HIDE DEF rest
<1>2. DOMAIN rest \subseteq DOMAIN document /\ \A p \in DOMAIN rest : rest[p] = document[p]
  BY <1>1 DEF PartOf
<1>3. ASSUME NEW p \in DOMAIN rest, NEW n \in 0 .. Len(p) PROVE Up(p, n) \in DOMAIN rest
  <2>1. p \in Seq(Step)
    BY <1>2, PositionIs
  <2>2. Up(p, n) \in DOMAIN part
    BY <1>1 DEF PartOf
  <2>3. ~IsPrefix(path, Route(Up(p, n)))
    BY <1>1, <2>1, RouteUp
  <2> QED BY <1>1, <2>2, <2>3
<1> QED BY <1>2, <1>3 DEF PartOf, rest

(* What is pruned, whatever is pruned so far: parts of the documents, of    *)
(* the input only what cannot be read back; and what accepted means.        *)
PrunedIsPart ==
  /\ type \in Schemas /\ input_model \in Documents[type] /\ output_model \in Documents[type]
  /\ left.input \subseteq Hidden(type) /\ left.output \subseteq type.readOnly
  /\ left.echo \subseteq type.createOnly
  /\ left = [input |-> left.input, output |-> left.output, echo |-> left.echo]
  /\ PartOf(pruned_input, input_model) /\ PartOf(pruned_output, output_model)
  /\ Readable(type, input_model) \subseteq DOMAIN pruned_input
  /\ verdict = "accepted" => CompareModel(type, pruned_input, pruned_output)

LEMMA WholeIsPart ==
  ASSUME NEW schema, NEW document, IsModel(schema, document)
  PROVE  PartOf(document, document)
BY PositionIs DEF PartOf

(* The invariant holds at first, and every step keeps it.                   *)
LEMMA InitPart == Init => PrunedIsPart
<1> SUFFICES ASSUME Init PROVE PrunedIsPart
  OBVIOUS
<1>1. /\ type \in Schemas /\ input_model \in Documents[type] /\ output_model \in Documents[type]
      /\ pruned_input = input_model /\ pruned_output = output_model
      /\ left = [input |-> Hidden(type), output |-> type.readOnly, echo |-> type.createOnly]
      /\ verdict = "none"
  BY DEF Init
<1>2. PartOf(input_model, input_model) /\ PartOf(output_model, output_model)
  BY <1>1, ContextIs, WholeIsPart
<1>3. Readable(type, input_model) \subseteq DOMAIN input_model
  BY DEF Readable
<1>4. verdict # "accepted"
  BY <1>1
<1> QED BY <1>1, <1>2, <1>3, <1>4 DEF PrunedIsPart

LEMMA PruneInputPart ==
  ASSUME PrunedIsPart, PruneInput
  PROVE  PrunedIsPart'
<1>1. /\ type \in Schemas /\ input_model \in Documents[type] /\ output_model \in Documents[type]
      /\ left.input \subseteq Hidden(type) /\ left.output \subseteq type.readOnly
      /\ left.echo \subseteq type.createOnly
      /\ left = [input |-> left.input, output |-> left.output, echo |-> left.echo]
      /\ PartOf(pruned_input, input_model) /\ PartOf(pruned_output, output_model)
      /\ Readable(type, input_model) \subseteq DOMAIN pruned_input
  BY DEF PrunedIsPart
<1>2. PICK path \in left.input :
        /\ left' = [left EXCEPT !.input = @ \ {path}]
        /\ pruned_input' = IF Traversal(pruned_input, path, Contains(path, "*")) = "found"
                           THEN Deleted(pruned_input, path) ELSE pruned_input
        /\ verdict' = IF Traversal(pruned_input, path, Contains(path, "*")) = "error" THEN "error" ELSE "none"
  BY DEF PruneInput
<1>3. UNCHANGED <<type, input_model, output_model, pruned_output>>
  BY DEF PruneInput
<1>4. path \in Hidden(type) /\ path \in Seq(Keys) /\ IsModel(type, input_model)
  BY <1>1, ContextIs
<1>5. /\ left'.input = left.input \ {path} /\ left'.output = left.output /\ left'.echo = left.echo
      /\ left' = [input |-> left'.input, output |-> left'.output, echo |-> left'.echo]
  BY <1>1, <1>2
<1>6. PartOf(Deleted(pruned_input, path), input_model)
  BY <1>1, <1>4, DeletedIsPart
<1>7. PartOf(pruned_input', input_model)
  BY <1>1, <1>2, <1>6
<1>8. Readable(type, input_model) \subseteq DOMAIN Deleted(pruned_input, path)
  <2>1. \A p \in Readable(type, input_model) : ~IsPrefix(path, Route(p))
    BY <1>4 DEF Readable, Hidden
  <2> QED BY <1>1, <2>1, DeletedIs
<1>9. Readable(type, input_model) \subseteq DOMAIN pruned_input'
  BY <1>1, <1>2, <1>8
<1>10. verdict' # "accepted"
  BY <1>2
<1>11. left'.input \subseteq Hidden(type) /\ left'.output \subseteq type.readOnly /\ left'.echo \subseteq type.createOnly
  BY <1>1, <1>5
<1> QED BY <1>1, <1>3, <1>5, <1>7, <1>9, <1>10, <1>11 DEF PrunedIsPart

LEMMA PruneOutputPart ==
  ASSUME PrunedIsPart, PruneOutput
  PROVE  PrunedIsPart'
<1>1. /\ type \in Schemas /\ input_model \in Documents[type] /\ output_model \in Documents[type]
      /\ left.input \subseteq Hidden(type) /\ left.output \subseteq type.readOnly
      /\ left.echo \subseteq type.createOnly
      /\ left = [input |-> left.input, output |-> left.output, echo |-> left.echo]
      /\ PartOf(pruned_input, input_model) /\ PartOf(pruned_output, output_model)
      /\ Readable(type, input_model) \subseteq DOMAIN pruned_input
  BY DEF PrunedIsPart
<1>2. PICK path \in left.output :
        /\ left' = [left EXCEPT !.output = @ \ {path}]
        /\ pruned_output' = IF Traversal(pruned_output, path, Contains(path, "*")) = "found"
                            THEN Deleted(pruned_output, path) ELSE pruned_output
        /\ verdict' = IF Traversal(pruned_output, path, Contains(path, "*")) = "error" THEN "error" ELSE "none"
  BY DEF PruneOutput
<1>3. UNCHANGED <<type, input_model, output_model, pruned_input>>
  BY DEF PruneOutput
<1>4. path \in Seq(Keys) /\ IsModel(type, output_model)
  BY <1>1, ContextIs
<1>5. /\ left'.input = left.input /\ left'.output = left.output \ {path} /\ left'.echo = left.echo
      /\ left' = [input |-> left'.input, output |-> left'.output, echo |-> left'.echo]
  BY <1>1, <1>2
<1>6. PartOf(Deleted(pruned_output, path), output_model)
  BY <1>1, <1>4, DeletedIsPart
<1>7. PartOf(pruned_output', output_model)
  BY <1>1, <1>2, <1>6
<1>10. verdict' # "accepted"
  BY <1>2
<1>11. left'.input \subseteq Hidden(type) /\ left'.output \subseteq type.readOnly /\ left'.echo \subseteq type.createOnly
  BY <1>1, <1>5
<1> QED BY <1>1, <1>3, <1>5, <1>7, <1>10, <1>11 DEF PrunedIsPart

LEMMA PruneIfNotExistPart ==
  ASSUME PrunedIsPart, PruneIfNotExist
  PROVE  PrunedIsPart'
<1>1. /\ type \in Schemas /\ input_model \in Documents[type] /\ output_model \in Documents[type]
      /\ left.input \subseteq Hidden(type) /\ left.output \subseteq type.readOnly
      /\ left.echo \subseteq type.createOnly
      /\ left = [input |-> left.input, output |-> left.output, echo |-> left.echo]
      /\ PartOf(pruned_input, input_model) /\ PartOf(pruned_output, output_model)
      /\ Readable(type, input_model) \subseteq DOMAIN pruned_input
  BY DEF PrunedIsPart
<1>2. \E path \in left.echo :
        /\ left' = [left EXCEPT !.echo = @ \ {path}]
        /\ pruned_output' = Deleted(pruned_output, path) \/ pruned_output' = pruned_output
        /\ verdict' # "accepted"
  <2>1. PICK path \in left.echo :
          LET asked == Traversal(pruned_input, path, FALSE)
              end == IF asked = "missing" THEN Traversal(pruned_output, path, FALSE) ELSE asked
          IN  /\ left' = [left EXCEPT !.echo = @ \ {path}]
              /\ pruned_output' = IF asked = "missing" /\ end = "found"
                                  THEN Deleted(pruned_output, path) ELSE pruned_output
              /\ verdict' = IF end = "error" THEN "error" ELSE "none"
    BY DEF PruneIfNotExist
  <2>2. verdict' = "error" \/ verdict' = "none"
    BY <2>1
  <2>3. pruned_output' = Deleted(pruned_output, path) \/ pruned_output' = pruned_output
    BY <2>1
  <2> QED BY <2>1, <2>2, <2>3
<1>3. UNCHANGED <<type, input_model, output_model, pruned_input>>
  BY DEF PruneIfNotExist
<1>p. PICK path \in left.echo :
        /\ left' = [left EXCEPT !.echo = @ \ {path}]
        /\ pruned_output' = Deleted(pruned_output, path) \/ pruned_output' = pruned_output
        /\ verdict' # "accepted"
  BY <1>2
<1>4. path \in Seq(Keys) /\ IsModel(type, output_model)
  BY <1>1, ContextIs
<1>5. /\ left'.input = left.input /\ left'.output = left.output /\ left'.echo = left.echo \ {path}
      /\ left' = [input |-> left'.input, output |-> left'.output, echo |-> left'.echo]
  BY <1>1, <1>p
<1>6. PartOf(Deleted(pruned_output, path), output_model)
  BY <1>1, <1>4, DeletedIsPart
<1>7. PartOf(pruned_output', output_model)
  BY <1>1, <1>p, <1>6
<1>11. left'.input \subseteq Hidden(type) /\ left'.output \subseteq type.readOnly /\ left'.echo \subseteq type.createOnly
  BY <1>1, <1>5
<1> QED BY <1>1, <1>3, <1>5, <1>7, <1>p, <1>11 DEF PrunedIsPart

LEMMA ComparePart ==
  ASSUME PrunedIsPart, Compare
  PROVE  PrunedIsPart'
<1>1. UNCHANGED <<type, input_model, output_model, pruned_input, pruned_output, left>>
  BY DEF Compare
<1>2. verdict' = "accepted" => CompareModel(type, pruned_input, pruned_output)
  BY DEF Compare
<1> QED BY <1>1, <1>2 DEF PrunedIsPart

LEMMA NextPart ==
  ASSUME PrunedIsPart, [Next]_vars
  PROVE  PrunedIsPart'
<1>1. CASE PruneInput
  BY <1>1, PruneInputPart
<1>2. CASE PruneOutput
  BY <1>2, PruneOutputPart
<1>3. CASE PruneIfNotExist
  BY <1>3, PruneIfNotExistPart
<1>4. CASE Compare
  BY <1>4, ComparePart
<1>5. CASE UNCHANGED vars
  BY <1>5 DEF vars, PrunedIsPart
<1> QED BY <1>1, <1>2, <1>3, <1>4, <1>5 DEF Next

(* At every step the copies are parts of what was given and returned.       *)
THEOREM PruningTheorem == Spec => []PrunedIsPart
<1> QED BY InitPart, NextPart, PTL DEF Spec

(* What is accepted of the parts has what the input asks for.               *)
LEMMA PartReportsMismatch == PrunedIsPart => MismatchIsReported
<1> SUFFICES ASSUME PrunedIsPart, verdict = "accepted", LookupIsSafe(type, input_model),
                    HashTells(type, pruned_input)
             PROVE  HasAll(type, input_model, output_model)
  BY DEF MismatchIsReported
<1>1. /\ type \in Schemas /\ input_model \in Documents[type] /\ output_model \in Documents[type]
      /\ PartOf(pruned_input, input_model) /\ PartOf(pruned_output, output_model)
      /\ Readable(type, input_model) \subseteq DOMAIN pruned_input
      /\ CompareModel(type, pruned_input, pruned_output)
  BY DEF PrunedIsPart
<1>2. IsSchema(type) /\ IsModel(type, input_model) /\ IsModel(type, output_model)
  BY <1>1, ContextIs
<1>3. PICK order \in Orders(type, input_model) : \A p \in DOMAIN pruned_input :
        Moved(order, p) \in DOMAIN output_model /\ output_model[Moved(order, p)] = input_model[p]
  BY <1>1, <1>2, ComparedIsThere
<1>4. Has(order, type, input_model, output_model)
  BY <1>1, <1>3 DEF Has
<1> QED BY <1>4 DEF HasAll

(* An answer that lacks a property of the input, or has another value for   *)
(* one, is not accepted, for every schema and all models of it              *)
(* (test_input_equals_output, compare_model).                               *)
THEOREM MismatchTheorem == Spec => []MismatchIsReported
<1> QED BY PruningTheorem, PartReportsMismatch, PTL

-----------------------------------------------------------------------------
(* What is left of an answer that conforms.                                 *)

(* Prefixes of prefixes.                                                    *)
LEMMA PrefixOfPrefix ==
  ASSUME NEW S, NEW a \in Seq(S), NEW b \in Seq(S), NEW c \in Seq(S), IsPrefix(a, b), IsPrefix(b, c)
  PROVE  IsPrefix(a, c)
<1>1. Len(a) \in Nat /\ Len(b) \in Nat /\ Len(c) \in Nat
  OBVIOUS
<1>2. Len(a) <= Len(b) /\ \A i \in 1 .. Len(a) : a[i] = b[i]
  BY PrefixIs
<1>3. Len(b) <= Len(c) /\ \A i \in 1 .. Len(b) : b[i] = c[i]
  BY PrefixIs
<1>4. Len(a) <= Len(c) /\ \A i \in 1 .. Len(a) : a[i] = c[i]
  BY <1>1, <1>2, <1>3
<1> QED BY <1>4, PrefixIs

(* The path of a position with one step more.                               *)
LEMMA RouteAppend ==
  ASSUME NEW p \in Seq(Step), NEW x \in Step
  PROVE  Append(p, x) \in Seq(Step) /\ Route(Append(p, x)) = Append(Route(p), x.key)
<1> DEFINE q == Append(p, x)
           route == Route(p)
<1>1. /\ q \in Seq(Step) /\ Len(q) = Len(p) + 1 /\ q[Len(p) + 1] = x /\ Len(p) \in Nat
      /\ \A i \in 1 .. Len(p) : q[i] = p[i]
  OBVIOUS
<1>2. x.key \in Keys
  BY DEF Step
<1> HIDE DEF q
<1>3. route \in Seq(Keys) /\ Len(route) = Len(p) /\ \A i \in 1 .. Len(p) : route[i] = p[i].key
  BY RouteIs
<1> HIDE DEF route
<1> DEFINE more == Append(route, x.key)
<1>4. /\ more \in Seq(Keys) /\ Len(more) = Len(p) + 1 /\ more[Len(p) + 1] = x.key
      /\ \A i \in 1 .. Len(p) : more[i] = route[i]
  BY <1>1, <1>2, <1>3
<1>5. Route(q) \in Seq(Keys) /\ Len(Route(q)) = Len(q) /\ \A i \in 1 .. Len(q) : Route(q)[i] = q[i].key
  BY <1>1, RouteIs
<1> HIDE DEF more
<1>6. \A i \in 1 .. Len(more) : i \in 1 .. Len(p) \/ i = Len(p) + 1
  BY <1>1, <1>4
<1>7. \A i \in 1 .. Len(more) : Route(q)[i] = more[i]
  BY <1>1, <1>3, <1>4, <1>5, <1>6
<1>8. Route(q) = more
  BY <1>1, <1>4, <1>5, <1>7, SameSequence
<1> QED BY <1>1, <1>8 DEF q, more, route

(* A document without what some paths lead to.                              *)
Without(document, gone) ==
  Restrict(document, {p \in DOMAIN document : \A path \in gone : ~IsPrefix(path, Route(p))})

LEMMA WithoutIs ==
  ASSUME NEW document, NEW gone
  PROVE  /\ DOMAIN Without(document, gone) =
              {p \in DOMAIN document : \A path \in gone : ~IsPrefix(path, Route(p))}
         /\ \A p \in DOMAIN Without(document, gone) : Without(document, gone)[p] = document[p]
BY DEF Without, Restrict

(* Deleting what one more path leads to.                                    *)
LEMMA WithoutMore ==
  ASSUME NEW document, NEW gone, NEW path
  PROVE  Deleted(Without(document, gone), path) = Without(document, gone \cup {path})
<1> DEFINE part == Without(document, gone)
           rest == Deleted(part, path)
           goal == Without(document, gone \cup {path})
<1>1. /\ DOMAIN rest = {p \in DOMAIN part : ~IsPrefix(path, Route(p))}
      /\ \A p \in DOMAIN rest : rest[p] = part[p]
  BY DeletedIs
<1>2. /\ DOMAIN part = {p \in DOMAIN document : \A g \in gone : ~IsPrefix(g, Route(p))}
      /\ \A p \in DOMAIN part : part[p] = document[p]
  BY WithoutIs
<1>3. /\ DOMAIN goal = {p \in DOMAIN document : \A g \in gone \cup {path} : ~IsPrefix(g, Route(p))}
      /\ \A p \in DOMAIN goal : goal[p] = document[p]
  BY WithoutIs
<1>4. rest = [p \in DOMAIN rest |-> rest[p]] /\ goal = [p \in DOMAIN goal |-> goal[p]]
  BY DEF Deleted, Without, Restrict
<1> HIDE DEF rest, part, goal
<1>5. DOMAIN rest = DOMAIN goal
  BY <1>1, <1>2, <1>3
<1>6. \A p \in DOMAIN rest : rest[p] = goal[p]
  BY <1>1, <1>2, <1>3, <1>5
<1>7. rest = goal
  BY <1>4, <1>5, <1>6
<1> QED BY <1>7 DEF rest, part, goal

NothingAt(part, path) == \A p \in DOMAIN part : ~IsPrefix(path, Route(p))

(* A path that leads nowhere makes no difference.                           *)
LEMMA WithoutSame ==
  ASSUME NEW document, NEW gone, NEW path, NothingAt(Without(document, gone), path)
  PROVE  Without(document, gone) = Without(document, gone \cup {path})
<1> DEFINE kept == {p \in DOMAIN document : \A g \in gone : ~IsPrefix(g, Route(p))}
           goal == {p \in DOMAIN document : \A g \in gone \cup {path} : ~IsPrefix(g, Route(p))}
<1>1. DOMAIN Without(document, gone) = kept
  BY WithoutIs
<1>2. \A p \in kept : ~IsPrefix(path, Route(p))
  BY <1>1 DEF NothingAt
<1>3. kept = goal
  BY <1>2
<1> QED BY <1>3 DEF Without

(* Where a document stops short of a path that fits the schema.             *)
LEMMA FitsIs ==
  ASSUME NEW schema, NEW document, IsModel(schema, document), NEW path \in Seq(Keys), Fits(schema, path),
         NEW p \in DOMAIN document, Len(p) < Len(path), IsPrefix(Route(p), path)
  PROVE  /\ p \in Seq(Step) /\ Len(p) \in Nat /\ Len(p) + 1 \in 1 .. Len(path) /\ path[Len(p) + 1] \in Keys
         /\ Route(p) = Up(path, Len(p))
         /\ document[p].k = IF path[Len(p) + 1] = "*" THEN "list" ELSE "dict"
<1>1. /\ p \in Seq(Step) /\ Len(p) \in Nat /\ document[p].k \in {"dict", "list", "scalar"}
      /\ Meant(schema, Route(p)).k = KindOf[document[p].k]
  BY PositionIs
<1>2. Len(path) \in Nat /\ Len(p) + 1 \in 1 .. Len(path) /\ (Len(p) + 1) - 1 = Len(p)
  <2>1. Len(path) \in Nat
    OBVIOUS
  <2> QED BY <1>1, <2>1
<1>3. path[Len(p) + 1] \in Keys
  BY <1>2
<1>4. Route(p) = Up(path, Len(p))
  <2>1. Route(p) \in Seq(Keys) /\ Len(Route(p)) = Len(p)
    BY <1>1, RouteIs
  <2> DEFINE route == Route(p)
  <2> HIDE DEF route
  <2>2. route \in Seq(Keys) /\ Len(route) = Len(p) /\ IsPrefix(route, path)
    BY <2>1 DEF route
  <2>3. route = Up(path, Len(route))
    BY <2>2, PrefixIs
  <2> QED BY <2>2, <2>3 DEF route
<1>5. DOMAIN path = 1 .. Len(path)
  OBVIOUS
<1>6. Meant(schema, SubSeq(path, 1, (Len(p) + 1) - 1)).k = IF path[Len(p) + 1] = "*" THEN "array" ELSE "object"
  BY <1>2, <1>5 DEF Fits
<1>7. Meant(schema, Route(p)).k = IF path[Len(p) + 1] = "*" THEN "array" ELSE "object"
  BY <1>2, <1>4, <1>6 DEF Up
<1>8. document[p].k = IF path[Len(p) + 1] = "*" THEN "list" ELSE "dict"
  BY <1>1, <1>7 DEF KindOf
<1> QED BY <1>1, <1>2, <1>3, <1>4, <1>8

Stops(part, path) ==
  {p \in DOMAIN part : /\ Len(p) < Len(path) /\ IsPrefix(Route(p), path)
                      /\ path[Len(p) + 1] # "*" /\ Append(p, Key(path[Len(p) + 1])) \notin DOMAIN part}

(* Following a path that fits the schema ends well or misses a key.         *)
LEMMA StuckIs ==
  ASSUME NEW schema, NEW document, IsModel(schema, document), NEW path \in Seq(Keys), Fits(schema, path),
         NEW part, DOMAIN part \subseteq DOMAIN document, \A p \in DOMAIN part : part[p] = document[p],
         NEW wildcards \in BOOLEAN, wildcards = TRUE \/ \A n \in 1 .. Len(path) : path[n] # "*"
  PROVE  /\ Stuck(part, path, wildcards) = Stops(part, path)
         /\ Traversal(part, path, wildcards) = IF Stops(part, path) = {} THEN "found" ELSE "missing"
<1> DEFINE stuck == Stuck(part, path, wildcards)
<1>1. ASSUME NEW p \in DOMAIN part, Len(p) < Len(path), IsPrefix(Route(p), path)
      PROVE  /\ path[Len(p) + 1] # "*" => part[p].k = "dict"
             /\ path[Len(p) + 1] = "*" => part[p].k = "list" /\ wildcards = TRUE
  <2>1. p \in DOMAIN document /\ part[p] = document[p]
    OBVIOUS
  <2>2. /\ Len(p) + 1 \in 1 .. Len(path)
        /\ document[p].k = IF path[Len(p) + 1] = "*" THEN "list" ELSE "dict"
    BY <1>1, <2>1, FitsIs
  <2> QED BY <2>1, <2>2
<1>2. ASSUME NEW p PROVE p \in stuck <=> p \in Stops(part, path)
  <2>1. p \in stuck <=>
          /\ p \in DOMAIN part /\ Len(p) < Len(path) /\ IsPrefix(Route(p), path)
          /\ ~(part[p].k = "dict" /\ Append(p, Key(path[Len(p) + 1])) \in DOMAIN part)
          /\ ~(part[p].k = "list" /\ path[Len(p) + 1] = "*" /\ wildcards)
    BY DEF Stuck
  <2> QED BY <1>1, <2>1 DEF Stops
<1>3. \A p \in stuck : part[p].k = "dict"
  BY <1>1, <1>2 DEF Stops
<1>4. stuck = {} => Traversal(part, path, wildcards) = "found"
  BY DEF Traversal
<1>5. stuck # {} => Traversal(part, path, wildcards) = "missing"
  <2>1. ~ \E p \in stuck : part[p].k # "dict" /\ \A q \in stuck : ~Before(q, p)
    BY <1>3
  <2> QED BY <2>1 DEF Traversal
<1>6. stuck = Stops(part, path)
  BY <1>2
<1> QED BY <1>4, <1>5, <1>6

(* Pruning a path that fits leaves the document without what is there, if   *)
(* what is there is there in all members of the lists or in none.           *)
LEMMA PruneKeeps ==
  ASSUME NEW schema, NEW document, IsModel(schema, document), NEW path \in Seq(Keys), Fits(schema, path),
         Uniform(document, path), NEW gone, \A g \in gone : g \in Seq(Keys)
  PROVE  LET part == Without(document, gone)
             end == Traversal(part, path, Contains(path, "*"))
         IN  /\ end # "error"
             /\ (IF end = "found" THEN Deleted(part, path) ELSE part) = Without(document, gone \cup {path})
<1> DEFINE part == Without(document, gone)
           wildcards == Contains(path, "*")
           end == Traversal(part, path, wildcards)
<1>1. /\ DOMAIN part = {p \in DOMAIN document : \A g \in gone : ~IsPrefix(g, Route(p))}
      /\ \A p \in DOMAIN part : part[p] = document[p]
  BY WithoutIs
<1>2. wildcards \in BOOLEAN /\ (wildcards = TRUE \/ \A n \in 1 .. Len(path) : path[n] # "*")
  BY DEF Contains
<1> HIDE DEF part, wildcards
<1>3. /\ Stuck(part, path, wildcards) = Stops(part, path)
      /\ end # "error" /\ (end # "found" => Stops(part, path) # {})
  <2>1. DOMAIN part \subseteq DOMAIN document
    BY <1>1
  <2>2. PICK w : w = wildcards
    OBVIOUS
  <2>3. w \in BOOLEAN /\ (w = TRUE \/ \A n \in 1 .. Len(path) : path[n] # "*")
    BY <1>2, <2>2
  <2>4. Stuck(part, path, w) = Stops(part, path)
    BY <1>1, <2>1, <2>3, StuckIs
  <2>5. Traversal(part, path, w) = IF Stops(part, path) = {} THEN "found" ELSE "missing"
    BY <1>1, <2>1, <2>3, StuckIs
  <2>7. Traversal(part, path, w) = end /\ Stuck(part, path, w) = Stuck(part, path, wildcards)
    BY <2>2, Zenon
  <2> QED BY <2>4, <2>5, <2>7
<1> HIDE DEF end
<1>4. CASE end = "found"
  <2>1. Deleted(part, path) = Without(document, gone \cup {path})
    BY WithoutMore DEF part
  <2> QED BY <1>3, <1>4, <2>1 DEF part, wildcards, end
<1>5. CASE end # "found"
  <2>1. PICK s : s \in Stops(part, path)
    BY <1>3, <1>5
  <2>2. s \in DOMAIN part /\ s \in DOMAIN document /\ Len(s) < Len(path) /\ IsPrefix(Route(s), path)
    BY <1>1, <2>1 DEF Stops
  <2>3. /\ s \in Seq(Step) /\ Len(s) \in Nat /\ Len(s) + 1 \in 1 .. Len(path) /\ path[Len(s) + 1] \in Keys
        /\ Route(s) = Up(path, Len(s))
    BY <2>2, FitsIs
  <2> DEFINE next == path[Len(s) + 1]
             more == Append(s, Key(next))
  <2>4. Route(more) = Up(path, Len(s) + 1)
    <3>1. Key(next) \in Step /\ Key(next).key = next
      BY <2>3 DEF Key, Step
    <3>2. Route(more) = Append(Up(path, Len(s)), next)
      BY <2>3, <3>1, RouteAppend
    <3>3. (Len(s) + 1) - 1 = Len(s)
      BY <2>3
    <3>4. Append(Up(path, (Len(s) + 1) - 1), path[Len(s) + 1]) = Up(path, Len(s) + 1)
      BY <2>3, UpFacts
    <3> QED BY <3>2, <3>3, <3>4
  <2>5. ASSUME NEW p \in DOMAIN part, IsPrefix(path, Route(p)) PROVE FALSE
    <3>1. p \in DOMAIN document /\ p \in Seq(Step) /\ Len(p) \in Nat
      BY <1>1, PositionIs
    <3>2. /\ Route(p) \in Seq(Keys) /\ Len(Route(p)) = Len(p)
          /\ \A n \in 0 .. Len(p) : Route(Up(p, n)) = Up(Route(p), n)
      BY <3>1, RouteIs
    <3> DEFINE route == Route(p)
    <3>3. Len(path) <= Len(p) /\ path = Up(route, Len(path))
      <4> HIDE DEF route
      <4>1. route \in Seq(Keys) /\ Len(route) = Len(p) /\ IsPrefix(path, route)
        BY <2>5, <3>2 DEF route
      <4> QED BY <4>1, PrefixIs
    <3>4. Len(path) \in 0 .. Len(p)
      <4>1. Len(path) \in Nat
        OBVIOUS
      <4> QED BY <3>1, <3>3, <4>1
    <3>5. Up(p, Len(path)) \in DOMAIN document /\ Route(Up(p, Len(path))) = path
      BY <3>1, <3>2, <3>3, <3>4, PositionIs
    <3>6. Stuck(document, path, TRUE) = {}
      BY <3>5 DEF Uniform
    <3>7. s \notin Stops(document, path)
      BY <3>6, StuckIs
    <3>8. more \in DOMAIN document
      BY <2>1, <2>2, <3>7 DEF Stops
    <3>9. more \notin DOMAIN part
      BY <2>1 DEF Stops
    <3>10. PICK g \in gone : IsPrefix(g, Route(more))
      BY <1>1, <3>8, <3>9
    <3>11. IsPrefix(g, Up(path, Len(s) + 1))
      BY <2>4, <3>10
    <3>12. Up(path, Len(s) + 1) \in Seq(Keys) /\ IsPrefix(Up(path, Len(s) + 1), path)
      <4>1. Len(s) + 1 \in 0 .. Len(path)
        BY <2>3
      <4> QED BY <4>1, UpIs, UpIsPrefix
    <3> HIDE DEF more
    <3>13. IsPrefix(g, path)
      BY <3>11, <3>12, PrefixOfPrefix
    <3>14. IsPrefix(g, route)
      <4> HIDE DEF route
      <4>1. route \in Seq(Keys) /\ IsPrefix(path, route) /\ g \in Seq(Keys)
        BY <2>5, <3>2 DEF route
      <4> QED BY <3>13, <4>1, PrefixOfPrefix
    <3> QED BY <1>1, <3>14
  <2>6. part = Without(document, gone \cup {path})
    <3>1. NothingAt(Without(document, gone), path)
      BY <2>5 DEF part, NothingAt
    <3> QED BY <3>1, WithoutSame DEF part
  <2> QED BY <1>3, <1>5, <2>6 DEF part, wildcards, end
<1> QED BY <1>4, <1>5

(* What is left is part of the document.                                    *)
LEMMA WithoutIsPart ==
  ASSUME NEW schema, NEW document, IsModel(schema, document), NEW gone, \A g \in gone : g \in Seq(Keys)
  PROVE  PartOf(Without(document, gone), document)
<1> DEFINE part == Without(document, gone)
<1>1. /\ DOMAIN part = {p \in DOMAIN document : \A path \in gone : ~IsPrefix(path, Route(p))}
      /\ \A p \in DOMAIN part : part[p] = document[p]
  BY WithoutIs
<1> HIDE DEF part
<1>2. ASSUME NEW p \in DOMAIN part, NEW n \in 0 .. Len(p) PROVE Up(p, n) \in DOMAIN part
  <2>1. p \in DOMAIN document /\ p \in Seq(Step) /\ Up(p, n) \in DOMAIN document
    BY <1>1, PositionIs
  <2>2. ASSUME NEW path \in gone PROVE ~IsPrefix(path, Route(Up(p, n)))
    BY <1>1, <2>1, RouteUp
  <2> QED BY <1>1, <2>1, <2>2
<1> QED BY <1>1, <1>2 DEF PartOf, part

(* An order gives every member of a loose list another place.               *)
LEMMA OrdersAre ==
  ASSUME NEW schema, NEW document, NEW order \in Orders(schema, document)
  PROVE  /\ DOMAIN order = Loose(schema, document)
         /\ \A l \in Loose(schema, document) :
              /\ order[l] \in [1 .. document[l].len -> 1 .. document[l].len]
              /\ \A i, j \in 1 .. document[l].len : order[l][i] = order[l][j] => i = j
              /\ \A j \in 1 .. document[l].len : \E i \in 1 .. document[l].len : order[l][i] = j
<1> DEFINE loose == Loose(schema, document)
           S(l) == 1 .. document[l].len
<1>1. /\ order \in [loose -> UNION {Bijection(S(l), S(l)) : l \in loose}]
      /\ \A l \in loose : order[l] \in Bijection(S(l), S(l))
  BY DEF Orders
<1>2. DOMAIN order = loose
  BY <1>1
<1>3. ASSUME NEW T, NEW f \in Bijection(T, T)
      PROVE  /\ f \in [T -> T] /\ \A i, j \in T : f[i] = f[j] => i = j
             /\ \A j \in T : \E i \in T : f[i] = j
  BY DEF Bijection, Injection, IsInjective, Surjection
<1>4. ASSUME NEW l \in loose
      PROVE  /\ order[l] \in [S(l) -> S(l)]
             /\ \A i, j \in S(l) : order[l][i] = order[l][j] => i = j
             /\ \A j \in S(l) : \E i \in S(l) : order[l][i] = j
  <2>1. order[l] \in Bijection(S(l), S(l))
    BY <1>1
  <2> DEFINE T == S(l)
             f == order[l]
  <2>2. f \in Bijection(T, T)
    BY <2>1
  <2> HIDE DEF T, f
  <2>3. f \in [T -> T] /\ (\A i, j \in T : f[i] = f[j] => i = j) /\ \A j \in T : \E i \in T : f[i] = j
    BY <1>3, <2>2
  <2> QED BY <2>3 DEF T, f
<1> HIDE DEF loose
<1> QED BY <1>2, <1>4 DEF loose

(* Ordering the members of lists moves them, and changes no path.           *)
LEMMA MovedKeeps ==
  ASSUME NEW schema, IsSchema(schema), NEW given, IsModel(schema, given), LookupIsSafe(schema, given),
         NEW order \in Orders(schema, given), NEW p \in DOMAIN given
  PROVE  /\ p \in Seq(Step) /\ Len(p) \in Nat
         /\ Moved(order, p) \in Seq(Step) /\ Len(Moved(order, p)) = Len(p)
         /\ \A i \in 1 .. Len(p) :
              /\ Moved(order, p)[i].key = p[i].key
              /\ Up(p, i - 1) \notin Loose(schema, given) => Moved(order, p)[i] = p[i]
              /\ p[i].key # "*" => Up(p, i - 1) \notin Loose(schema, given)
              /\ Up(p, i - 1) \in Loose(schema, given) =>
                   /\ p[i] = Member(p[i].at) /\ p[i].at \in 1 .. given[Up(p, i - 1)].len
                   /\ Moved(order, p)[i] = Member(order[Up(p, i - 1)][p[i].at])
         /\ Route(Moved(order, p)) = Route(p)
<1> DEFINE q == Moved(order, p)
<1>1. p \in Seq(Step) /\ Len(p) \in Nat /\ DOMAIN order = Loose(schema, given)
  BY PositionIs, OrdersAre
<1>2. ASSUME NEW i \in 1 .. Len(p)
      PROVE  /\ q[i] \in Step /\ q[i].key = p[i].key
             /\ Up(p, i - 1) \notin Loose(schema, given) => q[i] = p[i]
             /\ p[i].key # "*" => Up(p, i - 1) \notin Loose(schema, given)
             /\ Up(p, i - 1) \in Loose(schema, given) =>
                  /\ p[i] = Member(p[i].at) /\ p[i].at \in 1 .. given[Up(p, i - 1)].len
                  /\ q[i] = Member(order[Up(p, i - 1)][p[i].at])
  <2> DEFINE l == Up(p, i - 1)
  <2>1. CASE l \in Loose(schema, given)
    <3>1. p[i].key = "*" /\ p[i] = Member(p[i].at) /\ p[i].at \in 1 .. given[l].len
      BY <2>1, MemberIsIn
    <3>2. q[i] = Member(order[l][p[i].at])
      BY <1>1, <2>1, MovedIs
    <3>3. order[l][p[i].at] \in 1 .. given[l].len
      <4>1. order[l] \in [1 .. given[l].len -> 1 .. given[l].len]
        BY <2>1, OrdersAre
      <4> QED BY <3>1, <4>1
    <3>4. order[l][p[i].at] \in Nat
      <4>1. given[l].len \in Nat
        BY <2>1, PositionIs DEF Loose
      <4> QED BY <3>3, <4>1
    <3> DEFINE j == order[l][p[i].at]
    <3> HIDE DEF j
    <3>5. j \in Nat /\ q[i] = Member(j)
      BY <3>2, <3>4 DEF j
    <3>6. Member(j) \in Step /\ Member(j).key = "*"
      BY <3>5 DEF Member, Step, Keys
    <3> QED BY <2>1, <3>1, <3>2, <3>5, <3>6
  <2>2. CASE l \notin Loose(schema, given)
    <3>1. q[i] = p[i]
      BY <1>1, <2>2, MovedIs
    <3>2. p[i] \in Step
      BY <1>1
    <3> QED BY <2>2, <3>1, <3>2
  <2> QED BY <2>1, <2>2
<1>3. q \in Seq(Step) /\ Len(q) = Len(p)
  <2>1. q = [i \in DOMAIN p |-> q[i]] /\ DOMAIN p = 1 .. Len(p)
    BY <1>1 DEF Moved
  <2> HIDE DEF q
  <2>2. q = [i \in 1 .. Len(p) |-> q[i]] /\ \A i \in 1 .. Len(p) : q[i] \in Step
    BY <1>2, <2>1
  <2> QED BY <1>1, <2>2
<1>4. Route(q) = Route(p)
  <2>1. DOMAIN q = 1 .. Len(p) /\ DOMAIN p = 1 .. Len(p)
    BY <1>1, <1>3
  <2> HIDE DEF q
  <2>2. \A i \in 1 .. Len(p) : q[i].key = p[i].key
    BY <1>2
  <2> QED BY <2>1, <2>2 DEF Route
<1> QED BY <1>1, <1>2, <1>3, <1>4

(* Without "*", a path leads to one position.                               *)
Straight(path) == [i \in 1 .. Len(path) |-> Key(path[i])]

(* The one position that a path without "*" leads to.                       *)
LEMMA StraightIs ==
  ASSUME NEW path \in Seq(Keys)
  PROVE  /\ Straight(path) \in Seq(Step) /\ Len(Straight(path)) = Len(path) /\ Route(Straight(path)) = path
         /\ \A i \in 1 .. Len(path) : Straight(path)[i] = Key(path[i]) /\ path[i] \in Keys
<1>1. Len(path) \in Nat /\ \A i \in 1 .. Len(path) : path[i] \in Keys
  OBVIOUS
<1>2. \A i \in 1 .. Len(path) : Key(path[i]) \in Step /\ Key(path[i]).key = path[i]
  BY <1>1 DEF Key, Step
<1> DEFINE q == Straight(path)
<1>3. q = [i \in 1 .. Len(path) |-> Key(path[i])]
  BY DEF Straight
<1> HIDE DEF q
<1>4. q \in Seq(Step) /\ Len(q) = Len(path) /\ \A i \in 1 .. Len(path) : q[i] = Key(path[i])
  BY <1>1, <1>2, <1>3
<1>5. Route(q) \in Seq(Keys) /\ Len(Route(q)) = Len(q) /\ \A i \in 1 .. Len(q) : Route(q)[i] = q[i].key
  BY <1>4, RouteIs
<1>6. Route(q) = path
  <2>1. \A i \in 1 .. Len(path) : Route(q)[i] = path[i]
    BY <1>2, <1>4, <1>5
  <2> QED BY <1>4, <1>5, <2>1, SameSequence
<1> QED BY <1>1, <1>4, <1>6 DEF q

(* Whatever is on the way of such a path is on the way to that position.    *)
LEMMA StraightOnly ==
  ASSUME NEW schema, NEW document, IsModel(schema, document), NEW path \in Seq(Keys),
         \A i \in 1 .. Len(path) : path[i] # "*",
         NEW p \in DOMAIN document, IsPrefix(Route(p), path)
  PROVE  Len(p) <= Len(path) /\ p = Up(Straight(path), Len(p))
<1>1. /\ p \in Seq(Step) /\ Len(p) \in Nat
      /\ \A n \in 1 .. Len(p) : p[n].key # "*" => p[n].at = 0
  BY PositionIs
<1>2. Route(p) \in Seq(Keys) /\ Len(Route(p)) = Len(p) /\ \A i \in 1 .. Len(p) : Route(p)[i] = p[i].key
  BY <1>1, RouteIs
<1> DEFINE route == Route(p)
<1>3. Len(p) <= Len(path) /\ \A i \in 1 .. Len(p) : p[i].key = path[i]
  <2> HIDE DEF route
  <2>1. route \in Seq(Keys) /\ Len(route) = Len(p) /\ IsPrefix(route, path)
        /\ \A i \in 1 .. Len(p) : route[i] = p[i].key
    BY <1>2 DEF route
  <2>2. Len(route) <= Len(path) /\ \A i \in 1 .. Len(route) : route[i] = path[i]
    BY <2>1, PrefixIs
  <2> QED BY <2>1, <2>2
<1> DEFINE q == Straight(path)
<1>4. q \in Seq(Step) /\ Len(q) = Len(path) /\ \A i \in 1 .. Len(path) : q[i] = Key(path[i])
  BY StraightIs
<1> HIDE DEF q
<1>5. Len(path) \in Nat
  OBVIOUS
<1>6. Len(p) \in 0 .. Len(q)
  BY <1>1, <1>3, <1>4, <1>5
<1>7. Up(q, Len(p)) \in Seq(Step) /\ Len(Up(q, Len(p))) = Len(p) /\ \A i \in 1 .. Len(p) : Up(q, Len(p))[i] = q[i]
  BY <1>4, <1>6, UpIs
<1>8. ASSUME NEW i \in 1 .. Len(p) PROVE p[i] = Up(q, Len(p))[i]
  <2>1. i \in 1 .. Len(path)
    BY <1>1, <1>3, <1>5
  <2>2. p[i].key = path[i] /\ p[i].at = 0 /\ p[i] \in Step
    BY <1>1, <1>3, <2>1
  <2>3. p[i] = [key |-> path[i], at |-> 0]
    BY <2>2 DEF Step
  <2> QED BY <1>4, <1>7, <2>1, <2>3 DEF Key
<1>9. p = Up(q, Len(p))
  BY <1>1, <1>7, <1>8, SameSequence
<1> QED BY <1>3, <1>9 DEF q

(* If nothing stops at a path without "*", its position is there.           *)
LEMMA StraightThere ==
  ASSUME NEW path \in Seq(Keys), \A i \in 1 .. Len(path) : path[i] # "*",
         NEW part, <<>> \in DOMAIN part, Stops(part, path) = {}
  PROVE  Straight(path) \in DOMAIN part
<1> DEFINE q == Straight(path)
           N == Len(path)
           bad == {n \in 0 .. N : Up(q, n) \notin DOMAIN part}
<1>1. /\ q \in Seq(Step) /\ Len(q) = N /\ N \in Nat /\ Route(q) = path
      /\ \A i \in 1 .. N : q[i] = Key(path[i])
  <2>1. N \in Nat
    OBVIOUS
  <2> QED BY <2>1, StraightIs
<1> HIDE DEF q, N
<1>2. bad = {}
  <2> SUFFICES ASSUME bad # {} PROVE FALSE
    OBVIOUS
  <2>0. bad \subseteq Nat /\ \A n \in bad : n \in 0 .. N /\ Up(q, n) \notin DOMAIN part
    BY <1>1
  <2>a. \A n \in 0 .. N : n \in bad \/ Up(q, n) \in DOMAIN part
    OBVIOUS
  <2> HIDE DEF bad
  <2>1. PICK n \in bad : \A m \in bad : n <= m
    BY <2>0, LeastIs
  <2>2. n \in 0 .. N /\ n # 0
    <3>1. Up(q, 0) = <<>>
      BY <1>1, UpFacts
    <3> QED BY <2>0, <3>1
  <2>3. n \in 1 .. N /\ n - 1 \in 0 .. N /\ ~(n <= n - 1)
    BY <1>1, <2>2
  <2> DEFINE p == Up(q, n - 1)
  <2>4. p \in DOMAIN part
    BY <2>1, <2>3, <2>a
  <2>5. p \in Seq(Step) /\ Len(p) = n - 1 /\ Route(p) = Up(path, n - 1) /\ Append(p, q[n]) = Up(q, n)
    BY <1>1, <2>3, UpIs, RouteIs, UpFacts
  <2> HIDE DEF p
  <2>6. Len(p) < Len(path) /\ Len(p) + 1 = n
    BY <1>1, <2>3, <2>5 DEF N
  <2>7. IsPrefix(Route(p), path)
    <3>1. n - 1 \in 0 .. Len(path)
      BY <2>3 DEF N
    <3> QED BY <2>5, <3>1, UpIsPrefix
  <2>8. path[n] # "*"
    BY <2>3 DEF N
  <2>9. Append(p, Key(path[n])) \in DOMAIN part
    BY <2>4, <2>6, <2>7, <2>8 DEF Stops
  <2>10. Append(p, Key(path[n])) = Up(q, n)
    BY <1>1, <2>3, <2>5
  <2> QED BY <2>0, <2>9, <2>10
<1>3. N \in 0 .. N
  BY <1>1
<1>4. Up(q, N) = q
  BY <1>1, UpFacts
<1> QED BY <1>2, <1>3, <1>4 DEF q

-----------------------------------------------------------------------------
(* What a test does with an answer that conforms.                           *)

(* What a handler returns beside read-only properties can be read back.     *)
LEMMA ReturnedIsReadable ==
  ASSUME NEW schema, IsSchema(schema), NEW returned, IsModel(schema, returned),
         \A path \in schema.writeOnly : \A q \in DOMAIN returned : Route(q) # path,
         NEW q \in DOMAIN Without(returned, schema.readOnly)
  PROVE  q \in DOMAIN returned /\ q \in Readable(schema, returned)
<1>1. q \in DOMAIN returned /\ \A path \in schema.readOnly : ~IsPrefix(path, Route(q))
  BY DEF Without, Restrict
<1>2. q \in Seq(Step) /\ Len(q) \in Nat
  BY <1>1, PositionIs
<1>3. ASSUME NEW path \in schema.writeOnly, IsPrefix(path, Route(q)) PROVE FALSE
  <2>1. path \in Seq(Keys) /\ Len(path) \in Nat
    BY DEF IsSchema, Hidden
  <2> DEFINE route == Route(q)
  <2>2. route \in Seq(Keys) /\ Len(route) = Len(q)
    BY <1>2, RouteIs
  <2> HIDE DEF route
  <2>3. IsPrefix(path, route)
    BY <1>3 DEF route
  <2>4. Len(path) <= Len(route) /\ path = Up(route, Len(path))
    BY <2>1, <2>2, <2>3, PrefixIs
  <2>5. Len(path) \in 0 .. Len(q)
    BY <1>2, <2>1, <2>2, <2>4
  <2>6. Up(q, Len(path)) \in DOMAIN returned
    BY <1>1, <2>5, PositionIs
  <2>7. Route(Up(q, Len(path))) = Up(route, Len(path))
    BY <1>2, <2>5, RouteIs DEF route
  <2> QED BY <2>4, <2>6, <2>7
<1> QED BY <1>1, <1>3 DEF Readable

(* What is compared of the input is what can be read back.                  *)
LEMMA WithoutReadable ==
  ASSUME NEW schema, NEW document
  PROVE  DOMAIN Without(document, Hidden(schema)) = Readable(schema, document)
BY DEF Without, Restrict, Hidden, Readable

(* A property that only a create may set is in the answer only if it was in *)
(* the input, so pruning what is not in the input takes nothing away.       *)
LEMMA EchoIsKept ==
  ASSUME NEW schema, IsSchema(schema), NEW given, IsModel(schema, given), NEW returned, IsModel(schema, returned),
         IsComparable(schema, given, returned), Conforms(schema, given, returned), NEW path \in schema.createOnly
  PROVE  LET inputs == Without(given, Hidden(schema))
             outputs == Without(returned, schema.readOnly)
         IN  /\ Traversal(inputs, path, FALSE) # "error"
             /\ Traversal(inputs, path, FALSE) = "missing" => Traversal(outputs, path, FALSE) = "missing"
<1> DEFINE inputs == Without(given, Hidden(schema))
           outputs == Without(returned, schema.readOnly)
<1>1. /\ path \in Seq(Keys) /\ path # <<>> /\ Fits(schema, path)
      /\ \A i \in 1 .. Len(path) : path[i] # "*"
      /\ \A g \in Hidden(schema) : g \in Seq(Keys) /\ g # <<>>
      /\ schema.readOnly \subseteq Hidden(schema)
  BY DEF IsSchema, IsComparable, Contains, Hidden
<1>2. /\ DOMAIN inputs = {p \in DOMAIN given : \A g \in Hidden(schema) : ~IsPrefix(g, Route(p))}
      /\ \A p \in DOMAIN inputs : inputs[p] = given[p]
      /\ DOMAIN outputs = {p \in DOMAIN returned : \A g \in schema.readOnly : ~IsPrefix(g, Route(p))}
      /\ \A p \in DOMAIN outputs : outputs[p] = returned[p]
  BY WithoutIs
<1>3. PartOf(inputs, given)
  BY <1>1, WithoutIsPart
<1> HIDE DEF inputs, outputs
<1>4. Traversal(inputs, path, FALSE) = IF Stops(inputs, path) = {} THEN "found" ELSE "missing"
  <2>1. DOMAIN inputs \subseteq DOMAIN given /\ \A p \in DOMAIN inputs : inputs[p] = given[p]
    BY <1>2
  <2>2. PICK w : w = FALSE
    OBVIOUS
  <2>3. w \in BOOLEAN /\ (w = TRUE \/ \A n \in 1 .. Len(path) : path[n] # "*")
    BY <1>1, <2>2
  <2>4. path \in Seq(Keys) /\ Fits(schema, path)
    BY <1>1
  <2>5. Traversal(inputs, path, w) = IF Stops(inputs, path) = {} THEN "found" ELSE "missing"
    BY <2>1, <2>3, <2>4, StuckIs
  <2> QED BY <2>2, <2>5, Zenon
<1>5. Traversal(outputs, path, FALSE) = IF Stops(outputs, path) = {} THEN "found" ELSE "missing"
  <2>1. DOMAIN outputs \subseteq DOMAIN returned /\ \A p \in DOMAIN outputs : outputs[p] = returned[p]
    BY <1>2
  <2>2. PICK w : w = FALSE
    OBVIOUS
  <2>3. w \in BOOLEAN /\ (w = TRUE \/ \A n \in 1 .. Len(path) : path[n] # "*")
    BY <1>1, <2>2
  <2>4. path \in Seq(Keys) /\ Fits(schema, path)
    BY <1>1
  <2>5. Traversal(outputs, path, w) = IF Stops(outputs, path) = {} THEN "found" ELSE "missing"
    BY <2>1, <2>3, <2>4, StuckIs
  <2> QED BY <2>2, <2>5, Zenon
<1>6. ASSUME Stops(outputs, path) = {} PROVE Stops(inputs, path) = {}
  <2> DEFINE q == Straight(path)
  <2>1. <<>> \in DOMAIN outputs
    <3>1. Route(<<>>) = <<>>
      BY DEF Route
    <3>2. ASSUME NEW g \in schema.readOnly PROVE ~IsPrefix(g, <<>>)
      <4>1. g \in Seq(Keys) /\ g # <<>>
        BY <1>1
      <4>2. PICK none : none = <<>>
        OBVIOUS
      <4>3. none \in Seq(Keys) /\ Len(none) = 0
        BY <4>2
      <4>4. IsPrefix(g, none) => Len(g) <= Len(none)
        BY <4>1, <4>3, PrefixIs
      <4>5. Len(g) \in Nat /\ (Len(g) = 0 => g = <<>>)
        BY <4>1
      <4> QED BY <4>1, <4>2, <4>3, <4>4, <4>5
    <3>3. <<>> \in DOMAIN returned
      BY DEF IsModel
    <3> QED BY <1>2, <3>1, <3>2, <3>3
  <2>2. q \in DOMAIN outputs
    BY <1>1, <1>6, <2>1, StraightThere
  <2>3. q \in Seq(Step) /\ Len(q) = Len(path) /\ \A i \in 1 .. Len(path) : q[i] = Key(path[i])
    BY <1>1, StraightIs
  <2> HIDE DEF q
  <2>4. q \in Readable(schema, returned)
    <3>1. \A g \in schema.writeOnly : \A r \in DOMAIN returned : Route(r) # g
      BY DEF IsComparable
    <3> QED BY <2>2, <3>1, ReturnedIsReadable DEF outputs
  <2>5. PICK order \in Orders(schema, given) : HasNoMore(order, schema, given, returned)
    BY DEF Conforms
  <2>6. PICK p \in DOMAIN given : Moved(order, p) = q
    BY <2>4, <2>5 DEF HasNoMore
  <2>7. LookupIsSafe(schema, given)
    BY DEF IsComparable
  <2>8. /\ p \in Seq(Step) /\ Len(p) = Len(q)
        /\ \A i \in 1 .. Len(p) : q[i].key = p[i].key
        /\ \A i \in 1 .. Len(p) : p[i].key # "*" => Up(p, i - 1) \notin Loose(schema, given)
        /\ \A i \in 1 .. Len(p) : Up(p, i - 1) \notin Loose(schema, given) => q[i] = p[i]
        /\ Route(q) = Route(p)
    BY <2>6, <2>7, MovedKeeps
  <2>9. ASSUME NEW i \in 1 .. Len(p) PROVE q[i] = p[i]
    <3>1. i \in 1 .. Len(path) /\ q[i] = Key(path[i]) /\ path[i] # "*"
      BY <1>1, <2>3, <2>8
    <3>2. p[i].key = path[i]
      BY <2>8, <3>1 DEF Key
    <3> QED BY <2>8, <3>1, <3>2
  <2>10. p = q
    BY <2>3, <2>8, <2>9, SameSequence
  <2>11. q \in DOMAIN inputs
    BY <2>4, <2>10, WithoutReadable DEF Readable, inputs
  <2>12. ASSUME NEW s \in Stops(inputs, path) PROVE FALSE
    <3>1. /\ s \in DOMAIN inputs /\ s \in DOMAIN given /\ Len(s) < Len(path) /\ IsPrefix(Route(s), path)
          /\ Append(s, Key(path[Len(s) + 1])) \notin DOMAIN inputs
      BY <1>2, <2>12 DEF Stops
    <3>2. s = Up(q, Len(s)) /\ Len(s) \in Nat
      BY <1>1, <3>1, StraightOnly, PositionIs DEF q
    <3>3. Len(path) \in Nat
      BY <1>1
    <3>4. Len(s) + 1 \in 1 .. Len(path) /\ Len(s) + 1 \in 1 .. Len(q) /\ (Len(s) + 1) - 1 = Len(s) /\ Len(s) + 1 \in 0 .. Len(q)
      BY <2>3, <3>1, <3>2, <3>3
    <3>5. Append(Up(q, (Len(s) + 1) - 1), q[Len(s) + 1]) = Up(q, Len(s) + 1)
      BY <2>3, <3>4, UpFacts
    <3>6. Up(q, Len(s) + 1) \in DOMAIN inputs
      BY <1>3, <2>11, <3>4 DEF PartOf
    <3> QED BY <2>3, <3>1, <3>2, <3>4, <3>5, <3>6
  <2> QED BY <2>12
<1>7. Traversal(inputs, path, FALSE) # "error"
  BY <1>4
<1>8. Traversal(inputs, path, FALSE) = "missing" => Traversal(outputs, path, FALSE) = "missing"
  BY <1>4, <1>5, <1>6
<1> QED BY <1>7, <1>8 DEF inputs, outputs

(* An order of the members of the loose lists that makes the answer conform. *)
Answers(order, schema, given, returned) ==
  /\ order \in Orders(schema, given)
  /\ Has(order, schema, given, returned) /\ HasNoMore(order, schema, given, returned)

(* What is compared of the input is in what is compared of the output, and  *)
(* nothing else is.                                                         *)
LEMMA KeptIsFound ==
  ASSUME NEW schema, IsSchema(schema), NEW given, IsModel(schema, given), NEW returned, IsModel(schema, returned),
         IsComparable(schema, given, returned), NEW order, Answers(order, schema, given, returned),
         NEW p \in DOMAIN Without(given, Hidden(schema))
  PROVE  /\ p \in DOMAIN given /\ Without(given, Hidden(schema))[p] = given[p]
         /\ Moved(order, p) \in DOMAIN Without(returned, schema.readOnly)
         /\ Without(returned, schema.readOnly)[Moved(order, p)] = given[p]
<1> DEFINE outputs == Without(returned, schema.readOnly)
           q == Moved(order, p)
<1>1. /\ p \in DOMAIN given /\ Without(given, Hidden(schema))[p] = given[p]
      /\ \A path \in Hidden(schema) : ~IsPrefix(path, Route(p))
  BY DEF Without, Restrict
<1>2. p \in Readable(schema, given)
  BY WithoutReadable
<1>3. q \in DOMAIN returned /\ returned[q] = given[p]
  BY <1>2 DEF Answers, Has
<1>4. Route(q) = Route(p)
  BY <1>1, MovedKeeps DEF Answers, IsComparable
<1>5. \A path \in schema.readOnly : ~IsPrefix(path, Route(q))
  BY <1>1, <1>4 DEF Hidden
<1> HIDE DEF q
<1>6. q \in DOMAIN outputs /\ outputs[q] = given[p]
  BY <1>3, <1>5 DEF Without, Restrict
<1> QED BY <1>1, <1>6 DEF q

LEMMA FoundIsKept ==
  ASSUME NEW schema, IsSchema(schema), NEW given, IsModel(schema, given), NEW returned, IsModel(schema, returned),
         IsComparable(schema, given, returned), NEW order, Answers(order, schema, given, returned),
         NEW q \in DOMAIN Without(returned, schema.readOnly)
  PROVE  \E p \in DOMAIN Without(given, Hidden(schema)) : Moved(order, p) = q
<1>1. \A path \in schema.writeOnly : \A r \in DOMAIN returned : Route(r) # path
  BY DEF IsComparable
<1>2. q \in Readable(schema, returned)
  BY <1>1, ReturnedIsReadable
<1>3. PICK p \in DOMAIN given : Moved(order, p) = q
  BY <1>2 DEF Answers, HasNoMore
<1>4. Route(q) = Route(p)
  BY <1>3, MovedKeeps DEF Answers, IsComparable
<1>5. p \in Readable(schema, given)
  BY <1>2, <1>4 DEF Readable
<1> QED BY <1>3, <1>5, WithoutReadable

(* What the comparison reaches is at the same position in the answer.       *)
LEMMA ReachedStays ==
  ASSUME NEW schema, IsSchema(schema), NEW given, IsModel(schema, given), LookupIsSafe(schema, given),
         NEW order \in Orders(schema, given), NEW p \in DOMAIN given, Reached(schema, p)
  PROVE  /\ \A i \in 1 .. Len(p) : Up(p, i - 1) \notin Loose(schema, given)
         /\ Moved(order, p) = p
<1>1. p \in Seq(Step) /\ \A i \in 1 .. Len(p) : ~Blocks(schema, p, i)
  BY PositionIs, ReachedIs
<1>2. \A i \in 1 .. Len(p) : Up(p, i - 1) \notin Loose(schema, given)
  BY <1>1, NotLoose
<1>3. \A i \in 1 .. Len(p) : Moved(order, p)[i] = p[i]
  BY <1>2, MovedKeeps
<1> QED BY <1>1, <1>2, <1>3, SameAsMoved

(* What is in a member of a loose list is moved to where the member is.     *)
LEMMA MovedWithin ==
  ASSUME NEW schema, IsSchema(schema), NEW given, IsModel(schema, given), LookupIsSafe(schema, given),
         NEW order \in Orders(schema, given),
         NEW l \in Loose(schema, given), Reached(schema, l), NEW i \in 1 .. given[l].len,
         NEW p \in DOMAIN given
  PROVE  IsPrefix(Append(l, Member(i)), p) <=> IsPrefix(Append(l, Member(order[l][i])), Moved(order, p))
<1> DEFINE N == Len(l)
           q == Moved(order, p)
           item == Append(l, Member(i))
           j == order[l][i]
           found == Append(l, Member(j))
<1>1. l \in DOMAIN given /\ l \in Seq(Step) /\ N \in Nat /\ i \in Nat /\ given[l].len \in Nat
  <2>1. l \in DOMAIN given /\ given[l].k = "list"
    BY DEF Loose
  <2>2. l \in Seq(Step) /\ N \in Nat /\ given[l].len \in Nat
    BY <2>1, PositionIs
  <2> QED BY <2>1, <2>2
<1>2. j \in 1 .. given[l].len /\ j \in Nat
  <2>1. order[l] \in [1 .. given[l].len -> 1 .. given[l].len]
    BY OrdersAre
  <2> QED BY <1>1, <2>1
<1>3. \A m \in 1 .. N : Up(l, m - 1) \notin Loose(schema, given)
  BY <1>1, ReachedStays
<1>4. /\ p \in Seq(Step) /\ Len(p) \in Nat /\ q \in Seq(Step) /\ Len(q) = Len(p)
      /\ \A m \in 1 .. Len(p) : Up(p, m - 1) \notin Loose(schema, given) => q[m] = p[m]
      /\ \A m \in 1 .. Len(p) : Up(p, m - 1) \in Loose(schema, given) =>
           /\ p[m] = Member(p[m].at) /\ p[m].at \in 1 .. given[Up(p, m - 1)].len
           /\ q[m] = Member(order[Up(p, m - 1)][p[m].at])
  BY MovedKeeps
<1> HIDE DEF q
<1>5. /\ Member(i) \in Step /\ Member(j) \in Step
      /\ \A m, n : Member(m) = Member(n) => m = n
  BY <1>1, <1>2 DEF Member, Step, Keys
<1>6. /\ item \in Seq(Step) /\ Len(item) = N + 1 /\ item[N + 1] = Member(i) /\ \A m \in 1 .. N : item[m] = l[m]
      /\ found \in Seq(Step) /\ Len(found) = N + 1 /\ found[N + 1] = Member(j) /\ \A m \in 1 .. N : found[m] = l[m]
  BY <1>1, <1>5
<1> HIDE DEF j, item, found
(* Above the list nothing is moved, so both are in it or none is.           *)
<1>7. ASSUME N + 1 <= Len(p), \A m \in 1 .. N : p[m] = l[m] \/ q[m] = l[m]
      PROVE  Up(p, N) = l /\ \A m \in 1 .. N : p[m] = l[m] /\ q[m] = l[m]
  <2> DEFINE bad == {m \in 1 .. N : ~(p[m] = l[m] /\ q[m] = l[m])}
  <2>1. bad = {}
    <3> SUFFICES ASSUME bad # {} PROVE FALSE
      OBVIOUS
    <3>0. bad \subseteq Nat /\ \A m \in bad : m \in 1 .. N /\ ~(p[m] = l[m] /\ q[m] = l[m])
      BY <1>1
    <3>a. \A m \in 1 .. N : m \in bad \/ p[m] = l[m]
      OBVIOUS
    <3> HIDE DEF bad
    <3>1. PICK m \in bad : \A n \in bad : m <= n
      BY <3>0, LeastIs
    <3>2. m \in 1 .. N /\ m \in 1 .. Len(p) /\ m - 1 \in 0 .. N /\ m - 1 \in 0 .. Len(p) /\ m \in Nat
      BY <1>1, <1>4, <1>7, <3>0, <3>1
    <3>3. ASSUME NEW n \in 1 .. m - 1 PROVE p[n] = l[n]
      <4>1. n \in 1 .. N /\ ~(m <= n)
        BY <1>1, <3>2
      <4> QED BY <3>1, <3>a, <4>1
    <3>4. Up(p, m - 1) = Up(l, m - 1)
      <4>1. /\ Up(p, m - 1) \in Seq(Step) /\ Len(Up(p, m - 1)) = m - 1
            /\ \A n \in 1 .. m - 1 : Up(p, m - 1)[n] = p[n]
        BY <1>4, <3>2, UpIs
      <4>2. /\ Up(l, m - 1) \in Seq(Step) /\ Len(Up(l, m - 1)) = m - 1
            /\ \A n \in 1 .. m - 1 : Up(l, m - 1)[n] = l[n]
        BY <1>1, <3>2, UpIs
      <4> QED BY <3>3, <4>1, <4>2, SameSequence
    <3>5. q[m] = p[m]
      BY <1>3, <1>4, <3>2, <3>4
    <3> QED BY <1>7, <3>0, <3>1, <3>2, <3>5
  <2>2. \A m \in 1 .. N : p[m] = l[m] /\ q[m] = l[m]
    BY <2>1
  <2>3. N \in 0 .. Len(p)
    BY <1>1, <1>4, <1>7
  <2>4. /\ Up(p, N) \in Seq(Step) /\ Len(Up(p, N)) = N /\ \A m \in 1 .. N : Up(p, N)[m] = p[m]
    BY <1>4, <2>3, UpIs
  <2>5. Up(p, N) = l
    BY <1>1, <2>2, <2>4, SameSequence
  <2> QED BY <2>2, <2>5
<1>8. ASSUME N + 1 <= Len(p), Up(p, N) = l
      PROVE  p[N + 1] = Member(i) <=> q[N + 1] = Member(j)
  <2>1. N + 1 \in 1 .. Len(p) /\ (N + 1) - 1 = N
    BY <1>1, <1>4, <1>8
  <2> DEFINE at == p[N + 1].at
  <2>2. /\ p[N + 1] = Member(at) /\ at \in 1 .. given[l].len
        /\ q[N + 1] = Member(order[l][at])
    BY <1>4, <1>8, <2>1
  <2>3. order[l][at] = order[l][i] => at = i
    <3>1. \A m, n \in 1 .. given[l].len : order[l][m] = order[l][n] => m = n
      BY OrdersAre
    <3> HIDE DEF at
    <3> QED BY <2>2, <3>1
  <2> HIDE DEF at
  <2> QED BY <1>5, <2>2, <2>3 DEF j
<1>9. IsPrefix(item, p) <=> N + 1 <= Len(p) /\ \A m \in 1 .. N + 1 : p[m] = item[m]
  <2>1. IsPrefix(item, p) <=> Len(item) <= Len(p) /\ \A m \in 1 .. Len(item) : item[m] = p[m]
    BY <1>4, <1>6, PrefixIs
  <2> QED BY <1>6, <2>1
<1>10. IsPrefix(found, q) <=> N + 1 <= Len(p) /\ \A m \in 1 .. N + 1 : q[m] = found[m]
  <2>1. IsPrefix(found, q) <=> Len(found) <= Len(q) /\ \A m \in 1 .. Len(found) : found[m] = q[m]
    BY <1>4, <1>6, PrefixIs
  <2> QED BY <1>4, <1>6, <2>1
<1>11. (\A m \in 1 .. N : m \in 1 .. N + 1) /\ N + 1 \in 1 .. N + 1 /\ \A m \in 1 .. N + 1 : m \in 1 .. N \/ m = N + 1
  BY <1>1
<1>12. ASSUME IsPrefix(item, p) PROVE IsPrefix(found, q)
  <2>1. N + 1 <= Len(p) /\ (\A m \in 1 .. N : p[m] = l[m]) /\ p[N + 1] = Member(i)
    BY <1>6, <1>9, <1>11, <1>12
  <2>2. Up(p, N) = l /\ \A m \in 1 .. N : q[m] = l[m]
    BY <1>7, <2>1
  <2>3. q[N + 1] = Member(j)
    BY <1>8, <2>1, <2>2
  <2> QED BY <1>6, <1>10, <1>11, <2>1, <2>2, <2>3
<1>13. ASSUME IsPrefix(found, q) PROVE IsPrefix(item, p)
  <2>1. N + 1 <= Len(p) /\ (\A m \in 1 .. N : q[m] = l[m]) /\ q[N + 1] = Member(j)
    BY <1>6, <1>10, <1>11, <1>13
  <2>2. Up(p, N) = l /\ \A m \in 1 .. N : p[m] = l[m]
    BY <1>7, <2>1
  <2>3. p[N + 1] = Member(i)
    BY <1>8, <2>1, <2>2
  <2> QED BY <1>6, <1>9, <1>11, <2>1, <2>2, <2>3
<1> QED BY <1>12, <1>13 DEF item, found, q, j

Plain(p, n) == \A m \in n + 1 .. Len(p) : p[m].key # "*"
Hashed(document, p, n) ==
  <<SubSeq(p, n + 1, Len(p)), IF document[p].k = "list" THEN Null ELSE document[p]>>

(* What a hash tells of a member.                                           *)
LEMMA HashHas ==
  ASSUME NEW document, NEW item, NEW x
  PROVE  x \in ItemHash(document, item) <=>
           \E p \in DOMAIN document : /\ IsPrefix(item, p) /\ Plain(p, Len(item))
                                      /\ x = Hashed(document, p, Len(item))
BY DEF ItemHash, Within, Plain, Hashed

(* Where there is no other list, nothing else is moved.                     *)
LEMMA RestStays ==
  ASSUME NEW schema, IsSchema(schema), NEW given, IsModel(schema, given), LookupIsSafe(schema, given),
         NEW order \in Orders(schema, given), NEW p \in DOMAIN given, NEW n \in 0 .. Len(p)
  PROVE  /\ Plain(p, n) <=> Plain(Moved(order, p), n)
         /\ Plain(p, n) => SubSeq(Moved(order, p), n + 1, Len(Moved(order, p))) = SubSeq(p, n + 1, Len(p))
<1> DEFINE q == Moved(order, p)
<1>1. /\ p \in Seq(Step) /\ Len(p) \in Nat /\ q \in Seq(Step) /\ Len(q) = Len(p)
      /\ \A m \in 1 .. Len(p) : q[m].key = p[m].key
      /\ \A m \in 1 .. Len(p) : p[m].key # "*" => q[m] = p[m]
  BY MovedKeeps
<1> HIDE DEF q
<1>2. \A m \in n + 1 .. Len(p) : m \in 1 .. Len(p)
  BY <1>1
<1>3. Plain(p, n) <=> Plain(q, n)
  BY <1>1, <1>2 DEF Plain
<1>4. ASSUME Plain(p, n) PROVE SubSeq(q, n + 1, Len(q)) = SubSeq(p, n + 1, Len(p))
  <2>1. \A m \in n + 1 .. Len(p) : q[m] = p[m]
    BY <1>1, <1>2, <1>4 DEF Plain
  <2> DEFINE one == SubSeq(p, n + 1, Len(p))
             other == SubSeq(q, n + 1, Len(q))
  <2>2. one \in Seq(Step) /\ Len(one) = Len(p) - n /\ \A m \in 1 .. Len(p) - n : one[m] = p[n + m]
    BY <1>1, RestIs
  <2>3. other \in Seq(Step) /\ Len(other) = Len(p) - n /\ \A m \in 1 .. Len(p) - n : other[m] = q[n + m]
    BY <1>1, RestIs
  <2> HIDE DEF one, other
  <2>4. \A m \in 1 .. Len(p) - n : n + m \in n + 1 .. Len(p)
    BY <1>1
  <2>5. \A m \in 1 .. Len(one) : other[m] = one[m]
    BY <2>1, <2>2, <2>3, <2>4
  <2>6. other = one
    BY <2>2, <2>3, <2>5, SameSequence
  <2> QED BY <2>6 DEF one, other
<1> QED BY <1>3, <1>4 DEF q

(* So a member has the hash of the member that it is moved to.              *)
LEMMA SameHash ==
  ASSUME NEW schema, IsSchema(schema), NEW given, IsModel(schema, given), NEW returned, IsModel(schema, returned),
         IsComparable(schema, given, returned), NEW order, Answers(order, schema, given, returned),
         NEW l \in Loose(schema, given), Reached(schema, l), NEW i \in 1 .. given[l].len
  PROVE  ItemHash(Without(given, Hidden(schema)), Append(l, Member(i))) =
           ItemHash(Without(returned, schema.readOnly), Append(l, Member(order[l][i])))
<1> DEFINE inputs == Without(given, Hidden(schema))
           outputs == Without(returned, schema.readOnly)
           item == Append(l, Member(i))
           j == order[l][i]
           found == Append(l, Member(j))
<1>1. LookupIsSafe(schema, given) /\ order \in Orders(schema, given)
  BY DEF IsComparable, Answers
<1>2. l \in DOMAIN given /\ l \in Seq(Step) /\ Len(l) \in Nat /\ i \in Nat /\ given[l].len \in Nat
  <2>1. l \in DOMAIN given /\ given[l].k = "list"
    BY DEF Loose
  <2>2. l \in Seq(Step) /\ Len(l) \in Nat /\ given[l].len \in Nat
    BY <2>1, PositionIs
  <2> QED BY <2>1, <2>2
<1>3. j \in Nat
  <2>1. order[l] \in [1 .. given[l].len -> 1 .. given[l].len]
    BY <1>1, OrdersAre
  <2>2. j \in 1 .. given[l].len
    BY <2>1
  <2> QED BY <1>2, <2>2
<1>4. /\ item \in Seq(Step) /\ found \in Seq(Step)
      /\ Len(item) = Len(l) + 1 /\ Len(found) = Len(l) + 1
  <2>1. Member(i) \in Step /\ Member(j) \in Step
    BY <1>2, <1>3 DEF Member, Step, Keys
  <2> HIDE DEF j
  <2> QED BY <1>2, <2>1
<1>5. ASSUME NEW p \in DOMAIN inputs
      PROVE  /\ Moved(order, p) \in DOMAIN outputs
             /\ IsPrefix(item, p) <=> IsPrefix(found, Moved(order, p))
             /\ IsPrefix(item, p) =>
                  /\ Plain(p, Len(item)) <=> Plain(Moved(order, p), Len(found))
                  /\ Plain(p, Len(item)) =>
                       Hashed(inputs, p, Len(item)) = Hashed(outputs, Moved(order, p), Len(found))
  <2> DEFINE q == Moved(order, p)
  <2>1. p \in DOMAIN given /\ inputs[p] = given[p] /\ q \in DOMAIN outputs /\ outputs[q] = given[p]
    BY KeptIsFound
  <2>2. IsPrefix(item, p) <=> IsPrefix(found, q)
    BY <1>1, <2>1, MovedWithin
  <2> HIDE DEF q, inputs, outputs, item, found
  <2>3. ASSUME IsPrefix(item, p)
        PROVE  /\ Plain(p, Len(item)) <=> Plain(q, Len(found))
               /\ Plain(p, Len(item)) => Hashed(inputs, p, Len(item)) = Hashed(outputs, q, Len(found))
    <3>1. p \in Seq(Step) /\ Len(p) \in Nat
      BY <2>1, PositionIs
    <3>2. Len(item) <= Len(p)
      BY <1>4, <2>3, <3>1, PrefixIs
    <3>3. Len(item) \in 0 .. Len(p)
      BY <1>2, <1>4, <3>1, <3>2
    <3>4. Plain(p, Len(item)) <=> Plain(q, Len(item))
      BY <1>1, <2>1, <3>3, RestStays DEF q
    <3>5. Plain(p, Len(item)) => SubSeq(q, Len(item) + 1, Len(q)) = SubSeq(p, Len(item) + 1, Len(p))
      BY <1>1, <2>1, <3>3, RestStays DEF q
    <3> QED BY <1>4, <2>1, <3>4, <3>5 DEF Hashed
  <2> QED BY <2>1, <2>2, <2>3 DEF q
<1>6. ASSUME NEW q \in DOMAIN outputs PROVE \E p \in DOMAIN inputs : Moved(order, p) = q
  BY FoundIsKept
<1> HIDE DEF inputs, outputs, item, found
<1>7. ASSUME NEW x \in ItemHash(inputs, item) PROVE x \in ItemHash(outputs, found)
  <2>1. PICK p \in DOMAIN inputs : IsPrefix(item, p) /\ Plain(p, Len(item)) /\ x = Hashed(inputs, p, Len(item))
    BY <1>7, HashHas
  <2> QED BY <1>5, <2>1, HashHas
<1>8. ASSUME NEW x \in ItemHash(outputs, found) PROVE x \in ItemHash(inputs, item)
  <2>1. PICK q \in DOMAIN outputs : IsPrefix(found, q) /\ Plain(q, Len(found)) /\ x = Hashed(outputs, q, Len(found))
    BY <1>8, HashHas
  <2>2. PICK p \in DOMAIN inputs : Moved(order, p) = q
    BY <1>6
  <2> QED BY <1>5, <2>1, <2>2, HashHas
<1>9. ItemHash(inputs, item) = ItemHash(outputs, found)
  BY <1>7, <1>8
<1> QED BY <1>9 DEF inputs, outputs, item, found, j

(* An answer that conforms compares equal.                                  *)
LEMMA CompareAccepts ==
  ASSUME NEW schema, IsSchema(schema), NEW given, IsModel(schema, given), NEW returned, IsModel(schema, returned),
         IsComparable(schema, given, returned), Conforms(schema, given, returned)
  PROVE  CompareModel(schema, Without(given, Hidden(schema)), Without(returned, schema.readOnly))
<1> DEFINE inputs == Without(given, Hidden(schema))
           outputs == Without(returned, schema.readOnly)
<1>1. LookupIsSafe(schema, given)
  BY DEF IsComparable
<1>2. PICK order : Answers(order, schema, given, returned)
  BY DEF Conforms, Answers
<1>3. order \in Orders(schema, given)
  BY <1>2 DEF Answers
<1>4. ASSUME NEW p \in DOMAIN inputs, Reached(schema, p)
      PROVE  /\ p \in DOMAIN outputs /\ outputs[p] = inputs[p]
             /\ inputs[p].k = "list" => CompareCollection(schema, inputs, outputs, p)
  <2>1. /\ p \in DOMAIN given /\ inputs[p] = given[p]
        /\ Moved(order, p) \in DOMAIN outputs /\ outputs[Moved(order, p)] = given[p]
    BY <1>2, KeptIsFound
  <2>2. Moved(order, p) = p /\ \A i \in 1 .. Len(p) : Up(p, i - 1) \notin Loose(schema, given)
    BY <1>1, <1>3, <1>4, <2>1, ReachedStays
  <2>3. ASSUME inputs[p].k = "list" PROVE CompareCollection(schema, inputs, outputs, p)
    <3>1. p # <<>> /\ given[p].k = "list" /\ p \in Seq(Step) /\ Len(p) \in Nat
      BY <1>1, <2>1, <2>3, LooseIs, PositionIs
    <3>2. Last(p).key # "*"
      <4> SUFFICES ASSUME Last(p).key = "*" PROVE FALSE
        OBVIOUS
      <4>1. Front(p) \in Loose(schema, given)
        BY <2>1, <3>1 DEF IsComparable
      <4>2. Len(p) \in 1 .. Len(p)
        BY <3>1
      <4>3. Front(Up(p, Len(p))) = Up(p, Len(p) - 1) /\ Up(p, Len(p)) = p
        BY <3>1, <4>2, UpFacts
      <4> QED BY <2>2, <4>1, <4>2, <4>3
    <3>3. CASE IsOrdered(schema, p)
      BY <3>2, <3>3, Zenon DEF CompareCollection
    <3>4. CASE ~IsOrdered(schema, p)
      <4>1. Last(p).key # "*" => (p \in Loose(schema, given) <=> ~IsOrdered(schema, p))
        BY <1>1, <2>1, <3>1, LooseIs
      <4>2. p \in Loose(schema, given)
        BY <3>2, <3>4, <4>1, Zenon
      <4> DEFINE S == 1 .. given[p].len
                 Asked(i) == ItemHash(inputs, Append(p, Member(i)))
                 Found(i) == ItemHash(outputs, Append(p, Member(i)))
      <4>3. /\ ItemHashes(inputs, p) = {Asked(i) : i \in S} /\ ItemHashes(outputs, p) = {Found(i) : i \in S}
        BY <2>1, <2>2 DEF ItemHashes
      <4>4. /\ order[p] \in [S -> S] /\ \A j \in S : \E i \in S : order[p][i] = j
        BY <1>3, <4>2, OrdersAre
      <4>5. \A i \in S : Asked(i) = Found(order[p][i])
        BY <1>2, <1>4, <4>2, SameHash
      <4> HIDE DEF S, Asked, Found
      <4>6. {Asked(i) : i \in S} = {Found(i) : i \in S}
        BY <4>4, <4>5
      <4>7. ItemHashes(inputs, p) = ItemHashes(outputs, p)
        BY <4>3, <4>6
      <4> QED BY <3>2, <4>7, Zenon DEF CompareCollection
    <3> QED BY <3>3, <3>4
  <2> QED BY <2>1, <2>2, <2>3
<1> QED BY <1>4, Zenon DEF CompareModel

-----------------------------------------------------------------------------
(* The invariant of a comparison of an answer that conforms.                *)

(* Without nothing, all is there.                                           *)
LEMMA WithoutNone ==
  ASSUME NEW schema, NEW document, IsModel(schema, document)
  PROVE  Without(document, {}) = document
<1>1. document = [p \in DOMAIN document |-> document[p]]
  BY DEF IsModel
<1>2. {p \in DOMAIN document : \A path \in {} : ~IsPrefix(path, Route(p))} = DOMAIN document
  OBVIOUS
<1> QED BY <1>1, <1>2 DEF Without, Restrict

(* While an answer that conforms is pruned, what is left of the documents   *)
(* is all but the paths that were pruned, and nothing fails.                *)
ConformingIsKept ==
  IsComparable(type, input_model, output_model) /\ Conforms(type, input_model, output_model) =>
    /\ pruned_input = Without(input_model, Hidden(type) \ left.input)
    /\ pruned_output = Without(output_model, type.readOnly \ left.output)
    /\ verdict \in {"none", "accepted"}

(* The invariant holds at first, and every step keeps it.                   *)
LEMMA InitConforming == Init => ConformingIsKept
<1> SUFFICES ASSUME Init PROVE ConformingIsKept
  OBVIOUS
<1>1. /\ type \in Schemas /\ input_model \in Documents[type] /\ output_model \in Documents[type]
      /\ pruned_input = input_model /\ pruned_output = output_model
      /\ left = [input |-> Hidden(type), output |-> type.readOnly, echo |-> type.createOnly]
      /\ verdict = "none"
  BY DEF Init
<1>2. Without(input_model, {}) = input_model /\ Without(output_model, {}) = output_model
  BY <1>1, ContextIs, WithoutNone
<1>3. Hidden(type) \ left.input = {} /\ type.readOnly \ left.output = {}
  BY <1>1
<1> QED BY <1>1, <1>2, <1>3 DEF ConformingIsKept

LEMMA PruneInputConforming ==
  ASSUME PrunedIsPart, ConformingIsKept, PruneInput
  PROVE  ConformingIsKept'
<1>1. /\ type \in Schemas /\ input_model \in Documents[type] /\ left.input \subseteq Hidden(type)
      /\ left = [input |-> left.input, output |-> left.output, echo |-> left.echo]
  BY DEF PrunedIsPart
<1>2. PICK path \in left.input :
        /\ left' = [left EXCEPT !.input = @ \ {path}]
        /\ pruned_input' = IF Traversal(pruned_input, path, Contains(path, "*")) = "found"
                           THEN Deleted(pruned_input, path) ELSE pruned_input
        /\ verdict' = IF Traversal(pruned_input, path, Contains(path, "*")) = "error" THEN "error" ELSE "none"
  BY DEF PruneInput
<1>3. UNCHANGED <<type, input_model, output_model, pruned_output>>
  BY DEF PruneInput
<1> SUFFICES ASSUME IsComparable(type, input_model, output_model), Conforms(type, input_model, output_model)
             PROVE  /\ pruned_input' = Without(input_model, Hidden(type) \ left'.input)
                    /\ pruned_output' = Without(output_model, type.readOnly \ left'.output)
                    /\ verdict' \in {"none", "accepted"}
  BY <1>3 DEF ConformingIsKept
<1> DEFINE gone == Hidden(type) \ left.input
<1>4. pruned_input = Without(input_model, gone) /\ pruned_output = Without(output_model, type.readOnly \ left.output)
  BY DEF ConformingIsKept
<1>5. /\ IsModel(type, input_model) /\ path \in Seq(Keys)
      /\ Fits(type, path) /\ Uniform(input_model, path) /\ \A g \in gone : g \in Seq(Keys)
  BY <1>1, ContextIs DEF IsComparable
<1>6. /\ Hidden(type) \ left'.input = gone \cup {path} /\ left'.output = left.output
  BY <1>1, <1>2
<1> HIDE DEF gone
<1> DEFINE part == Without(input_model, gone)
           end == Traversal(part, path, Contains(path, "*"))
<1>7. /\ end # "error"
      /\ (IF end = "found" THEN Deleted(part, path) ELSE part) = Without(input_model, gone \cup {path})
  BY <1>5, PruneKeeps
<1> HIDE DEF part
<1>8. /\ pruned_input' = IF end = "found" THEN Deleted(part, path) ELSE part
      /\ verdict' = IF end = "error" THEN "error" ELSE "none"
  BY <1>2, <1>4 DEF part
<1> HIDE DEF end
<1>9. pruned_input' = Without(input_model, gone \cup {path}) /\ verdict' = "none"
  BY <1>7, <1>8
<1> QED BY <1>3, <1>4, <1>6, <1>9

LEMMA PruneOutputConforming ==
  ASSUME PrunedIsPart, ConformingIsKept, PruneOutput
  PROVE  ConformingIsKept'
<1>1. /\ type \in Schemas /\ output_model \in Documents[type] /\ left.output \subseteq type.readOnly
      /\ left = [input |-> left.input, output |-> left.output, echo |-> left.echo]
  BY DEF PrunedIsPart
<1>2. PICK path \in left.output :
        /\ left' = [left EXCEPT !.output = @ \ {path}]
        /\ pruned_output' = IF Traversal(pruned_output, path, Contains(path, "*")) = "found"
                            THEN Deleted(pruned_output, path) ELSE pruned_output
        /\ verdict' = IF Traversal(pruned_output, path, Contains(path, "*")) = "error" THEN "error" ELSE "none"
  BY DEF PruneOutput
<1>3. UNCHANGED <<type, input_model, output_model, pruned_input>>
  BY DEF PruneOutput
<1> SUFFICES ASSUME IsComparable(type, input_model, output_model), Conforms(type, input_model, output_model)
             PROVE  /\ pruned_input' = Without(input_model, Hidden(type) \ left'.input)
                    /\ pruned_output' = Without(output_model, type.readOnly \ left'.output)
                    /\ verdict' \in {"none", "accepted"}
  BY <1>3 DEF ConformingIsKept
<1> DEFINE gone == type.readOnly \ left.output
<1>4. pruned_output = Without(output_model, gone) /\ pruned_input = Without(input_model, Hidden(type) \ left.input)
  BY DEF ConformingIsKept
<1>5. /\ IsModel(type, output_model) /\ path \in Seq(Keys)
      /\ Fits(type, path) /\ Uniform(output_model, path) /\ \A g \in gone : g \in Seq(Keys)
  <2>1. path \in Hidden(type) /\ gone \subseteq Hidden(type)
    BY <1>1 DEF Hidden
  <2> QED BY <1>1, <2>1, ContextIs DEF IsComparable
<1>6. /\ type.readOnly \ left'.output = gone \cup {path} /\ left'.input = left.input
  BY <1>1, <1>2
<1> HIDE DEF gone
<1> DEFINE part == Without(output_model, gone)
           end == Traversal(part, path, Contains(path, "*"))
<1>7. /\ end # "error"
      /\ (IF end = "found" THEN Deleted(part, path) ELSE part) = Without(output_model, gone \cup {path})
  BY <1>5, PruneKeeps
<1> HIDE DEF part
<1>8. /\ pruned_output' = IF end = "found" THEN Deleted(part, path) ELSE part
      /\ verdict' = IF end = "error" THEN "error" ELSE "none"
  BY <1>2, <1>4 DEF part
<1> HIDE DEF end
<1>9. pruned_output' = Without(output_model, gone \cup {path}) /\ verdict' = "none"
  BY <1>7, <1>8
<1> QED BY <1>3, <1>4, <1>6, <1>9

LEMMA PruneIfNotExistConforming ==
  ASSUME PrunedIsPart, ConformingIsKept, PruneIfNotExist
  PROVE  ConformingIsKept'
<1>1. /\ type \in Schemas /\ input_model \in Documents[type] /\ output_model \in Documents[type]
      /\ left = [input |-> left.input, output |-> left.output, echo |-> left.echo]
      /\ left.echo \subseteq type.createOnly
  BY DEF PrunedIsPart
<1>2. PICK path \in left.echo :
        LET asked == Traversal(pruned_input, path, FALSE)
            end == IF asked = "missing" THEN Traversal(pruned_output, path, FALSE) ELSE asked
        IN  /\ left' = [left EXCEPT !.echo = @ \ {path}]
            /\ pruned_output' = IF asked = "missing" /\ end = "found"
                                THEN Deleted(pruned_output, path) ELSE pruned_output
            /\ verdict' = IF end = "error" THEN "error" ELSE "none"
  BY DEF PruneIfNotExist
<1>3. UNCHANGED <<type, input_model, output_model, pruned_input>> /\ left.input = {} /\ left.output = {}
  BY DEF PruneIfNotExist
<1> SUFFICES ASSUME IsComparable(type, input_model, output_model), Conforms(type, input_model, output_model)
             PROVE  /\ pruned_input' = Without(input_model, Hidden(type) \ left'.input)
                    /\ pruned_output' = Without(output_model, type.readOnly \ left'.output)
                    /\ verdict' \in {"none", "accepted"}
  BY <1>3 DEF ConformingIsKept
<1>4. /\ pruned_input = Without(input_model, Hidden(type) \ left.input)
      /\ pruned_output = Without(output_model, type.readOnly \ left.output)
  BY DEF ConformingIsKept
<1>5. /\ left'.input = left.input /\ left'.output = left.output
      /\ Hidden(type) \ left.input = Hidden(type) /\ type.readOnly \ left.output = type.readOnly
  BY <1>1, <1>2, <1>3
<1> DEFINE inputs == Without(input_model, Hidden(type))
           outputs == Without(output_model, type.readOnly)
           asked == Traversal(inputs, path, FALSE)
           end == IF asked = "missing" THEN Traversal(outputs, path, FALSE) ELSE asked
<1>6. /\ asked # "error" /\ (asked = "missing" => Traversal(outputs, path, FALSE) = "missing")
  <2>1. IsSchema(type) /\ IsModel(type, input_model) /\ IsModel(type, output_model) /\ path \in type.createOnly
    BY <1>1, ContextIs
  <2> QED BY <2>1, EchoIsKept
<1>7. /\ pruned_output' = IF asked = "missing" /\ end = "found" THEN Deleted(pruned_output, path) ELSE pruned_output
      /\ verdict' = IF end = "error" THEN "error" ELSE "none"
  BY <1>2, <1>4, <1>5
<1>8. pruned_output' = pruned_output /\ verdict' = "none"
  BY <1>6, <1>7
<1> QED BY <1>3, <1>4, <1>5, <1>8

LEMMA CompareConforming ==
  ASSUME PrunedIsPart, ConformingIsKept, Compare
  PROVE  ConformingIsKept'
<1>1. /\ UNCHANGED <<type, input_model, output_model, pruned_input, pruned_output, left>>
      /\ left.input = {} /\ left.output = {}
      /\ verdict' = IF CompareModel(type, pruned_input, pruned_output) THEN "accepted" ELSE "rejected"
  BY DEF Compare
<1> SUFFICES ASSUME IsComparable(type, input_model, output_model), Conforms(type, input_model, output_model)
             PROVE  CompareModel(type, pruned_input, pruned_output)
  <2>1. ASSUME CompareModel(type, pruned_input, pruned_output) PROVE verdict' = "accepted"
    BY <1>1, <2>1
  <2> QED BY <1>1, <2>1 DEF ConformingIsKept
<1>2. /\ pruned_input = Without(input_model, Hidden(type) \ left.input)
      /\ pruned_output = Without(output_model, type.readOnly \ left.output)
  BY DEF ConformingIsKept
<1>3. Hidden(type) \ left.input = Hidden(type) /\ type.readOnly \ left.output = type.readOnly
  BY <1>1
<1>4. IsSchema(type) /\ IsModel(type, input_model) /\ IsModel(type, output_model)
  BY ContextIs DEF PrunedIsPart
<1>5. CompareModel(type, Without(input_model, Hidden(type)), Without(output_model, type.readOnly))
  BY <1>4, CompareAccepts
<1> QED BY <1>2, <1>3, <1>5

LEMMA NextConforming ==
  ASSUME PrunedIsPart, ConformingIsKept, [Next]_vars
  PROVE  ConformingIsKept'
<1>1. CASE PruneInput
  BY <1>1, PruneInputConforming
<1>2. CASE PruneOutput
  BY <1>2, PruneOutputConforming
<1>3. CASE PruneIfNotExist
  BY <1>3, PruneIfNotExistConforming
<1>4. CASE Compare
  BY <1>4, CompareConforming
<1>5. CASE UNCHANGED vars
  BY <1>5 DEF vars, ConformingIsKept
<1> QED BY <1>1, <1>2, <1>3, <1>4, <1>5 DEF Next

(* An answer with all properties that can be read back, and no others but   *)
(* read-only ones, is accepted, for every schema and all models of it       *)
(* (test_input_equals_output, compare_model).                               *)
THEOREM ConformingTheorem == Spec => []ConformingAnswerIsAccepted
<1>1. ConformingIsKept => ConformingAnswerIsAccepted
  BY DEF ConformingIsKept, ConformingAnswerIsAccepted
<1> QED BY <1>1, InitConforming, NextConforming, PruningTheorem, PTL DEF Spec
=============================================================================
