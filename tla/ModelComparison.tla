-------------------------- MODULE ModelComparison --------------------------
(***************************************************************************)
(* How a contract test decides whether a handler returned the model that   *)
(* it was given (test_input_equals_output): prune what cannot be compared, *)
(* path by path, and compare what is left (ResourceClient.compare).        *)
(*                                                                         *)
(* A document is a function from its positions to what is there: a dict, a *)
(* list of some length, or a scalar.  A position is the sequence of the    *)
(* steps that lead to it, and a step is a key or a member of a list, which *)
(* has the key "*".  A path is a sequence of keys.                         *)
(***************************************************************************)
EXTENDS Naturals, SequencesExt

CONSTANTS Schemas,   \* the schemas of resource types
          Documents  \* the models that each of them allows

Key(key) == [key |-> key, at |-> 0]
Member(i) == [key |-> "*", at |-> i]

Route(p) == [i \in DOMAIN p |-> p[i].key]

-----------------------------------------------------------------------------
(* Looking a property up in the schema (traverse_raw_schema).  A schema and *)
(* each of its definitions is the sequence of its nodes in the order of the *)
(* document, each with the path to it; the items of an array are at "*".    *)
(* A place is a node's path in such a sequence.                             *)

NoNode == [k |-> "missing", ordered |-> TRUE]
NodeAt(place) ==
  LET found == {i \in DOMAIN place.nodes : place.nodes[i].at = place.at}
  IN  IF found = {} THEN NoNode ELSE place.nodes[CHOOSE i \in found : TRUE]

Root(schema) == [nodes |-> schema.root, at |-> <<>>]
Definition(schema, name) == [nodes |-> schema.definitions[name], at |-> <<>>]
Child(place, key) == [place EXCEPT !.at = Append(@, key)]

(* nested_lookup: what of a kind there is at a place or anywhere inside.    *)
NestedLookup(place, k) ==
  {i \in DOMAIN place.nodes : IsPrefix(place.at, place.nodes[i].at) /\ place.nodes[i].k = k}
Properties(place) ==
  LET inner == NestedLookup(place, "object")
  IN  IF inner = {} THEN place ELSE [place EXCEPT !.at = place.nodes[Min(inner)].at]

(* Mutant: references are not followed.                                     *)
ResolveRefInline(schema, place, last_step) ==
  IF last_step /\ NodeAt(place).k # "ref" THEN place ELSE Properties(place)

(* _resolve_ref: the first reference anywhere inside is the one to follow.  *)
ResolveRef(schema, place, last_step) ==
  IF last_step /\ NodeAt(place).k # "ref" THEN place
  ELSE LET refs == NestedLookup(place, "ref") IN
       Properties(IF refs = {} THEN place ELSE Definition(schema, place.nodes[Min(refs)].to))

(* path.index(step): a key that the path repeats counts where it is first.  *)
IndexOf(path, step) == Min({i \in DOMAIN path : path[i] = step})

(* The path of a comparison has no "*": members of a list have no key.      *)
TraverseRawSchema(schema, path) ==
  LET at[n \in 0 .. Len(path)] ==
        IF n = 0 THEN Root(schema)
        ELSE IF path[n] = "*" THEN at[n - 1]
        ELSE ResolveRef(schema, Child(at[n - 1], path[n]), IndexOf(path, path[n]) = Len(path))
  IN  at[Len(path)]

(* insertionOrder, true unless the schema says otherwise.                   *)
IsOrdered(schema, p) == NodeAt(TraverseRawSchema(schema, Route(p))).ordered

-----------------------------------------------------------------------------
(* Comparing.                                                               *)

(* compare_model reaches whatever is in no unordered list and in no list    *)
(* that is the member of a list.                                            *)
Reached(schema, p) ==
  \A i \in DOMAIN p :
    p[i].key = "*" => p[i - 1].key # "*" /\ IsOrdered(schema, SubSeq(p, 1, i - 1))

Within(document, p) == {q \in DOMAIN document : IsPrefix(p, q)}

(* item_hash: sort() of a list returns nothing, and that is what is hashed. *)
Null == [k |-> "scalar", v |-> "null"]
ItemHash(document, p) ==
  {<<SubSeq(q, Len(p) + 1, Len(q)), IF document[q].k = "list" THEN Null ELSE document[q]>> :
     q \in {q \in Within(document, p) : \A i \in Len(p) + 1 .. Len(q) : q[i].key # "*"}}

ItemHashes(document, p) ==
  {ItemHash(document, Append(p, Member(i))) : i \in 1 .. document[p].len}

(* Lists of one length: compare_collection, or == for a list in a list.     *)
CompareCollection(schema, inputs, outputs, p) ==
  IF Last(p).key = "*"
  THEN Restrict(inputs, Within(inputs, p)) = Restrict(outputs, Within(outputs, p))
  ELSE IsOrdered(schema, p) \/ ItemHashes(inputs, p) = ItemHashes(outputs, p)

(* compare_model: whatever goes wrong counts as a difference.               *)
CompareModel(schema, inputs, outputs) ==
  \A p \in DOMAIN inputs : Reached(schema, p) =>
    /\ p \in DOMAIN outputs
    /\ inputs[p].k # "dict" => outputs[p] = inputs[p]
    /\ inputs[p].k = "list" => CompareCollection(schema, inputs, outputs, p)

-----------------------------------------------------------------------------
(* Pruning.                                                                 *)

(* Where a document does not go on as a path does.  "*" is a member of a    *)
(* list only for traverse_path_for_sequence_members.                        *)
Stuck(document, path, wildcards) ==
  {p \in DOMAIN document :
     /\ Len(p) < Len(path) /\ IsPrefix(Route(p), path)
     /\ LET next == path[Len(p) + 1] IN
        /\ ~(document[p].k = "dict" /\ Append(p, Key(next)) \in DOMAIN document)
        /\ ~(document[p].k = "list" /\ next = "*" /\ wildcards)}

Before(p, q) ==
  \E i \in DOMAIN p \cap DOMAIN q : SubSeq(p, 1, i - 1) = SubSeq(q, 1, i - 1) /\ p[i].at < q[i].at

(* What following a path ends with is what goes wrong first: a key that is  *)
(* not there (LookupError), or a list that is taken for a dict (ValueError).*)
Traversal(document, path, wildcards) ==
  LET stuck == Stuck(document, path, wildcards)
  IN  IF stuck = {} THEN "found"
      ELSE IF \E p \in stuck : document[p].k # "dict" /\ \A q \in stuck : ~Before(q, p)
      THEN "error" ELSE "missing"

Deleted(document, path) ==
  Restrict(document, {p \in DOMAIN document : ~IsPrefix(path, Route(p))})

-----------------------------------------------------------------------------
VARIABLES
  type,           \* the schema
  input_model,    \* what the handler was given
  output_model,   \* what it returned
  pruned_input,   \* the copies that are pruned
  pruned_output,
  left,           \* the paths that are left to prune
  verdict

vars == <<type, input_model, output_model, pruned_input, pruned_output, left, verdict>>

(* Mutant: properties that only a create may set are not compared.          *)
HiddenOrCreateOnly(schema) == schema.readOnly \cup schema.writeOnly \cup schema.createOnly

Hidden(schema) == schema.readOnly \cup schema.writeOnly

Init ==
  /\ type \in Schemas
  /\ input_model \in Documents[type] /\ output_model \in Documents[type]
  /\ pruned_input = input_model /\ pruned_output = output_model
  /\ left = [input |-> Hidden(type), output |-> type.readOnly, echo |-> type.createOnly]
  /\ verdict = "none"

(* prune_properties, one path, of a set that is gone through in any order.  *)
(* A property that some member of a list lacks stays in all of them.        *)
PruneInput ==
  /\ verdict = "none"
  /\ \E path \in left.input :
       LET end == Traversal(pruned_input, path, Contains(path, "*")) IN
       /\ left' = [left EXCEPT !.input = @ \ {path}]
       /\ pruned_input' = IF end = "found" THEN Deleted(pruned_input, path) ELSE pruned_input
       /\ verdict' = IF end = "error" THEN "error" ELSE "none"
  /\ UNCHANGED <<type, input_model, output_model, pruned_output>>

PruneOutput ==
  /\ verdict = "none" /\ left.input = {}
  /\ \E path \in left.output :
       LET end == Traversal(pruned_output, path, Contains(path, "*")) IN
       /\ left' = [left EXCEPT !.output = @ \ {path}]
       /\ pruned_output' = IF end = "found" THEN Deleted(pruned_output, path) ELSE pruned_output
       /\ verdict' = IF end = "error" THEN "error" ELSE "none"
  /\ UNCHANGED <<type, input_model, output_model, pruned_input>>

(* prune_properties_if_not_exist_in_path, one path.                         *)
PruneIfNotExist ==
  /\ verdict = "none" /\ left.input = {} /\ left.output = {}
  /\ \E path \in left.echo :
       LET asked == Traversal(pruned_input, path, FALSE)
           end == IF asked = "missing" THEN Traversal(pruned_output, path, FALSE) ELSE asked
       IN  /\ left' = [left EXCEPT !.echo = @ \ {path}]
           /\ pruned_output' = IF asked = "missing" /\ end = "found"
                               THEN Deleted(pruned_output, path) ELSE pruned_output
           /\ verdict' = IF end = "error" THEN "error" ELSE "none"
  /\ UNCHANGED <<type, input_model, output_model, pruned_input>>

Compare ==
  /\ verdict = "none" /\ left.input = {} /\ left.output = {} /\ left.echo = {}
  /\ verdict' = IF CompareModel(type, pruned_input, pruned_output) THEN "accepted" ELSE "rejected"
  /\ UNCHANGED <<type, input_model, output_model, pruned_input, pruned_output, left>>

Next == PruneInput \/ PruneOutput \/ PruneIfNotExist \/ Compare

Spec == Init /\ [][Next]_vars

-----------------------------------------------------------------------------
(* What a schema and a model of it are.                                     *)

Resolved(schema, place) ==
  IF NodeAt(place).k = "ref" THEN Definition(schema, NodeAt(place).to) ELSE place

(* What a path means, step by step; a reference stands for what it names.   *)
MeantPlace(schema, path) ==
  LET at[n \in 0 .. Len(path)] ==
        IF n = 0 THEN Root(schema) ELSE Resolved(schema, Child(at[n - 1], path[n]))
  IN  at[Len(path)]
Meant(schema, path) == NodeAt(MeantPlace(schema, path))

Keys == {"*"} \cup STRING
Node == [at : Seq(Keys), k : {"scalar", "array", "object", "ref"}, ordered : BOOLEAN, to : STRING]

IsTree(schema, nodes) ==
  /\ nodes \in Seq(Node) /\ nodes # <<>> /\ nodes[1].at = <<>>
  /\ \A i \in DOMAIN nodes :
       /\ nodes[i].k = "ref" => nodes[i].to \in DOMAIN schema.definitions
       /\ nodes[i].k # "array" => nodes[i].ordered
       /\ \A j \in DOMAIN nodes : nodes[i].at = nodes[j].at => i = j
       /\ nodes[i].at # <<>> =>
            \E j \in 1 .. i - 1 :
              /\ nodes[j].at = Front(nodes[i].at)
              /\ nodes[j].k = IF Last(nodes[i].at) = "*" THEN "array" ELSE "object"

IsSchema(schema) ==
  /\ IsTree(schema, schema.root) /\ schema.root[1].k = "object"
  /\ \A name \in DOMAIN schema.definitions : IsTree(schema, schema.definitions[name])
  /\ \A path \in Hidden(schema) \cup schema.createOnly :
       path \in Seq(Keys) /\ path # <<>> /\ Last(path) # "*"

Step == [key : Keys, at : Nat]
Value == [k : {"dict"}] \cup [k : {"list"}, len : Nat] \cup [k : {"scalar"}, v : STRING]

IsModel(schema, document) ==
  /\ document \in [DOMAIN document -> Value] /\ <<>> \in DOMAIN document
  /\ \A p \in DOMAIN document :
       /\ p \in Seq(Step)
       /\ p # <<>> => /\ Front(p) \in DOMAIN document
                      /\ IF Last(p).key = "*"
                         THEN document[Front(p)].k = "list" /\ Last(p).at \in 1 .. document[Front(p)].len
                         ELSE document[Front(p)].k = "dict" /\ Last(p).at = 0
       /\ document[p].k = "list" =>
            \A i \in 1 .. document[p].len : Append(p, Member(i)) \in DOMAIN document
       /\ Meant(schema, Route(p)).k =
            [dict |-> "object", list |-> "array", scalar |-> "scalar"][document[p].k]

DocumentsAssumption ==
  \A schema \in Schemas : IsSchema(schema) /\ \A d \in Documents[schema] : IsModel(schema, d)
ASSUME DocumentsAssumption

-----------------------------------------------------------------------------
(* What the comparison is for.                                              *)

(* The lists whose order is free, and the ways to order their members.      *)
Loose(schema, document) ==
  {l \in DOMAIN document : document[l].k = "list" /\ ~Meant(schema, Route(l)).ordered}
Orders(schema, document) ==
  LET loose == Loose(schema, document)
      orders(l) == Bijection(1 .. document[l].len, 1 .. document[l].len)
  IN  {order \in [loose -> UNION {orders(l) : l \in loose}] : \A l \in loose : order[l] \in orders(l)}
Moved(order, p) ==
  [i \in DOMAIN p |-> IF SubSeq(p, 1, i - 1) \in DOMAIN order
                      THEN Member(order[SubSeq(p, 1, i - 1)][p[i].at]) ELSE p[i]]

(* The properties that can be read back, or both set and read.              *)
Readable(schema, document) ==
  {p \in DOMAIN document :
     \A path \in schema.readOnly \cup schema.writeOnly : ~IsPrefix(path, Route(p))}

(* An output has what an input asks for: it holds every property that can   *)
(* be read back, with the value of the input, and lists have the same       *)
(* members, in the same order where the schema asks for it.                 *)
Has(order, schema, input, output) ==
  \A p \in Readable(schema, input) :
    Moved(order, p) \in DOMAIN output /\ output[Moved(order, p)] = input[p]
HasNoMore(order, schema, input, output) ==
  \A q \in Readable(schema, output) : \E p \in DOMAIN input : Moved(order, p) = q

HasAll(schema, input, output) ==
  \E order \in Orders(schema, input) : Has(order, schema, input, output)
Conforms(schema, input, output) ==
  \E order \in Orders(schema, input) :
    Has(order, schema, input, output) /\ HasNoMore(order, schema, input, output)

(* What traverse_raw_schema says it relies on: objects are definitions or   *)
(* hold no reference, and no name repeats.                                  *)
ObjectsHoldNoReference(nodes) ==
  \A i \in DOMAIN nodes :
    nodes[i].k = "object" /\ i # 1 => NestedLookup([nodes |-> nodes, at |-> nodes[i].at], "ref") = {}
LookupIsSafe(schema, document) ==
  /\ ObjectsHoldNoReference(schema.root)
  /\ \A name \in DOMAIN schema.definitions :
       LET nodes == schema.definitions[name]
       IN  nodes[1].k = "object" /\ ObjectsHoldNoReference(nodes)
  /\ \A p \in DOMAIN document : \A i, j \in DOMAIN p : p[i].key = p[j].key /\ p[i].key # "*" => i = j

(* Unordered collections have members that differ, in what is compared, and *)
(* hold no lists.                                                           *)
HashTells(schema, document) ==
  \A l \in Loose(schema, document) : \A i \in 1 .. document[l].len :
    /\ \A j \in 1 .. document[l].len :
         ItemHash(document, Append(l, Member(i))) = ItemHash(document, Append(l, Member(j))) => i = j
    /\ \A q \in Within(document, Append(l, Member(i))) : document[q].k # "list"

(* The path is one of the schema, with "*" wherever it enters a list.       *)
Fits(schema, path) ==
  \A n \in DOMAIN path :
    Meant(schema, SubSeq(path, 1, n - 1)).k = IF path[n] = "*" THEN "array" ELSE "object"

(* The property is in all the members of the lists on the way, or in none.  *)
Uniform(document, path) ==
  (\E p \in DOMAIN document : Route(p) = path) => Stuck(document, path, TRUE) = {}

(* Ordered lists hold no lists, which are compared as they are; a property  *)
(* that is pruned in a list is one of all members or of none; and a handler *)
(* returns nothing that can only be written.                                *)
IsComparable(schema, input, output) ==
  /\ LookupIsSafe(schema, input)
  /\ \A l \in DOMAIN input :
       input[l].k = "list" /\ Last(l).key = "*" => Front(l) \in Loose(schema, input)
  /\ \A path \in Hidden(schema) \cup schema.createOnly : Fits(schema, path)
  /\ \A path \in schema.createOnly : ~Contains(path, "*")
  /\ \A path \in Hidden(schema) : Uniform(input, path) /\ Uniform(output, path)
  /\ \A path \in schema.writeOnly : \A q \in DOMAIN output : Route(q) # path

(* An answer with all properties that can be read back, and no others but   *)
(* read-only ones, is accepted, in any order where the order is free, and   *)
(* without a crash of the test (test_input_equals_output).                  *)
ConformingAnswerIsAccepted ==
  verdict \in {"rejected", "error"} =>
    ~(IsComparable(type, input_model, output_model) /\ Conforms(type, input_model, output_model))

(* An answer that lacks a property of the input, or has another value for   *)
(* one, is not accepted (compare_model), where the hash tells the members   *)
(* of unordered collections apart.                                          *)
MismatchIsReported ==
  verdict = "accepted" /\ LookupIsSafe(type, input_model) /\ HashTells(type, pruned_input) =>
    HasAll(type, input_model, output_model)

(* "All properties specified in the request MUST be present in the model    *)
(* returned, and they MUST match exactly" (compare_model's assertion).      *)
AcceptedMatchesExactly ==
  verdict = "accepted" => HasAll(type, input_model, output_model)
=============================================================================
