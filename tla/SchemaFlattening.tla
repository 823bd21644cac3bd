-------------------------- MODULE SchemaFlattening --------------------------
(***************************************************************************)
(* JsonSchemaFlattener: the objects of a schema, each under its path, with *)
(* references to one another in place of nested objects, and combiners     *)
(* squashed into the object around them (schema_merge).                    *)
(*                                                                         *)
(* A schema is a record with the keywords that it has: `ref`, `type`,      *)
(* `items`, `properties`, `patternProperties`, `oneOf` (for any combiner), *)
(* `insertionOrder`, `uniqueItems`, `additionalProperties`, `definitions`. *)
(* The value of `ref` is a path, raw as long as it is the text that the    *)
(* developer wrote.  The value of `type` is one type, a list of types, or  *)
(* the set that uniting two types makes; a united type may be a path, and  *)
(* the name of a type is a path of one part.  References into a combiner   *)
(* are left out: no model can be named after a branch.                     *)
(***************************************************************************)
EXTENDS Naturals, SequencesExt

Relation == INSTANCE Relation

Raw(path) == [ref |-> [path |-> path, raw |-> TRUE]]
Walked(path) == [ref |-> [path |-> path, raw |-> FALSE]]

Placeholder == [placeholder |-> TRUE]

Branches == <<"0", "1">>  \* the positions in a combiner, as parts of a path

(* traverse, for a path that leads somewhere.                               *)
TraverseSchema(schema, path) == FoldLeft(LAMBDA node, part : node[part], schema, path)

RECURSIVE Replaced(_, _, _)
Replaced(schema, path, node) ==
  IF path = <<>> THEN node
  ELSE [schema EXCEPT ![Head(path)] = Replaced(@, Tail(path), node)]

-----------------------------------------------------------------------------
(* schema_merge.                                                            *)

TypeItems(node) ==
  CASE "type" \in DOMAIN node -> node.type.of
    [] "ref" \in DOMAIN node -> {IF node.ref.raw THEN <<"#">> \o node.ref.path ELSE node.ref.path}
    [] OTHER -> {}
IsTyped(node) == TypeItems(node) # {}

Without(node, keys) == [key \in DOMAIN node \ keys |-> node[key]]

(* Mutant: of two types the later one counts.                               *)
MergedTypeOverwrites(target, src) ==
  IF ~IsTyped(src) THEN target
  ELSE [key \in DOMAIN src \cap {"type", "ref"} |-> src[key]] @@ Without(target, {"type", "ref"})

(* Types and references are united under `type`; of a schema that has none  *)
(* they are taken over.                                                     *)
MergedType(target, src) ==
  IF ~IsTyped(src) THEN target
  ELSE IF ~IsTyped(target)
  THEN target @@ [key \in DOMAIN src \cap {"type", "ref"} |-> src[key]]
  ELSE [type |-> [form |-> "set", of |-> TypeItems(target) \cup TypeItems(src)]]
         @@ Without(target, {"type", "ref"})

Containers == {"properties", "patternProperties"}

(* What both have is merged, what one has is kept, and of a keyword with a  *)
(* plain value the one of src counts.                                       *)
RECURSIVE Merged(_, _)
Merged(target, src) ==
  LET named(old, new) ==
        [name \in DOMAIN old \cap DOMAIN new |-> Merged(old[name], new[name])] @@ old @@ new
      key(k) ==
        IF k \notin DOMAIN target THEN src[k]
        ELSE IF k \in Containers THEN named(target[k], src[k])
        ELSE IF k = "items" THEN Merged(target[k], src[k]) ELSE src[k]
  IN  [k \in DOMAIN src \ {"type", "ref"} |-> key(k)] @@ MergedType(target, src)

(* NON_MERGABLE_KEYS: two values are a ConstraintError.                     *)
NonMergable == {"insertionOrder", "uniqueItems"}

RECURSIVE Conflicts(_, _)
Conflicts(target, src) ==
  \/ \E k \in NonMergable \cap DOMAIN target \cap DOMAIN src : target[k] # src[k]
  \/ \E k \in Containers \cap DOMAIN target \cap DOMAIN src :
       \E name \in DOMAIN target[k] \cap DOMAIN src[k] : Conflicts(target[k][name], src[k][name])
  \/ \E k \in {"items"} \cap DOMAIN target \cap DOMAIN src : Conflicts(target[k], src[k])

-----------------------------------------------------------------------------
(* The walk.  Its state is the schema map, the full schema, which merging   *)
(* may change, and whether it failed; it returns the state and the schema   *)
(* that stands for the one it was given.                                    *)

Done(state, node) == [state |-> state, node |-> node]

Is(node, type) == node.type = [form |-> "one", of |-> {<<type>>}]

RECURSIVE Walk(_, _, _)

(* Each of the named schemas is walked in turn.                             *)
WalkNamed(state, named, path) ==
  FoldLeft(LAMBDA done, name :
             LET walked == Walk(done.state, named[name], Append(path, name))
             IN  Done(walked.state, (name :> walked.node) @@ done.node),
           Done(state, <<>>), SetToSeq(DOMAIN named))

(* What a branch was flattened to is merged.  The node is a shallow copy:    *)
(* what it shares with the full schema changes there too.                   *)
Squash(state, target, resolved, shared, path) ==
  LET merged == Merged(target, resolved)
      changed == [key \in shared |-> merged[key]] @@ TraverseSchema(state.full, path)
  IN  Done([state EXCEPT !.full = IF shared = {} THEN @ ELSE Replaced(@, path, changed),
                         !.failed = @ \/ Conflicts(target, resolved)],
           merged)

(* ref_resolve of the path of a branch, which then leaves the map.          *)
Resolve(walked, ref_path) ==
  LET map == walked.state.map
  IN  Done([walked.state EXCEPT !.map = Without(map, {ref_path})],
           IF ref_path \in DOMAIN map THEN map[ref_path] ELSE walked.node)

(* A type that is a set becomes a list.                                     *)
TypesListed(flat) ==
  IF "type" \in DOMAIN flat.node
  THEN [flat EXCEPT !.node.type.form = IF @ = "set" THEN "list" ELSE @] ELSE flat

(* _flatten_combiners.                                                      *)
FlattenCombiners(state, node, path) ==
  LET branches == IF "oneOf" \in DOMAIN node THEN node.oneOf ELSE <<>>
      own == Without(node, {"oneOf"})
      shared == DOMAIN own \cap (Containers \cup {"items"})
      branchPath(branch) == path \o <<"oneOf", branch>>
      squash(target, resolved) ==
        Squash(resolved.state, target, resolved.node, shared, path)
      flatten(done, branch) ==
        squash(done.node,
               Resolve(Walk(done.state, branches[branch], branchPath(branch)), branchPath(branch)))
  IN  TypesListed(FoldLeft(flatten, Done(state, own),
                           SelectSeq(Branches, LAMBDA b : b \in DOMAIN branches)))

(* Additional properties, and properties beside patterns, are a             *)
(* ConstraintError.                                                         *)
Constrained(flat) ==
  [flat EXCEPT !.state.failed = @ \/ "additionalProperties" \in DOMAIN flat.node
                                  \/ Containers \subseteq DOMAIN flat.node]

(* The properties, or else the patterns, are walked; an object that has     *)
(* properties is in the map and is referred to.                             *)
FlattenContents(flat, path) ==
  LET with(key, walked) == Done(walked.state, [flat.node EXCEPT ![key] = walked.node])
      contents(key) == with(key, WalkNamed(flat.state, flat.node[key], Append(path, key)))
      mapped(done) == Done([done.state EXCEPT !.map[path] = done.node], Walked(path))
  IN  CASE "properties" \in DOMAIN flat.node -> mapped(contents("properties"))
        [] DOMAIN flat.node \cap Containers = {"patternProperties"} -> contents("patternProperties")
        [] OTHER -> flat

(* _flatten_object_type.                                                    *)
FlattenObject(state, node, path) ==
  FlattenContents(Constrained(FlattenCombiners(state, node, path)), path)

(* _flatten_array_type.                                                     *)
FlattenArray(state, node, path) ==
  IF "items" \notin DOMAIN node THEN Done(state, node)
  ELSE LET walked == Walk(state, node.items, Append(path, "items"))
       IN  Done(walked.state, [node EXCEPT !.items = walked.node])

(* A placeholder goes if no object came of it.                              *)
Settled(done, path) ==
  IF done.state.map[path] # Placeholder THEN done
  ELSE [done EXCEPT !.state.map = Without(@, {path})]

(* _walk: a path that was seen is referred to; else a placeholder stands in *)
(* for it.                                                                  *)
Walk(state, node, path) ==
  IF path \in DOMAIN state.map THEN Done(state, Walked(path))
  ELSE LET begun == [state EXCEPT !.map = (path :> Placeholder) @@ @]
       IN  Settled(IF "ref" \in DOMAIN node
                   THEN Walk(begun, TraverseSchema(begun.full, node.ref.path), node.ref.path)
                   ELSE IF "type" \notin DOMAIN node \/ Is(node, "object")
                   THEN FlattenObject(begun, node, path)
                   ELSE IF Is(node, "array") THEN FlattenArray(begun, node, path)
                   ELSE Done(begun, node),
                   path)

(* flatten_schema.                                                          *)
Flatten(schema) ==
  Walk([map |-> <<>>, full |-> schema, failed |-> FALSE], schema, <<>>).state

-----------------------------------------------------------------------------
(* What flattening is for.                                                  *)

Parts(node) ==
  [part \in UNION {{<<k, name>> : name \in DOMAIN node[k]} : k \in Containers \cap DOMAIN node}
              \cup {<<k>> : k \in {"items"} \cap DOMAIN node}
     |-> IF Len(part) = 1 THEN node[part[1]] ELSE node[part[1]][part[2]]]

Below(part, leaves) == {[at |-> <<part>> \o leaf.at, type |-> leaf.type] : leaf \in leaves}
Leaf(type) == [at |-> <<>>, type |-> type]

BranchesOf(node) == IF "oneOf" \in DOMAIN node THEN Range(node.oneOf) ELSE {}

(* A schema without a type is one of objects.                               *)
Kinds(node) == IF IsTyped(node) THEN TypeItems(node) ELSE {<<"object">>}

(* The values that a schema describes: which types may be found where, to a *)
(* depth.  An object has what its combiners have.                           *)
RECURSIVE Leaves(_, _, _)
Leaves(schema, node, depth) ==
  IF "ref" \in DOMAIN node
  THEN Leaves(schema, TraverseSchema(schema, node.ref.path), depth)
  ELSE LET parts == Parts(node) IN
       {Leaf(type) : type \in IF BranchesOf(node) = {} THEN Kinds(node) ELSE TypeItems(node)}
       \cup UNION {Leaves(schema, branch, depth) : branch \in BranchesOf(node)}
       \cup IF depth = 0 THEN {}
            ELSE UNION {Below(p, Leaves(schema, parts[p], depth - 1)) : p \in DOMAIN parts}

(* The same for a schema map: a path that is no key of it leads nowhere.    *)
RECURSIVE FlatLeaves(_, _, _)
FlatLeaves(map, node, depth) ==
  LET at(path) == IF path \in DOMAIN map THEN FlatLeaves(map, map[path], depth) ELSE {Leaf(path)}
      parts == Parts(node)
  IN  {Leaf(type) : type \in {t \in Kinds(node) : Len(t) = 1}}
      \cup UNION {at(type) : type \in {t \in Kinds(node) : Len(t) # 1}}
      \cup IF depth = 0 THEN {}
           ELSE UNION {Below(p, FlatLeaves(map, parts[p], depth - 1)) : p \in DOMAIN parts}

(* The schemas in a schema, itself among them; definitions are reached by   *)
(* reference.                                                               *)
RECURSIVE Within(_)
Within(node) ==
  LET parts == Parts(node) IN
  {node} \cup UNION {Within(parts[p]) : p \in DOMAIN parts}
         \cup UNION {Within(branch) : branch \in BranchesOf(node)}

Everywhere(schema) == Within(schema) \cup UNION {Within(d) : d \in Range(schema.definitions)}

Targets(node) == {n.ref.path : n \in {m \in Within(node) : "ref" \in DOMAIN m}}

(* Whatever leads to itself has properties, so that the map has its path.   *)
RecursionIsOfObjects(schema) ==
  LET all == {<<"definitions", name>> : name \in DOMAIN schema.definitions}
      leads == [p \in all \X all |-> p[2] \in Targets(TraverseSchema(schema, p[1]))]
      loops == Relation!TransitiveClosure(leads, all)
  IN  \A path \in all : loops[path, path] => "properties" \in DOMAIN TraverseSchema(schema, path)

(* Combiners hold no references, and either list types or add properties to *)
(* an object that has none without them, each of them others.               *)
CombinersAddUp(schema) ==
  LET hasParts(node) == DOMAIN Parts(node) # {}
  IN  \A node \in {n \in Everywhere(schema) : BranchesOf(n) # {}} :
        /\ \A b \in BranchesOf(node) :
             /\ "ref" \notin DOMAIN b /\ BranchesOf(b) = {}
             /\ hasParts(b) => ~hasParts(node)
             /\ hasParts(b) => \A c \in BranchesOf(node) \cup {node} : Kinds(c) = {<<"object">>}
        /\ \A b, c \in BranchesOf(node) : b # c => DOMAIN Parts(b) \cap DOMAIN Parts(c) = {}

(* A set that merging made of types, anywhere in a schema.                  *)
HoldsTypeSet(schema) ==
  \E node \in Everywhere(schema) : "type" \in DOMAIN node /\ node.type.form = "set"

(* A reference that the walk made, anywhere in a schema.                    *)
HoldsWalked(schema) ==
  \E node \in Everywhere(schema) : "ref" \in DOMAIN node /\ ~node.ref.raw
=============================================================================
