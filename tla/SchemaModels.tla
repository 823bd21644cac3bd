---------------------------- MODULE SchemaModels ----------------------------
(***************************************************************************)
(* ModelResolver: a model for each object of a flattened schema, named     *)
(* after its path, with a language type for each property.                 *)
(***************************************************************************)
EXTENDS SchemaFlattening

CONSTANT Uppercase  \* names with the first letter of each changed to upper case

BaseModelName == "ResourceModel"

-----------------------------------------------------------------------------
(* Names.                                                                   *)

Unnamed == "no valid class"

(* base_class_from_ref: the last part of the path that is no keyword, or    *)
(* that a keyword makes a name.  The root has no parent.  The position of a *)
(* branch is a number, of which no name can be made.                        *)
BaseClassFromRef(path) ==
  LET parent(i) == IF i = 1 THEN "the base" ELSE path[i - 1]
      names == {i \in DOMAIN path :
                  \/ parent(i) \in {"properties", "definitions"}
                  \/ path[i] \notin {"items", "patternProperties", "properties"}
                     /\ parent(i) # "patternProperties"}
      isBranch(i) == parent(i) = "oneOf" /\ path[i] \in Range(Branches)
  IN  IF names = {} \/ isBranch(Max(names)) THEN Unnamed ELSE Uppercase[path[Max(names)]]

ModelName(path) == IF path = <<>> THEN BaseModelName ELSE BaseClassFromRef(path)

(* Mutant: the later of two objects with a name takes the place of the      *)
(* other.                                                                   *)
NameConflictNot(map) == Unnamed \in {ModelName(path) : path \in DOMAIN map}

(* _models_from_refs fails: a path gives no name, or one that is taken.     *)
NameConflict(map) ==
  \/ Unnamed \in {ModelName(path) : path \in DOMAIN map}
  \/ \E p1, p2 \in DOMAIN map : p1 # p2 /\ ModelName(p1) = ModelName(p2)

-----------------------------------------------------------------------------
(* Types.                                                                   *)

(* The primitive type UNDEFINED.                                            *)
Undefined == [container |-> "undefined"]

Flag(node, key, default) == IF key \in DOMAIN node THEN node[key] ELSE default

(* _get_array_container_type.                                               *)
ArrayContainer(node) ==
  IF Flag(node, "insertionOrder", TRUE) \/ ~Flag(node, "uniqueItems", FALSE) THEN "list" ELSE "set"

Missing == [container |-> "missing"]

(* _schema_to_lang_type: only a list of types is more than one, a set that  *)
(* is left from merging is taken for the name of a primitive type.  A       *)
(* reference that has no name, or was never walked, is a KeyError.          *)
RECURSIVE LangType(_, _)
LangType(names, node) ==
  LET types == Kinds(node)
      is(t) == types = {<<t>>} /\ (IsTyped(node) => node.type.form # "set")
      patterns == Flag(node, "patternProperties", <<>>)
  IN  IF "ref" \in DOMAIN node
      THEN IF ~node.ref.raw /\ node.ref.path \in DOMAIN names
           THEN [container |-> "model", type |-> names[node.ref.path]] ELSE Missing
      ELSE CASE Cardinality(types) > 1 /\ node.type.form = "list" -> [container |-> "multiple"]
             [] is("array") ->
                  [container |-> ArrayContainer(node),
                   type |-> IF "items" \in DOMAIN node THEN LangType(names, node.items) ELSE Undefined]
             [] is("object") ->
                  [container |-> "dict",
                   type |-> IF Cardinality(DOMAIN patterns) = 1
                            THEN LangType(names, patterns[CHOOSE p \in DOMAIN patterns : TRUE])
                            ELSE Undefined]
             [] OTHER -> [container |-> "primitive", type |-> types]

(* resolve_models.                                                          *)
ResolveModels(map) ==
  LET names == [path \in DOMAIN map |-> ModelName(path)]
  IN  [name \in Range(names) |->
         LET path == CHOOSE p \in DOMAIN map : names[p] = name
         IN  [prop \in DOMAIN map[path].properties |-> LangType(names, map[path].properties[prop])]]

RECURSIVE IsMissing(_)
IsMissing(lang) ==
  \/ lang.container = "missing"
  \/ lang.container \in {"list", "set", "dict"} /\ IsMissing(lang.type)

ResolutionFails(map) ==
  \/ NameConflict(map)
  \/ LET models == ResolveModels(map) IN
     \E name \in DOMAIN models : \E prop \in DOMAIN models[name] : IsMissing(models[name][prop])

-----------------------------------------------------------------------------
(* What models are for.                                                     *)

(* What a model, or a language type, says may be found where.  Patterns     *)
(* have one name, any.                                                      *)
RECURSIVE ModelLeaves(_, _, _)
RECURSIVE LangLeaves(_, _, _)
LangLeaves(models, lang, depth) ==
  LET below(part) ==
        IF depth = 0 \/ lang.type.container = "undefined" THEN {}
        ELSE Below(part, LangLeaves(models, lang.type, depth - 1))
  IN  CASE lang.container = "model" -> ModelLeaves(models, lang.type, depth)
        [] lang.container = "primitive" -> {Leaf(type) : type \in lang.type}
        [] lang.container = "multiple" -> {Leaf(<<"multiple">>)}
        [] lang.container = "dict" -> {Leaf(<<"object">>)} \cup below(<<"patternProperties", "any">>)
        [] OTHER -> {Leaf(<<"array">>)} \cup below(<<"items">>)
ModelLeaves(models, name, depth) ==
  {Leaf(<<"object">>)}
  \cup IF depth = 0 THEN {}
       ELSE UNION {Below(<<"properties", prop>>, LangLeaves(models, models[name][prop], depth - 1)) :
                     prop \in DOMAIN models[name]}

(* Where there are several types, the language has one for them all.        *)
Generic(leaves) ==
  LET several == {leaf.at : leaf \in {l \in leaves : \E m \in leaves : l.at = m.at /\ l.type # m.type}}
      within(at) == \E place \in several : IsPrefix(place, at)
  IN  {leaf \in leaves : ~within(leaf.at)}
      \cup {[at |-> place, type |-> <<"multiple">>] :
              place \in {p \in several : \A q \in several : ~IsStrictPrefix(q, p)}}
=============================================================================
