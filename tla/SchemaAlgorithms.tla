-------------------------- MODULE SchemaAlgorithms --------------------------
(***************************************************************************)
(* What the program computes from a schema, as a machine of a few steps: a *)
(* schema is loaded, which flattens it to look for mistakes                *)
(* (load_resource_spec), and a plugin generates models from what was       *)
(* loaded (resolve_models).                                                *)
(***************************************************************************)
EXTENDS SchemaModels

CONSTANTS Specs,  \* the schemas that are loaded
          Depth   \* how deep the values are that are looked at

VARIABLES
  file,    \* the schema that is read
  stage,   \* how far it is
  flat,    \* what the schema was flattened to
  spec,    \* the schema that was loaded
  models   \* the models made of it

vars == <<file, stage, flat, spec, models>>

Nothing == [map |-> <<>>, full |-> <<>>, failed |-> FALSE]

Init ==
  /\ file \in Specs /\ stage = "begin"
  /\ flat = Nothing /\ spec = <<>> /\ models = <<>>

(* Flattening writes to the schema: a set of types cannot be printed, what  *)
(* the walk made of a reference is no text that RefInliner can resolve, and *)
(* what was changed may no longer validate.  That flattening fails is       *)
(* passed over.  References to other documents are left out.                *)
Load ==
  /\ stage = "begin"
  /\ flat' = Flatten(file)
  /\ \/ /\ ~HoldsTypeSet(flat'.full) /\ ~HoldsWalked(flat'.full)
        /\ stage' = "loaded" /\ spec' = flat'.full
     \/ /\ flat'.full # file
        /\ stage' = "failed" /\ UNCHANGED spec
  /\ UNCHANGED <<file, models>>

(* resolve_models flattens what was loaded once more.                       *)
GenerateModels ==
  /\ stage = "loaded"
  /\ \E flattened \in {Flatten(spec)} :
     IF flattened.failed \/ ResolutionFails(flattened.map)
     THEN stage' = "failed" /\ UNCHANGED models
     ELSE stage' = "generated" /\ models' = ResolveModels(flattened.map)
  /\ UNCHANGED <<file, flat, spec>>

Next == Load \/ GenerateModels

Spec == Init /\ [][Next]_vars

-----------------------------------------------------------------------------
(* The schema map describes the values that the schema describes: combiners *)
(* lose nothing, and every reference leads to an object, through recursion  *)
(* too (JsonSchemaFlattener); where what is recursive is an object.         *)
FlatteningIsFaithful ==
  stage # "begin" /\ ~flat.failed /\ RecursionIsOfObjects(file)
  => FlatLeaves(flat.map, flat.map[<<>>], Depth) = Leaves(file, file, Depth)

(* So do the models that a plugin makes classes of, after the schema was    *)
(* flattened twice (ModelResolver); where combiners only add properties to  *)
(* an object, or list types, and no two of them speak of the same value.    *)
ModelsDescribeTheSchema ==
  stage = "generated" /\ RecursionIsOfObjects(file) /\ CombinersAddUp(file)
  => ModelLeaves(models, BaseModelName, Depth) = Generic(Leaves(file, file, Depth))
=============================================================================
