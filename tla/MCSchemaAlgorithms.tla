------------------------ MODULE MCSchemaAlgorithms ------------------------
(* An instance of SchemaAlgorithms for TLC: schemas with two definitions.   *)
EXTENDS SchemaAlgorithms

OfType(name) == [type |-> [form |-> "one", of |-> {<<name>>}]]
StringNode == OfType("string")
NumberNode == OfType("integer")
ObjectNode(props) == OfType("object") @@ [properties |-> props]
MapNode(items) == OfType("object") @@ [patternProperties |-> [any |-> items]]
ArrayNode(items) == OfType("array") @@ [items |-> items]
RefNode(name) == Raw(<<"definitions", name>>)
OneOf(node, first, second) == node @@ [oneOf |-> ("0" :> first @@ "1" :> second)]

Definitions ==
  {StringNode, RefNode("B"), ArrayNode(RefNode("B")),
   ObjectNode([x |-> StringNode]),
   ObjectNode([x |-> RefNode("A"), y |-> RefNode("B")]),
   MapNode(RefNode("A")),
   ArrayNode(ObjectNode([x |-> RefNode("A")])),
   OneOf(OfType("object"), ObjectNode([y |-> StringNode]), ObjectNode([z |-> RefNode("A")])),
   [type |-> [form |-> "list", of |-> {<<"string">>, <<"integer">>}]]}

Nodes ==
  {StringNode, RefNode("A"), ArrayNode(RefNode("A")), MapNode(RefNode("B")),
   ObjectNode([x |-> RefNode("A"), y |-> NumberNode]),
   ArrayNode(StringNode) @@ [insertionOrder |-> FALSE, uniqueItems |-> TRUE],
   OneOf(ObjectNode([x |-> StringNode]), ObjectNode([y |-> RefNode("A")]), ObjectNode([z |-> NumberNode])),
   OneOf(ObjectNode([x |-> StringNode]), ObjectNode([y |-> ObjectNode([x |-> NumberNode])]), <<>>),
   OneOf(OfType("object"), ObjectNode([y |-> RefNode("A")]), ObjectNode([z |-> ObjectNode([x |-> NumberNode])])),
   OneOf(<<>>, StringNode, ArrayNode(StringNode)),
   OneOf(<<>>, StringNode, RefNode("A")),
   OneOf(<<>>, RefNode("A"), RefNode("B")),
   OneOf(ObjectNode([x |-> StringNode]), RefNode("A"), <<>>),
   OneOf(ObjectNode([x |-> StringNode]), ObjectNode([x |-> NumberNode]), <<>>),
   OneOf(<<>>, OfType("array") @@ [insertionOrder |-> FALSE], OfType("array") @@ [insertionOrder |-> TRUE]),
   ObjectNode([x |-> StringNode]) @@ MapNode(StringNode)}

(* Definitions that refer to each other, combiners in the root, and a model  *)
(* that may have the name of a definition.                                  *)
SomeSpecs ==
  {[definitions |-> [A |-> a, B |-> b], properties |-> [p |-> n, q |-> RefNode("B")]] :
     a \in Definitions, b \in Definitions, n \in Nodes}
  \cup {[definitions |-> [A |-> a, B |-> StringNode], properties |-> [a |-> n],
         oneOf |-> ("0" :> [properties |-> [q |-> m]])] :
          a \in Definitions, n \in Nodes, m \in Nodes}
  \cup {[definitions |-> [A |-> a, B |-> StringNode], properties |-> [a |-> n, q |-> RefNode("A")]] :
          a \in Definitions, n \in Nodes}

FirstLetters == [a |-> "A", p |-> "P", q |-> "Q", x |-> "X", y |-> "Y", z |-> "Z"]
SomeUppercase ==
  [name \in {"A", "B", "P", "Q"} \cup DOMAIN FirstLetters |->
     IF name \in DOMAIN FirstLetters THEN FirstLetters[name] ELSE name]
=============================================================================
