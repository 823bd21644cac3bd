------------------------- MODULE MCModelComparison -------------------------
(* An instance of ModelComparison for TLC: small schemas with every model   *)
(* of theirs, with one or two values and lists of two or three members.     *)
EXTENDS ModelComparison

N(path, k) == [at |-> path, k |-> k, ordered |-> TRUE, to |-> ""]
A(path, ordered) == [N(path, "array") EXCEPT !.ordered = ordered]
R(path, name) == [N(path, "ref") EXCEPT !.to = name]

Schema(properties, definitions) ==
  [root |-> <<N(<<>>, "object")>> \o properties, definitions |-> definitions,
   readOnly |-> {}, writeOnly |-> {}, createOnly |-> {}]
Object(properties) == <<N(<<>>, "object")>> \o properties

(* Each schema with the longest list and the number of values to try.       *)
ComparedSchemas ==
  {[schema |-> [Schema(<<N(<<"a">>, "scalar"), A(<<"l">>, FALSE), N(<<"l", "*">>, "scalar"), N(<<"id">>, "scalar")>>, <<>>)
                  EXCEPT !.createOnly = {<<"a">>}, !.readOnly = {<<"id">>}],
    longest |-> 3, values |-> {"1", "2"}],
   [schema |-> [Schema(<<R(<<"o">>, "O")>>,
                       [O |-> Object(<<N(<<"w">>, "scalar"), R(<<"p">>, "Q"), A(<<"l">>, FALSE), N(<<"l", "*">>, "scalar")>>),
                        Q |-> Object(<<N(<<"x">>, "scalar")>>)])
                  EXCEPT !.writeOnly = {<<"o", "w">>}, !.createOnly = {<<"o", "p", "x">>}],
    longest |-> 2, values |-> {"1", "2"}],
   [schema |-> [Schema(<<A(<<"t">>, TRUE), R(<<"t", "*">>, "T")>>,
                       [T |-> Object(<<N(<<"k">>, "scalar"), N(<<"s">>, "scalar")>>)])
                  EXCEPT !.writeOnly = {<<"t", "*", "s">>}],
    longest |-> 2, values |-> {"1", "2"}],
   [schema |-> [Schema(<<A(<<"t">>, FALSE), R(<<"t", "*">>, "T")>>,
                       [T |-> Object(<<N(<<"k">>, "scalar"), N(<<"r">>, "scalar")>>)])
                  EXCEPT !.readOnly = {<<"t", "*", "r">>}],
    longest |-> 3, values |-> {"1"}],
   [schema |-> Schema(<<A(<<"t">>, TRUE), R(<<"t", "*">>, "T")>>,
                      [T |-> Object(<<A(<<"l">>, FALSE), N(<<"l", "*">>, "scalar")>>)]),
    longest |-> 2, values |-> {"1", "2"}],
   [schema |-> Schema(<<A(<<"l">>, FALSE), A(<<"l", "*">>, FALSE), N(<<"l", "*", "*">>, "scalar")>>, <<>>),
    longest |-> 2, values |-> {"1", "2"}],
   [schema |-> [Schema(<<A(<<"t">>, FALSE), N(<<"t", "*">>, "object"), A(<<"t", "*", "l">>, TRUE),
                         N(<<"t", "*", "l", "*">>, "scalar"), N(<<"o">>, "object"), N(<<"o", "r">>, "scalar")>>, <<>>)
                  EXCEPT !.readOnly = {<<"o">>, <<"o", "r">>}, !.createOnly = {<<"t", "l">>}],
    longest |-> 2, values |-> {"1"}]}

(* A value, and below each of some steps another document.                  *)
Tree(value, below) ==
  [p \in {<<>>} \cup UNION {{<<step>> \o q : q \in DOMAIN below[step]} : step \in DOMAIN below} |->
     IF p = <<>> THEN value ELSE below[Head(p)][Tail(p)]]

Lists(members, longest) == UNION {[1 .. n -> members] : n \in 0 .. longest}

(* Every value of a node; each property of an object may be left out.       *)
RECURSIVE Values(_, _)
Values(s, place) ==
  LET node == NodeAt(place) IN
  CASE node.k = "scalar" -> {Tree([k |-> "scalar", v |-> v], <<>>) : v \in s.values}
    [] node.k = "ref" -> Values(s, Resolved(s.schema, place))
    [] node.k = "array" ->
         {Tree([k |-> "list", len |-> Len(list)], [step \in {Member(i) : i \in DOMAIN list} |-> list[step.at]]) :
            list \in Lists(Values(s, Child(place, "*")), s.longest)}
    [] node.k = "object" ->
         LET keys == {key \in {Last(n.at) : n \in {n \in ToSet(place.nodes) : n.at # <<>>}} :
                        NodeAt(Child(place, key)) # NoNode}
             with(key, dicts) ==
               dicts \cup {(Key(key) :> v) @@ dict : dict \in dicts, v \in Values(s, Child(place, key))}
         IN  {Tree([k |-> "dict"], dict) : dict \in FoldSet(with, {<<>>}, keys)}

SomeSchemas == {s.schema : s \in ComparedSchemas}
SomeDocuments ==
  [schema \in SomeSchemas |->
     LET s == CHOOSE s \in ComparedSchemas : s.schema = schema IN Values(s, Root(schema))]
=============================================================================
