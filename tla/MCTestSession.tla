--------------------------- MODULE MCTestSession ---------------------------
(* Instances of TestSession for TLC.                                        *)
EXTENDS TestSession

Exact(t) == [types |-> {t}, wildcard |-> FALSE]
Pattern(ts) == [types |-> ts, wildcard |-> TRUE]

Create == "CREATE_PRE_PROVISION"
Update == "UPDATE_PRE_PROVISION"
Delete == "DELETE_PRE_PROVISION"

(* Exact names; a pattern, next to a name it matches; a pattern that        *)
(* matches nothing known.                                                   *)
HookSchemas ==
  {(Create :> {Exact(1), Exact(2)}),
   (Update :> {Pattern({1, 2, 3}), Exact(2)}) @@ (Delete :> {Pattern({3})})}

File(n, kind) == [n |-> n, kind |-> kind, targets |-> Targets, broken |-> FALSE]
CompleteSet(n) ==
  {File(n, Valid(Create)), File(n, Invalid(Create)), File(n, Valid(Update)),
   File(n, Valid(Delete)), File(n, Invalid("any"))}

(* No folder, a folder without a first set, two sets, a gap before the      *)
(* tenth, a set that lacks files and targets, and one that is no JSON.      *)
InputFolders ==
  {NoFolder, CompleteSet(2), CompleteSet(1) \cup CompleteSet(2),
   CompleteSet(1) \cup {File(10, Valid(Update))},
   CompleteSet(1) \cup {[File(2, Valid(Create)) EXCEPT !.targets = {2}]},
   {[File(1, Valid(Create)) EXCEPT !.broken = TRUE]},
   {File(1, Valid("CREATE")), File(1, Valid("UPDATE")), File(2, Valid("UPDATE"))}}

TenSets == {{File(n, Valid("CREATE")) : n \in 1 .. 10}}

AllDefects == Defect
=============================================================================
