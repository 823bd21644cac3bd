----------------------------- MODULE TypeNames -----------------------------
(***************************************************************************)
(* Type names and the patterns that stand for them (TypeNameResolver).  A  *)
(* name is a sequence of characters, a pattern one that holds a wildcard.  *)
(***************************************************************************)
EXTENDS Naturals, SequencesExt

CONSTANT MinPrefix  \* how short a prefix TYPE_NAME_PREFIX_REGEX accepts

ASSUME MinPrefixAssumption == MinPrefix \in Nat \ {0}

ContainsWildcard(pattern) == \E i \in DOMAIN pattern : pattern[i] \in {"*", "?"}

(* fnmatch: `*` is any sequence of characters, `?` any one character.       *)
(* begin[i] is where the part of the name begins that character i matches.  *)
Matches(pattern, name) ==
  \E begin \in [1 .. Len(pattern) + 1 -> 1 .. Len(name) + 1] :
    /\ begin[1] = 1 /\ begin[Len(pattern) + 1] = Len(name) + 1
    /\ \A i \in DOMAIN pattern :
         IF pattern[i] = "*" THEN begin[i] <= begin[i + 1]
         ELSE begin[i + 1] = begin[i] + 1 /\ pattern[i] \in {name[begin[i]], "?"}

(* _resolve_types: a name stands for itself, known or not, a pattern for    *)
(* those of the applicable types that it matches.                           *)
ResolveTypes(targets, applicable) ==
  {t \in targets : ~ContainsWildcard(t)} \cup
  {t \in applicable : \E p \in targets : ContainsWildcard(p) /\ Matches(p, t)}

(* Mutant: the prefix is not cut at a `?`.                                  *)
FilterPrefixLiteral(targets) ==
  LET common == LongestCommonPrefix(targets)
      wild == {i \in DOMAIN common : common[i] = "*"}
      prefix == IF wild = {} THEN common ELSE SubSeq(common, 1, Min(wild) - 1)
  IN  IF Len(prefix) >= MinPrefix THEN prefix ELSE <<>>

(* _create_list_types_request: what the names and patterns have in common   *)
(* up to the first wildcard is the prefix to list; an empty one lists all.  *)
FilterPrefix(targets) ==
  LET common == LongestCommonPrefix(targets)
      wild == {i \in DOMAIN common : common[i] \in {"*", "?"}}
      prefix == IF wild = {} THEN common ELSE SubSeq(common, 1, Min(wild) - 1)
  IN  IF Len(prefix) >= MinPrefix THEN prefix ELSE <<>>
=============================================================================
