--------------------------- MODULE TargetInfoProofs ---------------------------
(***************************************************************************)
(* Theorems about TargetInfo, for any types, hooks, files and documents,   *)
(* any registry and any changes of it.                                     *)
(***************************************************************************)
EXTENDS TargetInfo, TLAPS, FiniteSetTheorems, SequenceTheorems, WellFoundedInduction

-----------------------------------------------------------------------------
(* Types.                                                                   *)

LEMMA ConstantFacts ==
  /\ Sorted \in Seq(Names)
  /\ Len(Sorted) \in Nat /\ DOMAIN Sorted = 1 .. Len(Sorted)
  /\ \A i \in DOMAIN Sorted : Sorted[i] \in Names
  /\ NoSchemas \in [Names -> Versions \cup {None}]
  /\ None \notin Versions /\ Bare \notin Versions /\ None # Bare
<1>1. \A i \in DOMAIN Sorted : Sorted[i] \in Names
  BY DEF Names, ToSet
<1>2. Sorted \in Seq(Seq(STRING))
  BY NamesAssumption
<1>3. Sorted \in Seq(Names)
  BY <1>1, <1>2
<1> QED BY <1>1, <1>3, VersionsAssumption DEF NoSchemas

LEMMA ProjectType ==
  ASSUME TypeOK
  PROVE  /\ project.infoFile.types \in [Names -> Versions \cup {None, Bare}]
         /\ project.arguments \in Seq(Document) /\ project.folder \in Seq(Document)
<1>1. project \in [targets : TargetSets, infoFile : InfoFiles, arguments : Arguments \cup {<<>>},
                  folder : Folders]
  BY DEF TypeOK
<1>2. project.infoFile \in InfoFile
  BY <1>1, FilesAssumption
<1>3. project.arguments \in Arguments \cup {<<>>} /\ project.folder \in Folders
  BY <1>1
<1>4. <<>> \in Seq(Document)
  OBVIOUS
<1> QED BY <1>2, <1>3, <1>4, FilesAssumption DEF InfoFile

LEMMA Element ==
  ASSUME NEW S, NEW s \in Seq(S), NEW k \in DOMAIN s
  PROVE  s[k] \in S
  OBVIOUS

LEMMA Concatenation ==
  ASSUME NEW S, NEW s \in Seq(S), NEW t \in Seq(S)
  PROVE  s \o t \in Seq(S) /\ Len(s \o t) \in Nat
  OBVIOUS

LEMMA DocumentsType ==
  ASSUME TypeOK
  PROVE  Documents \in Seq(Document) /\ Len(Documents) \in Nat
  BY ProjectType, Concatenation DEF Documents

LEMMA InitType == Init => TypeOK
<1> SUFFICES ASSUME Init PROVE TypeOK
  OBVIOUS
<1>1. registry \in [Names -> Entry]
  BY RegistriesAssumption DEF Init
<1>2. project \in [targets : TargetSets, infoFile : InfoFiles, arguments : Arguments \cup {<<>>},
                  folder : Folders]
  BY DEF Init
<1>3. local \in BOOLEAN
  BY DEF Init
<1>4. passed \in 0 .. Len(Sorted) /\ read \in Nat
  BY ConstantFacts DEF Init
<1>5. schemas \in [Names -> Versions \cup {None}] /\ info \in [Names -> Versions \cup {None}]
  BY ConstantFacts DEF Init
<1> QED BY <1>1, <1>2, <1>3, <1>4, <1>5 DEF Init, TypeOK

LEMMA FailType ==
  ASSUME TypeOK, NEW code \in {"1", "2", "127"}, Fail(code),
         UNCHANGED <<command, project, registry, touched>>
  PROVE  TypeOK'
<1>1. passed' \in 0 .. Len(Sorted) /\ read' \in Nat
  BY ConstantFacts DEF Fail
<1>2. schemas' \in [Names -> Versions \cup {None}] /\ info' \in [Names -> Versions \cup {None}]
  BY ConstantFacts DEF Fail
<1>3. /\ local' \in BOOLEAN /\ pc' \in {"read", "done"}
      /\ outcome' \in {"none", "loaded", "ignored", "1", "2", "127"}
  BY DEF Fail, TypeOK
<1>4. applicable' = {} /\ todo' = {}
  BY DEF Fail
<1> QED BY <1>1, <1>2, <1>3, <1>4 DEF TypeOK

LEMMA AddedType ==
  ASSUME TypeOK, NEW i \in 1 .. Len(Documents)
  PROVE  Added(Documents[i].types) \in [Names -> Versions \cup {None}]
<1>1. Documents[i] \in Document
  BY DocumentsType
<1> DEFINE types == Documents[i].types
<1>2. types \in Seq([name : Names, schema : Versions])
  BY <1>1 DEF Document
<1> HIDE DEF types
<1>3. ASSUME NEW t \in Names, \E k \in DOMAIN types : types[k].name = t
      PROVE  types[CHOOSE k \in DOMAIN types : types[k].name = t].schema \in Versions
  <2> DEFINE k == CHOOSE x \in DOMAIN types : types[x].name = t
  <2>1. k \in DOMAIN types
    BY <1>3
  <2> HIDE DEF k
  <2>2. types[k] \in [name : Names, schema : Versions]
    BY <1>2, <2>1, Element
  <2>3. types[k].schema \in Versions
    BY <2>2
  <2> QED BY <2>3 DEF k
<1>4. \A t \in Names : schemas[t] \in Versions \cup {None}
  BY DEF TypeOK
<1> QED BY <1>3, <1>4 DEF Added, types

(* What is known locally and agrees with itself has a schema.               *)
LEMMA LocalSchemaType ==
  ASSUME TypeOK, NEW t \in Names, Known(t), Agree(t)
  PROVE  LocalSchema(t) \in Versions
  BY ProjectType, ConstantFacts DEF TypeOK, Known, Agree, LocalSchema, InInfoFile

LEMMA NextType == TypeOK /\ [Next]_vars => TypeOK'
<1> SUFFICES ASSUME TypeOK, [Next]_vars PROVE TypeOK'
  OBVIOUS
<1>1. CASE Read
  <2>1. ASSUME NEW code \in {"1", "127"}, Fail(code) PROVE TypeOK'
    BY <2>1, <1>1, FailType DEF Read
  <2>2. CASE \A code \in {"1", "127"} : ~Fail(code)
    <3>1. /\ UNCHANGED <<command, project, registry, touched>>
          /\ UNCHANGED <<local, passed, applicable, read, schemas, info>>
      BY <2>2, <1>1 DEF Read
    <3>2. /\ pc' \in {"public", "schemas"} /\ outcome' = outcome
          /\ todo' = todo \/ todo' \subseteq DOMAIN Sorted
      BY <2>2, <1>1 DEF Read, Goto, Resolved
    <3> QED BY <3>1, <3>2 DEF TypeOK
  <2> QED BY <2>1, <2>2
<1>2. CASE ListTypes
  <2> USE <1>2
  <2>1. PICK n \in 1 .. PageSize :
          LET upto == IF passed + n > Len(Sorted) THEN Len(Sorted) ELSE passed + n
              page == {t \in ToSet(SubSeq(Sorted, passed + 1, upto)) :
                         Visible(t) /\ IsPrefix(Prefix[project.targets], t) /\ TypeEnabled(t)}
          IN  /\ applicable' = applicable \cup page
              /\ IF upto < Len(Sorted)
                 THEN passed' = upto /\ UNCHANGED <<pc, todo, outcome>>
                 ELSE /\ passed' = 0
                      /\ IF pc = "public" THEN Goto("private") /\ UNCHANGED todo
                         ELSE Goto("schemas") /\ Resolved(applicable')
    BY DEF ListTypes
  <2> DEFINE upto == IF passed + n > Len(Sorted) THEN Len(Sorted) ELSE passed + n
  <2>2. upto \in 0 .. Len(Sorted) /\ passed \in Nat /\ Len(Sorted) \in Nat
    BY ConstantFacts, BoundsAssumption DEF TypeOK
  <2>3. ToSet(SubSeq(Sorted, passed + 1, upto)) \subseteq Names
    BY <2>2, ConstantFacts DEF ToSet
  <2>4. applicable' \subseteq Names
    BY <2>1, <2>3 DEF TypeOK
  <2>5. /\ passed' = upto \/ passed' = 0
        /\ todo' = todo \/ Resolved(applicable')
    BY <2>1
  <2>6. passed' \in 0 .. Len(Sorted) /\ todo' \subseteq DOMAIN Sorted
    BY <2>5, <2>2 DEF TypeOK, Resolved
  <2>7. pc' \in {"public", "private", "schemas"} /\ outcome' = outcome
    BY <2>1 DEF ListTypes, Goto
  <2> QED BY <2>4, <2>6, <2>7 DEF ListTypes, TypeOK
<1>3. CASE LoadDocument
  <2>1. ASSUME Fail("127") PROVE TypeOK'
    BY <2>1, <1>3, FailType DEF LoadDocument
  <2>2. CASE ~Fail("127")
    <3>1. CASE read = Len(Documents)
      BY <3>1, <2>2, <1>3, DocumentsType DEF LoadDocument, TypeOK, Goto
    <3>2. CASE read < Len(Documents)
      <4>1. read + 1 \in 1 .. Len(Documents)
        BY <3>2, DocumentsType DEF TypeOK
      <4>2. schemas' = Added(Documents[read + 1].types) /\ read' = read + 1
        BY <3>2, <2>2, <1>3, DocumentsType DEF LoadDocument, TypeOK
      <4>3. UNCHANGED <<command, project, local, pc, passed, applicable, todo, info, outcome,
                        registry, touched>>
        BY <3>2, <2>2, <1>3, DocumentsType DEF LoadDocument, TypeOK
      <4> QED BY <4>1, <4>2, <4>3, AddedType DEF TypeOK
    <3> QED BY <3>1, <3>2, <1>3, DocumentsType DEF LoadDocument, TypeOK
  <2> QED BY <2>1, <2>2
<1>4. CASE LoadTypeInfo
  <2>1. ASSUME NEW code \in {"2", "127"}, Fail(code) PROVE TypeOK'
    BY <2>1, <1>4, FailType DEF LoadTypeInfo
  <2>2. CASE \A code \in {"2", "127"} : ~Fail(code)
    <3>1. CASE todo = {}
      BY <3>1, <2>2, <1>4 DEF LoadTypeInfo, TypeOK
    <3>2. CASE todo # {}
      <4>1. PICK i \in todo :
              LET t == Sorted[i] IN
              /\ IF Known(t) THEN Agree(t) ELSE ~local /\ Described(t)
              /\ info' = [info EXCEPT ![t] =
                            IF Known(t) THEN LocalSchema(t) ELSE registry[t].schema]
              /\ todo' = todo \ {i}
              /\ UNCHANGED <<local, pc, passed, applicable, read, schemas, outcome>>
        BY <3>2, <2>2, <1>4 DEF LoadTypeInfo
      <4>2. Sorted[i] \in Names
        BY <4>1, ConstantFacts DEF TypeOK
      <4>3. registry[Sorted[i]].schema \in Versions
        BY <4>2 DEF TypeOK, Entry
      <4>4. info' \in [Names -> Versions \cup {None}]
        BY <4>1, <4>2, <4>3, LocalSchemaType DEF TypeOK
      <4> QED BY <4>1, <4>4, <1>4 DEF LoadTypeInfo, TypeOK
    <3> QED BY <3>1, <3>2
  <2> QED BY <2>1, <2>2
<1>5. CASE CallRefused \/ FetchFails
  BY <1>5, FailType DEF CallRefused, FetchFails
<1>6. CASE RegistryChanges
  BY <1>6 DEF RegistryChanges, TypeOK, attempt
<1>7. CASE UNCHANGED vars
  BY <1>7 DEF vars, attempt, TypeOK
<1> QED BY <1>1, <1>2, <1>3, <1>4, <1>5, <1>6, <1>7 DEF Next, Load

(* The state of a load has its type (_load_target_info, TypeSchemaLoader).  *)
THEOREM TypeCorrect == Spec => []TypeOK
<1>1. Init => TypeOK
  BY InitType
<1>2. TypeOK /\ [Next]_vars => TypeOK'
  BY NextType
<1> QED BY <1>1, <1>2, PTL DEF Spec

-----------------------------------------------------------------------------
(* Schemas.  What holds on the way to SchemasAreRight and PackageIsWhole.   *)

ControlInv ==
  /\ pc \notin {"describe", "done"} => info = NoSchemas
  /\ outcome # "none" <=> pc = "done"
  /\ outcome \notin {"none", "loaded"} => info = NoSchemas
  /\ outcome = "loaded" => todo = {}

(* The schemas are those of the documents read so far.                      *)
DocumentsInv ==
  /\ read <= Len(Documents)
  /\ pc = "describe" \/ outcome = "loaded" => read = Len(Documents)
  /\ \A i \in 1 .. read : \A j \in DOMAIN Documents[i].types :
       schemas[Documents[i].types[j].name] = Documents[i].types[j].schema
  /\ \A t \in Names : schemas[t] # None =>
       \E i \in 1 .. read : Contains(Documents[i].types, [name |-> t, schema |-> schemas[t]])

RightSchema(t) ==
  IF OwnSchemas(t) # {} THEN OwnSchemas(t) = {info[t]}
  ELSE ~local /\ (t \notin touched => registry[t].schema = info[t])

InfoInv == \A t \in Names : info[t] # None => RightSchema(t)

(* A type that the hook names has its schema, or will get it.               *)
TargetsInv ==
  pc \in {"schemas", "describe"} \/ outcome = "loaded" =>
    \A i \in DOMAIN Sorted :
      Sorted[i] \in Targets => i \in todo \/ info[Sorted[i]] # None

LoadInv == TypeOK /\ ControlInv /\ DocumentsInv /\ InfoInv /\ TargetsInv

LEMMA LoadInvImplies == LoadInv => SchemasAreRight /\ PackageIsWhole
<1> SUFFICES ASSUME LoadInv PROVE SchemasAreRight /\ PackageIsWhole
  OBVIOUS
<1>1. SchemasAreRight
  BY DEF LoadInv, InfoInv, RightSchema, SchemasAreRight
<1>2. CASE outcome = "loaded"
  <2>1. ASSUME NEW t \in Targets, ~ContainsWildcard(t) PROVE info[t] # None
    <3>1. t \in Names
      BY <2>1, TargetsAssumption DEF Targets, LoadInv, TypeOK
    <3>2. PICK i \in DOMAIN Sorted : Sorted[i] = t
      BY <3>1 DEF Names, ToSet
    <3> QED BY <3>2, <2>1, <1>2 DEF LoadInv, TargetsInv, ControlInv
  <2> QED BY <1>1, <2>1, <1>2 DEF PackageIsWhole
<1>3. CASE outcome # "loaded"
  BY <1>1, <1>3, ConstantFacts DEF LoadInv, ControlInv, PackageIsWhole, NoSchemas
<1> QED BY <1>1, <1>2, <1>3

LEMMA InitLoadInv == Init => LoadInv
<1> SUFFICES ASSUME Init PROVE LoadInv
  OBVIOUS
<1>1. TypeOK
  BY InitType
<1>2. /\ pc = "read" /\ outcome = "none" /\ read = 0
      /\ info = NoSchemas /\ schemas = NoSchemas
  BY DEF Init
<1>3. 0 <= Len(Documents)
  BY <1>1, DocumentsType
<1>4. \A t \in Names : NoSchemas[t] = None
  BY DEF NoSchemas
<1>5. ControlInv
  BY <1>2 DEF ControlInv
<1>6. DocumentsInv
  BY <1>2, <1>3, <1>4 DEF DocumentsInv
<1> QED BY <1>1, <1>2, <1>4, <1>5, <1>6 DEF LoadInv, InfoInv, TargetsInv

(* An attempt that fails leaves nothing behind.                             *)
LEMMA FailLoadInv ==
  ASSUME LoadInv, NEW code \in {"1", "2", "127"}, Fail(code),
         pc # "done", UNCHANGED <<command, project, registry, touched>>
  PROVE  LoadInv'
<1>1. TypeOK'
  BY FailType DEF LoadInv
<1>2. /\ info' = NoSchemas /\ schemas' = NoSchemas /\ read' = 0
      /\ \/ pc' = "read" /\ outcome' = "none"
         \/ pc' = "done" /\ outcome' \in {"ignored", "1", "2", "127"}
  BY DEF Fail, LoadInv, ControlInv
<1>3. 0 <= Len(Documents) /\ Documents' = Documents
  <2>1. Len(Documents) \in Nat
    BY DocumentsType DEF LoadInv
  <2>2. Documents' = Documents
    BY DEF Documents
  <2> QED BY <2>1, <2>2
<1>4. \A t \in Names : NoSchemas[t] = None
  BY DEF NoSchemas
<1>5. ControlInv'
  BY <1>2 DEF ControlInv
<1>6. DocumentsInv'
  BY <1>2, <1>3, <1>4 DEF DocumentsInv
<1>7. InfoInv' /\ TargetsInv'
  BY <1>2, <1>4 DEF InfoInv, TargetsInv
<1> QED BY <1>1, <1>5, <1>6, <1>7 DEF LoadInv

(* A document that contradicts nothing keeps the schemas read before.       *)
LEMMA DocumentRead ==
  ASSUME LoadInv, read < Len(Documents), ~Contradicts(Documents[read + 1].types),
         schemas' = Added(Documents[read + 1].types), read' = read + 1,
         UNCHANGED <<project, pc, outcome>>, pc = "schemas"
  PROVE  DocumentsInv'
<1> DEFINE types == Documents[read + 1].types
<1>1. read \in Nat /\ Len(Documents) \in Nat /\ read + 1 \in 1 .. Len(Documents)
  BY DocumentsType DEF LoadInv, TypeOK
<1>2. Documents \in Seq(Document) /\ Documents' = Documents
  BY DocumentsType DEF LoadInv, Documents
<1>3. \A i \in 1 .. Len(Documents) : Documents[i].types \in Seq([name : Names, schema : Versions])
  <2> SUFFICES ASSUME NEW i \in 1 .. Len(Documents)
               PROVE  Documents[i].types \in Seq([name : Names, schema : Versions])
    OBVIOUS
  <2>1. Documents[i] \in Document
    BY <1>2, Element
  <2> QED BY <2>1 DEF Document
<1>4. \A i \in 1 .. Len(Documents) : \A j \in DOMAIN Documents[i].types :
        Documents[i].types[j] \in [name : Names, schema : Versions]
  BY <1>3, Element
<1> HIDE DEF types
<1>5. types \in Seq([name : Names, schema : Versions])
  BY <1>1, <1>3 DEF types
<1>6. \A j \in DOMAIN types : types[j] \in [name : Names, schema : Versions]
  BY <1>5, Element
(* Each type of the document gets the schema that it has there.             *)
<1>7. ASSUME NEW j \in DOMAIN types
      PROVE  schemas'[types[j].name] = types[j].schema
  <2> DEFINE t == types[j].name
             k == CHOOSE i \in DOMAIN types : types[i].name = t
  <2>1. t \in Names
    BY <1>6
  <2>2. k \in DOMAIN types /\ types[k].name = t
    OBVIOUS
  <2>3. schemas'[t] = types[k].schema
    BY <2>1, <2>2 DEF Added, types
  <2>4. types[j].schema = types[k].schema
    BY <2>2 DEF Contradicts, types
  <2> QED BY <2>3, <2>4
(* A type that had a schema keeps it.                                       *)
<1>8. ASSUME NEW t \in Names, schemas[t] # None
      PROVE  schemas'[t] = schemas[t]
  <2>1. CASE \E j \in DOMAIN types : types[j].name = t
    <3>1. PICK j \in DOMAIN types : types[j].name = t
      BY <2>1
    <3>2. schemas[t] = types[j].schema
      BY <3>1, <1>8 DEF Contradicts, types
    <3> QED BY <3>1, <3>2, <1>7
  <2>2. CASE ~\E j \in DOMAIN types : types[j].name = t
    BY <2>2 DEF Added, types
  <2> QED BY <2>1, <2>2
<1>9. \A i \in 1 .. read + 1 : \A j \in DOMAIN Documents[i].types :
        schemas'[Documents[i].types[j].name] = Documents[i].types[j].schema
  <2> SUFFICES ASSUME NEW i \in 1 .. read + 1, NEW j \in DOMAIN Documents[i].types
               PROVE  schemas'[Documents[i].types[j].name] = Documents[i].types[j].schema
    OBVIOUS
  <2>1. CASE i = read + 1
    BY <2>1, <1>7 DEF types
  <2>2. CASE i \in 1 .. read
    <3>1. i \in 1 .. Len(Documents)
      BY <2>2, <1>1
    <3>2. Documents[i].types[j] \in [name : Names, schema : Versions]
      BY <3>1, <1>4
    <3>3. schemas[Documents[i].types[j].name] = Documents[i].types[j].schema
      BY <2>2 DEF LoadInv, DocumentsInv
    <3>4. Documents[i].types[j].name \in Names /\ Documents[i].types[j].schema # None
      BY <3>2, ConstantFacts
    <3> QED BY <3>3, <3>4, <1>8
  <2> QED BY <2>1, <2>2, <1>1
<1>10. ASSUME NEW t \in Names, schemas'[t] # None
       PROVE  \E i \in 1 .. read + 1 :
                Contains(Documents[i].types, [name |-> t, schema |-> schemas'[t]])
  <2>1. CASE \E j \in DOMAIN types : types[j].name = t
    <3>1. PICK j \in DOMAIN types : types[j].name = t
      BY <2>1
    <3>2. types[j] = [name |-> t, schema |-> schemas'[t]]
      BY <3>1, <1>6, <1>7
    <3>3. j \in 1 .. Len(types)
      BY <1>5
    <3>4. Contains(types, [name |-> t, schema |-> schemas'[t]])
      BY <3>2, <3>3 DEF Contains
    <3> QED BY <3>4, <1>1 DEF types
  <2>2. CASE ~\E j \in DOMAIN types : types[j].name = t
    <3>1. schemas'[t] = schemas[t]
      BY <2>2 DEF Added, types
    <3>2. PICK i \in 1 .. read :
                 Contains(Documents[i].types, [name |-> t, schema |-> schemas[t]])
      BY <3>1, <1>10 DEF LoadInv, DocumentsInv
    <3>3. i \in 1 .. read + 1
      BY <1>1
    <3> QED BY <3>1, <3>2, <3>3
  <2> QED BY <2>1, <2>2
<1> QED BY <1>1, <1>2, <1>9, <1>10 DEF DocumentsInv, LoadInv, ControlInv

(* Once all documents are read, a type has the schemas in target-info.json  *)
(* and the one that was read.                                               *)
LEMMA OwnSchemasAre ==
  ASSUME LoadInv, read = Len(Documents), NEW t \in Names
  PROVE  OwnSchemas(t) = ({project.infoFile.types[t]} \cap Versions) \cup ({schemas[t]} \ {None})
<1>1. ASSUME NEW v \in Versions, NEW i \in DOMAIN Documents,
             Contains(Documents[i].types, [name |-> t, schema |-> v])
      PROVE  schemas[t] = v
  <2>1. PICK j \in 1 .. Len(Documents[i].types) :
               Documents[i].types[j] = [name |-> t, schema |-> v]
    BY <1>1 DEF Contains
  <2>2. Documents \in Seq(Document)
    BY DocumentsType DEF LoadInv
  <2>3. Documents[i] \in Document
    BY <2>2, Element
  <2>4. Documents[i].types \in Seq([name : Names, schema : Versions])
    BY <2>3 DEF Document
  <2>5. j \in DOMAIN Documents[i].types
    BY <2>4
  <2>6. i \in 1 .. read
    BY <2>2
  <2> QED BY <2>1, <2>5, <2>6 DEF LoadInv, DocumentsInv
<1>2. ASSUME schemas[t] # None
      PROVE  /\ schemas[t] \in Versions
             /\ \E i \in DOMAIN Documents :
                  Contains(Documents[i].types, [name |-> t, schema |-> schemas[t]])
  <2>1. Documents \in Seq(Document)
    BY DocumentsType DEF LoadInv
  <2> QED BY <2>1, <1>2 DEF LoadInv, DocumentsInv, TypeOK
<1>3. None \notin Versions
  BY ConstantFacts
<1> QED BY <1>1, <1>2, <1>3 DEF OwnSchemas

(* The schema that a type gets is the right one.                            *)
LEMMA RightInfo ==
  ASSUME LoadInv, read = Len(Documents), NEW t \in Names,
         IF Known(t) THEN Agree(t) ELSE ~local /\ Described(t),
         info'[t] = IF Known(t) THEN LocalSchema(t) ELSE registry[t].schema,
         UNCHANGED <<project, local, registry, touched>>
  PROVE  RightSchema(t)' /\ info'[t] # None
<1>1. OwnSchemas(t)' = OwnSchemas(t)
  BY DEF OwnSchemas, Documents
<1>2. /\ schemas[t] \in Versions \cup {None} /\ project.infoFile.types[t] \in Versions \cup {None, Bare}
      /\ None \notin Versions /\ Bare \notin Versions /\ None # Bare
      /\ registry[t].schema \in Versions
  BY ProjectType, ConstantFacts DEF LoadInv, TypeOK, Entry
<1>3. CASE Known(t)
  <2>1. OwnSchemas(t) = {LocalSchema(t)} /\ LocalSchema(t) # None
    BY <1>2, <1>3, OwnSchemasAre DEF Agree, LocalSchema, Known
  <2> QED BY <1>1, <1>3, <2>1 DEF RightSchema
<1>4. CASE ~Known(t)
  <2>1. OwnSchemas(t) = {}
    BY <1>2, <1>4, OwnSchemasAre DEF Known, InInfoFile
  <2> QED BY <1>1, <1>2, <1>4, <2>1 DEF RightSchema
<1> QED BY <1>3, <1>4

(* Whatever names a hook has, the exact ones are resolved.                  *)
LEMMA ExactNamesResolved ==
  ASSUME NEW types, Resolved(types), NEW i \in DOMAIN Sorted, Sorted[i] \in Targets
  PROVE  i \in todo'
<1>1. ~ContainsWildcard(Sorted[i])
  BY NamesAssumption DEF Names, ToSet
<1> QED BY <1>1 DEF Resolved, ResolveTypes

LEMMA NextLoadInv == LoadInv /\ [Next]_vars => LoadInv'
<1> SUFFICES ASSUME LoadInv, [Next]_vars PROVE LoadInv'
  OBVIOUS
<1>t. TypeOK /\ TypeOK'
  BY NextType DEF LoadInv
<1>1. CASE Read
  <2>1. ASSUME NEW code \in {"1", "127"}, Fail(code) PROVE LoadInv'
    BY <2>1, <1>1, FailLoadInv DEF Read
  <2>2. CASE \A code \in {"1", "127"} : ~Fail(code)
    <3>1. /\ UNCHANGED <<command, project, registry, touched, outcome>>
          /\ UNCHANGED <<local, passed, applicable, read, schemas, info>>
          /\ pc = "read"
      BY <2>2, <1>1 DEF Read, Goto
    <3>2. pc' = "public" \/ (pc' = "schemas" /\ Resolved(InInfoFile))
      BY <2>2, <1>1 DEF Read, Goto
    <3>3. Documents' = Documents /\ Targets' = Targets
      BY <3>1 DEF Documents, Targets
    <3>4. \A t \in Names : info[t] = None
      BY <3>1 DEF LoadInv, ControlInv, NoSchemas
    <3>5. ControlInv' /\ DocumentsInv' /\ InfoInv'
      BY <3>1, <3>2, <3>3, <3>4 DEF LoadInv, ControlInv, DocumentsInv, InfoInv
    <3>6. TargetsInv'
      BY <3>1, <3>2, <3>3, ExactNamesResolved DEF LoadInv, ControlInv, TargetsInv
    <3> QED BY <1>t, <3>5, <3>6 DEF LoadInv
  <2> QED BY <2>1, <2>2
<1>2. CASE ListTypes
  <2>1. /\ UNCHANGED <<command, project, local, read, schemas, info, registry, touched, outcome>>
        /\ pc \in {"public", "private"}
    BY <1>2 DEF ListTypes, Goto
  <2>2. pc' \in {"public", "private"} \/ (pc' = "schemas" /\ Resolved(applicable'))
    BY <1>2 DEF ListTypes, Goto
  <2>3. Documents' = Documents /\ Targets' = Targets
    BY <2>1 DEF Documents, Targets
  <2>4. \A t \in Names : info[t] = None
    BY <2>1 DEF LoadInv, ControlInv, NoSchemas
  <2>5. ControlInv' /\ DocumentsInv' /\ InfoInv'
    BY <2>1, <2>2, <2>3, <2>4 DEF LoadInv, ControlInv, DocumentsInv, InfoInv
  <2>6. TargetsInv'
    BY <2>1, <2>2, <2>3, ExactNamesResolved DEF LoadInv, ControlInv, TargetsInv
  <2> QED BY <1>t, <2>5, <2>6 DEF LoadInv
<1>3. CASE LoadDocument
  <2>1. ASSUME Fail("127") PROVE LoadInv'
    BY <2>1, <1>3, FailLoadInv DEF LoadDocument
  <2>2. CASE ~Fail("127")
    <3>1. /\ UNCHANGED <<command, project, registry, touched, outcome>>
          /\ UNCHANGED <<local, passed, applicable, todo, info>>
          /\ pc = "schemas" /\ outcome = "none"
      BY <2>2, <1>3 DEF LoadDocument, Goto, LoadInv, ControlInv
    <3>2. Documents' = Documents /\ Targets' = Targets
      BY <3>1 DEF Documents, Targets
    <3>3. \A t \in Names : info[t] = None
      BY <3>1 DEF LoadInv, ControlInv, NoSchemas
    <3>4. pc' \in {"schemas", "describe"} /\ InfoInv' /\ TargetsInv'
      BY <2>2, <1>3, <3>1, <3>2, <3>3 DEF LoadDocument, Goto, LoadInv, InfoInv, TargetsInv
    <3>5. ControlInv'
      BY <3>1, <3>4 DEF LoadInv, ControlInv
    <3>6. CASE read = Len(Documents) /\ pc' = "describe" /\ UNCHANGED <<read, schemas>>
      BY <1>t, <3>1, <3>2, <3>4, <3>5, <3>6 DEF LoadInv, DocumentsInv
    <3>7. CASE /\ read < Len(Documents) /\ ~Contradicts(Documents[read + 1].types)
               /\ schemas' = Added(Documents[read + 1].types) /\ read' = read + 1
               /\ pc' = pc
      BY <1>t, <3>1, <3>4, <3>5, <3>7, DocumentRead DEF LoadInv
    <3> QED BY <2>2, <1>3, <3>6, <3>7 DEF LoadDocument, Goto
  <2> QED BY <2>1, <2>2
<1>4. CASE LoadTypeInfo
  <2>1. ASSUME NEW code \in {"2", "127"}, Fail(code) PROVE LoadInv'
    BY <2>1, <1>4, FailLoadInv DEF LoadTypeInfo
  <2>2. CASE \A code \in {"2", "127"} : ~Fail(code)
    <3>1. /\ UNCHANGED <<command, project, local, read, schemas, registry, touched>>
          /\ pc = "describe" /\ outcome = "none" /\ read = Len(Documents)
      BY <2>2, <1>4 DEF LoadTypeInfo, LoadInv, ControlInv, DocumentsInv
    <3>2. Documents' = Documents /\ Targets' = Targets /\ \A t \in Names : OwnSchemas(t)' = OwnSchemas(t)
      BY <3>1 DEF Documents, Targets, OwnSchemas
    <3>3. CASE todo = {} /\ pc' = "done" /\ outcome' = "loaded" /\ UNCHANGED <<todo, info>>
      BY <1>t, <3>1, <3>2, <3>3
         DEF LoadInv, ControlInv, DocumentsInv, InfoInv, TargetsInv, RightSchema
    <3>4. CASE todo # {}
      <4>1. PICK i \in todo :
              LET t == Sorted[i] IN
              /\ IF Known(t) THEN Agree(t) ELSE ~local /\ Described(t)
              /\ info' = [info EXCEPT ![t] =
                            IF Known(t) THEN LocalSchema(t) ELSE registry[t].schema]
              /\ todo' = todo \ {i}
              /\ UNCHANGED <<local, pc, passed, applicable, read, schemas, outcome>>
        BY <3>4, <2>2, <1>4 DEF LoadTypeInfo
      <4>2. i \in DOMAIN Sorted /\ Sorted[i] \in Names
        BY <1>t, ConstantFacts DEF TypeOK
      <4>3. /\ info'[Sorted[i]] = IF Known(Sorted[i]) THEN LocalSchema(Sorted[i])
                                  ELSE registry[Sorted[i]].schema
            /\ \A t \in Names : t # Sorted[i] => info'[t] = info[t]
        BY <1>t, <4>1, <4>2 DEF TypeOK
      <4>4. RightSchema(Sorted[i])' /\ info'[Sorted[i]] # None
        BY <3>1, <4>1, <4>2, <4>3, RightInfo
      <4>5. InfoInv'
        BY <3>1, <3>2, <4>3, <4>4 DEF LoadInv, InfoInv, RightSchema
      <4>6. TargetsInv'
        BY <3>1, <3>2, <4>1, <4>3, <4>4, ConstantFacts DEF LoadInv, TargetsInv
      <4>7. ControlInv' /\ DocumentsInv'
        BY <3>1, <3>2, <4>1 DEF LoadInv, ControlInv, DocumentsInv
      <4> QED BY <1>t, <4>5, <4>6, <4>7 DEF LoadInv
    <3> QED BY <2>2, <1>4, <3>3, <3>4 DEF LoadTypeInfo
  <2> QED BY <2>1, <2>2
<1>5. CASE CallRefused \/ FetchFails
  BY <1>5, FailLoadInv DEF CallRefused, FetchFails
<1>6. CASE RegistryChanges
  <2>1. UNCHANGED <<command, project, local, attempt, outcome>> /\ pc # "done"
    BY <1>6 DEF RegistryChanges
  <2>2. UNCHANGED <<pc, read, schemas, todo, info, project, local, outcome>>
    BY <2>1 DEF attempt
  <2>3. \A t \in Names : /\ t \notin touched' => t \notin touched /\ registry'[t] = registry[t]
                         /\ OwnSchemas(t)' = OwnSchemas(t)
    BY <1>t, <1>6, <2>2 DEF RegistryChanges, TypeOK, OwnSchemas, Documents
  <2>4. InfoInv'
    BY <2>2, <2>3 DEF LoadInv, InfoInv, RightSchema
  <2>5. Documents' = Documents /\ Targets' = Targets
    BY <2>2 DEF Documents, Targets
  <2>6. ControlInv' /\ DocumentsInv' /\ TargetsInv'
    BY <2>2, <2>5 DEF LoadInv, ControlInv, DocumentsInv, TargetsInv
  <2> QED BY <1>t, <2>4, <2>6 DEF LoadInv
<1>7. CASE UNCHANGED vars
  <2>1. UNCHANGED <<pc, read, schemas, todo, info, project, local, outcome, registry, touched>>
    BY <1>7 DEF vars, attempt
  <2>2. /\ Documents' = Documents /\ Targets' = Targets
        /\ \A t \in Names : OwnSchemas(t)' = OwnSchemas(t)
    BY <2>1 DEF Documents, Targets, OwnSchemas
  <2> QED BY <1>t, <2>1, <2>2
          DEF LoadInv, ControlInv, DocumentsInv, InfoInv, TargetsInv, RightSchema
<1> QED BY <1>1, <1>2, <1>3, <1>4, <1>5, <1>6, <1>7 DEF Next, Load

(* A type gets the schema that the project or the command line has for it,  *)
(* and no load chooses between two of them (TypeSchemaLoader).              *)
THEOREM SchemasCorrect == Spec => []SchemasAreRight
<1>1. Init => LoadInv
  BY InitLoadInv
<1>2. LoadInv /\ [Next]_vars => LoadInv'
  BY NextLoadInv
<1>3. LoadInv => SchemasAreRight
  BY LoadInvImplies
<1> QED BY <1>1, <1>2, <1>3, PTL DEF Spec

(* A hook is packaged with the schemas of all the types it names, or with   *)
(* none (_add_hooks_content_to_zip).                                        *)
THEOREM PackageCorrect == Spec => []PackageIsWhole
<1>1. Init => LoadInv
  BY InitLoadInv
<1>2. LoadInv /\ [Next]_vars => LoadInv'
  BY NextLoadInv
<1>3. LoadInv => PackageIsWhole
  BY LoadInvImplies
<1> QED BY <1>1, <1>2, <1>3, PTL DEF Spec
-----------------------------------------------------------------------------
(* Patterns.                                                                *)

LEMMA LeastIs ==
  ASSUME NEW S, S \subseteq Nat, S # {}
  PROVE  \E m \in S : \A n \in S : m <= n
<1> DEFINE less == {pair \in Nat \X Nat : pair[1] < pair[2]}
<1>1. IsWellFoundedOn(less, Nat)
  BY NatLessThanWellFounded DEF OpToRel
<1> HIDE DEF less
<1>2. PICK m \in S : \A n \in S : ~ (<<n, m>> \in less)
  BY <1>1, WFMin
<1>3. ASSUME NEW n \in S PROVE m <= n
  <2>1. n \in Nat /\ m \in Nat /\ ~ (n < m)
    BY <1>2 DEF less
  <2> QED BY <2>1
<1> QED BY <1>3

(* What all the names have in common is the beginning of each.              *)
LEMMA CommonPrefixIs ==
  ASSUME NEW S, S \subseteq Seq(STRING), NEW p \in S
  PROVE  \E n \in 0 .. Len(p) : LongestCommonPrefix(S) = SubSeq(p, 1, n)
<1> DEFINE C == CommonPrefixes(S)
<1>1. ASSUME NEW c \in C
      PROVE  c \in Seq(STRING) /\ Len(c) \in 0 .. Len(p) /\ c = SubSeq(p, 1, Len(c))
  <2>1. PICK q \in S : c \in Prefixes(q)
    BY DEF CommonPrefixes
  <2>2. PICK l \in 0 .. Len(q) : c = SubSeq(q, 1, l)
    BY <2>1 DEF Prefixes
  <2>3. c \in Seq(STRING)
    BY <2>2
  <2>4. Len(c) <= Len(p) /\ SubSeq(c, 1, Len(c)) = SubSeq(p, 1, Len(c))
    BY DEF CommonPrefixes, IsPrefix
  <2>5. SubSeq(c, 1, Len(c)) = c
    BY <2>3, SubSeqFull
  <2> QED BY <2>3, <2>4, <2>5
<1>2. <<>> \in C
  <2>1. \A t \in S : SubSeq(t, 1, 0) = <<>> /\ Len(t) \in Nat
    BY SubSeqEmpty
  <2>2. <<>> \in Prefixes(p)
    BY <2>1 DEF Prefixes
  <2>3. \A t \in S : IsPrefix(<<>>, t)
    <3>1. SubSeq(<<>>, 1, 0) = <<>> /\ Len(<<>>) = 0
      OBVIOUS
    <3> QED BY <2>1, <3>1 DEF IsPrefix
  <2> QED BY <2>2, <2>3 DEF CommonPrefixes
<1> HIDE DEF C
<1>3. PICK longest \in C : \A c \in C : Len(c) <= Len(longest)
  <2> DEFINE L == {Len(p) - Len(c) : c \in C}
  <2>1. L \subseteq Nat /\ L # {}
    BY <1>1, <1>2
  <2>2. PICK m \in L : \A n \in L : m <= n
    BY <2>1, LeastIs
  <2>3. PICK longest \in C : m = Len(p) - Len(longest)
    OBVIOUS
  <2>4. ASSUME NEW c \in C PROVE Len(c) <= Len(longest)
    <3>1. Len(p) - Len(longest) <= Len(p) - Len(c)
      BY <2>2, <2>3
    <3> QED BY <3>1, <1>1
  <2> QED BY <2>4
<1>4. LongestCommonPrefix(S) \in C
  BY <1>3 DEF LongestCommonPrefix, C
<1> QED BY <1>1, <1>4

(* The prefix of a listing is the beginning of each name and holds no       *)
(* wildcard.                                                                *)
LEMMA FilterPrefixIs ==
  ASSUME NEW S, S \subseteq Seq(STRING), NEW p \in S
  PROVE  \E n \in 0 .. Len(p) :
           FilterPrefix(S) = SubSeq(p, 1, n) /\ \A i \in 1 .. n : p[i] \notin {"*", "?"}
<1> DEFINE common == LongestCommonPrefix(S)
           wild == {i \in DOMAIN common : common[i] \in {"*", "?"}}
           prefix == IF wild = {} THEN common ELSE SubSeq(common, 1, Min(wild) - 1)
<1>1. PICK n \in 0 .. Len(p) : common = SubSeq(p, 1, n)
  BY CommonPrefixIs
<1>2. p \in Seq(STRING) /\ Len(p) \in Nat
  OBVIOUS
<1>3. /\ common \in Seq(STRING) /\ Len(common) = n /\ DOMAIN common = 1 .. n
      /\ \A i \in 1 .. n : common[i] = p[i]
  BY <1>1, <1>2
<1>4. SubSeq(p, 1, 0) = <<>>
  BY <1>2, SubSeqEmpty
<1>f. FilterPrefix(S) = IF Len(prefix) >= MinPrefix THEN prefix ELSE <<>>
  BY DEF FilterPrefix
<1> HIDE DEF common
<1>5. CASE wild = {}
  <2>1. \A i \in 1 .. n : p[i] \notin {"*", "?"}
    BY <1>3, <1>5
  <2>2. prefix = SubSeq(p, 1, n)
    BY <1>1, <1>5
  <2> HIDE DEF prefix, wild
  <2>3. FilterPrefix(S) = SubSeq(p, 1, n) \/ FilterPrefix(S) = SubSeq(p, 1, 0)
    BY <1>4, <1>f, <2>2
  <2>4. 0 \in 0 .. Len(p) /\ \A i \in 1 .. 0 : p[i] \notin {"*", "?"}
    BY <1>2
  <2> QED BY <2>1, <2>3, <2>4
<1>6. CASE wild # {}
  <2>1. wild \subseteq 1 .. n /\ wild \subseteq Nat
    BY <1>3
  <2>2. PICK m \in wild : \A i \in wild : m <= i
    BY <1>6, <2>1, LeastIs
  <2> DEFINE least == Min(wild)
  <2>3. least \in wild /\ \A i \in wild : least <= i
    BY <2>2 DEF Min
  <2> HIDE DEF least, wild
  <2>4. least \in 1 .. n
    BY <2>1, <2>3
  <2>5. \A i \in 1 .. least - 1 : i \in 1 .. n /\ i \notin wild
    BY <2>3, <2>4
  <2>6. \A i \in 1 .. least - 1 : p[i] \notin {"*", "?"}
    BY <2>5, <1>3 DEF wild
  <2>7. SubSeq(SubSeq(p, 1, n), 1, least - 1) = SubSeq(p, 1, least - 1)
    BY <1>2, <2>4
  <2>8. prefix = SubSeq(p, 1, least - 1)
    BY <1>1, <1>6, <2>7 DEF least
  <2> HIDE DEF prefix
  <2>9. FilterPrefix(S) = SubSeq(p, 1, least - 1) \/ FilterPrefix(S) = SubSeq(p, 1, 0)
    BY <1>4, <1>f, <2>8
  <2>10. least - 1 \in 0 .. Len(p)
    BY <1>2, <2>4
  <2>11. 0 \in 0 .. Len(p) /\ \A i \in 1 .. 0 : p[i] \notin {"*", "?"}
    BY <1>2
  <2> QED BY <2>6, <2>9, <2>10, <2>11
<1> QED BY <1>5, <1>6

(* A name that a pattern matches begins like the pattern does.              *)
LEMMA LiteralBeginning ==
  ASSUME NEW p \in Seq(STRING), NEW t \in Seq(STRING), Matches(p, t),
         NEW n \in 0 .. Len(p), \A i \in 1 .. n : p[i] \notin {"*", "?"}
  PROVE  IsPrefix(SubSeq(p, 1, n), t)
<1>1. PICK begin \in [1 .. Len(p) + 1 -> 1 .. Len(t) + 1] :
        /\ begin[1] = 1
        /\ \A i \in DOMAIN p :
             IF p[i] = "*" THEN begin[i] <= begin[i + 1]
             ELSE begin[i + 1] = begin[i] + 1 /\ p[i] \in {t[begin[i]], "?"}
  BY DEF Matches
<1>2. Len(p) \in Nat /\ Len(t) \in Nat /\ DOMAIN p = 1 .. Len(p)
  OBVIOUS
<1>3. \A i \in 1 .. n : begin[i + 1] = begin[i] + 1 /\ p[i] = t[begin[i]]
  <2> SUFFICES ASSUME NEW i \in 1 .. n
               PROVE  begin[i + 1] = begin[i] + 1 /\ p[i] = t[begin[i]]
    OBVIOUS
  <2>1. i \in DOMAIN p
    BY <1>2
  <2> QED BY <1>1, <2>1
<1>4. \A i \in 1 .. n + 1 : begin[i] = i
  <2> DEFINE wrong == {i \in 1 .. n + 1 : begin[i] # i}
  <2>1. ASSUME wrong # {} PROVE FALSE
    <3>l. wrong \subseteq Nat
      OBVIOUS
    <3>1. PICK m \in wrong : \A i \in wrong : m <= i
      BY <2>1, <3>l, LeastIs
    <3>2. m \in 1 .. n + 1 /\ m # 1
      BY <1>1, <3>1
    <3>3. m - 1 \in 1 .. n /\ m - 1 \notin wrong
      BY <3>1, <3>2
    <3>4. begin[m - 1] = m - 1
      BY <3>2, <3>3
    <3>5. begin[(m - 1) + 1] = begin[m - 1] + 1
      BY <1>3, <3>3
    <3>6. begin[m] = m
      BY <3>2, <3>4, <3>5
    <3> QED BY <3>1, <3>6
  <2> QED BY <2>1
<1>5. n <= Len(t)
  <2>1. n + 1 \in 1 .. n + 1 /\ n + 1 \in 1 .. Len(p) + 1
    BY <1>2
  <2>2. begin[n + 1] = n + 1 /\ begin[n + 1] \in 1 .. Len(t) + 1
    BY <1>4, <2>1
  <2> QED BY <1>2, <2>2
<1>6. \A i \in 1 .. n : p[i] = t[i]
  BY <1>3, <1>4
<1>7. SubSeq(p, 1, n) \in Seq(STRING) /\ Len(SubSeq(p, 1, n)) = n
  BY <1>2
<1>8. SubSeq(p, 1, n) = SubSeq(t, 1, n)
  BY <1>2, <1>5, <1>6
<1>9. SubSeq(SubSeq(p, 1, n), 1, n) = SubSeq(p, 1, n)
  BY <1>7, SubSeqFull
<1> QED BY <1>5, <1>7, <1>8, <1>9 DEF IsPrefix

(* The listing returns every name that a pattern stands for.                *)
LEMMA PrefixFits ==
  ASSUME NEW S, S \subseteq Seq(STRING), NEW p \in S, NEW t \in Seq(STRING), Matches(p, t)
  PROVE  IsPrefix(FilterPrefix(S), t)
<1>1. PICK n \in 0 .. Len(p) :
        FilterPrefix(S) = SubSeq(p, 1, n) /\ \A i \in 1 .. n : p[i] \notin {"*", "?"}
  BY FilterPrefixIs
<1>2. p \in Seq(STRING)
  OBVIOUS
<1> QED BY <1>1, <1>2, LiteralBeginning

-----------------------------------------------------------------------------
(* Resolution.  What a listing has kept of the types that did not change,   *)
(* and which types are resolved.                                            *)

Listed(t) == \E k \in 1 .. passed : Sorted[k] = t

(* The public types come first.                                             *)
Kept(t) ==
  /\ IsPrefix(Prefix[project.targets], t)
  /\ \/ registry[t].status \in {"aws", "activated"} /\ (pc = "private" \/ Listed(t))
     \/ registry[t].status = "private" /\ pc = "private" /\ Listed(t)

ListInv ==
  /\ pc = "read" => applicable = {} /\ passed = 0
  /\ pc \in {"public", "private"} =>
       local = FALSE /\ \A t \in Names \ touched : t \in applicable <=> Kept(t)

Usable ==
  IF local THEN InInfoFile
  ELSE {t \in Names : registry[t].status \in {"aws", "activated", "private"}}
Pattern(t) == \E p \in Targets : ContainsWildcard(p) /\ Matches(p, t)
Meant(t) == t \in Targets \/ (t \in Usable /\ Pattern(t))

(* A type that is meant has its schema, or will get it, and no other does.  *)
ResolvedInv ==
  pc \in {"schemas", "describe"} \/ outcome = "loaded" =>
    \A i \in DOMAIN Sorted :
      local \/ Sorted[i] \notin touched =>
        (i \in todo \/ info[Sorted[i]] # None <=> Meant(Sorted[i]))

LEMMA NamesType ==
  /\ \A t \in Names : t \in Seq(STRING)
  /\ \A i \in DOMAIN Sorted : Sorted[i] \in Names
<1>1. \A i \in DOMAIN Sorted : Sorted[i] \in Seq(STRING)
  BY NamesAssumption, Element
<1> QED BY <1>1, ConstantFacts DEF Names, ToSet

LEMMA TargetsType ==
  ASSUME TypeOK
  PROVE  Targets \subseteq Seq(STRING) /\ project.targets \in TargetSets
<1>1. project.targets \in TargetSets
  BY DEF TypeOK
<1> QED BY <1>1, TargetsAssumption DEF Targets

(* A page holds the names up to where it ends.                              *)
LEMMA PageHolds ==
  ASSUME NEW m \in 0 .. Len(Sorted), NEW n \in 0 .. Len(Sorted), m <= n, NEW t
  PROVE  t \in ToSet(SubSeq(Sorted, m + 1, n)) <=> \E k \in m + 1 .. n : Sorted[k] = t
<1>1. Sorted \in Seq(Names) /\ Len(Sorted) \in Nat
  BY ConstantFacts
<1> DEFINE s == SubSeq(Sorted, m + 1, n)
<1>2. s \in Seq(Names) /\ Len(s) = n - m /\ \A i \in 1 .. n - m : s[i] = Sorted[m + i]
  BY <1>1
<1>3. DOMAIN s = 1 .. n - m
  BY <1>2
<1> HIDE DEF s
<1>4. ASSUME NEW k \in m + 1 .. n PROVE \E i \in DOMAIN s : s[i] = Sorted[k]
  <2>1. k - m \in 1 .. n - m /\ m + (k - m) = k
    BY <1>1
  <2> QED BY <2>1, <1>2, <1>3
<1>5. ASSUME NEW i \in DOMAIN s PROVE \E k \in m + 1 .. n : s[i] = Sorted[k]
  <2>1. i \in 1 .. n - m /\ m + i \in m + 1 .. n
    BY <1>1, <1>3
  <2> QED BY <2>1, <1>2
<1>6. t \in ToSet(s) <=> \E i \in DOMAIN s : s[i] = t
  BY DEF ToSet
<1> QED BY <1>4, <1>5, <1>6 DEF s

(* What is resolved of the types that could be: those the hook names, and   *)
(* those among them that a pattern stands for.                              *)
LEMMA ResolvedTypes ==
  ASSUME NEW types, NEW t \in Names
  PROVE  t \in ResolveTypes(Targets, types) <=> t \in Targets \/ (t \in types /\ Pattern(t))
<1>1. ~ContainsWildcard(t)
  BY NamesAssumption
<1> QED BY <1>1 DEF ResolveTypes, Pattern

LEMMA PatternBegins ==
  ASSUME TypeOK, NEW t \in Names, Pattern(t)
  PROVE  IsPrefix(Prefix[project.targets], t)
<1>1. PICK p \in Targets : Matches(p, t)
  BY DEF Pattern
<1>2. Targets \subseteq Seq(STRING) /\ project.targets \in TargetSets /\ t \in Seq(STRING)
  BY TargetsType, NamesType
<1>3. Prefix[project.targets] = FilterPrefix(Targets)
  BY <1>1, <1>2 DEF Prefix, Targets
<1>4. IsPrefix(FilterPrefix(Targets), t)
  BY <1>1, <1>2, PrefixFits
<1> QED BY <1>3, <1>4

(* A local load, and one without patterns, resolves against the file.       *)
LEMMA ResolvedInFile ==
  ASSUME TypeOK, Resolved(InInfoFile), local \/ ~HasWildcard, info = NoSchemas,
         UNCHANGED <<project, local, registry, info>>
  PROVE  ResolvedInv'
<1> SUFFICES ASSUME NEW i \in DOMAIN Sorted
             PROVE  (i \in todo' \/ info'[Sorted[i]] # None) <=> Meant(Sorted[i])'
  BY DEF ResolvedInv
<1>1. Sorted[i] \in Names
  BY NamesType
<1>2. info'[Sorted[i]] = None
  BY <1>1 DEF NoSchemas
<1>3. i \in todo' <=> Sorted[i] \in Targets \/ (Sorted[i] \in InInfoFile /\ Pattern(Sorted[i]))
  BY <1>1, ResolvedTypes DEF Resolved
<1>4. Targets' = Targets /\ InInfoFile' = InInfoFile
  BY DEF Targets, InInfoFile
<1>5. Pattern(Sorted[i])' <=> Pattern(Sorted[i])
  BY <1>4 DEF Pattern
<1>6. CASE local
  <2>1. Usable' = InInfoFile
    BY <1>4, <1>6 DEF Usable
  <2>2. Meant(Sorted[i])' <=> Sorted[i] \in Targets \/ (Sorted[i] \in InInfoFile /\ Pattern(Sorted[i]))
    BY <1>4, <1>5, <2>1 DEF Meant
  <2> QED BY <1>2, <1>3, <2>2
<1>7. CASE ~HasWildcard
  <2>1. ~Pattern(Sorted[i])
    BY <1>7 DEF Pattern, HasWildcard
  <2>2. Meant(Sorted[i])' <=> Sorted[i] \in Targets
    BY <1>4, <1>5, <2>1 DEF Meant
  <2> QED BY <1>2, <1>3, <2>1, <2>2
<1> QED BY <1>6, <1>7

(* The listing ends with the types that can be used and begin as the hook's *)
(* names do, so that nothing a pattern stands for is missing.               *)
LEMMA ResolvedInListing ==
  ASSUME TypeOK, Resolved(applicable'), local = FALSE, info = NoSchemas,
         UNCHANGED <<project, local, registry, touched, info>>,
         \A t \in Names \ touched :
           t \in applicable' <=> /\ IsPrefix(Prefix[project.targets], t)
                                 /\ registry[t].status \in {"aws", "activated", "private"}
  PROVE  ResolvedInv'
<1> SUFFICES ASSUME NEW i \in DOMAIN Sorted, Sorted[i] \notin touched
             PROVE  (i \in todo' \/ info'[Sorted[i]] # None) <=> Meant(Sorted[i])'
  BY DEF ResolvedInv
<1>1. Sorted[i] \in Names
  BY NamesType
<1>2. info'[Sorted[i]] = None
  BY <1>1 DEF NoSchemas
<1>3. i \in todo' <=> Sorted[i] \in Targets \/ (Sorted[i] \in applicable' /\ Pattern(Sorted[i]))
  <2>1. i \in todo' <=> Sorted[i] \in ResolveTypes(Targets, applicable')
    BY DEF Resolved
  <2> DEFINE types == applicable'
  <2>2. Sorted[i] \in ResolveTypes(Targets, types) <=>
          Sorted[i] \in Targets \/ (Sorted[i] \in types /\ Pattern(Sorted[i]))
    <3> HIDE DEF types
    <3> QED BY <1>1, ResolvedTypes
  <2> QED BY <2>1, <2>2
<1>4. Targets' = Targets
  BY DEF Targets
<1>5. Pattern(Sorted[i])' <=> Pattern(Sorted[i])
  BY <1>4 DEF Pattern
<1>6. Sorted[i] \in Usable' <=> registry[Sorted[i]].status \in {"aws", "activated", "private"}
  BY <1>1 DEF Usable
<1>7. Pattern(Sorted[i]) => (Sorted[i] \in applicable' <=> Sorted[i] \in Usable')
  BY <1>1, <1>6, PatternBegins
<1>8. Meant(Sorted[i])' <=> Sorted[i] \in Targets \/ (Sorted[i] \in Usable' /\ Pattern(Sorted[i]))
  BY <1>4, <1>5 DEF Meant
<1> QED BY <1>2, <1>3, <1>7, <1>8

ResolutionInv == LoadInv /\ ListInv /\ ResolvedInv

LEMMA ResolutionInvImplies == ResolutionInv => ResolutionIsExact
<1> SUFFICES ASSUME ResolutionInv, outcome = "loaded",
                    NEW t \in Names, local \/ t \notin touched
             PROVE  info[t] # None <=> Meant(t)
  BY DEF ResolutionIsExact, Meant, Pattern, Usable
<1>1. PICK i \in DOMAIN Sorted : Sorted[i] = t
  BY DEF Names, ToSet
<1>2. i \notin todo
  BY DEF ResolutionInv, LoadInv, ControlInv
<1>3. i \in todo \/ info[Sorted[i]] # None <=> Meant(Sorted[i])
  BY <1>1 DEF ResolutionInv, ResolvedInv
<1> QED BY <1>1, <1>2, <1>3

LEMMA InitResolutionInv == Init => ResolutionInv
<1> SUFFICES ASSUME Init PROVE ResolutionInv
  OBVIOUS
<1>1. pc = "read" /\ outcome = "none" /\ applicable = {} /\ passed = 0
  BY DEF Init
<1> QED BY <1>1, InitLoadInv DEF ResolutionInv, ListInv, ResolvedInv

LEMMA FailResolutionInv ==
  ASSUME LoadInv, NEW code \in {"1", "2", "127"}, Fail(code), pc # "done"
  PROVE  ListInv' /\ ResolvedInv'
<1>1. /\ applicable' = {} /\ passed' = 0
      /\ pc' \in {"read", "done"} /\ outcome' \in {"none", "ignored", "1", "2", "127"}
  BY DEF Fail, LoadInv, ControlInv
<1> QED BY <1>1 DEF ListInv, ResolvedInv

(* One page.  The names of the page are listed, and kept if they may be     *)
(* used.                                                                    *)
LEMMA PageKept ==
  ASSUME TypeOK, ListInv, pc \in {"public", "private"}, NEW t \in Names \ touched,
         NEW upto \in 0 .. Len(Sorted), passed <= upto, NEW page,
         page = {x \in ToSet(SubSeq(Sorted, passed + 1, upto)) :
                   Visible(x) /\ IsPrefix(Prefix[project.targets], x) /\ TypeEnabled(x)}
  PROVE  t \in applicable \cup page <=>
           /\ IsPrefix(Prefix[project.targets], t)
           /\ \/ /\ registry[t].status \in {"aws", "activated"}
                 /\ pc = "private" \/ \E k \in 1 .. upto : Sorted[k] = t
              \/ /\ registry[t].status = "private" /\ pc = "private"
                 /\ \E k \in 1 .. upto : Sorted[k] = t
<1> DEFINE begins == IsPrefix(Prefix[project.targets], t)
           before == \E k \in 1 .. passed : Sorted[k] = t
           now == \E k \in passed + 1 .. upto : Sorted[k] = t
           listed == \E k \in 1 .. upto : Sorted[k] = t
<1>1. passed \in 0 .. Len(Sorted) /\ Len(Sorted) \in Nat
  BY ConstantFacts DEF TypeOK
<1>2. listed <=> before \/ now
  <2>1. 1 .. upto = 1 .. passed \cup (passed + 1) .. upto
    BY <1>1
  <2> QED BY <2>1
<1>3. t \in page <=> now /\ Visible(t) /\ begins /\ TypeEnabled(t)
  BY <1>1, PageHolds
<1>4. t \in applicable <=>
        begins /\ \/ registry[t].status \in {"aws", "activated"} /\ (pc = "private" \/ before)
                  \/ registry[t].status = "private" /\ pc = "private" /\ before
  BY DEF ListInv, Kept, Listed
<1> HIDE DEF begins, before, now, listed
<1>5. CASE pc = "public"
  <2>1. Visible(t) /\ TypeEnabled(t) <=> registry[t].status \in {"aws", "activated"}
    BY <1>5 DEF Visible, TypeEnabled
  <2>2. t \in applicable <=> begins /\ registry[t].status \in {"aws", "activated"} /\ before
    BY <1>4, <1>5
  <2>3. t \in page <=> now /\ begins /\ registry[t].status \in {"aws", "activated"}
    BY <1>3, <2>1
  <2>4. t \in applicable \cup page <=>
          begins /\ registry[t].status \in {"aws", "activated"} /\ listed
    BY <1>2, <2>2, <2>3
  <2> QED BY <1>5, <2>4 DEF begins, listed
<1>6. CASE pc = "private"
  <2>1. Visible(t) /\ TypeEnabled(t) <=> registry[t].status = "private"
    BY <1>6 DEF Visible, TypeEnabled
  <2>2. t \in applicable <=>
          begins /\ (registry[t].status \in {"aws", "activated"} \/ (registry[t].status = "private" /\ before))
    BY <1>4, <1>6
  <2>3. t \in page <=> now /\ begins /\ registry[t].status = "private"
    BY <1>3, <2>1
  <2>4. t \in applicable \cup page <=>
          begins /\ (registry[t].status \in {"aws", "activated"} \/ (registry[t].status = "private" /\ listed))
    BY <1>2, <2>2, <2>3
  <2> QED BY <1>6, <2>4 DEF begins, listed
<1> QED BY <1>5, <1>6

LEMMA ListTypesResolution ==
  ASSUME ResolutionInv, ListTypes
  PROVE  ListInv' /\ ResolvedInv'
<1>1. PICK n \in 1 .. PageSize :
        LET upto == IF passed + n > Len(Sorted) THEN Len(Sorted) ELSE passed + n
            page == {t \in ToSet(SubSeq(Sorted, passed + 1, upto)) :
                       Visible(t) /\ IsPrefix(Prefix[project.targets], t) /\ TypeEnabled(t)}
        IN  /\ applicable' = applicable \cup page
            /\ IF upto < Len(Sorted)
               THEN passed' = upto /\ UNCHANGED <<pc, todo, outcome>>
               ELSE /\ passed' = 0
                    /\ IF pc = "public" THEN Goto("private") /\ UNCHANGED todo
                       ELSE Goto("schemas") /\ Resolved(applicable')
  BY DEF ListTypes
<1> DEFINE upto == IF passed + n > Len(Sorted) THEN Len(Sorted) ELSE passed + n
           page == {t \in ToSet(SubSeq(Sorted, passed + 1, upto)) :
                      Visible(t) /\ IsPrefix(Prefix[project.targets], t) /\ TypeEnabled(t)}
           listed(t) == \E k \in 1 .. upto : Sorted[k] = t
           begins(t) == IsPrefix(Prefix[project.targets], t)
<1>2. /\ TypeOK /\ ListInv /\ ControlInv
      /\ pc \in {"public", "private"}
      /\ UNCHANGED <<project, local, info, registry, touched>>
  BY DEF ListTypes, ResolutionInv, LoadInv
<1>3. upto \in 0 .. Len(Sorted) /\ passed <= upto /\ Len(Sorted) \in Nat
  BY <1>2, ConstantFacts, BoundsAssumption DEF TypeOK
<1>4. /\ outcome = "none" /\ outcome' = "none" /\ info = NoSchemas /\ local = FALSE
  BY <1>1, <1>2 DEF ControlInv, ListInv, Goto
<1>5. /\ applicable' = applicable \cup page
      /\ \/ upto < Len(Sorted) /\ passed' = upto /\ pc' = pc
         \/ upto = Len(Sorted) /\ passed' = 0 /\ pc = "public" /\ pc' = "private"
         \/ upto = Len(Sorted) /\ passed' = 0 /\ pc = "private" /\ pc' = "schemas"
            /\ Resolved(applicable')
  BY <1>1, <1>2, <1>3 DEF Goto
<1>6. \A t \in Names \ touched :
        t \in applicable' <=>
          begins(t) /\ \/ registry[t].status \in {"aws", "activated"} /\ (pc = "private" \/ listed(t))
                       \/ registry[t].status = "private" /\ pc = "private" /\ listed(t)
  <2> SUFFICES ASSUME NEW t \in Names \ touched
               PROVE  t \in applicable \cup page <=>
          begins(t) /\ \/ registry[t].status \in {"aws", "activated"} /\ (pc = "private" \/ listed(t))
                       \/ registry[t].status = "private" /\ pc = "private" /\ listed(t)
    BY <1>5
  <2> HIDE DEF upto
  <2> QED BY <1>2, <1>3, PageKept
<1>7. upto = Len(Sorted) => \A t \in Names : listed(t)
  BY ConstantFacts DEF Names, ToSet
<1>8. \A t \in Names : begins(t)' <=> begins(t)
  BY <1>2 DEF Prefix
<1> HIDE DEF upto, page, begins
<1>9. CASE upto < Len(Sorted) /\ passed' = upto /\ pc' = pc
  <2>1. \A t \in Names : Listed(t)' <=> listed(t)
    BY <1>9 DEF Listed
  <2>2. \A t \in Names \ touched : t \in applicable' <=> Kept(t)'
    BY <1>2, <1>6, <1>8, <1>9, <2>1 DEF Kept, begins
  <2>3. ListInv'
    BY <1>2, <1>4, <1>9, <2>2 DEF ListInv
  <2>4. ResolvedInv'
    BY <1>2, <1>4, <1>9 DEF ResolvedInv
  <2> QED BY <2>3, <2>4
<1>10. CASE upto = Len(Sorted) /\ passed' = 0 /\ pc = "public" /\ pc' = "private"
  <2>1. \A t \in Names : ~Listed(t)'
    BY <1>10 DEF Listed
  <2>2. \A t \in Names \ touched :
          t \in applicable' <=> begins(t) /\ registry[t].status \in {"aws", "activated"}
    BY <1>6, <1>7, <1>10
  <2>3. \A t \in Names \ touched : t \in applicable' <=> Kept(t)'
    BY <1>2, <1>8, <1>10, <2>1, <2>2 DEF Kept, begins
  <2>4. ListInv'
    BY <1>2, <1>4, <1>10, <2>3 DEF ListInv
  <2>5. ResolvedInv'
    BY <1>4, <1>10 DEF ResolvedInv
  <2> QED BY <2>4, <2>5
<1>11. CASE /\ upto = Len(Sorted) /\ passed' = 0 /\ pc = "private" /\ pc' = "schemas"
            /\ Resolved(applicable')
  <2>1. \A t \in Names \ touched :
          t \in applicable' <=> begins(t) /\ registry[t].status \in {"aws", "activated", "private"}
    BY <1>6, <1>7, <1>11
  <2>2. ResolvedInv'
    BY <1>2, <1>4, <1>11, <2>1, ResolvedInListing DEF begins
  <2>3. ListInv'
    BY <1>11 DEF ListInv
  <2> QED BY <2>2, <2>3
<1> QED BY <1>5, <1>9, <1>10, <1>11

LEMMA NextResolutionInv == ResolutionInv /\ [Next]_vars => ResolutionInv'
<1> SUFFICES ASSUME ResolutionInv, [Next]_vars PROVE ResolutionInv'
  OBVIOUS
<1>t. LoadInv /\ LoadInv' /\ TypeOK /\ ControlInv
  BY NextLoadInv DEF ResolutionInv, LoadInv
<1> SUFFICES ListInv' /\ ResolvedInv'
  BY <1>t DEF ResolutionInv
<1>1. CASE Read
  <2>1. ASSUME NEW code \in {"1", "127"}, Fail(code) PROVE ListInv' /\ ResolvedInv'
    BY <1>t, <2>1, <1>1, FailResolutionInv DEF Read
  <2>2. CASE \A code \in {"1", "127"} : ~Fail(code)
    <3>1. /\ UNCHANGED <<project, registry, touched, local, passed, applicable, info>>
          /\ pc = "read"
      BY <2>2, <1>1 DEF Read
    <3>2. outcome' = "none" /\ info = NoSchemas /\ applicable = {} /\ passed = 0
      BY <1>t, <2>2, <1>1 DEF Read, Goto, ControlInv, ResolutionInv, ListInv
    <3>3. CASE HasWildcard /\ ~local
      <4>1. pc' = "public" /\ local = FALSE
        BY <1>t, <2>2, <1>1, <3>3 DEF Read, Goto, TypeOK
      <4>2. \A t \in Names : ~Listed(t)'
        BY <3>1, <3>2 DEF Listed
      <4>3. \A t \in Names : ~Kept(t)'
        BY <4>1, <4>2 DEF Kept
      <4> QED BY <3>1, <3>2, <4>1, <4>3 DEF ListInv, ResolvedInv
    <3>4. CASE local \/ ~HasWildcard
      <4>1. pc' = "schemas" /\ Resolved(InInfoFile)
        BY <2>2, <1>1, <3>4 DEF Read, Goto
      <4>2. ResolvedInv'
        BY <1>t, <3>1, <3>2, <3>4, <4>1, ResolvedInFile
      <4> QED BY <4>1, <4>2 DEF ListInv
    <3> QED BY <3>3, <3>4
  <2> QED BY <2>1, <2>2
<1>2. CASE ListTypes
  BY <1>2, ListTypesResolution
<1>3. CASE LoadDocument
  <2>1. ASSUME Fail("127") PROVE ListInv' /\ ResolvedInv'
    BY <1>t, <2>1, <1>3, FailResolutionInv DEF LoadDocument
  <2>2. CASE ~Fail("127")
    <3>1. /\ UNCHANGED <<project, registry, touched, local, todo, info>>
          /\ pc = "schemas" /\ pc' \in {"schemas", "describe"}
      BY <2>2, <1>3 DEF LoadDocument, Goto
    <3>2. ListInv'
      BY <3>1 DEF ListInv
    <3>3. \A t \in Names : Meant(t)' <=> Meant(t)
      BY <3>1 DEF Meant, Usable, Pattern, Targets, InInfoFile
    <3>4. ResolvedInv'
      BY <3>1, <3>3, NamesType DEF ResolutionInv, ResolvedInv
    <3> QED BY <3>2, <3>4
  <2> QED BY <2>1, <2>2
<1>4. CASE LoadTypeInfo
  <2>1. ASSUME NEW code \in {"2", "127"}, Fail(code) PROVE ListInv' /\ ResolvedInv'
    BY <1>t, <2>1, <1>4, FailResolutionInv DEF LoadTypeInfo
  <2>2. CASE \A code \in {"2", "127"} : ~Fail(code)
    <3>1. /\ UNCHANGED <<project, local, registry, touched>>
          /\ pc = "describe" /\ pc' \in {"describe", "done"} /\ read = Len(Documents)
      BY <1>t, <2>2, <1>4 DEF LoadTypeInfo, LoadInv, DocumentsInv
    <3>2. ListInv'
      BY <3>1 DEF ListInv
    <3>3. \A t \in Names : Meant(t)' <=> Meant(t)
      BY <3>1 DEF Meant, Usable, Pattern, Targets, InInfoFile
    <3>4. CASE todo = {} /\ UNCHANGED <<todo, info>>
      <4>1. \A i \in DOMAIN Sorted :
              local \/ Sorted[i] \notin touched =>
                (i \in todo \/ info[Sorted[i]] # None <=> Meant(Sorted[i]))
        BY <3>1 DEF ResolutionInv, ResolvedInv
      <4>2. ASSUME NEW i \in DOMAIN Sorted, local \/ Sorted[i] \notin touched
            PROVE  (i \in todo' \/ info'[Sorted[i]] # None) <=> Meant(Sorted[i])'
        <5>1. i \in todo \/ info[Sorted[i]] # None <=> Meant(Sorted[i])
          BY <4>1, <4>2
        <5>2. Meant(Sorted[i])' <=> Meant(Sorted[i])
          BY <3>3, NamesType
        <5> QED BY <3>4, <5>1, <5>2
      <4>3. ResolvedInv'
        BY <3>1, <4>2 DEF ResolvedInv
      <4> QED BY <3>2, <4>3
    <3>5. CASE todo # {}
      <4>1. PICK i \in todo :
              LET t == Sorted[i] IN
              /\ IF Known(t) THEN Agree(t) ELSE ~local /\ Described(t)
              /\ info' = [info EXCEPT ![t] =
                            IF Known(t) THEN LocalSchema(t) ELSE registry[t].schema]
              /\ todo' = todo \ {i}
              /\ UNCHANGED <<local, pc, passed, applicable, read, schemas, outcome>>
        BY <3>5, <2>2, <1>4 DEF LoadTypeInfo
      <4>2. i \in DOMAIN Sorted /\ Sorted[i] \in Names
        BY <1>t, ConstantFacts DEF TypeOK
      <4>3. /\ info'[Sorted[i]] = IF Known(Sorted[i]) THEN LocalSchema(Sorted[i])
                                  ELSE registry[Sorted[i]].schema
            /\ \A t \in Names : t # Sorted[i] => info'[t] = info[t]
        BY <1>t, <4>1, <4>2 DEF TypeOK
      <4>4. info'[Sorted[i]] # None
        BY <1>t, <3>1, <4>1, <4>2, <4>3, RightInfo
      <4>5. ASSUME NEW j \in DOMAIN Sorted, local \/ Sorted[j] \notin touched
            PROVE  (j \in todo' \/ info'[Sorted[j]] # None) <=> Meant(Sorted[j])'
        <5>1. \A k \in DOMAIN Sorted :
                local \/ Sorted[k] \notin touched =>
                  (k \in todo \/ info[Sorted[k]] # None <=> Meant(Sorted[k]))
          BY <3>1 DEF ResolutionInv, ResolvedInv
        <5>2. j \in todo \/ info[Sorted[j]] # None <=> Meant(Sorted[j])
          BY <4>5, <5>1
        <5>3. Meant(Sorted[j])' <=> Meant(Sorted[j])
          BY <3>3, NamesType
        <5>4. CASE Sorted[j] = Sorted[i]
          <6>1. Meant(Sorted[i])
            BY <4>1, <4>2, <4>5, <5>1, <5>4
          <6> QED BY <4>4, <5>3, <5>4, <6>1
        <5>5. CASE Sorted[j] # Sorted[i]
          <6>1. info'[Sorted[j]] = info[Sorted[j]] /\ (j \in todo' <=> j \in todo)
            BY <4>1, <4>3, <5>5, NamesType
          <6> QED BY <5>2, <5>3, <6>1
        <5> QED BY <5>4, <5>5
      <4>6. ResolvedInv'
        BY <3>1, <4>5 DEF ResolvedInv
      <4> QED BY <3>2, <4>6
    <3> QED BY <2>2, <1>4, <3>2, <3>4, <3>5 DEF LoadTypeInfo
  <2> QED BY <2>1, <2>2
<1>5. CASE CallRefused \/ FetchFails
  BY <1>t, <1>5, FailResolutionInv DEF CallRefused, FetchFails
<1>6. CASE RegistryChanges
  <2>1. UNCHANGED <<pc, passed, applicable, todo, info, project, local, outcome>>
    BY <1>6 DEF RegistryChanges, attempt
  <2>2. \A t \in Names : t \notin touched' => t \notin touched /\ registry'[t] = registry[t]
    BY <1>t, <1>6 DEF RegistryChanges, TypeOK
  <2>3. \A t \in Names \ touched' : Kept(t)' <=> Kept(t)
    BY <2>1, <2>2 DEF Kept, Listed, Prefix
  <2>4. ListInv'
    BY <2>1, <2>2, <2>3 DEF ResolutionInv, ListInv
  <2>5. \A t \in Names : local \/ t \notin touched' => (Meant(t)' <=> Meant(t))
    BY <2>1, <2>2 DEF Meant, Usable, Pattern, Targets, InInfoFile
  <2>6. ResolvedInv'
    BY <2>1, <2>2, <2>5, NamesType DEF ResolutionInv, ResolvedInv
  <2> QED BY <2>4, <2>6
<1>7. CASE UNCHANGED vars
  <2>1. UNCHANGED <<pc, passed, applicable, todo, info, project, local, outcome, registry, touched>>
    BY <1>7 DEF vars, attempt
  <2>2. \A t \in Names : (Kept(t)' <=> Kept(t)) /\ (Meant(t)' <=> Meant(t))
    BY <2>1 DEF Kept, Listed, Prefix, Meant, Usable, Pattern, Targets, InInfoFile
  <2> QED BY <2>1, <2>2, NamesType DEF ResolutionInv, ListInv, ResolvedInv
<1> QED BY <1>1, <1>2, <1>3, <1>4, <1>5, <1>6, <1>7 DEF Next, Load

(* A load that succeeds has an info for every type that the hook names or   *)
(* that one of its patterns stands for, and for no other: neither the       *)
(* common prefix that the listing is narrowed to, nor the pages, nor the    *)
(* order of the two listings loses one (_load_target_info,                  *)
(* TypeNameResolver).                                                       *)
THEOREM ResolutionCorrect == Spec => []ResolutionIsExact
<1>1. Init => ResolutionInv
  BY InitResolutionInv
<1>2. ResolutionInv /\ [Next]_vars => ResolutionInv'
  BY NextResolutionInv
<1>3. ResolutionInv => ResolutionIsExact
  BY ResolutionInvImplies
<1> QED BY <1>1, <1>2, <1>3, PTL DEF Spec

-----------------------------------------------------------------------------
(* How long a load takes.                                                   *)

(* How many steps an attempt makes at most: a page may hold one type, and   *)
(* both listings, the documents and the targets are gone through once.      *)
Attempt == 3 * Len(Sorted) + Len(Documents) + 5

(* How many steps the load can still make; a submit has a second attempt.   *)
StepsLeft ==
  (CASE pc = "read" -> Attempt
     [] pc = "public" -> 3 * Len(Sorted) - passed + Len(Documents) + 4
     [] pc = "private" -> 2 * Len(Sorted) - passed + Len(Documents) + 3
     [] pc = "schemas" -> Len(Sorted) + Len(Documents) - read + 2
     [] pc = "describe" -> Cardinality(todo) + 1
     [] pc = "done" -> 0) +
  (IF command = "submit" /\ ~local /\ pc # "done" THEN Attempt ELSE 0)

(* A load makes a bounded number of steps, calls of the registry among      *)
(* them, whatever fails and is tried again: each brings it nearer to its    *)
(* end, and a change of the registry never sets it back (list_types,        *)
(* load_type_info, _add_hooks_content_to_zip).                              *)
LoadIsBounded ==
  [][IF touched' = touched THEN StepsLeft' \in Nat /\ StepsLeft' < StepsLeft
     ELSE StepsLeft' = StepsLeft]_vars

LEMMA TodoIsFinite ==
  ASSUME NEW S, S \subseteq DOMAIN Sorted
  PROVE  IsFiniteSet(S) /\ Cardinality(S) \in 0 .. Len(Sorted)
<1>1. DOMAIN Sorted = 1 .. Len(Sorted) /\ Len(Sorted) \in Nat
  BY ConstantFacts
<1>2. IsFiniteSet(1 .. Len(Sorted)) /\ Cardinality(1 .. Len(Sorted)) = Len(Sorted)
  BY <1>1, FS_Interval
<1>3. IsFiniteSet(S) /\ Cardinality(S) <= Len(Sorted)
  BY <1>1, <1>2, FS_Subset
<1>4. Cardinality(S) \in Nat
  BY <1>3, FS_CardinalityType
<1> QED BY <1>1, <1>3, <1>4

LEMMA SizesType ==
  ASSUME LoadInv
  PROVE  /\ Len(Sorted) \in Nat /\ Len(Documents) \in Nat /\ Attempt \in Nat
         /\ passed \in 0 .. Len(Sorted) /\ read \in 0 .. Len(Documents)
         /\ Cardinality(todo) \in 0 .. Len(Sorted)
<1>1. Len(Sorted) \in Nat /\ Len(Documents) \in Nat
  BY ConstantFacts, DocumentsType DEF LoadInv
<1>2. passed \in 0 .. Len(Sorted) /\ todo \subseteq DOMAIN Sorted /\ read \in Nat /\ read <= Len(Documents)
  BY DEF LoadInv, DocumentsInv, TypeOK
<1>3. Cardinality(todo) \in 0 .. Len(Sorted)
  BY <1>2, TodoIsFinite
<1> QED BY <1>1, <1>2, <1>3 DEF Attempt

(* The attempts after this one.                                             *)
Later == IF command = "submit" /\ ~local /\ pc # "done" THEN Attempt ELSE 0

LEMMA StepsLeftIs ==
  /\ pc = "read" => StepsLeft = Attempt + Later
  /\ pc = "public" => StepsLeft = 3 * Len(Sorted) - passed + Len(Documents) + 4 + Later
  /\ pc = "private" => StepsLeft = 2 * Len(Sorted) - passed + Len(Documents) + 3 + Later
  /\ pc = "schemas" => StepsLeft = Len(Sorted) + Len(Documents) - read + 2 + Later
  /\ pc = "describe" => StepsLeft = Cardinality(todo) + 1 + Later
  /\ pc = "done" => StepsLeft = 0 + Later
  BY DEF StepsLeft, Later

LEMMA StepsLeftType ==
  LoadInv =>
    /\ StepsLeft \in Nat /\ Later \in Nat
    /\ pc # "done" => Later < StepsLeft /\ StepsLeft <= Attempt + Later
    /\ pc = "done" => StepsLeft = 0
<1> SUFFICES ASSUME LoadInv
             PROVE  /\ StepsLeft \in Nat /\ Later \in Nat
                    /\ pc # "done" => Later < StepsLeft /\ StepsLeft <= Attempt + Later
                    /\ pc = "done" => StepsLeft = 0
  OBVIOUS
<1>1. Later \in Nat /\ (pc = "done" => Later = 0)
  BY SizesType DEF Later
<1>2. pc \in {"read", "public", "private", "schemas", "describe", "done"}
  BY DEF LoadInv, TypeOK
<1>3. Attempt = 3 * Len(Sorted) + Len(Documents) + 5
  BY DEF Attempt
<1>4. CASE pc = "read"
  BY <1>1, <1>3, <1>4, SizesType, StepsLeftIs
<1>5. CASE pc = "public"
  <2>1. StepsLeft = 3 * Len(Sorted) - passed + Len(Documents) + 4 + Later
    BY <1>5, StepsLeftIs
  <2> QED BY <1>1, <1>3, <1>5, <2>1, SizesType
<1>6. CASE pc = "private"
  <2>1. StepsLeft = 2 * Len(Sorted) - passed + Len(Documents) + 3 + Later
    BY <1>6, StepsLeftIs
  <2> QED BY <1>1, <1>3, <1>6, <2>1, SizesType
<1>7. CASE pc = "schemas"
  <2>1. StepsLeft = Len(Sorted) + Len(Documents) - read + 2 + Later
    BY <1>7, StepsLeftIs
  <2> QED BY <1>1, <1>3, <1>7, <2>1, SizesType
<1>8. CASE pc = "describe"
  <2>1. StepsLeft = Cardinality(todo) + 1 + Later
    BY <1>8, StepsLeftIs
  <2> QED BY <1>1, <1>3, <1>8, <2>1, SizesType
<1>9. CASE pc = "done"
  BY <1>1, <1>9, StepsLeftIs
<1> QED BY <1>2, <1>4, <1>5, <1>6, <1>7, <1>8, <1>9

(* A page read: the list before it had more to come.                        *)
LEMMA PageRead ==
  ASSUME NEW s \in Nat, NEW p \in 0 .. s, NEW q \in 0 .. s, p < q, NEW d \in Nat, NEW l \in Nat
  PROVE  /\ 3 * s - q + d + 4 + l \in Nat /\ 3 * s - q + d + 4 + l < 3 * s - p + d + 4 + l
         /\ 2 * s - q + d + 3 + l \in Nat /\ 2 * s - q + d + 3 + l < 2 * s - p + d + 3 + l
  OBVIOUS

Fewer == StepsLeft' \in Nat /\ StepsLeft' < StepsLeft

(* An attempt that fails is the last or has all its steps before it that    *)
(* were counted for the second.                                             *)
LEMMA FailFewer ==
  ASSUME LoadInv, LoadInv', NEW code, Fail(code), pc # "done", UNCHANGED <<command, project>>
  PROVE  Fewer
<1>1. StepsLeft \in Nat /\ Later \in Nat /\ Later < StepsLeft
  BY StepsLeftType
<1>2. Attempt' = Attempt /\ Attempt \in Nat
  BY SizesType DEF Attempt, Documents
<1>3. CASE command = "submit" /\ ~local
  <2>1. pc' = "read" /\ local' = TRUE /\ Later = Attempt
    BY <1>3 DEF Fail, Later
  <2>2. Later' = 0
    BY <2>1 DEF Later
  <2>3. StepsLeft' = Attempt' + Later'
    BY <2>1 DEF StepsLeft, Later
  <2> QED BY <1>1, <1>2, <2>1, <2>2, <2>3 DEF Fewer
<1>4. CASE ~(command = "submit" /\ ~local)
  <2>1. pc' = "done"
    BY <1>4 DEF Fail
  <2>2. StepsLeft' = 0
    BY <2>1 DEF StepsLeft
  <2> QED BY <1>1, <2>2 DEF Fewer
<1> QED BY <1>3, <1>4

(* One step of an attempt.                                                  *)
LEMMA LoadFewer == LoadInv /\ LoadInv' /\ (Load \/ CallRefused \/ FetchFails) => Fewer
<1> SUFFICES ASSUME LoadInv, LoadInv', Load \/ CallRefused \/ FetchFails PROVE Fewer
  OBVIOUS
<1>1. UNCHANGED <<command, project>> /\ pc # "done"
  BY DEF Load, Read, ListTypes, LoadDocument, LoadTypeInfo, CallRefused, FetchFails
<1>2. /\ Len(Sorted) \in Nat /\ Len(Documents) \in Nat
      /\ passed \in 0 .. Len(Sorted) /\ read \in 0 .. Len(Documents)
      /\ Cardinality(todo) \in 0 .. Len(Sorted)
      /\ Later \in Nat /\ StepsLeft \in Nat
      /\ Attempt = 3 * Len(Sorted) + Len(Documents) + 5
  BY SizesType, StepsLeftType DEF Attempt
<1>3. Len(Documents)' = Len(Documents) /\ Attempt' = Attempt
  BY <1>1 DEF Documents, Attempt
<1>4. /\ passed' \in 0 .. Len(Sorted)
      /\ todo' \subseteq DOMAIN Sorted
      /\ read' \in Nat
  BY DEF LoadInv, TypeOK
<1>5. Cardinality(todo') \in 0 .. Len(Sorted)
  BY <1>4, TodoIsFinite
<1>6. ASSUME UNCHANGED local, pc' # "done" PROVE Later' = Later
  BY <1>1, <1>3, <1>6 DEF Later
<1>7. ASSUME NEW code, Fail(code) PROVE Fewer
  BY <1>1, <1>7, FailFewer
<1>8. CASE \A code : ~Fail(code)
  <2>1. CASE Read
    <3>1. pc = "read" /\ UNCHANGED <<local, passed, read>> /\ pc' \in {"public", "schemas"}
      BY <1>8, <2>1 DEF Read, Goto
    <3>2. StepsLeft = Attempt + Later
      BY <3>1, StepsLeftIs
    <3>3. Later' = Later
      BY <1>6, <3>1
    <3>4. CASE pc' = "public"
      <4>1. StepsLeft' = 3 * Len(Sorted) - passed' + Len(Documents)' + 4 + Later'
        BY <3>4 DEF StepsLeft, Later
      <4> QED BY <1>2, <1>3, <3>1, <3>2, <3>3, <4>1 DEF Fewer
    <3>5. CASE pc' = "schemas"
      <4>1. StepsLeft' = Len(Sorted) + Len(Documents)' - read' + 2 + Later'
        BY <3>5 DEF StepsLeft, Later
      <4> QED BY <1>2, <1>3, <3>1, <3>2, <3>3, <4>1 DEF Fewer
    <3> QED BY <3>1, <3>4, <3>5
  <2>2. CASE ListTypes
    <3>1. PICK n \in 1 .. PageSize :
            LET upto == IF passed + n > Len(Sorted) THEN Len(Sorted) ELSE passed + n IN
            IF upto < Len(Sorted) THEN passed' = upto /\ pc' = pc
            ELSE passed' = 0 /\ pc' = IF pc = "public" THEN "private" ELSE "schemas"
      BY <2>2 DEF ListTypes, Goto
    <3>2. pc \in {"public", "private"} /\ UNCHANGED <<local, read>>
      BY <2>2 DEF ListTypes
    <3>3. \/ passed < passed' /\ pc' = pc
          \/ passed' = 0 /\ pc = "public" /\ pc' = "private"
          \/ passed' = 0 /\ pc = "private" /\ pc' = "schemas"
      BY <1>2, <3>1, <3>2, BoundsAssumption
    <3>4. Later' = Later
      BY <1>6, <3>2, <3>3
    <3>5. CASE passed < passed' /\ pc' = pc /\ pc = "public"
      <4>1. StepsLeft = 3 * Len(Sorted) - passed + Len(Documents) + 4 + Later
        BY <3>5, StepsLeftIs
      <4>2. StepsLeft' = 3 * Len(Sorted) - passed' + Len(Documents)' + 4 + Later'
        BY <3>5 DEF StepsLeft, Later
      <4>3. StepsLeft' = 3 * Len(Sorted) - passed' + Len(Documents) + 4 + Later
        BY <1>3, <3>4, <4>2
      <4>4. passed < passed' /\ passed' \in 0 .. Len(Sorted) /\ passed \in 0 .. Len(Sorted)
        BY <1>2, <1>4, <3>5
      <4> QED BY ONLY <1>2, <4>1, <4>3, <4>4, PageRead DEF Fewer
    <3>6. CASE passed < passed' /\ pc' = pc /\ pc = "private"
      <4>1. StepsLeft = 2 * Len(Sorted) - passed + Len(Documents) + 3 + Later
        BY <3>6, StepsLeftIs
      <4>2. StepsLeft' = 2 * Len(Sorted) - passed' + Len(Documents)' + 3 + Later'
        BY <3>6 DEF StepsLeft, Later
      <4>3. StepsLeft' = 2 * Len(Sorted) - passed' + Len(Documents) + 3 + Later
        BY <1>3, <3>4, <4>2
      <4>4. passed < passed' /\ passed' \in 0 .. Len(Sorted) /\ passed \in 0 .. Len(Sorted)
        BY <1>2, <1>4, <3>6
      <4> QED BY ONLY <1>2, <4>1, <4>3, <4>4, PageRead DEF Fewer
    <3>7. CASE passed' = 0 /\ pc = "public" /\ pc' = "private"
      <4>1. StepsLeft = 3 * Len(Sorted) - passed + Len(Documents) + 4 + Later
        BY <3>7, StepsLeftIs
      <4>2. StepsLeft' = 2 * Len(Sorted) - passed' + Len(Documents)' + 3 + Later'
        BY <3>7 DEF StepsLeft, Later
      <4> QED BY <1>2, <1>3, <3>4, <3>7, <4>1, <4>2 DEF Fewer
    <3>8. CASE passed' = 0 /\ pc = "private" /\ pc' = "schemas"
      <4>1. StepsLeft = 2 * Len(Sorted) - passed + Len(Documents) + 3 + Later
        BY <3>8, StepsLeftIs
      <4>2. StepsLeft' = Len(Sorted) + Len(Documents)' - read' + 2 + Later'
        BY <3>8 DEF StepsLeft, Later
      <4> QED BY <1>2, <1>3, <3>2, <3>4, <4>1, <4>2 DEF Fewer
    <3> QED BY <3>2, <3>3, <3>5, <3>6, <3>7, <3>8
  <2>3. CASE LoadDocument
    <3>1. /\ pc = "schemas" /\ UNCHANGED local
          /\ \/ pc' = "describe"
             \/ pc' = "schemas" /\ read' = read + 1 /\ read < Len(Documents)
      BY <1>8, <2>3 DEF LoadDocument, Goto
    <3>2. StepsLeft = Len(Sorted) + Len(Documents) - read + 2 + Later
      BY <3>1, StepsLeftIs
    <3>3. Later' = Later
      BY <1>6, <3>1
    <3>4. CASE pc' = "describe"
      <4>1. StepsLeft' = Cardinality(todo') + 1 + Later'
        BY <3>4 DEF StepsLeft, Later
      <4> QED BY <1>2, <1>5, <3>2, <3>3, <4>1 DEF Fewer
    <3>5. CASE pc' = "schemas" /\ read' = read + 1 /\ read < Len(Documents)
      <4>1. StepsLeft' = Len(Sorted) + Len(Documents)' - read' + 2 + Later'
        BY <3>5 DEF StepsLeft, Later
      <4> QED BY <1>2, <1>3, <3>2, <3>3, <3>5, <4>1 DEF Fewer
    <3> QED BY <3>1, <3>4, <3>5
  <2>4. CASE LoadTypeInfo
    <3>1. /\ pc = "describe"
          /\ \/ pc' = "done"
             \/ pc' = "describe" /\ UNCHANGED local /\ \E i \in todo : todo' = todo \ {i}
      BY <1>8, <2>4 DEF LoadTypeInfo
    <3>2. StepsLeft = Cardinality(todo) + 1 + Later
      BY <3>1, StepsLeftIs
    <3>3. CASE pc' = "done"
      <4>1. StepsLeft' = 0
        BY <3>3 DEF StepsLeft
      <4> QED BY <1>2, <3>2, <4>1 DEF Fewer
    <3>4. CASE pc' = "describe" /\ UNCHANGED local /\ \E i \in todo : todo' = todo \ {i}
      <4>1. PICK i \in todo : todo' = todo \ {i}
        BY <3>4
      <4>2. IsFiniteSet(todo)
        BY TodoIsFinite DEF LoadInv, TypeOK
      <4>3. Cardinality(todo') = Cardinality(todo) - 1
        BY <4>1, <4>2, FS_RemoveElement
      <4>4. StepsLeft' = Cardinality(todo') + 1 + Later'
        BY <3>4 DEF StepsLeft, Later
      <4>5. Later' = Later
        BY <1>6, <3>4
      <4> QED BY <1>2, <1>5, <3>2, <4>3, <4>4, <4>5 DEF Fewer
    <3> QED BY <3>1, <3>3, <3>4
  <2>5. CASE CallRefused \/ FetchFails
    BY <1>8, <2>5 DEF CallRefused, FetchFails
  <2> QED BY <2>1, <2>2, <2>3, <2>4, <2>5 DEF Load
<1> QED BY <1>7, <1>8

(* A load ends after a number of steps that its types and documents bound,  *)
(* whatever fails and however often the registry changes                    *)
(* (_load_target_info, _add_hooks_content_to_zip).                          *)
THEOREM BoundCorrect == Spec => LoadIsBounded
<1>1. Init => LoadInv
  BY InitLoadInv
<1>2. LoadInv /\ [Next]_vars => LoadInv'
  BY NextLoadInv
<1>3. LoadInv /\ LoadInv' /\ [Next]_vars =>
        [IF touched' = touched THEN StepsLeft' \in Nat /\ StepsLeft' < StepsLeft
         ELSE StepsLeft' = StepsLeft]_vars
  <2> SUFFICES ASSUME LoadInv, LoadInv', Next
               PROVE  IF touched' = touched THEN Fewer ELSE StepsLeft' = StepsLeft
    BY DEF Fewer
  <2>1. CASE Load \/ CallRefused \/ FetchFails
    <3>1. touched' = touched
      BY <2>1 DEF Load, Read, ListTypes, LoadDocument, LoadTypeInfo, CallRefused, FetchFails
    <3> QED BY <2>1, <3>1, LoadFewer
  <2>2. CASE RegistryChanges
    <3>1. touched' # touched /\ UNCHANGED <<command, project, local, pc, passed, read, todo>>
      BY <2>2 DEF RegistryChanges, attempt
    <3>2. StepsLeft' = StepsLeft
      BY <3>1 DEF StepsLeft, Attempt, Documents
    <3> QED BY <3>1, <3>2
  <2> QED BY <2>1, <2>2 DEF Next
<1> QED BY <1>1, <1>2, <1>3, PTL DEF Spec, LoadIsBounded
=============================================================================
