-------------------------- MODULE TestSessionProofs --------------------------
(***************************************************************************)
(* Proofs about TestSession, for every set of targets, every hook schema,  *)
(* every inputs folder and every choice of defects.                        *)
(***************************************************************************)
EXTENDS TestSession, SequenceTheorems, FiniteSetTheorems, WellFoundedInduction, TLAPS

-----------------------------------------------------------------------------
(* The suite.                                                               *)

LEMMA OnIs ==
  ASSUME NEW point \in Points
  PROVE  /\ On(point) \in Seq(Test) /\ Len(On(point)) = 3
         /\ On(point)[1] = [point |-> point, expect |-> "success"]
         /\ On(point)[2] = [point |-> point, expect |-> "failed"]
         /\ On(point)[3] = [point |-> point, expect |-> "unsupported"]
BY DEF On, Test

LEMMA ConcatIs ==
  ASSUME NEW s \in Seq(Test), NEW t \in Seq(Test)
  PROVE  /\ s \o t \in Seq(Test) /\ Len(s \o t) = Len(s) + Len(t)
         /\ \A i \in 1 .. Len(s) : (s \o t)[i] = s[i]
         /\ \A i \in 1 .. Len(t) : (s \o t)[Len(s) + i] = t[i]
<1>1. Len(s) \in Nat /\ Len(t) \in Nat
  OBVIOUS
<1>2. \A i \in 1 .. Len(s) + Len(t) : (s \o t)[i] = IF i <= Len(s) THEN s[i] ELSE t[i - Len(s)]
  BY ConcatProperties
<1>3. s \o t \in Seq(Test) /\ Len(s \o t) = Len(s) + Len(t)
  BY ConcatProperties
<1>4. ASSUME NEW i \in 1 .. Len(t) PROVE (s \o t)[Len(s) + i] = t[i]
  <2>1. Len(s) + i \in 1 .. Len(s) + Len(t) /\ ~(Len(s) + i <= Len(s)) /\ Len(s) + i - Len(s) = i
    BY <1>1
  <2> QED BY <1>2, <2>1
<1>5. ASSUME NEW i \in 1 .. Len(s) PROVE (s \o t)[i] = s[i]
  <2>1. i \in 1 .. Len(s) + Len(t) /\ i <= Len(s)
    BY <1>1
  <2> QED BY <1>2, <2>1
<1> QED BY <1>3, <1>4, <1>5

(* Every invocation point has a test with valid and one with invalid models. *)
LEMMA SuiteIs ==
  /\ Suite \in Seq(Test) /\ Len(Suite) = 9
  /\ \A point \in Points, expect \in {"success", "failed"} :
       \E i \in 1 .. 9 : Suite[i] = [point |-> point, expect |-> expect]
<1> DEFINE c == On("CREATE_PRE_PROVISION")
           d == On("DELETE_PRE_PROVISION")
           u == On("UPDATE_PRE_PROVISION")
           cd == c \o d
<1>1. c \in Seq(Test) /\ d \in Seq(Test) /\ u \in Seq(Test)
      /\ Len(c) = 3 /\ Len(d) = 3 /\ Len(u) = 3
  BY OnIs DEF Points
<1>2. Suite = cd \o u
  BY DEF Suite
<1> HIDE DEF c, d, u
<1>3. /\ cd \in Seq(Test) /\ Len(cd) = 6
      /\ cd[1] = c[1] /\ cd[2] = c[2] /\ cd[4] = d[1] /\ cd[5] = d[2]
  <2>1. /\ cd \in Seq(Test) /\ Len(cd) = 3 + 3
        /\ \A i \in 1 .. 3 : cd[i] = c[i] /\ cd[3 + i] = d[i]
    <3>1. /\ cd \in Seq(Test) /\ Len(cd) = Len(c) + Len(d)
          /\ \A i \in 1 .. Len(c) : cd[i] = c[i]
          /\ \A i \in 1 .. Len(d) : cd[Len(c) + i] = d[i]
      BY <1>1, ConcatIs, Zenon
    <3> HIDE DEF cd
    <3> QED BY <1>1, <3>1, Zenon
  <2>2. \A i \in {1, 2} : i \in 1 .. 3
    OBVIOUS
  <2>3. cd[1] = c[1] /\ cd[2] = c[2] /\ cd[3 + 1] = d[1] /\ cd[3 + 2] = d[2]
    BY <2>1, <2>2
  <2>4. 3 + 1 = 4 /\ 3 + 2 = 5 /\ 3 + 3 = 6
    OBVIOUS
  <2> HIDE DEF cd
  <2> QED BY <2>1, <2>3, <2>4
<1> HIDE DEF cd
<1>4. /\ Suite \in Seq(Test) /\ Len(Suite) = 6 + 3
      /\ \A i \in 1 .. 6 : Suite[i] = cd[i]
      /\ \A i \in 1 .. 3 : Suite[6 + i] = u[i]
  <2>1. /\ cd \o u \in Seq(Test) /\ Len(cd \o u) = Len(cd) + Len(u)
        /\ \A i \in 1 .. Len(cd) : (cd \o u)[i] = cd[i]
        /\ \A i \in 1 .. Len(u) : (cd \o u)[Len(cd) + i] = u[i]
    BY <1>1, <1>3, ConcatIs, Zenon
  <2> QED BY <1>1, <1>2, <1>3, <2>1, Zenon
<1>5. /\ Suite[1] = c[1] /\ Suite[2] = c[2] /\ Suite[4] = d[1] /\ Suite[5] = d[2]
      /\ Suite[7] = u[1] /\ Suite[8] = u[2]
  <2>1. \A i \in {1, 2, 4, 5} : i \in 1 .. 6
    OBVIOUS
  <2>2. \A i \in {1, 2} : i \in 1 .. 3
    OBVIOUS
  <2>3. Suite[6 + 1] = u[1] /\ Suite[6 + 2] = u[2]
    BY <1>4, <2>2
  <2>4. 6 + 1 = 7 /\ 6 + 2 = 8
    OBVIOUS
  <2>5. Suite[7] = u[1] /\ Suite[8] = u[2]
    BY <2>3, <2>4, Zenon
  <2>6. Suite[1] = cd[1] /\ Suite[2] = cd[2] /\ Suite[4] = cd[4] /\ Suite[5] = cd[5]
    BY <1>4, <2>1, Zenon
  <2> QED BY <1>3, <2>5, <2>6, Zenon
<1>6. /\ Suite[1] = [point |-> "CREATE_PRE_PROVISION", expect |-> "success"]
      /\ Suite[2] = [point |-> "CREATE_PRE_PROVISION", expect |-> "failed"]
      /\ Suite[4] = [point |-> "DELETE_PRE_PROVISION", expect |-> "success"]
      /\ Suite[5] = [point |-> "DELETE_PRE_PROVISION", expect |-> "failed"]
      /\ Suite[7] = [point |-> "UPDATE_PRE_PROVISION", expect |-> "success"]
      /\ Suite[8] = [point |-> "UPDATE_PRE_PROVISION", expect |-> "failed"]
  BY <1>5, OnIs DEF Points, c, d, u
<1> QED BY <1>4, <1>6 DEF Points

LEMMA Positions == Len(Suite) = 9 /\ 0 .. Len(Suite) + 1 = 0 .. 10
<1>1. Len(Suite) = 9
  BY SuiteIs
<1> QED BY <1>1

-----------------------------------------------------------------------------
(* Targets.                                                                 *)

LEMMA HandlerTargetsType ==
  ASSUME TypeOK, NEW point \in DOMAIN schema
  PROVE  point \in Points /\ HandlerTargets(point) \subseteq Targets
BY SchemasAssumption, InfoAssumption DEF TypeOK, ClientTypeOK, HandlerTargets, TargetName

(* Some target of those that are left is the first.                         *)
LEMMA NextTargetIs ==
  ASSUME todo \subseteq Nat, todo # {}
  PROVE  NextTarget \in todo
<1> DEFINE less == {pair \in Nat \X Nat : pair[1] < pair[2]}
<1>1. IsWellFoundedOn(less, Nat)
  BY NatLessThanWellFounded DEF OpToRel
<1> HIDE DEF less
<1>2. PICK t \in todo : \A u \in todo : ~ (<<u, t>> \in less)
  BY <1>1, WFMin
<1>3. ASSUME NEW u \in todo PROVE t <= u
  <2>1. u \in Nat /\ t \in Nat /\ ~ (u < t)
    BY <1>2 DEF less
  <2> QED BY <2>1
<1> QED BY <1>3 DEF NextTarget

(* A set of files that begins like no other's name: the set's own files.    *)
LEMMA MatchingOwn ==
  ASSUME NEW n \in 1 .. MaxSet, project.folder # NoFolder, NEW f \in project.folder, f.n = n
  PROVE  f \in Matching(n)
<1>1. Decimal(n) \in Seq(Nat)
  BY MaxSetAssumption DEF Decimal
<1>2. IsPrefix(Decimal(n), Decimal(n))
  BY <1>1 DEF IsPrefix
<1> QED BY <1>2 DEF Matching

LEMMA MatchingInRange ==
  ASSUME TypeOK, Matching(index) # {}
  PROVE  index <= MaxSet
<1>1. PICK f \in Matching(index) : TRUE
  OBVIOUS
<1>2. project.folder # NoFolder /\ f \in project.folder /\ IsPrefix(Decimal(index), Decimal(f.n))
  BY <1>1 DEF Matching
<1>3. f.n \in 1 .. MaxSet
  BY <1>2, FoldersAssumption DEF TypeOK, InputFile
<1>4. ASSUME index = MaxSet + 1 PROVE FALSE
  <2>1. f.n \in Nat /\ index \in Nat /\ f.n < index /\ index <= 100
    BY <1>3, <1>4, MaxSetAssumption
  <2>2. CASE index < 10
    BY <1>2, <2>1, <2>2 DEF Decimal, IsPrefix
  <2>3. CASE index >= 10
    <3>1. Decimal(index) = <<index \div 10, index % 10>> /\ f.n >= 10
      BY <1>2, <2>1, <2>3 DEF Decimal, IsPrefix
    <3>2. f.n \div 10 = index \div 10 /\ f.n % 10 = index % 10
      BY <1>2, <2>1, <2>3, <3>1 DEF Decimal, IsPrefix
    <3> QED BY <2>1, <3>2
  <2> QED BY <2>1, <2>2, <2>3
<1> QED BY <1>4, MaxSetAssumption DEF TypeOK

-----------------------------------------------------------------------------
(* Types.                                                                   *)

(* What a test calls: its targets are those of its invocation point.        *)
TestTargets ==
  IF Now.expect = "unsupported" THEN {Unsupported} ELSE HandlerTargets(Now.point)

(* A session is for a set of inputs within the bound, as its files are.     *)
IndexInv == stage \in {"client", "session"} => index \in 1 .. MaxSet

(* Targets are left, and a call is made, only within a test; the call is    *)
(* for one of the targets that are left.                                    *)
CallInv ==
  /\ todo # {} => InTest /\ Now.point \in DOMAIN schema /\ todo \subseteq TestTargets
  /\ phase # "idle" => /\ request.target \in todo
                       /\ request.point = Now.point
                       /\ request.valid = (Now.expect # "failed")

(* Only a command that is done has an exit code.                            *)
ExitInv == stage # "done" => exit = "none"

TypeInv == TypeOK /\ IndexInv /\ CallInv /\ ExitInv

LEMMA NowIs ==
  ASSUME InTest
  PROVE  Now \in Test /\ test \in 1 .. 9 /\ test + 1 \in 1 .. 10
<1>1. test \in 1 .. 9
  BY SuiteIs DEF InTest
<1>2. Now \in Test
  BY <1>1, SuiteIs, ElementOfSeq DEF Now
<1> QED BY <1>1, <1>2

LEMMA TestTargetsType ==
  ASSUME TypeOK, InTest, Now.point \in DOMAIN schema
  PROVE  /\ TestTargets \subseteq Targets \cup {Unsupported}
         /\ Now.expect = "unsupported" => TestTargets = {Unsupported}
         /\ Now.expect # "unsupported" => TestTargets \subseteq Targets
BY HandlerTargetsType DEF TestTargets

LEMMA AnswersType ==
  ASSUME request \in Request, defect \in Defects \cup {"none"}, NEW polls \in 0 .. MaxPolls
  PROVE  Conforming(polls) \in Answer /\ Deviation(Conforming(polls)) \in Answer
<1>1. NoContext \in Context
  BY PollsAssumption DEF NoContext, Context
<1>2. /\ Success \in Answer
      /\ \A code \in {"none", "NonCompliant", "UnsupportedTarget", "InternalFailure"} :
           Failed(code) \in Answer
  BY <1>1 DEF Success, Failed, Answer
<1>3. Verdict \in Answer
  BY <1>2 DEF Verdict
<1>4. ASSUME NEW left \in 0 .. MaxPolls PROVE Progress(request.token, left) \in Answer
  <2>1. [token |-> request.token, left |-> left] \in Context
    BY DEF Request, Context
  <2> QED BY <1>1, <2>1 DEF Progress, Success, Answer
<1>5. Conforming(polls) \in Answer
  <2>1. request.context \in Context
    BY DEF Request
  <2>2. request.context.left \in 0 .. MaxPolls
    BY <2>1 DEF Context
  <2>3. CASE request.context = NoContext
    BY <1>2, <1>3, <1>4, <2>3 DEF Conforming
  <2>4. CASE request.context # NoContext /\ request.context.left - 1 > 0
    <3>1. request.context.left - 1 \in 0 .. MaxPolls
      BY <2>2, <2>4, PollsAssumption
    <3> QED BY <1>2, <1>4, <2>4, <3>1 DEF Conforming
  <2>5. CASE request.context # NoContext /\ ~ (request.context.left - 1 > 0)
    BY <1>2, <1>3, <2>5 DEF Conforming
  <2> QED BY <2>3, <2>4, <2>5
<1>6. ASSUME NEW a \in Answer PROVE Deviation(a) \in Answer
  <2>1. /\ [a EXCEPT !.message = FALSE] \in Answer /\ [a EXCEPT !.code = "InternalFailure"] \in Answer
        /\ [a EXCEPT !.delay = TRUE] \in Answer /\ [a EXCEPT !.slow = TRUE] \in Answer
    BY DEF Answer
  <2> QED BY <1>2, <2>1 DEF Deviation
<1> QED BY <1>5, <1>6

LEMMA OutsideOfTest ==
  ASSUME TypeInv, ~InTest \/ todo = {}
  PROVE  todo = {} /\ phase = "idle"
BY DEF TypeInv, CallInv, TypeOK, ClientTypeOK

LEMMA SameTest ==
  ASSUME UNCHANGED <<schema, project, stage, test>>
  PROVE  InTest' = InTest /\ Now' = Now /\ TestTargets' = TestTargets
BY DEF InTest, Now, TestTargets, HandlerTargets

LEMMA InitType == Init => TypeInv
<1> SUFFICES ASSUME Init PROVE TypeInv
  OBVIOUS
<1>1. NoContext \in Context
  BY PollsAssumption DEF NoContext, Context
<1>2. ClientTypeOK
  BY <1>1 DEF Init, ClientInit, ClientTypeOK, Request, Answer, Success, Points, Configurations
<1>3. index \in 1 .. MaxSet + 1 /\ test \in 0 .. Len(Suite) + 1
  BY Positions, MaxSetAssumption DEF Init
<1>4. TypeOK
  BY <1>2, <1>3 DEF Init, TypeOK, Configurations
<1> QED BY <1>4 DEF Init, ClientInit, TypeInv, IndexInv, CallInv, ExitInv

(* Something is missing: the command, or the test, is over.                 *)
LEMMA LacksIs == Lacks => stage' = "done" /\ exit' \in {"1", "2", "127"} /\ unavailable' = TRUE
BY DEF Lacks, Exit

LEMMA LoadType == TypeInv /\ Load => TypeInv'
<1> SUFFICES ASSUME TypeInv, Load PROVE TypeInv'
  OBVIOUS
<1>1. todo = {} /\ phase = "idle"
  BY OutsideOfTest DEF Load, InTest
<1>2. /\ stage' \in {"inputs", "done"} /\ exit' \in {"none", "0", "1", "2", "127"}
      /\ unavailable' \in BOOLEAN /\ (stage' # "done" => exit' = exit)
  BY LacksIs DEF Load, Exit, Goto, TypeInv, TypeOK
<1>3. ExitInv' /\ TypeOK'
  BY <1>2 DEF TypeInv, TypeOK, ClientTypeOK, ExitInv, Load, clientVars, callVars, readOnly
<1> QED BY <1>1, <1>2, <1>3 DEF TypeInv, IndexInv, CallInv, Load, clientVars, callVars

LEMMA GetInputsType == TypeInv /\ GetInputs => TypeInv'
<1> SUFFICES ASSUME TypeInv, GetInputs PROVE TypeInv'
  OBVIOUS
<1>1. todo = {} /\ phase = "idle"
  BY OutsideOfTest DEF GetInputs, InTest
<1>2. Matching(index) \subseteq InputFile
  BY FoldersAssumption DEF Matching, TypeInv, TypeOK
<1>3. inputs' = Generated \/ inputs' \subseteq InputFile
  BY <1>2 DEF GetInputs, TypeInv, TypeOK
<1>4. /\ stage' \in {"client", "done"} /\ exit' \in {"none", "0", "1", "2", "127"}
      /\ unavailable' \in BOOLEAN /\ (stage' # "done" => exit' = exit)
  BY LacksIs DEF GetInputs, Exit, Goto, TypeInv, TypeOK
<1>5. TypeOK'
  BY <1>3, <1>4 DEF TypeInv, TypeOK, ClientTypeOK, GetInputs, clientVars, callVars, readOnly
<1>6. stage' = "client" => index' \in 1 .. MaxSet
  <2>1. CASE index = 1
    BY <2>1, MaxSetAssumption DEF GetInputs
  <2>2. CASE Matching(index) # {}
    BY <2>2, MatchingInRange, MaxSetAssumption DEF GetInputs, TypeInv, TypeOK
  <2>3. CASE Matching(index) = {} /\ index # 1
    BY <2>3 DEF GetInputs, Exit
  <2> QED BY <2>1, <2>2, <2>3
<1>7. ExitInv'
  BY <1>4 DEF GetInputs, TypeInv, ExitInv
<1> QED BY <1>1, <1>4, <1>5, <1>6, <1>7 DEF TypeInv, IndexInv, CallInv, GetInputs, clientVars, callVars

LEMMA MakeClientType == TypeInv /\ MakeClient => TypeInv'
<1> SUFFICES ASSUME TypeInv, MakeClient PROVE TypeInv'
  OBVIOUS
<1>1. todo = {} /\ phase = "idle"
  BY OutsideOfTest DEF MakeClient, InTest
<1>2. test' \in 0 .. Len(Suite) + 1
  BY Positions DEF MakeClient, TypeInv, TypeOK
<1>3. /\ stage' \in {"session", "done"} /\ exit' \in {"none", "0", "1", "2", "127"}
      /\ unavailable' \in BOOLEAN /\ (stage' # "done" => exit' = exit)
  BY LacksIs DEF MakeClient, Goto, TypeInv, TypeOK
<1>4. failures' \in BOOLEAN
  BY DEF MakeClient, TypeInv, TypeOK
<1>5. ExitInv' /\ TypeOK'
  BY <1>2, <1>3, <1>4
  DEF TypeInv, TypeOK, ClientTypeOK, ExitInv, MakeClient, clientVars, callVars, readOnly
<1> QED BY <1>1, <1>3, <1>5 DEF TypeInv, IndexInv, CallInv, MakeClient, clientVars, callVars

(* A session ends outside of a test.                                        *)
LEMMA ConclusionType ==
  ASSUME TypeInv, stage = "session", todo = {}, phase = "idle", NEW ok \in BOOLEAN, Conclusion(ok),
         UNCHANGED <<clientVars, readOnly, cached, inputs, todo, failures, tested, unavailable>>
  PROVE  TypeInv'
<1>1. stage' \in {"inputs", "done"} /\ exit' \in {"none", "0", "1", "2", "127"}
  BY DEF Conclusion, Exit, Goto, TypeInv, TypeOK
<1>2. index' \in 1 .. MaxSet + 1 /\ passed' \subseteq 1 .. MaxSet
  <2>1. index \in 1 .. MaxSet /\ index + 1 \in 1 .. MaxSet + 1 /\ index \in 1 .. MaxSet + 1
    BY MaxSetAssumption DEF TypeInv, IndexInv
  <2>2. passed \subseteq 1 .. MaxSet
    BY DEF TypeInv, TypeOK
  <2> QED BY <2>1, <2>2 DEF Conclusion
<1>3. test' \in 0 .. Len(Suite) + 1
  BY Positions DEF Conclusion
<1>4. TypeOK'
  BY <1>1, <1>2, <1>3 DEF TypeInv, TypeOK, ClientTypeOK, clientVars, callVars, readOnly
<1>5. ExitInv'
  BY DEF Conclusion, Exit, Goto, TypeInv, ExitInv, InTest
<1> QED BY <1>1, <1>4, <1>5 DEF TypeInv, IndexInv, CallInv, clientVars, callVars

LEMMA SessionType == TypeInv /\ (ResourceSession \/ EndSession) => TypeInv'
<1> SUFFICES ASSUME TypeInv, ResourceSession \/ EndSession PROVE TypeInv'
  OBVIOUS
<1>1. todo = {} /\ phase = "idle"
  <2>1. ~InTest
    <3>1. CASE ResourceSession
      BY <3>1 DEF ResourceSession, InTest
    <3>2. CASE EndSession
      <4>1. test > 9
        BY <3>2, Positions DEF EndSession
      <4>2. test \in 0 .. 10
        BY Positions DEF TypeInv, TypeOK
      <4>3. test \notin 1 .. 9
        BY <4>1, <4>2
      <4> QED BY <4>3, Positions DEF InTest
    <3> QED BY <3>1, <3>2
  <2> QED BY <2>1, OutsideOfTest
<1>2. CASE ResourceSession
  BY <1>1, <1>2, ConclusionType DEF ResourceSession
<1>3. CASE EndSession
  BY <1>1, <1>3, ConclusionType DEF EndSession, TypeInv, TypeOK
<1> QED BY <1>2, <1>3

LEMMA BeginTestType == TypeInv /\ BeginTest => TypeInv'
<1> SUFFICES ASSUME TypeInv, BeginTest PROVE TypeInv'
  OBVIOUS
<1>1. todo = {} /\ phase = "idle" /\ InTest /\ phase' = "idle"
  BY OutsideOfTest DEF BeginTest, clientVars, callVars
<1>2. Len(Suite) = 9 /\ test \in 1 .. 9 /\ test + 1 \in 1 .. 10
  BY <1>1, NowIs, SuiteIs
<1>3. \/ todo' = {} /\ test' = test + 1
      \/ todo' = TestTargets /\ test' = test /\ Now.point \in DOMAIN schema
  BY <1>1 DEF BeginTest, TestTargets, FailTest, TestLacks
<1>4. todo' \subseteq Targets \cup {Unsupported} /\ test' \in 0 .. 10
  BY <1>1, <1>2, <1>3, TestTargetsType DEF TypeInv
<1>5. TypeOK'
  <2>1. test' \in 0 .. Len(Suite) + 1
    BY <1>4, Positions
  <2>2. failures' \in BOOLEAN /\ unavailable' \in BOOLEAN
    BY DEF BeginTest, FailTest, TestLacks, TypeInv, TypeOK
  <2>3. UNCHANGED <<clientVars, readOnly, cached, stage, index, inputs, tested, passed, exit>>
    BY DEF BeginTest
  <2> QED BY <1>4, <2>1, <2>2, <2>3 DEF TypeInv, TypeOK, ClientTypeOK, clientVars, callVars, readOnly
<1>6. CASE todo' = {} /\ test' = test + 1
  BY <1>1, <1>5, <1>6 DEF TypeInv, IndexInv, CallInv, ExitInv, BeginTest
<1>7. CASE todo' = TestTargets /\ test' = test /\ Now.point \in DOMAIN schema
  <2>1. InTest' /\ Now' = Now /\ TestTargets' = TestTargets /\ schema' = schema
    BY <1>1, <1>7, SameTest DEF BeginTest, clientVars, readOnly
  <2> QED BY <1>1, <1>5, <1>7, <2>1 DEF TypeInv, IndexInv, CallInv, ExitInv, BeginTest
<1> QED BY <1>3, <1>6, <1>7

LEMMA NextTargetType ==
  ASSUME TypeOK, todo # {}
  PROVE  NextTarget \in todo /\ NextTarget \in Targets \cup {Unsupported}
<1>1. todo \subseteq Nat
  BY TargetsAssumption, UnsupportedAssumption DEF TypeOK
<1> QED BY <1>1, NextTargetIs DEF TypeOK

LEMMA CallTargetType == TypeInv /\ CallTarget => TypeInv'
<1> SUFFICES ASSUME TypeInv, CallTarget PROVE TypeInv'
  OBVIOUS
<1>1. /\ InTest /\ todo # {} /\ phase = "idle"
      /\ UNCHANGED <<schema, defect, shown, readOnly, stage, index, inputs, tested, passed, exit>>
  BY DEF CallTarget
<1>2. Len(Suite) = 9 /\ test \in 1 .. 9 /\ test + 1 \in 1 .. 10 /\ Now \in Test
  BY <1>1, NowIs, SuiteIs
<1>3. ReadConfiguration \in ConfigurationFile /\ cached' \in Configurations \cup {"noHook"}
  BY FilesAssumption
  DEF CallTarget, ReadConfiguration, Remember, TypeInv, TypeOK, ConfigurationFile, Configurations
<1>4. CASE /\ ReadConfiguration \in Configurations
           /\ Invoke(Now.point, NextTarget, Now.expect # "failed", ReadConfiguration)
           /\ UNCHANGED <<test, todo, failures, unavailable>>
  <2>1. NextTarget \in todo /\ NextTarget \in Targets \cup {Unsupported}
    BY <1>1, NextTargetType DEF TypeInv
  <2>2. NoContext \in Context
    BY PollsAssumption DEF NoContext, Context
  <2>3. tokens' \in Nat /\ tokens + 1 \in Nat
    BY <1>4 DEF Invoke, TypeInv, TypeOK, ClientTypeOK
  <2>4. request' \in Request
    BY <1>2, <1>4, <2>1, <2>2, <2>3 DEF Invoke, Request, Test
  <2>5. TypeOK'
    BY <1>1, <1>3, <1>4, <2>3, <2>4 DEF Invoke, TypeInv, TypeOK, ClientTypeOK, readOnly
  <2>6. InTest' /\ Now' = Now /\ TestTargets' = TestTargets
    BY <1>1, <1>4, SameTest DEF readOnly
  <2>7. /\ request'.target = NextTarget /\ request'.point = Now.point
        /\ request'.valid = (Now.expect # "failed")
    BY <1>4 DEF Invoke
  <2> QED BY <1>1, <1>4, <2>1, <2>5, <2>6, <2>7 DEF TypeInv, IndexInv, CallInv, ExitInv
<1>5. CASE FailTest /\ UNCHANGED callVars /\ unavailable' \in {unavailable, TRUE}
  <2>1. failures' = TRUE /\ todo' = {} /\ test' = test + 1 /\ unavailable' \in BOOLEAN
    BY <1>5 DEF FailTest, TypeInv, TypeOK
  <2>2. test' \in 0 .. Len(Suite) + 1
    BY <1>2, <2>1
  <2>3. TypeOK'
    BY <1>1, <1>3, <1>5, <2>1, <2>2 DEF TypeInv, TypeOK, ClientTypeOK, callVars, readOnly
  <2> QED BY <1>1, <1>5, <2>1, <2>3 DEF TypeInv, IndexInv, CallInv, ExitInv, callVars
<1> QED BY <1>4, <1>5 DEF CallTarget, TestLacks

LEMMA CallRaisesType == TypeInv /\ CallRaises => TypeInv'
<1> SUFFICES ASSUME TypeInv, CallRaises PROVE TypeInv'
  OBVIOUS
<1>1. /\ InTest /\ phase' = "idle" /\ FailTest /\ unavailable' = TRUE
      /\ UNCHANGED <<schema, defect, shown, tokens, request, answer, readOnly, cached, stage, index,
                     inputs, tested, passed, exit>>
  BY DEF CallRaises, TestLacks
<1>2. Len(Suite) = 9 /\ test + 1 \in 1 .. 10
  BY <1>1, NowIs, SuiteIs
<1>3. TypeOK'
  BY <1>1, <1>2 DEF FailTest, TypeInv, TypeOK, ClientTypeOK, readOnly
<1> QED BY <1>1, <1>3 DEF TypeInv, IndexInv, CallInv, ExitInv, FailTest

LEMMA ConcludeType == TypeInv /\ Conclude => TypeInv'
<1> SUFFICES ASSUME TypeInv, Conclude PROVE TypeInv'
  OBVIOUS
<1>1. /\ InTest /\ phase = "answered" /\ phase' = "idle"
      /\ UNCHANGED <<schema, defect, shown, tokens, request, answer, readOnly, cached, stage, index,
                     inputs, passed, exit, unavailable>>
  BY DEF Conclude, Returned
<1>2. Len(Suite) = 9 /\ test \in 1 .. 9 /\ test + 1 \in 1 .. 10 /\ Now \in Test
  BY <1>1, NowIs, SuiteIs
<1>3. /\ request.target \in todo /\ request.point = Now.point /\ Now.point \in DOMAIN schema
      /\ todo \subseteq TestTargets
  BY <1>1 DEF TypeInv, CallInv
<1>4. tested' \subseteq (1 .. MaxSet) \X Points \X Targets \X BOOLEAN
  <2>1. CASE tested' = tested
    BY <2>1 DEF TypeInv, TypeOK
  <2>2. CASE /\ Now.expect # "unsupported"
             /\ tested' = tested \cup {<<index, Now.point, request.target, request.valid>>}
    <3>1. request.target \in Targets
      BY <1>1, <1>3, <2>2, TestTargetsType DEF TypeInv
    <3>2. index \in 1 .. MaxSet /\ Now.point \in Points /\ request.valid \in BOOLEAN
      BY <1>1, <1>2 DEF TypeInv, IndexInv, InTest, Test, TypeOK, ClientTypeOK, Request
    <3> QED BY <2>2, <3>1, <3>2 DEF TypeInv, TypeOK
  <2> QED BY <2>1, <2>2 DEF Conclude
<1>5. \/ failures' = failures /\ todo' = todo \ {request.target}
         /\ test' = IF todo = {request.target} THEN test + 1 ELSE test
      \/ FailTest
  BY DEF Conclude
<1>6. failures' \in BOOLEAN /\ todo' \subseteq Targets \cup {Unsupported} /\ test' \in 0 .. 10
  <2>1. test \in 0 .. 10 /\ test + 1 \in 0 .. 10
    BY <1>2
  <2>2. failures \in BOOLEAN /\ todo \subseteq Targets \cup {Unsupported}
    BY DEF TypeInv, TypeOK
  <2> QED BY <1>5, <2>1, <2>2 DEF FailTest
<1>7. TypeOK'
  BY <1>1, <1>4, <1>6, Positions DEF TypeInv, TypeOK, ClientTypeOK, readOnly
<1>8. CASE todo' = {}
  BY <1>1, <1>7, <1>8 DEF TypeInv, IndexInv, CallInv, ExitInv
<1>9. CASE todo' # {}
  <2>1. todo' \subseteq todo /\ test' = test
    BY <1>5, <1>9 DEF FailTest
  <2>2. InTest' /\ Now' = Now /\ TestTargets' = TestTargets
    BY <1>1, <2>1, SameTest DEF readOnly
  <2> QED BY <1>1, <1>3, <1>7, <2>1, <2>2 DEF TypeInv, IndexInv, CallInv, ExitInv
<1> QED BY <1>8, <1>9

LEMMA HandlersType ==
  TypeInv /\ (Reinvoke \/ HandlerAnswers) /\ UNCHANGED sessionVars => TypeInv'
<1> SUFFICES ASSUME TypeInv, Reinvoke \/ HandlerAnswers, UNCHANGED sessionVars PROVE TypeInv'
  OBVIOUS
<1>1. phase # "idle" /\ phase' \in {"sent", "answered"} /\ UNCHANGED <<schema, defect, tokens>>
  BY DEF Reinvoke, HandlerAnswers
<1>2. /\ request' \in Request /\ answer' \in Answer /\ shown' \in BOOLEAN
      /\ request'.target = request.target /\ request'.point = request.point
      /\ request'.valid = request.valid
  <2>1. request \in Request /\ answer \in Answer /\ shown \in BOOLEAN /\ defect \in Defects \cup {"none"}
    BY DEF TypeInv, TypeOK, ClientTypeOK
  <2>2. CASE Reinvoke
    <3>1. answer.context \in Context
      BY <2>1 DEF Answer
    <3> QED BY <2>1, <2>2, <3>1 DEF Reinvoke, Request
  <2>3. CASE HandlerAnswers
    BY <2>1, <2>3, AnswersType DEF HandlerAnswers
  <2> QED BY <2>2, <2>3
<1>3. TypeOK'
  BY <1>1, <1>2 DEF TypeInv, TypeOK, ClientTypeOK, sessionVars
<1>4. InTest' = InTest /\ Now' = Now /\ TestTargets' = TestTargets
  BY <1>1, SameTest DEF sessionVars
<1> QED BY <1>1, <1>2, <1>3, <1>4 DEF TypeInv, IndexInv, CallInv, ExitInv, sessionVars

LEMMA EditType == TypeInv /\ Edit => TypeInv'
<1> SUFFICES ASSUME TypeInv, Edit PROVE TypeInv'
  OBVIOUS
<1>1. InTest' = InTest /\ Now' = Now /\ TestTargets' = TestTargets
  BY SameTest DEF Edit, clientVars
<1>2. TypeOK'
  BY DEF TypeInv, TypeOK, ClientTypeOK, Edit, clientVars, callVars
<1> QED BY <1>1, <1>2 DEF TypeInv, IndexInv, CallInv, ExitInv, Edit, clientVars, callVars

LEMMA StutterType == TypeInv /\ UNCHANGED vars => TypeInv'
<1> SUFFICES ASSUME TypeInv, UNCHANGED vars PROVE TypeInv'
  OBVIOUS
<1>1. InTest' = InTest /\ Now' = Now /\ TestTargets' = TestTargets
  BY SameTest DEF vars, sessionVars
<1>2. TypeOK'
  BY DEF TypeInv, TypeOK, ClientTypeOK, vars, callVars, sessionVars
<1> QED BY <1>1, <1>2 DEF TypeInv, IndexInv, CallInv, ExitInv, vars, callVars, sessionVars

LEMMA TypeCorrectInv == Spec => []TypeInv
<1>1. TypeInv /\ [Next]_vars => TypeInv'
  BY LoadType, GetInputsType, MakeClientType, SessionType, BeginTestType, CallTargetType,
     CallRaisesType, ConcludeType, HandlersType, EditType, StutterType DEF Next, Step
<1> QED BY InitType, <1>1, PTL DEF Spec

(* Every variable of the command and of its handler calls keeps its type    *)
(* (test, HookClient).                                                      *)
THEOREM TypeCorrect == Spec => []TypeOK
<1>1. TypeInv => TypeOK
  BY DEF TypeInv
<1> QED BY TypeCorrectInv, <1>1, PTL

-----------------------------------------------------------------------------
(* The type configuration.                                                  *)

(* A call carries what is cached, and what is cached stays.                 *)
ConfigurationInv == request.configuration # "absent" => cached = request.configuration

LEMMA ConfigurationCall ==
  ASSUME TypeOK, ConfigurationInv, CallTarget
  PROVE  /\ ConfigurationInv'
         /\ request.configuration # "absent" => request'.configuration = request.configuration
<1>1. request.configuration \in Configurations
  BY DEF TypeOK, ClientTypeOK, Request
<1>2. CASE ReadConfiguration \in Configurations
  <2>1. /\ cached' = ReadConfiguration
        /\ request'.configuration = ReadConfiguration \/ request' = request
    BY <1>2 DEF CallTarget, Invoke, Remember, Configurations, callVars
  <2> QED BY <2>1 DEF ConfigurationInv, ReadConfiguration
<1>3. CASE ReadConfiguration \notin Configurations
  <2>1. request' = request
    BY <1>3 DEF CallTarget, callVars
  <2>2. request.configuration = "absent"
    BY <1>1, <1>3 DEF ConfigurationInv, ReadConfiguration
  <2> QED BY <2>1, <2>2 DEF ConfigurationInv
<1> QED BY <1>2, <1>3

LEMMA ConfigurationStep ==
  ASSUME TypeOK, ConfigurationInv, [Next]_vars
  PROVE  /\ ConfigurationInv'
         /\ request.configuration # "absent" => request'.configuration = request.configuration
<1>1. CASE CallTarget
  BY <1>1, ConfigurationCall
<1>2. CASE Reinvoke /\ UNCHANGED sessionVars
  BY <1>2 DEF Reinvoke, sessionVars, ConfigurationInv, TypeOK, ClientTypeOK, Request
<1>3. ASSUME request' = request, cached' = cached
      PROVE  ConfigurationInv' /\ request'.configuration = request.configuration
  BY <1>3 DEF ConfigurationInv
<1> QED
  BY <1>1, <1>2, <1>3
  DEF Next, Step, Load, GetInputs, MakeClient, ResourceSession, EndSession, BeginTest, CallRaises,
      Conclude, HandlerAnswers, Edit, vars, callVars, clientVars, sessionVars

(* Every call of the command carries the type configuration that was read   *)
(* first, also in later sessions and after an edit (TypeConfiguration).     *)
THEOREM ConfigurationCorrect == Spec => ConfigurationIsStable
<1>1. Init => ConfigurationInv
  BY DEF Init, ClientInit, ConfigurationInv
<1>2. TypeOK /\ ConfigurationInv /\ [Next]_vars => ConfigurationInv'
  BY ConfigurationStep
<1>3. TypeOK /\ ConfigurationInv /\ [Next]_vars =>
      [request.configuration # "absent" => request'.configuration = request.configuration]_vars
  BY ConfigurationStep
<1> QED BY <1>1, <1>2, <1>3, TypeCorrect, PTL DEF Spec, ConfigurationIsStable

-----------------------------------------------------------------------------
(* Defects.                                                                 *)

Detectable == defect \notin {"slowLater", "otherFailure"}

(* A defect that has shown has failed a test, is about to, or has failed    *)
(* the command.                                                             *)
DefectInv ==
  shown /\ Detectable =>
    \/ /\ stage = "session" /\ project.artifact = "HOOK"
       /\ failures = TRUE \/ (Returned /\ ~Passes)
    \/ stage = "done" /\ exit # "0"

LEMMA FailedIs ==
  ASSUME NEW code \in {"none", "NonCompliant", "UnsupportedTarget", "InternalFailure"}
  PROVE  /\ Failed(code) \in Answer
         /\ Failed(code).status = "FAILED" /\ Failed(code).code = code
         /\ Failed(code).delay = FALSE /\ Failed(code).message = TRUE /\ Failed(code).slow = FALSE
<1>1. Success \in Answer /\ Success.delay = FALSE /\ Success.slow = FALSE
  BY PollsAssumption DEF Success, Answer, NoContext, Context
<1> QED BY <1>1 DEF Failed, Answer

(* The answer of a defect does not pass the test that called for it.        *)
LEMMA DeviationFails ==
  ASSUME TypeInv, Detectable, phase = "sent", NEW polls \in 0 .. MaxPolls,
         Deviation(Conforming(polls)) # Conforming(polls),
         answer' = Deviation(Conforming(polls)), phase' = "answered",
         UNCHANGED <<request, schema, test>>
  PROVE  Returned' /\ ~Passes'
<1> DEFINE a == Conforming(polls)
           d == Deviation(a)
<1>1. /\ InTest /\ Now \in Test /\ Now' = Now
      /\ request.valid = (Now.expect # "failed")
      /\ request.target = Unsupported <=> Now.expect = "unsupported"
  <2>1. /\ InTest /\ todo \subseteq TestTargets /\ request.target \in todo
        /\ Now.point \in DOMAIN schema /\ request.valid = (Now.expect # "failed")
    BY DEF TypeInv, CallInv
  <2>2. request.target = Unsupported <=> Now.expect = "unsupported"
    BY <2>1, TestTargetsType, UnsupportedAssumption DEF TypeInv
  <2> QED BY <2>1, <2>2, NowIs DEF Now
<1>2. \/ a = Failed("InternalFailure")
      \/ a = Success /\ Now.expect = "success"
      \/ a = Failed("NonCompliant") /\ Now.expect = "failed"
      \/ a = Failed("UnsupportedTarget") /\ Now.expect = "unsupported"
      \/ \E left \in 0 .. MaxPolls \cup {request.context.left - 1} : a = Progress(request.token, left)
  <2>1. \/ Verdict = Success /\ Now.expect = "success"
        \/ Verdict = Failed("NonCompliant") /\ Now.expect = "failed"
        \/ Verdict = Failed("UnsupportedTarget") /\ Now.expect = "unsupported"
    BY <1>1 DEF Verdict, Test
  <2> QED BY <2>1 DEF Conforming
<1>3. /\ Passes' <=> CASE Now.expect = "success" -> AssertSuccess'
                       [] Now.expect = "failed" -> AssertFailed'
                       [] Now.expect = "unsupported" -> AssertFailed' /\ answer'.code = "UnsupportedTarget"
      /\ Raises' <=> \/ answer'.slow /\ ~request.again
                     \/ answer'.status = "IN_PROGRESS" /\ answer'.code # "none"
      /\ Returned' <=> Raises' \/ answer'.status # "IN_PROGRESS"
  BY <1>1 DEF Passes, Raises, Returned
<1>4. /\ AssertSuccess' <=> /\ ~Raises' /\ answer'.status = "SUCCESS" /\ answer'.code = "none"
                            /\ ~answer'.delay
      /\ AssertFailed' <=> /\ ~Raises' /\ answer'.status = "FAILED" /\ answer'.code # "none"
                           /\ ~answer'.delay /\ answer'.message
  BY DEF AssertSuccess, AssertFailed
<1>5. answer' = d /\ d # a
  OBVIOUS
<1> HIDE DEF a, d
<1>6. d = Deviation(a)
  BY DEF d
<1>7. CASE a = Failed("InternalFailure")
  <2>1. /\ a \in Answer /\ a.status = "FAILED" /\ a.code = "InternalFailure"
    BY <1>7, FailedIs
  <2>2. d = [a EXCEPT !.message = FALSE] \/ (~request.again /\ d = [a EXCEPT !.slow = TRUE])
    BY <1>5, <1>6, <2>1 DEF Deviation, Detectable
  <2>3. /\ d.status = "FAILED" /\ d.code = "InternalFailure"
        /\ d.message = FALSE \/ (~request.again /\ d.slow = TRUE)
    BY <2>1, <2>2 DEF Answer
  <2> QED BY <1>1, <1>3, <1>4, <1>5, <2>3 DEF Test
<1>8. CASE a = Success /\ Now.expect = "success"
  <2>1. \/ d = Failed("NonCompliant") \/ d = Failed("UnsupportedTarget")
        \/ d = [a EXCEPT !.code = "InternalFailure"] \/ d = [a EXCEPT !.delay = TRUE]
        \/ ~request.again /\ d = [a EXCEPT !.slow = TRUE]
    BY <1>5, <1>6, <1>8 DEF Deviation, Detectable, Success
  <2>2. d.status # "IN_PROGRESS"
    BY <1>8, <2>1 DEF Success, Failed
  <2>3. \/ d.status # "SUCCESS" \/ d.code # "none" \/ d.delay = TRUE
        \/ ~request.again /\ d.slow = TRUE
    BY <1>8, <2>1 DEF Success, Failed
  <2> QED BY <1>3, <1>4, <1>5, <1>8, <2>2, <2>3
<1>9. CASE a = Failed("NonCompliant") /\ Now.expect = "failed"
  <2>1. \/ d = Success \/ d = [a EXCEPT !.message = FALSE]
        \/ ~request.again /\ d = [a EXCEPT !.slow = TRUE]
    BY <1>5, <1>6, <1>9 DEF Deviation, Detectable, Success, Failed
  <2> DEFINE f == Failed("NonCompliant")
  <2>2. /\ f \in Answer /\ f.status = "FAILED"
        /\ d = Success \/ d = [f EXCEPT !.message = FALSE]
           \/ (~request.again /\ d = [f EXCEPT !.slow = TRUE])
    BY <1>9, <2>1, FailedIs, Zenon
  <2> HIDE DEF f
  <2>3. /\ d.status # "IN_PROGRESS"
        /\ d.status # "FAILED" \/ d.message = FALSE \/ (~request.again /\ d.slow = TRUE)
    BY <2>2 DEF Success, Answer
  <2> QED BY <1>3, <1>4, <1>5, <1>9, <2>3
<1>10. CASE a = Failed("UnsupportedTarget") /\ Now.expect = "unsupported"
  <2>1. \/ d = Success \/ d = Failed("NonCompliant") \/ d = [a EXCEPT !.message = FALSE]
        \/ ~request.again /\ d = [a EXCEPT !.slow = TRUE]
    BY <1>5, <1>6, <1>10 DEF Deviation, Detectable, Success, Failed
  <2> DEFINE f == Failed("UnsupportedTarget")
  <2>2. /\ f \in Answer /\ f.status = "FAILED"
        /\ \/ d = Success \/ d = [f EXCEPT !.message = FALSE]
           \/ d.status = "FAILED" /\ d.code = "NonCompliant"
           \/ ~request.again /\ d = [f EXCEPT !.slow = TRUE]
    <3>1. Failed("NonCompliant").status = "FAILED" /\ Failed("NonCompliant").code = "NonCompliant"
      BY FailedIs
    <3> QED BY <1>10, <2>1, <3>1, FailedIs, Zenon
  <2> HIDE DEF f
  <2>3. /\ d.status # "IN_PROGRESS"
        /\ d.status # "FAILED" \/ d.code # "UnsupportedTarget" \/ d.message = FALSE
           \/ (~request.again /\ d.slow = TRUE)
    BY <2>2 DEF Success, Answer
  <2> QED BY <1>3, <1>4, <1>5, <1>10, <2>3
<1>11. ASSUME NEW left, a = Progress(request.token, left) PROVE Returned' /\ ~Passes'
  BY <1>1, <1>3, <1>4, <1>5, <1>6, <1>11 DEF Deviation, Detectable, Success, Progress, Test
<1> QED BY <1>2, <1>7, <1>8, <1>9, <1>10, <1>11

LEMMA DefectStep ==
  ASSUME TypeInv, DefectInv, [Next]_vars
  PROVE  DefectInv'
<1> SUFFICES ASSUME shown', Detectable'
    PROVE  \/ stage' = "session" /\ project'.artifact = "HOOK"
              /\ (failures' = TRUE \/ (Returned' /\ ~Passes'))
           \/ stage' = "done" /\ exit' # "0"
  BY DEF DefectInv
<1>1. project' = project /\ schema' = schema /\ defect' = defect /\ Detectable
  BY DEF Next, Step, Load, GetInputs, MakeClient, ResourceSession, EndSession, BeginTest, CallTarget,
     CallRaises, Conclude, Reinvoke, HandlerAnswers, Edit, Detectable, vars, callVars, clientVars, sessionVars,
     readOnly
<1>2. CASE HandlerAnswers /\ UNCHANGED sessionVars
  <2>1. CASE shown
    <3>1. stage # "done" \/ exit # "0"
      BY <1>1, <2>1 DEF DefectInv
    <3>2. phase = "sent"
      BY <1>2 DEF HandlerAnswers
    <3> QED BY <1>1, <1>2, <2>1, <3>1, <3>2 DEF DefectInv, sessionVars, Returned
  <2>2. CASE ~shown
    <3>1. PICK polls \in 0 .. MaxPolls :
            /\ answer' = Deviation(Conforming(polls))
            /\ Deviation(Conforming(polls)) # Conforming(polls)
      BY <1>2, <2>2 DEF HandlerAnswers
    <3>2. /\ phase = "sent" /\ phase' = "answered"
          /\ UNCHANGED <<request, schema, test, stage, project>>
      BY <1>2 DEF HandlerAnswers, sessionVars
    <3>3. Returned' /\ ~Passes'
      BY <1>1, <3>1, <3>2, DeviationFails
    <3>4. InTest
      BY <3>2 DEF TypeInv, CallInv
    <3> QED BY <3>2, <3>3, <3>4 DEF InTest
  <2> QED BY <2>1, <2>2
<1>3. ASSUME ~ (HandlerAnswers /\ UNCHANGED sessionVars)
      PROVE  shown
  BY <1>3 DEF Next, Step, Load, GetInputs, MakeClient, ResourceSession, EndSession, BeginTest,
     CallTarget, CallRaises, Conclude, Reinvoke, Edit, vars, callVars, clientVars, sessionVars
<1>4. CASE stage = "done" /\ exit # "0" /\ ~ (HandlerAnswers /\ UNCHANGED sessionVars)
  <2>1. stage' = stage /\ exit' = exit
    BY <1>4 DEF Next, Step, Load, GetInputs, MakeClient, ResourceSession, EndSession, BeginTest,
       CallTarget, CallRaises, Conclude, Edit, InTest, vars, sessionVars
  <2> QED BY <1>4, <2>1
<1>5. CASE /\ stage = "session" /\ project.artifact = "HOOK"
           /\ failures = TRUE \/ (Returned /\ ~Passes)
           /\ ~ (HandlerAnswers /\ UNCHANGED sessionVars)
  <2>1. CASE EndSession
    <3>1. phase = "idle"
      <4>1. ~InTest
        BY <2>1, Positions DEF EndSession, InTest, TypeInv, TypeOK
      <4> QED BY <4>1, OutsideOfTest
    <3>2. failures = TRUE
      BY <1>5, <3>1 DEF Returned
    <3> QED BY <2>1, <3>2 DEF EndSession, Conclusion, Exit
  <2>2. CASE BeginTest
    <3>1. phase = "idle"
      BY <2>2, OutsideOfTest DEF BeginTest
    <3>2. failures = TRUE
      BY <1>5, <3>1 DEF Returned
    <3> QED BY <1>1, <1>5, <2>2, <3>2 DEF BeginTest, FailTest, TestLacks
  <2>3. CASE CallTarget
    <3>1. failures = TRUE
      BY <1>5, <2>3 DEF CallTarget, Returned
    <3> QED BY <1>1, <1>5, <2>3, <3>1 DEF CallTarget, FailTest, TestLacks
  <2>4. CASE Conclude
    BY <1>1, <1>5, <2>4 DEF Conclude, FailTest
  <2>5. CASE Reinvoke /\ UNCHANGED sessionVars
    BY <1>1, <1>5, <2>5 DEF Reinvoke, Returned, sessionVars
  <2>6. CASE Edit \/ UNCHANGED vars
    <3>1. UNCHANGED <<stage, failures, test, request, answer, phase, schema, project>>
      BY <2>6 DEF Edit, vars, clientVars, callVars, sessionVars
    <3>2. Returned' = Returned /\ Passes' = Passes
      BY <3>1 DEF Returned, Raises, Passes, AssertSuccess, AssertFailed, Now
    <3> QED BY <1>5, <3>1, <3>2
  <2>7. CASE CallRaises
    BY <1>1, <1>5, <2>7 DEF CallRaises, TestLacks, FailTest
  <2> QED
    BY <1>5, <2>1, <2>2, <2>3, <2>4, <2>5, <2>6, <2>7
    DEF Next, Step, Load, GetInputs, MakeClient, ResourceSession
<1> QED BY <1>1, <1>2, <1>3, <1>4, <1>5 DEF DefectInv

(* A defect that showed in an answer fails the command, unless no test      *)
(* looks for it (suite/hook, HookClient).                                   *)
THEOREM DefectCorrect == Spec => []DefectIsDetected
<1>1. Init => DefectInv
  BY DEF Init, ClientInit, DefectInv
<1>2. TypeInv /\ DefectInv /\ [Next]_vars => DefectInv'
  BY DefectStep
<1>3. TypeInv /\ DefectInv => DefectIsDetected
  <2> QED BY DEF DefectInv, DefectIsDetected, Detectable, TypeInv, ExitInv
<1> QED BY <1>1, <1>2, <1>3, TypeCorrectInv, PTL DEF Spec

-----------------------------------------------------------------------------
(* Hooks that conform.                                                      *)

(* The premise of ConformingHookPasses.                                     *)
Conforms ==
  /\ project.artifact = "HOOK" /\ defect = "none" /\ ~unavailable
  /\ Complete
  /\ {project.file, file} \subseteq Configurations

(* The files chosen have models of all targets for every test.              *)
InputsComplete ==
  \A point \in DOMAIN schema :
    \A kinds \in {{Valid(point)}, {Invalid(point), Invalid("any")}} :
      \E f \in inputs : f.kind \in kinds /\ f.targets = Targets

(* A handler is given the callback context of its own call, and what it     *)
(* answers in the end is what the test expects.                             *)
AnswerInv ==
  /\ phase = "sent" => request.context = NoContext \/ request.context.token = request.token
  /\ phase = "answered" =>
       /\ ~Raises
       /\ answer.status = "IN_PROGRESS" => answer.context.token = request.token
       /\ answer.status # "IN_PROGRESS" => Passes

ConformInv ==
  Conforms =>
    /\ failures = FALSE /\ exit # "1"
    /\ cached \in Configurations
    /\ stage \in {"client", "session"} /\ inputs # Generated => InputsComplete
    /\ AnswerInv

LEMMA ConformsBefore ==
  ASSUME [Next]_vars, Conforms'
  PROVE  /\ Conforms
         /\ project' = project /\ schema' = schema /\ defect' = defect
         /\ ~Lacks /\ ~TestLacks
<1>1. project' = project /\ schema' = schema /\ defect' = defect
  BY DEF Next, Step, Load, GetInputs, MakeClient, ResourceSession, EndSession, BeginTest, CallTarget,
     CallRaises, Conclude, Reinvoke, HandlerAnswers, Edit, vars, callVars, clientVars, sessionVars, readOnly
<1>2. Complete
  BY <1>1 DEF Conforms, Complete
<1>3. file' = file \/ file = project.file
  BY DEF Next, Step, Load, GetInputs, MakeClient, ResourceSession, EndSession, BeginTest, CallTarget,
     CallRaises, Conclude, Reinvoke, HandlerAnswers, Edit, vars, callVars, clientVars, sessionVars, readOnly
<1>4. unavailable' = FALSE
  BY DEF Conforms
<1>5. unavailable' \in {unavailable, TRUE}
  BY DEF Next, Step, Load, GetInputs, MakeClient, ResourceSession, EndSession, BeginTest, CallTarget,
     CallRaises, Conclude, Edit, Lacks, TestLacks, vars, sessionVars
<1>6. ~Lacks /\ ~TestLacks
  BY <1>4 DEF Lacks, TestLacks
<1> QED BY <1>1, <1>2, <1>3, <1>4, <1>5, <1>6 DEF Conforms

(* Files of every kind that a set needs are there, and one of each is used. *)
LEMMA ChosenComplete ==
  ASSUME TypeOK, Complete, Matching(index) # {}, NEW chosen \in SUBSET Matching(index),
         \A f \in Matching(index) : Cardinality({g \in chosen : g.kind = f.kind}) = 1,
         inputs' = chosen, schema' = schema
  PROVE  InputsComplete'
<1>1. PICK f \in Matching(index) : TRUE
  OBVIOUS
<1>2. project.folder # NoFolder /\ Matching(index) \subseteq project.folder
  BY <1>1 DEF Matching
<1> SUFFICES ASSUME NEW point \in DOMAIN schema,
                    NEW kinds \in {{Valid(point)}, {Invalid(point), Invalid("any")}}
             PROVE  \E h \in chosen : h.kind \in kinds /\ h.targets = Targets
  BY DEF InputsComplete
<1>3. PICK g \in project.folder : g.n = f.n /\ g.kind \in kinds
  BY <1>1, <1>2 DEF Complete
<1>4. g \in Matching(index)
  BY <1>1, <1>3 DEF Matching
<1> DEFINE same == {h \in chosen : h.kind = g.kind}
<1>5. Cardinality(same) = 1
  BY <1>4
<1>6. same # {}
  <2> HIDE DEF same
  <2>1. Cardinality({}) = 0 /\ 0 # 1
    BY FS_EmptySet
  <2> QED BY <1>5, <2>1, Zenon
<1>7. PICK h \in chosen : h.kind = g.kind
  BY <1>6
<1>8. h \in project.folder
  BY <1>2
<1>9. h.targets = Targets
  BY <1>2, <1>8 DEF Complete
<1> QED BY <1>3, <1>7, <1>9

LEMMA ModelsThere ==
  ASSUME TypeOK, NEW point \in DOMAIN schema, NEW t \in HandlerTargets(point), NEW valid \in BOOLEAN,
         inputs # Generated => InputsComplete
  PROVE  HasModel(point, t, valid)
<1>1. t \in Targets
  BY HandlerTargetsType
<1> SUFFICES ASSUME InputsComplete
             PROVE  \/ valid /\ \E f \in inputs : f.kind = Valid(point) /\ t \in f.targets
                    \/ /\ ~valid
                       /\ \/ \E f \in inputs : f.kind = Invalid(point) /\ t \in f.targets
                          \/ \E f \in inputs : f.kind = Invalid("any") /\ t \in f.targets
  BY DEF HasModel
<1>2. \E f \in inputs : f.kind \in {Valid(point)} /\ f.targets = Targets
  BY DEF InputsComplete
<1>3. \E f \in inputs : f.kind \in {Invalid(point), Invalid("any")} /\ f.targets = Targets
  BY DEF InputsComplete
<1>4. CASE valid = TRUE
  BY <1>1, <1>2, <1>4
<1>5. CASE valid = FALSE
  BY <1>1, <1>3, <1>5
<1> QED BY <1>4, <1>5

(* What a handler that conforms answers.                                    *)
LEMMA ConformingAnswers ==
  ASSUME TypeInv, defect = "none", phase = "sent", NEW polls \in 0 .. MaxPolls,
         request.context = NoContext \/ request.context.token = request.token,
         answer' = Deviation(Conforming(polls)), phase' = "answered",
         UNCHANGED <<request, schema, test>>
  PROVE  AnswerInv'
<1>1. /\ InTest /\ Now \in Test /\ Now' = Now
      /\ request.valid = (Now.expect # "failed")
      /\ request.target = Unsupported <=> Now.expect = "unsupported"
  <2>1. /\ InTest /\ todo \subseteq TestTargets /\ request.target \in todo
        /\ Now.point \in DOMAIN schema /\ request.valid = (Now.expect # "failed")
    BY DEF TypeInv, CallInv
  <2>2. request.target = Unsupported <=> Now.expect = "unsupported"
    BY <2>1, TestTargetsType, UnsupportedAssumption DEF TypeInv
  <2> QED BY <2>1, <2>2, NowIs DEF Now
<1>2. answer' = Conforming(polls)
  BY DEF Deviation
<1>3. /\ Passes' <=> CASE Now.expect = "success" -> AssertSuccess'
                       [] Now.expect = "failed" -> AssertFailed'
                       [] Now.expect = "unsupported" -> AssertFailed' /\ answer'.code = "UnsupportedTarget"
      /\ Raises' <=> \/ answer'.slow /\ ~request.again
                     \/ answer'.status = "IN_PROGRESS" /\ answer'.code # "none"
      /\ AssertSuccess' <=> /\ ~Raises' /\ answer'.status = "SUCCESS" /\ answer'.code = "none"
                            /\ ~answer'.delay
      /\ AssertFailed' <=> /\ ~Raises' /\ answer'.status = "FAILED" /\ answer'.code # "none"
                           /\ ~answer'.delay /\ answer'.message
  BY <1>1 DEF Passes, Raises, AssertSuccess, AssertFailed
<1>4. CASE answer' = Verdict
  <2>1. /\ Failed("NonCompliant").status = "FAILED" /\ Failed("NonCompliant").code = "NonCompliant"
        /\ Failed("NonCompliant").delay = FALSE /\ Failed("NonCompliant").message = TRUE
        /\ Failed("NonCompliant").slow = FALSE
    BY FailedIs
  <2>2. /\ Failed("UnsupportedTarget").status = "FAILED"
        /\ Failed("UnsupportedTarget").code = "UnsupportedTarget"
        /\ Failed("UnsupportedTarget").delay = FALSE /\ Failed("UnsupportedTarget").message = TRUE
        /\ Failed("UnsupportedTarget").slow = FALSE
    BY FailedIs
  <2>3. /\ Success.status = "SUCCESS" /\ Success.code = "none"
        /\ Success.delay = FALSE /\ Success.slow = FALSE
    BY DEF Success
  <2>4. CASE Now.expect = "success"
    <3>1. answer' = Success
      BY <1>1, <1>4, <2>4 DEF Verdict
    <3> QED BY <1>3, <2>3, <2>4, <3>1 DEF AnswerInv
  <2>5. CASE Now.expect = "failed"
    <3>1. answer' = Failed("NonCompliant")
      BY <1>1, <1>4, <2>5 DEF Verdict
    <3> QED BY <1>3, <2>1, <2>5, <3>1 DEF AnswerInv
  <2>6. CASE Now.expect = "unsupported"
    <3>1. answer' = Failed("UnsupportedTarget")
      BY <1>1, <1>4, <2>6 DEF Verdict
    <3> QED BY <1>3, <2>2, <2>6, <3>1 DEF AnswerInv
  <2> QED BY <1>1, <2>4, <2>5, <2>6 DEF Test
<1>5. ASSUME NEW left, answer' = Progress(request.token, left) PROVE AnswerInv'
  <2>1. /\ answer'.status = "IN_PROGRESS" /\ answer'.code = "none" /\ answer'.slow = FALSE
        /\ answer'.context.token = request.token
    BY <1>5 DEF Progress, Success
  <2> QED BY <1>3, <2>1 DEF AnswerInv
<1> QED BY <1>2, <1>4, <1>5 DEF Conforming

LEMMA ConformStep ==
  ASSUME TypeInv, ConformInv, [Next]_vars
  PROVE  ConformInv'
<1> SUFFICES ASSUME Conforms'
    PROVE  /\ failures' = FALSE /\ exit' # "1"
           /\ cached' \in Configurations
           /\ stage' \in {"client", "session"} /\ inputs' # Generated => InputsComplete'
           /\ AnswerInv'
  BY DEF ConformInv
<1>1. /\ Conforms /\ project' = project /\ schema' = schema /\ defect' = defect
      /\ ~Lacks /\ ~TestLacks
  BY ConformsBefore
<1>2. /\ failures = FALSE /\ exit # "1"
      /\ cached \in Configurations
      /\ stage \in {"client", "session"} /\ inputs # Generated => InputsComplete
      /\ AnswerInv
  BY <1>1 DEF ConformInv
<1>3. ASSUME inputs' = inputs PROVE InputsComplete => InputsComplete'
  BY <1>1, <1>3 DEF InputsComplete
<1>4. ASSUME phase' = "idle" PROVE AnswerInv'
  BY <1>4 DEF AnswerInv
<1>5. ASSUME UNCHANGED <<phase, request, answer, test>> PROVE AnswerInv'
  BY <1>2, <1>5 DEF AnswerInv, Raises, Passes, AssertSuccess, AssertFailed, Now
<1>6. CASE Load
  <2>1. stage' \notin {"client", "session"} /\ exit' # "1"
    BY <1>1, <1>2, <1>6 DEF Load, Exit, Goto
  <2>2. UNCHANGED <<phase, request, answer, test, failures, cached>>
    BY <1>6 DEF Load, clientVars, callVars
  <2> QED BY <1>2, <1>5, <2>1, <2>2
<1>7. CASE GetInputs
  <2>1. exit' # "1"
    BY <1>1, <1>2, <1>7 DEF GetInputs, Exit, Goto
  <2>2. UNCHANGED <<phase, request, answer, test, failures, cached>>
    BY <1>7 DEF GetInputs, clientVars, callVars
  <2>3. ASSUME stage' \in {"client", "session"}, inputs' # Generated PROVE InputsComplete'
    <3>1. /\ Matching(index) # {}
          /\ \E chosen \in SUBSET Matching(index) :
               /\ \A f \in Matching(index) : Cardinality({g \in chosen : g.kind = f.kind}) = 1
               /\ inputs' = chosen
      BY <1>1, <1>7, <2>3 DEF GetInputs, Exit
    <3> QED BY <1>1, <3>1, ChosenComplete DEF TypeInv, Conforms
  <2> QED BY <1>2, <1>5, <2>1, <2>2, <2>3
<1>8. CASE MakeClient
  <2>1. exit' # "1" /\ failures' = FALSE
    BY <1>1, <1>2, <1>8 DEF MakeClient, Exit, Goto
  <2>2. phase = "idle" /\ stage = "client"
    BY <1>8, OutsideOfTest DEF MakeClient, InTest
  <2>3. UNCHANGED <<phase, request, answer, cached, inputs>>
    BY <1>8 DEF MakeClient, clientVars, callVars
  <2> QED BY <1>2, <1>3, <1>4, <2>1, <2>2, <2>3
<1>9. CASE ResourceSession
  BY <1>1, <1>9 DEF ResourceSession, Conforms
<1>10. CASE EndSession
  <2>1. phase = "idle"
    <3>1. ~InTest
      BY <1>10, Positions DEF EndSession, InTest, TypeInv, TypeOK
    <3> QED BY <3>1, OutsideOfTest
  <2>2. Conclusion(TRUE)
    BY <1>2, <1>10 DEF EndSession, Conclusion
  <2>3. exit' # "1" /\ stage' \notin {"client", "session"}
    BY <1>2, <2>2 DEF Conclusion, Exit, Goto
  <2>4. UNCHANGED <<phase, failures, cached>>
    BY <1>10 DEF EndSession, clientVars, callVars
  <2> QED BY <1>2, <1>4, <2>1, <2>3, <2>4
<1>11. CASE BeginTest
  <2>1. phase = "idle" /\ InTest /\ stage = "session"
    BY <1>11, OutsideOfTest DEF BeginTest, InTest
  <2>2. UNCHANGED <<phase, cached, stage, exit, inputs>>
    BY <1>11 DEF BeginTest, clientVars, callVars
  <2>3. ASSUME Now.point \in DOMAIN schema
        PROVE  \A t \in HandlerTargets(Now.point) : HasModel(Now.point, t, Now.expect = "success")
    BY <1>2, <2>1, <2>3, ModelsThere DEF TypeInv
  <2>4. failures' = failures
    BY <1>1, <1>11, <2>3 DEF BeginTest
  <2> QED BY <1>2, <1>3, <1>4, <2>1, <2>2, <2>4
<1>12. CASE CallTarget
  <2>1. ReadConfiguration \in Configurations
    BY <1>1, <1>2 DEF ReadConfiguration, Conforms
  <2>2. /\ cached' = ReadConfiguration
        /\ phase' = "sent" /\ request'.context = NoContext
        /\ UNCHANGED <<failures, stage, exit, inputs>>
    BY <1>1, <1>12, <2>1 DEF CallTarget, Invoke, Remember, Configurations
  <2>3. AnswerInv'
    BY <2>2 DEF AnswerInv
  <2> QED BY <1>2, <1>3, <2>1, <2>2, <2>3 DEF CallTarget
<1>13. CASE Conclude
  <2>1. Passes
    BY <1>2, <1>13 DEF Conclude, Returned, AnswerInv
  <2>2. phase' = "idle" /\ UNCHANGED <<failures, cached, stage, exit, inputs>>
    BY <1>13, <2>1 DEF Conclude
  <2> QED BY <1>2, <1>3, <1>4, <2>2
<1>14. CASE Reinvoke /\ UNCHANGED sessionVars
  <2>1. /\ request'.context = answer.context /\ request'.token = request.token
        /\ phase' = "sent"
    BY <1>14 DEF Reinvoke, TypeInv, TypeOK, ClientTypeOK, Request
  <2>2. answer.context.token = request.token
    BY <1>2, <1>14 DEF Reinvoke, AnswerInv
  <2>3. AnswerInv'
    BY <2>1, <2>2 DEF AnswerInv
  <2> QED BY <1>2, <1>3, <1>14, <2>3 DEF sessionVars
<1>15. CASE HandlerAnswers /\ UNCHANGED sessionVars
  <2>1. PICK polls \in 0 .. MaxPolls : answer' = Deviation(Conforming(polls))
    BY <1>15 DEF HandlerAnswers
  <2>2. /\ phase = "sent" /\ phase' = "answered"
        /\ UNCHANGED <<request, schema, test, failures, exit, cached, stage, inputs>>
    BY <1>15 DEF HandlerAnswers, sessionVars
  <2>3. AnswerInv'
    BY <1>1, <1>2, <2>1, <2>2, ConformingAnswers DEF Conforms, AnswerInv
  <2> QED BY <1>2, <1>3, <2>2, <2>3
<1>16. CASE Edit \/ UNCHANGED vars
  <2>1. UNCHANGED <<phase, request, answer, test, failures, exit, cached, stage, inputs>>
    BY <1>16 DEF Edit, vars, clientVars, callVars, sessionVars
  <2> QED BY <1>2, <1>3, <1>5, <2>1
<1>17. ~CallRaises
  BY <1>1 DEF CallRaises
<1> QED
  BY <1>6, <1>7, <1>8, <1>9, <1>10, <1>11, <1>12, <1>13, <1>14, <1>15, <1>16, <1>17 DEF Next, Step

(* No test fails a hook that keeps the contract, if its inputs are complete, *)
(* its configuration can be read, and credentials, exports, target info and *)
(* the handlers could be had (suite/hook, HookClient).                      *)
THEOREM ConformingCorrect == Spec => []ConformingHookPasses
<1>1. Init => ConformInv
  BY DEF Init, ClientInit, ConformInv, AnswerInv, Configurations
<1>2. TypeInv /\ ConformInv /\ [Next]_vars => ConformInv'
  BY ConformStep
<1>3. ConformInv => ConformingHookPasses
  BY DEF ConformInv, Conforms, ConformingHookPasses
<1> QED BY <1>1, <1>2, <1>3, TypeCorrectInv, PTL DEF Spec

-----------------------------------------------------------------------------
(* What is tested.                                                          *)

(* The calls of one test of the current set, and of a whole set.            *)
Tested(n, point, targets, valid) == \A t \in targets : <<n, point, t, valid>> \in tested
TestCovered(i, targets) ==
  Suite[i].expect # "unsupported" /\ Suite[i].point \in DOMAIN schema =>
    Tested(index, Suite[i].point, targets, Suite[i].expect = "success")
SetCovered(n) ==
  \A point \in DOMAIN schema, valid \in BOOLEAN : Tested(n, point, HandlerTargets(point), valid)

(* In a session without a failure, the tests before the current one have    *)
(* called all their targets, and the current one those it has no longer to  *)
(* call.                                                                    *)
SessionInv ==
  stage = "session" /\ project.artifact = "HOOK" /\ failures = FALSE =>
    /\ \A i \in 1 .. 9 : i < test => TestCovered(i, HandlerTargets(Suite[i].point))
    /\ todo # {} => TestCovered(test, HandlerTargets(Now.point) \ todo)

(* Generated inputs are for the case that there is no first set.            *)
GeneratedInv ==
  stage \in {"client", "session"} /\ inputs = Generated => index = 1 /\ Matching(1) = {}

(* The sets passed so far are those before the current one.                 *)
PassedInv ==
  /\ stage # "done" => passed = 1 .. index - 1
  /\ project.artifact = "HOOK" => \A n \in passed : SetCovered(n)

(* Why the command ended with 0.                                            *)
DoneInv ==
  exit = "0" /\ project.artifact # "MODULE" =>
    \E n \in 1 .. MaxSet + 1 : 1 \in passed /\ 1 .. n - 1 \subseteq passed /\ Matching(n) = {}

CoverInv == SessionInv /\ GeneratedInv /\ PassedInv /\ DoneInv

LEMMA CoverImplies == TypeOK /\ CoverInv => PassMeansTested
<1> SUFFICES ASSUME TypeOK, CoverInv, exit = "0", project.artifact # "MODULE"
    PROVE  /\ 1 \in passed
           /\ project.folder # NoFolder =>
                \A n \in 1 .. MaxSet :
                  (\A k \in 1 .. n : \E f \in project.folder : f.n = k) => n \in passed
           /\ project.artifact = "HOOK" =>
                \A n \in passed, point \in DOMAIN schema, valid \in BOOLEAN :
                  \A t \in HandlerTargets(point) : <<n, point, t, valid>> \in tested
  BY DEF PassMeansTested
<1>1. PICK m \in 1 .. MaxSet + 1 : 1 \in passed /\ 1 .. m - 1 \subseteq passed /\ Matching(m) = {}
  BY DEF CoverInv, DoneInv
<1>2. ASSUME project.folder # NoFolder, NEW n \in 1 .. MaxSet,
             \A k \in 1 .. n : \E f \in project.folder : f.n = k
      PROVE  n \in passed
  <2>1. CASE n < m
    <3>1. n \in 1 .. m - 1
      BY <2>1, MaxSetAssumption
    <3> QED BY <1>1, <3>1
  <2>2. CASE ~ (n < m)
    <3>1. m \in 1 .. n /\ m \in 1 .. MaxSet
      BY <2>2, MaxSetAssumption
    <3>2. PICK f \in project.folder : f.n = m
      BY <1>2, <3>1
    <3>3. f \in Matching(m)
      BY <1>2, <3>1, <3>2, MatchingOwn
    <3> QED BY <1>1, <3>3
  <2> QED BY <2>1, <2>2
<1>3. ASSUME project.artifact = "HOOK"
      PROVE  \A n \in passed, point \in DOMAIN schema, valid \in BOOLEAN :
               \A t \in HandlerTargets(point) : <<n, point, t, valid>> \in tested
  BY <1>3 DEF CoverInv, PassedInv, SetCovered, Tested
<1> QED BY <1>1, <1>2, <1>3

(* What was tested stays tested.                                            *)
LEMMA CoverGrows ==
  ASSUME schema' = schema, tested \subseteq tested'
  PROVE  /\ \A n : SetCovered(n) => SetCovered(n)'
         /\ index' = index => \A i, targets : TestCovered(i, targets) => TestCovered(i, targets)'
BY DEF SetCovered, TestCovered, Tested, HandlerTargets

(* After a session without a failure its set is covered.                    *)
LEMMA SessionCovers ==
  ASSUME TypeOK, SessionInv, stage = "session", project.artifact = "HOOK", failures = FALSE,
         test > Len(Suite)
  PROVE  SetCovered(index)
<1> SUFFICES ASSUME NEW point \in DOMAIN schema, NEW valid \in BOOLEAN
             PROVE  Tested(index, point, HandlerTargets(point), valid)
  BY DEF SetCovered
<1>1. point \in Points
  BY HandlerTargetsType
<1>2. test > 9 /\ test \in Nat
  BY Positions DEF TypeOK
<1> DEFINE expect == IF valid THEN "success" ELSE "failed"
<1>3. PICK i \in 1 .. 9 : Suite[i] = [point |-> point, expect |-> expect]
  BY <1>1, SuiteIs
<1>4. TestCovered(i, HandlerTargets(Suite[i].point))
  BY <1>2, <1>3 DEF SessionInv
<1>5. Suite[i].point = point /\ Suite[i].expect # "unsupported" /\ (Suite[i].expect = "success") = valid
  BY <1>3
<1> QED BY <1>4, <1>5 DEF TestCovered

(* Another step in the session leaves the set and its failures alone.       *)
LEMMA CoverUnchanged ==
  ASSUME CoverInv,
         UNCHANGED <<project, schema, stage, index, inputs, test, todo, failures, tested, passed, exit>>
  PROVE  CoverInv'
BY DEF CoverInv, SessionInv, GeneratedInv, PassedInv, DoneInv, SetCovered, TestCovered, Tested,
       HandlerTargets, Matching, Now

(* A session begins or ends, or the command does something between two.     *)
LEMMA CoverBetween ==
  ASSUME TypeInv, CoverInv, ~InTest, Load \/ GetInputs \/ MakeClient \/ ResourceSession \/ EndSession
  PROVE  CoverInv'
<1>1. UNCHANGED <<project, schema, tested>>
  BY DEF Load, GetInputs, MakeClient, ResourceSession, EndSession, clientVars, readOnly
<1>2. /\ stage # "done" /\ exit = "none" /\ todo = {} /\ passed = 1 .. index - 1
      /\ index \in 1 .. MaxSet + 1
  BY OutsideOfTest
  DEF Load, GetInputs, MakeClient, ResourceSession, EndSession, TypeInv, TypeOK, ExitInv, CoverInv, PassedInv
<1>3. \A n : SetCovered(n)' <=> SetCovered(n)
  BY <1>1 DEF SetCovered, Tested, HandlerTargets
<1>4. \A n : Matching(n)' = Matching(n)
  BY <1>1 DEF Matching
<1>5. CASE Load
  <2>1. UNCHANGED <<index, passed>> /\ stage' \in {"inputs", "done"}
    BY <1>5, LacksIs DEF Load, Exit, Goto
  <2>2. exit' = "0" => project.artifact = "MODULE"
    BY <1>2, <1>5, LacksIs DEF Load, Exit, Goto
  <2> QED BY <1>1, <1>2, <1>3, <2>1, <2>2 DEF CoverInv, SessionInv, GeneratedInv, PassedInv, DoneInv
<1>6. CASE GetInputs
  <2>1. UNCHANGED <<index, passed>> /\ stage' \in {"client", "done"}
    BY <1>6, LacksIs DEF GetInputs, Exit, Goto
  <2>2. PassedInv' /\ SessionInv'
    BY <1>1, <1>2, <1>3, <2>1 DEF CoverInv, SessionInv, PassedInv
  <2>3. GeneratedInv'
    <3>1. SUFFICES ASSUME stage' = "client", inputs' = Generated PROVE index = 1 /\ Matching(1) = {}
      BY <1>4, <2>1 DEF GeneratedInv
    <3>2. CASE Matching(index) = {}
      BY <1>6, <3>1, <3>2, LacksIs DEF GetInputs, Exit
    <3>3. CASE Matching(index) # {}
      <4>1. inputs' \in SUBSET Matching(index)
        BY <1>6, <3>1, <3>3, LacksIs DEF GetInputs, Exit
      <4>2. project.folder \in Folders \ {NoFolder} /\ Matching(index) \subseteq project.folder
        BY <3>3 DEF Matching, TypeInv, TypeOK
      <4> QED BY <3>1, <4>1, <4>2, FoldersAssumption
    <3> QED BY <3>2, <3>3
  <2>4. DoneInv'
    <3>1. SUFFICES ASSUME exit' = "0"
                   PROVE  \E n \in 1 .. MaxSet + 1 :
                            1 \in passed /\ 1 .. n - 1 \subseteq passed /\ Matching(n) = {}
      BY <1>4, <2>1 DEF DoneInv
    <3>2. Matching(index) = {} /\ index # 1
      BY <1>2, <1>6, <3>1, LacksIs DEF GetInputs, Exit, Goto
    <3>3. 1 \in 1 .. index - 1
      BY <1>2, <3>2, MaxSetAssumption
    <3> QED BY <1>2, <3>2, <3>3
  <2> QED BY <2>2, <2>3, <2>4 DEF CoverInv
<1>7. CASE MakeClient
  <2>1. /\ UNCHANGED <<index, passed, inputs, todo>> /\ stage = "client"
        /\ \/ stage' = "session" /\ test' = 1 /\ exit' = exit
           \/ stage' = "done" /\ exit' \in {"1", "2", "127"}
    BY <1>7, LacksIs DEF MakeClient, Goto
  <2>2. SessionInv'
    <3>1. \A i \in 1 .. 9 : ~ (i < 1)
      OBVIOUS
    <3> QED BY <1>2, <2>1, <3>1 DEF SessionInv
  <2> QED BY <1>1, <1>2, <1>3, <1>4, <2>1, <2>2 DEF CoverInv, GeneratedInv, PassedInv, DoneInv
<1>8. ASSUME NEW ok \in BOOLEAN, Conclusion(ok), stage = "session",
             UNCHANGED inputs,
             ok = TRUE /\ project.artifact = "HOOK" => SetCovered(index)
      PROVE  CoverInv'
  <2>1. CASE ok = FALSE
    <3>1. stage' = "done" /\ exit' = "1" /\ passed' = passed
      BY <1>8, <2>1 DEF Conclusion, Exit
    <3> QED BY <1>1, <1>3, <3>1 DEF CoverInv, SessionInv, GeneratedInv, PassedInv, DoneInv
  <2>2. CASE ok = TRUE
    <3>1. /\ passed' = passed \cup {index}
          /\ \/ inputs = Generated /\ stage' = "done" /\ exit' = "0" /\ index' = index
             \/ inputs # Generated /\ stage' = "inputs" /\ exit' = exit /\ index' = index + 1
      BY <1>8, <2>2 DEF Conclusion, Exit, Goto
    <3>2. passed' = 1 .. index
      BY <1>2, <3>1, MaxSetAssumption
    <3>3. PassedInv'
      <4>1. stage' # "done" => passed' = 1 .. index' - 1
        BY <1>2, <3>1, <3>2, MaxSetAssumption
      <4>2. project.artifact = "HOOK" => \A n \in passed' : SetCovered(n)
        BY <1>8, <2>2, <3>1 DEF CoverInv, PassedInv
      <4> QED BY <1>1, <1>3, <4>1, <4>2 DEF PassedInv
    <3>4. DoneInv'
      <4>1. SUFFICES ASSUME exit' = "0"
                     PROVE  \E n \in 1 .. MaxSet + 1 :
                              1 \in passed' /\ 1 .. n - 1 \subseteq passed' /\ Matching(n) = {}
        BY <1>4 DEF DoneInv
      <4>2. index = 1 /\ Matching(1) = {}
        BY <1>2, <1>8, <3>1, <4>1 DEF CoverInv, GeneratedInv
      <4>3. 1 \in passed' /\ 1 .. 1 - 1 = {} /\ 1 \in 1 .. MaxSet + 1
        BY <3>1, <4>2, MaxSetAssumption
      <4> QED BY <4>2, <4>3
    <3> QED BY <3>1, <3>3, <3>4 DEF CoverInv, SessionInv, GeneratedInv
  <2> QED BY <2>1, <2>2
<1>9. CASE ResourceSession
  <2>1. \E ok \in BOOLEAN : Conclusion(ok)
    BY <1>9 DEF ResourceSession
  <2> QED BY <1>8, <1>9, <2>1 DEF ResourceSession
<1>10. CASE EndSession
  <2>1. failures \in BOOLEAN /\ (~failures) \in BOOLEAN
    BY DEF TypeInv, TypeOK
  <2>2. (~failures) = TRUE => SetCovered(index)
    BY <1>10, SessionCovers DEF EndSession, CoverInv, TypeInv, TypeOK
  <2> QED BY <1>8, <1>10, <2>1, <2>2 DEF EndSession
<1> QED BY <1>5, <1>6, <1>7, <1>9, <1>10

LEMMA CoverBegin ==
  ASSUME TypeInv, CoverInv, BeginTest
  PROVE  CoverInv'
<1>1. /\ InTest /\ todo = {} /\ stage = "session" /\ test \in 1 .. 9
      /\ UNCHANGED <<project, schema, tested, stage, index, inputs, passed, exit>>
  BY NowIs DEF BeginTest, InTest, clientVars, readOnly
<1>2. PassedInv' /\ GeneratedInv' /\ DoneInv'
  BY <1>1 DEF CoverInv, GeneratedInv, PassedInv, DoneInv, SetCovered, Tested, HandlerTargets, Matching
<1>3. \A i, targets : TestCovered(i, targets)' <=> TestCovered(i, targets)
  BY <1>1 DEF TestCovered, Tested
<1>5. SUFFICES ASSUME project.artifact = "HOOK", failures' = FALSE PROVE SessionInv'
  BY <1>1, <1>2 DEF CoverInv, SessionInv
<1>6. failures = FALSE
  BY <1>5 DEF BeginTest, FailTest, TestLacks, TypeInv, TypeOK
<1>7. \A i \in 1 .. 9 : i < test => TestCovered(i, HandlerTargets(Suite[i].point))
  BY <1>1, <1>5, <1>6 DEF CoverInv, SessionInv
<1>8. \A i : HandlerTargets(Suite[i].point)' = HandlerTargets(Suite[i].point)
  BY <1>1 DEF HandlerTargets
<1>9. CASE /\ test' = test + 1 /\ todo' = {}
           /\ TestCovered(test, HandlerTargets(Suite[test].point))
  <2>1. \A i \in 1 .. 9 : i < test' => TestCovered(i, HandlerTargets(Suite[i].point))
    <3>1. \A i \in 1 .. 9 : i < test + 1 => i < test \/ i = test
      BY <1>1
    <3> QED BY <1>7, <1>9, <3>1
  <2> QED BY <1>3, <1>8, <1>9, <2>1 DEF SessionInv
<1>10. CASE test' = test /\ todo' = TestTargets
  <2>1. TestCovered(test, HandlerTargets(Now.point) \ TestTargets)
    BY DEF TestCovered, Tested, TestTargets, Now
  <2>2. Now' = Now /\ HandlerTargets(Now.point)' = HandlerTargets(Now.point)
    BY <1>1, <1>10 DEF Now, HandlerTargets
  <2> QED BY <1>3, <1>7, <1>8, <1>10, <2>1, <2>2 DEF SessionInv
<1>11. CASE Now.point \notin DOMAIN schema \/ Now.expect = "unsupported" \/ HandlerTargets(Now.point) = {}
  <2>1. TestCovered(test, HandlerTargets(Suite[test].point))
    BY <1>11 DEF TestCovered, Tested, Now
  <2> QED BY <1>1, <1>5, <1>9, <1>10, <2>1 DEF BeginTest, FailTest, TestLacks, TestTargets
<1>12. CASE ~ (Now.point \notin DOMAIN schema \/ Now.expect = "unsupported" \/ HandlerTargets(Now.point) = {})
  BY <1>5, <1>10, <1>12 DEF BeginTest, FailTest, TestLacks, TestTargets
<1> QED BY <1>11, <1>12

LEMMA CoverConclude ==
  ASSUME TypeInv, CoverInv, Conclude
  PROVE  CoverInv'
<1>1. /\ InTest /\ phase = "answered" /\ stage = "session" /\ test \in 1 .. 9 /\ Now \in Test
      /\ UNCHANGED <<project, schema, stage, index, inputs, passed, exit>>
  BY NowIs DEF Conclude, Returned, InTest, readOnly
<1>2. tested \subseteq tested'
  BY DEF Conclude
<1>3. PassedInv' /\ GeneratedInv' /\ DoneInv'
  <2>1. \A n : SetCovered(n) => SetCovered(n)'
    BY <1>1, <1>2, CoverGrows
  <2> QED BY <1>1, <2>1 DEF CoverInv, PassedInv, GeneratedInv, DoneInv, Matching
<1>4. SUFFICES ASSUME project.artifact = "HOOK", failures' = FALSE PROVE SessionInv'
  BY <1>1, <1>3 DEF CoverInv, SessionInv
<1>5. /\ Passes /\ failures = FALSE
      /\ todo' = todo \ {request.target}
      /\ test' = IF todo = {request.target} THEN test + 1 ELSE test
      /\ tested' = IF Now.expect = "unsupported" THEN tested
                   ELSE tested \cup {<<index, Now.point, request.target, request.valid>>}
  BY <1>4 DEF Conclude, FailTest
<1>6. /\ request.target \in todo /\ request.valid = (Now.expect # "failed")
  BY <1>1 DEF TypeInv, CallInv
<1>7. /\ \A i \in 1 .. 9 : i < test => TestCovered(i, HandlerTargets(Suite[i].point))
      /\ TestCovered(test, HandlerTargets(Now.point) \ todo)
  BY <1>1, <1>4, <1>5, <1>6 DEF CoverInv, SessionInv
<1>8. \A i, targets : TestCovered(i, targets) => TestCovered(i, targets)'
  BY <1>1, <1>2, CoverGrows
<1>9. \A i : HandlerTargets(Suite[i].point)' = HandlerTargets(Suite[i].point)
  BY <1>1 DEF HandlerTargets
<1>10. PICK k \in 1 .. 9, left \in SUBSET todo : k = test /\ left = todo'
  BY <1>1, <1>5
<1>11. TestCovered(k, HandlerTargets(Suite[k].point) \ left)'
  <2>1. SUFFICES ASSUME Now.expect # "unsupported", Now.point \in DOMAIN schema,
                        NEW t \in HandlerTargets(Now.point), t \notin left
                 PROVE  <<index, Now.point, t, Now.expect = "success">> \in tested'
    BY <1>1, <1>9, <1>10 DEF TestCovered, Tested, Now
  <2>2. CASE t = request.target
    <3>1. request.valid = (Now.expect = "success")
      BY <1>1, <1>6, <2>1 DEF Test
    <3> QED BY <1>5, <2>1, <2>2, <3>1
  <2>3. CASE t # request.target
    <3>1. t \in HandlerTargets(Now.point) \ todo
      BY <1>5, <1>10, <2>1, <2>3
    <3>2. <<index, Now.point, t, Now.expect = "success">> \in tested
      BY <1>7, <2>1, <3>1 DEF TestCovered, Tested, Now
    <3> QED BY <1>2, <3>2
  <2> QED BY <2>2, <2>3
<1>12. \A i \in 1 .. 9 : i < k => TestCovered(i, HandlerTargets(Suite[i].point))'
  BY <1>7, <1>8, <1>9, <1>10
<1>13. CASE todo = {request.target}
  <2>1. test' = k + 1 /\ left = {} /\ todo' = {}
    BY <1>5, <1>10, <1>13
  <2>2. TestCovered(k, HandlerTargets(Suite[k].point))'
    <3>1. HandlerTargets(Suite[k].point)' \ left = HandlerTargets(Suite[k].point)'
      BY <2>1
    <3> QED BY <1>11, <3>1
  <2>3. \A i \in 1 .. 9 : i < test' => TestCovered(i, HandlerTargets(Suite[i].point))'
    <3>1. \A i \in 1 .. 9 : i < k + 1 => i < k \/ i = k
      OBVIOUS
    <3> QED BY <1>12, <2>1, <2>2, <3>1
  <2> QED BY <2>1, <2>3 DEF SessionInv
<1>14. CASE todo # {request.target}
  <2>1. test' = k /\ todo' = left
    BY <1>5, <1>10, <1>14
  <2>2. TestCovered(test, HandlerTargets(Now.point) \ todo)'
    BY <1>11, <2>1 DEF TestCovered, Tested, Now, HandlerTargets
  <2> QED BY <1>12, <2>1, <2>2 DEF SessionInv
<1> QED BY <1>13, <1>14

LEMMA CoverStep ==
  ASSUME TypeInv, CoverInv, [Next]_vars
  PROVE  CoverInv'
<1>1. CASE Load \/ GetInputs \/ MakeClient \/ ResourceSession \/ EndSession
  <2>1. ~InTest
    <3>1. CASE EndSession
      BY <3>1, Positions DEF EndSession, InTest, TypeInv, TypeOK
    <3>2. CASE Load \/ GetInputs \/ MakeClient \/ ResourceSession
      BY <3>2 DEF Load, GetInputs, MakeClient, ResourceSession, InTest
    <3> QED BY <1>1, <3>1, <3>2
  <2> QED BY <1>1, <2>1, CoverBetween
<1>2. CASE BeginTest
  BY <1>2, CoverBegin
<1>3. CASE CallTarget \/ CallRaises
  <2>1. CASE CallTarget /\ UNCHANGED <<test, todo, failures>>
    BY <2>1, CoverUnchanged DEF CallTarget, readOnly
  <2>2. CASE FailTest
    <3>1. UNCHANGED <<project, schema, stage, index, inputs, tested, passed, exit>> /\ failures' = TRUE
      BY <1>3, <2>2 DEF CallTarget, CallRaises, FailTest, readOnly
    <3> QED
      BY <3>1 DEF CoverInv, SessionInv, GeneratedInv, PassedInv, DoneInv, SetCovered, Tested,
                  HandlerTargets, Matching
  <2> QED BY <1>3, <2>1, <2>2 DEF CallTarget, CallRaises, TestLacks
<1>4. CASE Conclude
  BY <1>4, CoverConclude
<1>5. CASE \/ (Reinvoke \/ HandlerAnswers) /\ UNCHANGED sessionVars
           \/ Edit \/ UNCHANGED vars
  BY <1>5, CoverUnchanged DEF Reinvoke, HandlerAnswers, Edit, vars, clientVars, sessionVars
<1> QED BY <1>1, <1>2, <1>3, <1>4, <1>5 DEF Next, Step

(* Exit code 0 means that every set of inputs up to the first gap was       *)
(* tested, with every target of every invocation point (test,               *)
(* test_hook_handlers_success, test_hook_handlers_failed).                  *)
THEOREM PassCorrect == Spec => []PassMeansTested
<1>1. Init => CoverInv
  BY MaxSetAssumption DEF Init, CoverInv, SessionInv, GeneratedInv, PassedInv, DoneInv
<1>2. TypeInv /\ CoverInv /\ [Next]_vars => CoverInv'
  BY CoverStep
<1>3. TypeInv /\ CoverInv => PassMeansTested
  BY CoverImplies DEF TypeInv
<1> QED BY <1>1, <1>2, <1>3, TypeCorrectInv, PTL DEF Spec

-----------------------------------------------------------------------------
(* How long a test run takes.                                               *)

(* The parts of sessions still to come; the tests of this session, the      *)
(* targets of this test, and the invocations of this call.                  *)
SetsLeft ==
  CASE stage = "load" -> 3 * MaxSet + 4
    [] stage = "inputs" -> 3 * (MaxSet + 1 - index) + 3
    [] stage = "client" -> 3 * (MaxSet + 1 - index) + 2
    [] stage = "session" -> 3 * (MaxSet + 1 - index) + 1
    [] stage = "done" -> 0
TestsLeft == Len(Suite) + 1 - test
TargetsLeft == IF todo = {} THEN Cardinality(Targets) + 2 ELSE Cardinality(todo)
PollsLeft ==
  CASE phase = "idle" -> 2 * MaxPolls + 4
    [] phase = "sent" -> IF request.again = TRUE THEN 2 * request.context.left + 1
                         ELSE 2 * MaxPolls + 3
    [] phase = "answered" -> IF answer.status = "IN_PROGRESS" THEN 2 * answer.context.left + 2
                             ELSE 0

(* The command is nearer to its end.                                        *)
Nearer ==
  \/ SetsLeft' < SetsLeft
  \/ SetsLeft' = SetsLeft /\ TestsLeft' < TestsLeft
  \/ SetsLeft' = SetsLeft /\ TestsLeft' = TestsLeft /\ TargetsLeft' < TargetsLeft
  \/ /\ SetsLeft' = SetsLeft /\ TestsLeft' = TestsLeft /\ TargetsLeft' = TargetsLeft
     /\ PollsLeft' < PollsLeft

(* Every step brings the command nearer to its end: no set of inputs is     *)
(* tested twice, no test of a session and no target of a test comes again,  *)
(* and each invocation of a call has less left to wait for than the one     *)
(* before; an edit of the developer's changes none of this (test,           *)
(* HookClient.call).                                                        *)
SessionIsBounded ==
  [][/\ {SetsLeft, TestsLeft, TargetsLeft, PollsLeft} \subseteq Nat
     /\ IF file' = file THEN Nearer
        ELSE UNCHANGED <<SetsLeft, TestsLeft, TargetsLeft, PollsLeft>>]_vars

(* A handler that is in progress has something left to wait for, and is     *)
(* asked again with that.                                                   *)
ProgressInv ==
  /\ phase = "sent" /\ request.again = TRUE => request.context # NoContext
  /\ phase = "answered" /\ answer.status = "IN_PROGRESS" => answer.context.left > 0

LEMMA AnswersProgress ==
  ASSUME request \in Request, defect \in Defects \cup {"none"}, NEW polls \in 0 .. MaxPolls,
         NEW a, a = Deviation(Conforming(polls)), a.status = "IN_PROGRESS"
  PROVE  /\ a.context.left \in 1 .. MaxPolls
         /\ request.context # NoContext => a.context.left < request.context.left
<1> DEFINE c == Conforming(polls)
<1>1. c \in Answer /\ a = Deviation(c)
  BY AnswersType
<1>2. Success.status = "SUCCESS" /\ \A code : Failed(code).status = "FAILED"
  BY DEF Success, Failed
<1>3. c.status = "IN_PROGRESS" /\ a.context = c.context
  <2> HIDE DEF c
  <2>1. /\ [c EXCEPT !.message = FALSE].status = c.status
        /\ [c EXCEPT !.message = FALSE].context = c.context
        /\ [c EXCEPT !.code = "InternalFailure"].status = c.status
        /\ [c EXCEPT !.code = "InternalFailure"].context = c.context
        /\ [c EXCEPT !.delay = TRUE].status = c.status
        /\ [c EXCEPT !.delay = TRUE].context = c.context
        /\ [c EXCEPT !.slow = TRUE].status = c.status
        /\ [c EXCEPT !.slow = TRUE].context = c.context
    BY <1>1 DEF Answer
  <2>2. \/ a = c \/ a = Success \/ \E code : a = Failed(code)
        \/ a \in {[c EXCEPT !.message = FALSE], [c EXCEPT !.code = "InternalFailure"],
                  [c EXCEPT !.delay = TRUE], [c EXCEPT !.slow = TRUE]}
    BY <1>1 DEF Deviation
  <2> QED BY <1>2, <2>1, <2>2
<1>4. Verdict.status # "IN_PROGRESS"
  BY <1>2 DEF Verdict
<1>5. PICK left : /\ left > 0 /\ c = Progress(request.token, left)
                  /\ left = IF request.context = NoContext THEN polls ELSE request.context.left - 1
  BY <1>2, <1>3, <1>4 DEF Conforming
<1>6. c.context.left = left
  BY <1>5 DEF Progress, Success
<1>7. request.context.left \in 0 .. MaxPolls
  BY DEF Request, Context
<1>8. left \in 1 .. MaxPolls /\ (request.context # NoContext => left < request.context.left)
  BY <1>5, <1>7, PollsAssumption
<1> QED BY <1>3, <1>6, <1>8

LEMMA ProgressInit == Init => ProgressInv
  BY DEF Init, ClientInit, ProgressInv

LEMMA ProgressNext == TypeInv /\ ProgressInv /\ [Next]_vars => ProgressInv'
<1> SUFFICES ASSUME TypeInv, ProgressInv, [Next]_vars PROVE ProgressInv'
  OBVIOUS
<1>1. CASE HandlerAnswers
  <2>1. phase = "sent" /\ phase' = "answered" /\ request' = request /\ request \in Request
    BY <1>1 DEF HandlerAnswers, TypeInv, TypeOK, ClientTypeOK
  <2>2. PICK polls \in 0 .. MaxPolls : answer' = Deviation(Conforming(polls))
    BY <1>1 DEF HandlerAnswers
  <2>3. answer'.status = "IN_PROGRESS" => answer'.context.left \in 1 .. MaxPolls
    BY <2>1, <2>2, AnswersProgress, AnswersType DEF TypeInv, TypeOK, ClientTypeOK
  <2> QED BY <2>1, <2>3, PollsAssumption DEF ProgressInv
<1>2. CASE Reinvoke
  <2>1. /\ phase' = "sent" /\ answer.context.left > 0 /\ answer.context \in Context
        /\ request'.context = answer.context
    BY <1>2 DEF Reinvoke, ProgressInv, TypeInv, TypeOK, ClientTypeOK, Answer, Request
  <2>2. request'.context # NoContext
    BY <2>1 DEF NoContext
  <2> QED BY <2>1, <2>2 DEF ProgressInv
<1>3. CASE CallTarget
  BY <1>3 DEF CallTarget, Invoke, ProgressInv, callVars
<1>4. CASE Conclude \/ CallRaises
  BY <1>4 DEF Conclude, CallRaises, ProgressInv
<1>5. CASE UNCHANGED callVars
  BY <1>5 DEF callVars, ProgressInv
<1>6. \/ HandlerAnswers \/ Reinvoke \/ CallTarget \/ CallRaises \/ Conclude
      \/ UNCHANGED callVars
  BY DEF Next, Step, Load, GetInputs, MakeClient, ResourceSession, EndSession, BeginTest, Edit,
     clientVars, vars
<1> QED BY <1>1, <1>2, <1>3, <1>4, <1>5, <1>6

LEMMA TodoIsFinite ==
  ASSUME TypeOK
  PROVE  /\ IsFiniteSet(todo) /\ Cardinality(Targets) \in Nat
         /\ Cardinality(todo) \in 0 .. Cardinality(Targets) + 1
<1>1. IsFiniteSet(Targets \cup {Unsupported})
      /\ Cardinality(Targets \cup {Unsupported}) = Cardinality(Targets) + 1
  BY TargetsAssumption, UnsupportedAssumption, FS_AddElement
<1>2. Cardinality(Targets) \in Nat
  BY TargetsAssumption, FS_CardinalityType
<1>3. IsFiniteSet(todo) /\ Cardinality(todo) <= Cardinality(Targets) + 1
  BY <1>1, FS_Subset DEF TypeOK
<1>4. Cardinality(todo) \in Nat
  BY <1>3, FS_CardinalityType
<1> QED BY <1>2, <1>3, <1>4

LEMMA LeftAreNat ==
  ASSUME TypeOK
  PROVE  {SetsLeft, TestsLeft, TargetsLeft, PollsLeft} \subseteq Nat
<1>1. SetsLeft \in Nat
  <2>1. MaxSet + 1 - index \in Nat /\ MaxSet \in Nat
    BY MaxSetAssumption DEF TypeOK
  <2>2. CASE stage = "load"
    BY <2>1, <2>2 DEF SetsLeft
  <2>3. CASE stage = "inputs"
    BY <2>1, <2>3 DEF SetsLeft
  <2>4. CASE stage = "client"
    BY <2>1, <2>4 DEF SetsLeft
  <2>5. CASE stage = "session"
    BY <2>1, <2>5 DEF SetsLeft
  <2>6. CASE stage = "done"
    BY <2>6 DEF SetsLeft
  <2>7. stage \in {"load", "inputs", "client", "session", "done"}
    BY DEF TypeOK
  <2> QED BY <2>2, <2>3, <2>4, <2>5, <2>6, <2>7
<1>2. TestsLeft \in Nat
  BY Positions DEF TypeOK, TestsLeft
<1>3. TargetsLeft \in Nat
  BY TodoIsFinite DEF TargetsLeft
<1>4. PollsLeft \in Nat
  <2>1. request.context.left \in Nat /\ answer.context.left \in Nat
    BY PollsAssumption DEF TypeOK, ClientTypeOK, Request, Answer, Context
  <2>2. CASE phase = "idle"
    BY <2>2, PollsAssumption DEF PollsLeft
  <2>3. CASE phase = "sent"
    BY <2>1, <2>3, PollsAssumption DEF PollsLeft
  <2>4. CASE phase = "answered"
    BY <2>1, <2>4 DEF PollsLeft
  <2>5. phase \in {"idle", "sent", "answered"}
    BY DEF TypeOK, ClientTypeOK
  <2> QED BY <2>2, <2>3, <2>4, <2>5
<1> QED BY <1>1, <1>2, <1>3, <1>4

(* The session goes on with its next test.                                  *)
LEMMA NextTestNearer ==
  ASSUME TypeOK, test' = test + 1, UNCHANGED <<stage, index>>
  PROVE  Nearer
<1>1. SetsLeft' = SetsLeft
  BY DEF SetsLeft
<1>2. TestsLeft' < TestsLeft
  BY Positions DEF TypeOK, TestsLeft
<1> QED BY <1>1, <1>2 DEF Nearer

LEMMA BetweenNearer ==
  ASSUME TypeInv, Load \/ GetInputs \/ MakeClient \/ ResourceSession \/ EndSession
  PROVE  Nearer
<1>1. \/ stage = "load" /\ stage' \in {"inputs", "done"} /\ index' = index
      \/ stage = "inputs" /\ stage' \in {"client", "done"} /\ index' = index
      \/ stage = "client" /\ stage' \in {"session", "done"} /\ index' = index
      \/ stage = "session" /\ stage' = "done" /\ index' = index
      \/ stage = "session" /\ stage' = "inputs" /\ index' = index + 1
  BY LacksIs DEF Load, GetInputs, MakeClient, ResourceSession, EndSession, Conclusion, Exit, Goto
<1>2. index \in 1 .. MaxSet + 1 /\ MaxSet \in Nat
  <2>1. index \in 1 .. MaxSet + 1
    BY DEF TypeInv, TypeOK
  <2>2. MaxSet \in Nat
    BY MaxSetAssumption
  <2> QED BY <2>1, <2>2
<1>3. SetsLeft' < SetsLeft
  BY <1>1, <1>2 DEF SetsLeft
<1> QED BY <1>3 DEF Nearer

LEMMA TestNearer ==
  ASSUME TypeInv, TypeOK', BeginTest \/ CallTarget \/ CallRaises \/ Conclude
  PROVE  Nearer
<1>1. UNCHANGED <<stage, index>>
  BY DEF BeginTest, CallTarget, CallRaises, Conclude
<1>2. CASE test' = test + 1
  BY <1>1, <1>2, NextTestNearer DEF TypeInv
<1>3. CASE test' # test + 1
  <2>1. test' = test
    BY <1>3 DEF BeginTest, CallTarget, CallRaises, Conclude, FailTest, TestLacks
  <2>2. SetsLeft' = SetsLeft /\ TestsLeft' = TestsLeft
    BY <1>1, <2>1 DEF SetsLeft, TestsLeft
  <2>3. CASE BeginTest
    <3>1. todo = {} /\ todo' # {}
      BY <1>3, <2>3 DEF BeginTest, FailTest, TestLacks
    <3>2. Cardinality(todo') < Cardinality(Targets) + 2
      <4>1. todo' \subseteq Targets \cup {Unsupported}
        BY DEF TypeOK
      <4>2. /\ IsFiniteSet(Targets \cup {Unsupported}) /\ Cardinality(Targets) \in Nat
            /\ Cardinality(Targets \cup {Unsupported}) = Cardinality(Targets) + 1
        BY TargetsAssumption, UnsupportedAssumption, FS_AddElement, FS_CardinalityType
      <4>3. Cardinality(todo') <= Cardinality(Targets) + 1 /\ IsFiniteSet(todo')
        BY <4>1, <4>2, FS_Subset
      <4>4. Cardinality(todo') \in Nat
        BY <4>3, FS_CardinalityType
      <4> QED BY <4>2, <4>3, <4>4
    <3>3. TargetsLeft' < TargetsLeft
      BY <3>1, <3>2 DEF TargetsLeft
    <3> QED BY <2>2, <3>3 DEF Nearer
  <2>4. CASE CallTarget
    <3>1. phase = "idle" /\ phase' = "sent" /\ request'.again = FALSE /\ todo' = todo
      BY <1>3, <2>4 DEF CallTarget, Invoke, FailTest, TestLacks
    <3>2. TargetsLeft' = TargetsLeft
      BY <3>1 DEF TargetsLeft
    <3>3. PollsLeft' < PollsLeft
      BY <3>1, PollsAssumption DEF PollsLeft
    <3> QED BY <2>2, <3>2, <3>3 DEF Nearer
  <2>5. CASE Conclude
    <3>1. todo' = todo \ {request.target} /\ todo # {request.target}
      BY <1>3, <2>5 DEF Conclude, FailTest
    <3>2. request.target \in todo
      BY <2>5 DEF Conclude, Returned, TypeInv, CallInv
    <3>3. Cardinality(todo') = Cardinality(todo) - 1
      BY <3>1, <3>2, TodoIsFinite, FS_RemoveElement DEF TypeInv
    <3>4. TargetsLeft' < TargetsLeft
      BY <3>1, <3>2, <3>3, TodoIsFinite DEF TargetsLeft, TypeInv
    <3> QED BY <2>2, <3>4 DEF Nearer
  <2>6. ~CallRaises
    BY <1>3 DEF CallRaises, FailTest, TestLacks
  <2> QED BY <2>3, <2>4, <2>5, <2>6
<1> QED BY <1>2, <1>3

LEMMA InvocationNearer ==
  ASSUME TypeInv, ProgressInv, Reinvoke \/ HandlerAnswers, UNCHANGED sessionVars
  PROVE  Nearer
<1>1. SetsLeft' = SetsLeft /\ TestsLeft' = TestsLeft /\ TargetsLeft' = TargetsLeft
  BY DEF sessionVars, SetsLeft, TestsLeft, TargetsLeft
<1>2. PollsLeft' < PollsLeft
  <2>1. /\ request \in Request /\ answer \in Answer
        /\ request.context.left \in 0 .. MaxPolls /\ answer.context.left \in 0 .. MaxPolls
    BY DEF TypeInv, TypeOK, ClientTypeOK, Request, Answer, Context
  <2>2. CASE Reinvoke
    <3>1. /\ phase = "answered" /\ answer.status = "IN_PROGRESS" /\ phase' = "sent"
          /\ request'.again = TRUE /\ request'.context = answer.context
      BY <2>1, <2>2 DEF Reinvoke, Request
    <3>2. PollsLeft = 2 * answer.context.left + 2 /\ PollsLeft' = 2 * answer.context.left + 1
      BY <3>1 DEF PollsLeft
    <3> QED BY <2>1, <3>2, PollsAssumption
  <2>3. CASE HandlerAnswers
    <3>1. phase = "sent" /\ phase' = "answered" /\ request' = request
      BY <2>3 DEF HandlerAnswers
    <3>2. PICK polls \in 0 .. MaxPolls : answer' = Deviation(Conforming(polls))
      BY <2>3 DEF HandlerAnswers
    <3>3. CASE answer'.status = "IN_PROGRESS"
      <4>1. /\ answer'.context.left \in 1 .. MaxPolls
            /\ request.again = TRUE => answer'.context.left < request.context.left
        BY <2>1, <3>1, <3>2, <3>3, AnswersProgress, AnswersType
        DEF ProgressInv, TypeInv, TypeOK, ClientTypeOK
      <4>2. PollsLeft' = 2 * answer'.context.left + 2
        BY <3>1, <3>3 DEF PollsLeft
      <4>3. PollsLeft = IF request.again = TRUE THEN 2 * request.context.left + 1
                        ELSE 2 * MaxPolls + 3
        BY <3>1 DEF PollsLeft
      <4> QED BY <2>1, <4>1, <4>2, <4>3, PollsAssumption
    <3>4. CASE answer'.status # "IN_PROGRESS"
      <4>1. PollsLeft' = 0
        BY <3>1, <3>4 DEF PollsLeft
      <4>2. PollsLeft > 0
        BY <2>1, <3>1, PollsAssumption DEF PollsLeft
      <4> QED BY <4>1, <4>2
    <3> QED BY <3>3, <3>4
  <2> QED BY <2>2, <2>3
<1> QED BY <1>1, <1>2 DEF Nearer

(* A test run ends after a number of steps that the numbers of its input    *)
(* sets, of its targets and of the answers in progress bound, whatever the  *)
(* defect of the hook (test, HookClient.call).                              *)
THEOREM BoundCorrect == Spec => SessionIsBounded
<1>1. Init => ProgressInv
  BY ProgressInit
<1>2. TypeInv /\ ProgressInv /\ [Next]_vars => ProgressInv'
  BY ProgressNext
<1>3. TypeInv /\ TypeInv' /\ ProgressInv /\ [Next]_vars =>
        [/\ {SetsLeft, TestsLeft, TargetsLeft, PollsLeft} \subseteq Nat
         /\ IF file' = file THEN Nearer
            ELSE UNCHANGED <<SetsLeft, TestsLeft, TargetsLeft, PollsLeft>>]_vars
  <2> SUFFICES ASSUME TypeInv, TypeInv', ProgressInv, Next, ~UNCHANGED vars
               PROVE  IF file' = file THEN Nearer
                      ELSE UNCHANGED <<SetsLeft, TestsLeft, TargetsLeft, PollsLeft>>
    BY LeftAreNat DEF TypeInv
  <2>1. CASE Step
    <3>1. file' = file
      BY <2>1 DEF Step, Load, GetInputs, MakeClient, ResourceSession, EndSession, BeginTest,
         CallTarget, CallRaises, Conclude, sessionVars, readOnly
    <3>2. Nearer
      BY <2>1, BetweenNearer, TestNearer, InvocationNearer DEF Step, TypeInv
    <3> QED BY <3>1, <3>2
  <2>2. CASE Edit
    <3>1. UNCHANGED <<phase, request, answer, stage, index, test, todo>>
      BY <2>2 DEF Edit, clientVars, callVars
    <3>2. file' # file
      BY <2>2 DEF Edit, clientVars, vars, sessionVars
    <3>3. UNCHANGED <<SetsLeft, TestsLeft, TargetsLeft, PollsLeft>>
      BY <3>1 DEF SetsLeft, TestsLeft, TargetsLeft, PollsLeft
    <3> QED BY <3>2, <3>3
  <2> QED BY <2>1, <2>2 DEF Next
<1> QED BY <1>1, <1>2, <1>3, TypeCorrectInv, PTL DEF Spec, SessionIsBounded
=============================================================================
