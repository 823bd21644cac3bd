---------------------------- MODULE Publication ----------------------------
(***************************************************************************)
(* What `cfn submit` promises, without stacks, buckets, calls or clocks:   *)
(* a version is requested once, the registry accepts or rejects it, only a *)
(* registered version becomes the default, and a submitter that reports    *)
(* success reports the truth.  A submitter that reports failure may have   *)
(* published all the same: the answer can be lost after the version was    *)
(* made the default.  Submit implements this specification.                *)
(***************************************************************************)
CONSTANTS Procs, Names, Nobody

VARIABLES
  wish,     \* wish[p]: type name, whether to set the default, whether to stay local
  version,  \* version[p]: state of the version p submits
  outcome,  \* outcome[p]: what p reported; "published" while it has yet to report
  default   \* default[n]: whose version is the default of type n

vars == <<wish, version, outcome, default>>

Wish == [name : Names, setDefault : BOOLEAN, dryRun : BOOLEAN]

Init ==
  /\ wish \in [Procs -> Wish]
  /\ version = [p \in Procs |-> "none"]
  /\ outcome = [p \in Procs |-> "none"]
  /\ default = [n \in Names |-> Nobody]

Request(p) ==
  /\ version[p] = "none" /\ outcome[p] = "none" /\ ~wish[p].dryRun
  /\ version' = [version EXCEPT ![p] = "pending"]
  /\ UNCHANGED <<wish, outcome, default>>

(* The registry decides in its own time, also after p gave up.              *)
Decide(p) ==
  /\ version[p] = "pending"
  /\ \E v \in {"registered", "rejected"} : version' = [version EXCEPT ![p] = v]
  /\ UNCHANGED <<wish, outcome, default>>

(* A submitter that was asked to makes its own version the default, once,   *)
(* and only a registered one.                                               *)
SetDefault(p) ==
  /\ outcome[p] = "none" /\ version[p] = "registered"
  /\ wish[p].setDefault /\ ~wish[p].dryRun
  /\ default' = [default EXCEPT ![wish[p].name] = p]
  /\ outcome' = [outcome EXCEPT ![p] = "published"]
  /\ UNCHANGED <<wish, version>>

Succeed(p) ==
  /\ \/ outcome[p] = "none" /\ wish[p].dryRun
     \/ outcome[p] = "none" /\ ~wish[p].setDefault /\ version[p] = "registered"
     \/ outcome[p] = "published"
  /\ outcome' = [outcome EXCEPT ![p] = "success"]
  /\ UNCHANGED <<wish, version, default>>

Fail(p) ==
  /\ outcome[p] \in {"none", "published"}
  /\ outcome' = [outcome EXCEPT ![p] = "failure"]
  /\ UNCHANGED <<wish, version, default>>

Next == \E p \in Procs : Request(p) \/ Decide(p) \/ SetDefault(p) \/ Succeed(p) \/ Fail(p)

Spec == Init /\ [][Next]_vars
=============================================================================
