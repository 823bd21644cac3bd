----------------------------- MODULE MCSubmit -----------------------------
(* Instances of Submit for TLC.                                             *)
EXTENDS Submit

CONSTANTS p1, p2, p3, A, B, t1, t2, noOut

Default == [name |-> A, infraTmpl |-> t1, roleTmpl |-> t1, roleArn |-> NoRole,
            useRole |-> TRUE, handlers |-> TRUE, setDefault |-> TRUE, dryRun |-> FALSE]

(* Two types, three role templates of which one lacks the output, each way  *)
(* to choose a role, and each way a project can be unfit.                   *)
SafetyRequests ==
  {Default,
   [Default EXCEPT !.roleTmpl = t2, !.setDefault = FALSE],
   [Default EXCEPT !.roleTmpl = NoTemplate],
   [Default EXCEPT !.name = B, !.roleTmpl = noOut],
   [Default EXCEPT !.handlers = FALSE, !.infraTmpl = noOut],
   [Default EXCEPT !.useRole = FALSE, !.setDefault = FALSE],
   [Default EXCEPT !.dryRun = TRUE]}

(* Three submits of one type compete for the same stacks, with two          *)
(* templates and without the last call.                                     *)
CrowdRequests ==
  {[Default EXCEPT !.setDefault = FALSE, !.infraTmpl = t2],
   [Default EXCEPT !.setDefault = FALSE, !.roleArn = GivenRole]}
=============================================================================
