------------------------------- MODULE MCAnswers -------------------------------
(***************************************************************************)
(* A small instance of each of the components of Answers.                  *)
(***************************************************************************)
EXTENDS Answers, TLC

Interchangeable == Permutations(Subjects) \cup Permutations(Components)

-----------------------------------------------------------------------------
\* Recovery grants: one issued grant, its variations in one respect each, and a
\* second grant.
Coordinates == {"product_code", "discriminator", "target", "environment", "recovery_plan",
                "bundle", "prestate"}
This == [k \in Coordinates |->
           IF k = "discriminator" THEN "failed_system_observation.v1" ELSE "this"]
OtherEncodings ==
  {[This EXCEPT !.discriminator = d] : d \in {"incumbent_prestate.v1", "", AbsentKey}}
MCRecoveries ==
  {This, [This EXCEPT !.bundle = "other"], [This EXCEPT !.target = "other", !.prestate = "other"]}
  \cup OtherEncodings

Early == [from |-> 1, issued |-> 1, until |-> 2]
Later == [from |-> 1, issued |-> 2, until |-> 3]
Late == [from |-> 0, issued |-> 2, until |-> 2]
MCWindows == {Early, Later, Late}

Granted ==
  [schema |-> "recovery_grant", grant |-> "g1", subject |-> This,
   window |-> Early, decision |-> "granted"]
Variations ==
  {Granted, [Granted EXCEPT !.schema = "deployment_authorization"],
   [Granted EXCEPT !.decision = "approval_exempt"],
   [Granted EXCEPT !.window = Late],
   [Granted EXCEPT !.grant = "g2", !.window = Later]}
  \cup {[Granted EXCEPT !.subject = s] : s \in OtherEncodings}

\* Signed as they stand, plus a window altered after signing and another key.
MCInserted ==
  {[statement |-> s, signature |-> [over |-> s, key |-> "recovery"]] : s \in Variations}
  \cup
  {[statement |-> [Granted EXCEPT !.window = Later],
    signature |-> [over |-> Granted, key |-> "recovery"]],
   [statement |-> Granted, signature |-> [over |-> Granted, key |-> "other"]]}

-----------------------------------------------------------------------------
\* Three rollouts, numbered as they were requested; the third returns to the
\* release of the first, the second changes the spec with it.
MCRollouts == 1..3
MCPlanOf ==
  <<[release |-> "old", spec |-> "a", revision |-> 1],
    [release |-> "new", spec |-> "b", revision |-> 2],
    [release |-> "old", spec |-> "a", revision |-> 3]>>

\* Pages of two over up to five targets: the last page is reached with a change
\* between its count and its reading.
MCRefs == 1..5
=============================================================================
