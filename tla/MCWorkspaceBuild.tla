-------------------------- MODULE MCWorkspaceBuild ---------------------------
(***************************************************************************)
(* A part of the workspace that has a package needed by all, one that      *)
(* needs two others, and one that nothing needs.                           *)
(***************************************************************************)
EXTENDS WorkspaceBuild, Projenrc

MCPackage == {"cdk-context", "sns", "lambda-function", "slackbot"}
MCDeps    == [p \in MCPackage |-> pkg[p]]

\* Every package is there, and compiling can begin and go on: some package of each set of
\* packages needs none of that set, as the chain of needs is at most three long.
Needs(s) == UNION {pkg[p] : p \in s}
ASSUME GraphAssumption ==
  /\ Needs(DOMAIN pkg) \subseteq DOMAIN pkg
  /\ Needs(Needs(Needs(DOMAIN pkg))) = {}
  /\ Unregistered \cap DOMAIN pkg = {}
=============================================================================
