----------------------------- MODULE MCDomTree -----------------------------
EXTENDS DomTree, MCGraphs

(* The graphs all of whose blocks are reachable. *)
MCCfgs == {c \in CfgsOf(EntryFreeBranches) : Reachable(c) = Blocks}
MCJunk == {0}
=============================================================================
