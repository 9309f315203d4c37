-------------------------- MODULE MCWorkerDaemonSets --------------------------
(* Two worker groups, one of which comes and goes, and a name that is of no
   group.  One node, of the second group: nodes have nothing to do with each
   other. *)
EXTENDS WorkerDaemonSets

CONSTANTS g1, g2, typo, n2

Groups == {g1, g2}
OneOrTwo == {{g1}, {g1, g2}}
Names == {g1, g2, typo}
Nodes == {n2}
GroupOfNode == [n \in Nodes |-> g2]

Config(blackholing, workers) ==
    [egressFilter |-> TRUE, blackholingEnabled |-> blackholing, workers |-> workers,
     unsupported |-> FALSE]

For(blackholing, names) == [blackholingEnabled |-> blackholing, names |-> names]

NoConfig == [Config(FALSE, NoWorkers) EXCEPT !.egressFilter = FALSE]

Configs ==
    { NoConfig,
      Config(FALSE, For(TRUE, {g1, typo})),
      Config(TRUE, For(FALSE, {g1, g2})),
      Config(FALSE, For(TRUE, {})),
      [NoConfig EXCEPT !.unsupported = TRUE] }
=============================================================================
