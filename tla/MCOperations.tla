---------------------------- MODULE MCOperations ----------------------------
(***************************************************************************)
(* Instances for TLC of the components behind the conversations: runtime   *)
(* workers, deployment, runtime health and alerts.  They share no state,   *)
(* so a behaviour picks one, its scene (alerts have one for each thing     *)
(* they are computed from), and the others stand still: one run explores   *)
(* the state graph of each as its module has it.                           *)
(***************************************************************************)
EXTENDS Execution, Deployment, RuntimeHealth, Alerts

CONSTANTS
    Scenes,   \* the scenes a run looks at
    a1, a2, c1, c2, r1, r2, r3, dev, m1, m2, m3, x2

VARIABLE scene

sceneVars == <<scene, executionVars, deploymentVars, healthVars, alertVars>>

\* Everything allowed; commands allowed where writing is denied; commands and searching allowed,
\* the rest unlisted.
Everything == [t \in NativeTools |-> "allow"]
NoWriting == [Everything EXCEPT !["write"] = "deny"]
NoFetching == [t \in NativeTools |-> IF t \in {"exec", "webSearch"} THEN "allow" ELSE "unlisted"]
Setup(agent, conversation, first, second) ==
    [agentOf |-> <<a1, agent>>, conversationOf |-> <<c1, conversation>>,
     policyOf |-> (a1 :> first @@ a2 :> second)]
SomeSetups == {Setup(a1, c1, Everything, Everything), Setup(a1, c2, NoWriting, NoWriting),
               Setup(a2, c2, NoFetching, Everything)}

\* Three releases, and a build of a branch that left the first.
SomeShipped == r1 :> <<m1>> @@ r2 :> <<m1, m2>> @@ r3 :> <<m1, m2, m3>> @@ dev :> <<m1, x2>>
SomeQueues == r1 :> 1 @@ r2 :> 1 @@ r3 :> 1 @@ dev :> 2
SomePublished == r1 :> {} @@ r2 :> {r1} @@ r3 :> {r1, r2} @@ dev :> {r1}

\* Worker processes are interchangeable.
Symmetry == Permutations(Processes)

AlertScenes == {"link", "retention", "backup", "rows"}

\* Where a component's start leaves a choice, only the one on the scene makes it.
SceneInit ==
    /\ scene \in Scenes
    /\ ExecutionInit /\ DeploymentInit /\ HealthInit /\ AlertsInit
    /\ scene # "execution" => /\ setup = Setup(a1, c1, Everything, Everything)
                              /\ adapter = "claude-code"

\* Only the component on the scene takes a step.
Alone(s, A) ==
    /\ scene = s /\ UNCHANGED scene
    /\ IF s = "execution" THEN TRUE ELSE UNCHANGED executionVars
    /\ IF s = "deployment" THEN TRUE ELSE UNCHANGED deploymentVars
    /\ IF s = "health" THEN TRUE ELSE UNCHANGED healthVars
    /\ IF s \in AlertScenes THEN TRUE ELSE UNCHANGED alertVars
    /\ A

SceneNext ==
    \/ Alone("execution", ExecutionNext) \/ Alone("deployment", DeploymentNext)
    \/ Alone("health", HealthNext) \/ Alone("link", LinkNext)
    \/ Alone("retention", RetentionNext) \/ Alone("backup", BackupNext)
    \/ Alone("rows", RowsNext) \/ \E s \in AlertScenes : Alone(s, SweepNext)

SceneSpec == SceneInit /\ [][SceneNext]_sceneVars
=============================================================================
