-------------------------- MODULE MCConversations --------------------------
(***************************************************************************)
(* Instances for TLC of the components people deal with: approvals, the    *)
(* Mattermost listener, membership, the Gmail connector and configuration. *)
(* They share no state, so a behaviour picks one, its scene, and the       *)
(* others stand still: one run explores the state graph of each as its     *)
(* module has it.                                                          *)
(***************************************************************************)
EXTENDS Approvals, Listener, Membership, Connector, Configuration, TLC

CONSTANTS
    Scenes,   \* the scenes a run looks at
    a1, r1, r2, root, reply, own, foreign

VARIABLE scene

sceneVars == <<scene, vars, listenerVars, membershipVars, connectorVars, configVars>>

\* A thread: an agent's post and a human's reply, or an approval card and a command.
ThreadRoot == [p \in Posts |-> IF p = reply THEN root ELSE None]
Conversation == [p \in Posts |-> IF p = root THEN "agent" ELSE "human"]
Approval == [p \in Posts |-> IF p = root THEN "card" ELSE "command"]
BothThreads == {Conversation, Approval}

\* The accounts the messages arrive in.
OwnerOf == [m \in Messages |-> IF m = 3 THEN foreign ELSE own]

\* Permission lists of agents from before the tool hub.
Lists == {[run |-> "allow", write |-> "none"], [run |-> "allow", write |-> "deny"]}

\* Editors are interchangeable.
Symmetry == Permutations(Editors)

\* Where a component's start leaves a choice, only the one on the scene makes it.
SceneInit ==
    /\ scene \in Scenes
    /\ Init /\ ListenerInit /\ MembershipInit /\ ConnectorInit /\ ConfigInit
    /\ scene # "listener" => kind = Conversation
    /\ scene # "connector" => connector = Down("poll")
    /\ scene # "configuration" => ~row.managed /\ row.perms = [run |-> "allow", write |-> "none"]

\* Only the component on the scene takes a step.
Alone(s, A) ==
    /\ scene = s /\ UNCHANGED scene
    /\ IF s = "approvals" THEN TRUE ELSE UNCHANGED vars
    /\ IF s = "listener" THEN TRUE ELSE UNCHANGED listenerVars
    /\ IF s = "membership" THEN TRUE ELSE UNCHANGED membershipVars
    /\ IF s = "connector" THEN TRUE ELSE UNCHANGED connectorVars
    /\ IF s = "configuration" THEN TRUE ELSE UNCHANGED configVars
    /\ A

SceneNext ==
    \/ Alone("approvals", Next) \/ Alone("listener", ListenerNext)
    \/ Alone("membership", MembershipNext) \/ Alone("connector", ConnectorNext)
    \/ Alone("configuration", ConfigNext)

\* The fairness of each component's own specification, for the one on the scene.
SceneFairness ==
    /\ \A x \in Approvals : /\ WF_sceneVars(Alone("approvals", Tick(x)))
                            /\ WF_sceneVars(Alone("approvals", SweepOne(x)))
                            /\ WF_sceneVars(Alone("approvals", LateCardNotice(x)))
    /\ WF_sceneVars(Alone("approvals", SweepSelect))
    /\ WF_sceneVars(Alone("listener", Live)) /\ WF_sceneVars(Alone("listener", Sync))
    /\ WF_sceneVars(Alone("listener", Connect)) /\ WF_sceneVars(Alone("listener", SyncTimer))
    /\ \A p \in Posts : WF_sceneVars(Alone("listener", Settle(p)))
    /\ WF_sceneVars(Alone("membership", Synchronize))
    /\ WF_sceneVars(Alone("membership", GraceEnds))
    /\ WF_sceneVars(Alone("connector", SyncStep)) /\ WF_sceneVars(Alone("connector", WatchStep))
    /\ WF_sceneVars(Alone("connector", PullStep))
    /\ WF_sceneVars(Alone("connector", StartConnector))

SceneSpec == SceneInit /\ [][SceneNext]_sceneVars

SceneFairSpec == SceneSpec /\ SceneFairness
=============================================================================
