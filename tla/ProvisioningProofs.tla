------------------------- MODULE ProvisioningProofs -------------------------
(***************************************************************************)
(* Proofs about Provisioning, for any channels, teams, journal and number  *)
(* of edits and faults.                                                    *)
(***************************************************************************)
EXTENDS Provisioning, SequenceTheorems, TLAPS

\* An operation that is live tells what its agent's status is.
StatusFollows ==
    /\ status = "none" => ops = <<>>
    /\ current = 0 => ops = <<>>
    /\ status = "failed" => current # 0 /\ ops[current].kind \in {"create", "restore"}
    /\ \A i \in DOMAIN ops : ops[i].kind = "adopt" => ops[i].state = "succeeded"
    /\ \A i \in DOMAIN ops : IsLive(ops[i]) =>
         /\ ops[i].kind \in {"create", "restore"} => status \in {"pending", "reconciling"}
         /\ ops[i].kind = "retire" => status = "retiring"
         /\ ops[i].kind = "reprovision" => status = "ready"

\* Only the pass settles the operation it works on; anything else supersedes it.
PassIsLive ==
    pass.at # "idle" =>
        /\ pass.op \in DOMAIN ops
        /\ ~Stale => IsLive(ops[pass.op])

Journal == TypeOK /\ OneLiveOperation /\ StatusFollows /\ PassIsLive

\* Which steps belong to a retire, and a retire is never superseded.
RetireSteps == {"claim", "recover", "revoke", "disable", "channels", "leave", "delete",
                "complete"}
BuildSteps == {"claim", "load", "bot", "identity", "token", "issue", "write", "team",
               "others", "list", "join", "trim", "remove", "complete", "reject"}
RetireSaves == {"revoked", "disabled", "left", "deleted"}
PassKind ==
    pass.at # "idle" =>
        IF ops[pass.op].kind = "retire"
          THEN /\ pass.op = current
               /\ pass.at \in RetireSteps \/ (pass.at = "save" /\ pass.save \in RetireSaves)
          ELSE pass.at \in BuildSteps \/ (pass.at = "save" /\ pass.save \notin RetireSaves)

\* Before the agent's bot exists nothing depends on it.
NoBotYet ==
    bot \in {"absent", "stranger"} =>
        /\ ~identity /\ tokens = {} /\ ~file
        /\ \A i \in DOMAIN ops : ~ops[i].done.bot
        /\ pass.at \in {"idle", "claim", "load", "bot", "reject", "recover", "complete"}
        /\ pass.at = "complete" => ops[pass.op].kind = "retire"

\* A retiring agent is out of the configuration and pursues its retire; a superseded
\* pass can only be running while that has not begun.
Retiring ==
    /\ status \in {"retiring", "retired"} =>
         /\ ~config.active /\ grants = {}
         /\ current # 0 /\ ops[current].kind = "retire"
         /\ pass.at # "idle" /\ Stale => ops[current].done = NoCheckpoints
    /\ current # 0 /\ ops[current].kind = "retire" => status \in {"retiring", "retired"}

\* What the retire has recorded is so, and each step has the ones before it done.
RetireDone ==
    current # 0 /\ ops[current].kind = "retire" =>
        LET done == ops[current].done
            mine == pass.at # "idle" /\ ~Stale
            saving(what) == pass.at = "save" /\ pass.save = what
        IN /\ done.revoked => tokens = {}
           /\ done.disabled => bot = "disabled" /\ done.revoked
           /\ done.deleted => (Owned => ~file) /\ done.disabled
           /\ mine =>
                /\ saving("revoked") => tokens = {}
                /\ pass.at = "disable" \/ saving("disabled") => done.revoked
                /\ saving("disabled") => bot = "disabled"
                /\ pass.at \in {"channels", "leave", "delete"} \/ saving("left")
                     \/ saving("deleted") => done.disabled
                /\ saving("deleted") => (Owned => ~file)
                /\ pass.at \in {"revoke", "disable", "channels", "leave", "delete", "save"}
                     => bot \in {"enabled", "disabled"}
                /\ pass.at = "complete" => done.deleted \/ bot \in {"absent", "stranger"}

\* Once retired nothing runs until the agent is restored.
AtRest == status = "retired" => pass.at = "idle" /\ ops[current].state = "succeeded"

Access == PassKind /\ NoBotYet /\ Retiring /\ RetireDone /\ AtRest /\ RetiredHasNoAccess

-----------------------------------------------------------------------------
(* The journal as a sequence of operations. *)

\* Changing the state of one operation leaves a journal as long.
LEMMA StateChange ==
    ASSUME NEW J \in Seq(Operations), NEW i \in 1..Len(J), NEW st \in OpStates
    PROVE  LET K == [J EXCEPT ![i].state = st] IN
           /\ K \in Seq(Operations) /\ Len(K) = Len(J) /\ DOMAIN K = DOMAIN J
           /\ DOMAIN J = 1..Len(J)
           /\ \A k \in 1..Len(J) : k # i => K[k] = J[k]
           /\ K[i].state = st /\ K[i].kind = J[i].kind /\ K[i].done = J[i].done
<1> DEFINE e == [J[i] EXCEPT !.state = st]
<1>1. J[i] \in Operations /\ DOMAIN J = 1..Len(J)
  BY LenProperties
<1>2. e \in Operations /\ e.state = st /\ e.kind = J[i].kind /\ e.done = J[i].done
  BY <1>1 DEF Operations
<1>3. [J EXCEPT ![i].state = st] = [J EXCEPT ![i] = e]
  BY <1>1
<1>4. /\ [J EXCEPT ![i] = e] \in Seq(Operations)
      /\ Len([J EXCEPT ![i] = e]) = Len(J)
      /\ \A j \in 1..Len(J) : [J EXCEPT ![i] = e][j] = IF j = i THEN e ELSE J[j]
  <2> HIDE DEF e
  <2> QED BY <1>2, ExceptSeq
<1>5. DOMAIN [J EXCEPT ![i] = e] = DOMAIN J
  OBVIOUS
<1> HIDE DEF e
<1> QED BY <1>1, <1>2, <1>3, <1>4, <1>5

\* Recording a checkpoint changes nothing else.
LEMMA DoneChange ==
    ASSUME NEW J \in Seq(Operations), NEW i \in 1..Len(J), NEW d \in Checkpoints
    PROVE  LET K == [J EXCEPT ![i].done = d] IN
           /\ K \in Seq(Operations) /\ Len(K) = Len(J) /\ DOMAIN K = DOMAIN J
           /\ DOMAIN J = 1..Len(J)
           /\ \A k \in 1..Len(J) : k # i => K[k] = J[k]
           /\ K[i].state = J[i].state /\ K[i].kind = J[i].kind /\ K[i].done = d
<1> DEFINE e == [J[i] EXCEPT !.done = d]
<1>1. J[i] \in Operations /\ DOMAIN J = 1..Len(J)
  BY LenProperties
<1>2. e \in Operations /\ e.done = d /\ e.kind = J[i].kind /\ e.state = J[i].state
  BY <1>1 DEF Operations
<1>3. [J EXCEPT ![i].done = d] = [J EXCEPT ![i] = e]
  BY <1>1
<1>4. /\ [J EXCEPT ![i] = e] \in Seq(Operations)
      /\ Len([J EXCEPT ![i] = e]) = Len(J)
      /\ \A j \in 1..Len(J) : [J EXCEPT ![i] = e][j] = IF j = i THEN e ELSE J[j]
  <2> HIDE DEF e
  <2> QED BY <1>2, ExceptSeq
<1>5. DOMAIN [J EXCEPT ![i] = e] = DOMAIN J
  OBVIOUS
<1> HIDE DEF e
<1> QED BY <1>1, <1>2, <1>3, <1>4, <1>5

\* cancelNonterminalOperations leaves no live operation and nothing else changed.
LEMMA CancelledJournal ==
    ASSUME NEW J \in Seq(Operations)
    PROVE  /\ Cancelled(J) \in Seq(Operations) /\ Len(Cancelled(J)) = Len(J)
           /\ DOMAIN Cancelled(J) = DOMAIN J /\ DOMAIN J = 1..Len(J)
           /\ \A k \in 1..Len(J) :
                /\ ~IsLive(Cancelled(J)[k])
                /\ Cancelled(J)[k].kind = J[k].kind /\ Cancelled(J)[k].done = J[k].done
                /\ ~IsLive(J[k]) => Cancelled(J)[k] = J[k]
<1> DEFINE e(k) == IF IsLive(J[k]) THEN [J[k] EXCEPT !.state = "cancelled"] ELSE J[k]
<1>1. J \in [1..Len(J) -> Operations] /\ DOMAIN J = 1..Len(J) /\ Len(J) \in Nat
  BY LenProperties
<1>2. \A k \in 1..Len(J) :
         /\ e(k) \in Operations /\ ~IsLive(e(k))
         /\ e(k).kind = J[k].kind /\ e(k).done = J[k].done
         /\ ~IsLive(J[k]) => e(k) = J[k]
  BY <1>1 DEF Operations, OpStates, IsLive
<1>3. Cancelled(J) = [k \in 1..Len(J) |-> e(k)]
  BY <1>1 DEF Cancelled
<1> HIDE DEF e
<1>4. Cancelled(J) \in Seq(Operations) /\ Len(Cancelled(J)) = Len(J)
  BY <1>1, <1>2, <1>3
<1> QED BY <1>1, <1>2, <1>3, <1>4

\* An operation is appended and pursued.
LEMMA Pursued ==
    ASSUME NEW J \in Seq(Operations), NEW op \in Operations, Pursue(J, op)
    PROVE  /\ ops' \in Seq(Operations) /\ Len(ops') = Len(J) + 1 /\ current' = Len(J) + 1
           /\ DOMAIN ops' = 1..(Len(J) + 1) /\ DOMAIN J = 1..Len(J) /\ Len(J) \in Nat
           /\ \A k \in 1..Len(J) : ops'[k] = J[k]
           /\ ops'[Len(J) + 1] = op
<1>1. ops' = Append(J, op) /\ current' = Len(J) + 1
  BY DEF Pursue
<1>2. ops' \in Seq(Operations) /\ Len(ops') = Len(J) + 1
      /\ (\A k \in 1..Len(J) : ops'[k] = J[k]) /\ ops'[Len(J) + 1] = op
  BY <1>1, AppendProperties
<1> QED BY <1>1, <1>2, LenProperties

\* A new operation is pending, with the kind and the checkpoints it was given.
LEMMA NewOpType ==
    ASSUME NEW kind \in Kinds, NEW done \in Checkpoints
    PROVE  /\ NewOp(kind, done) \in Operations /\ IsLive(NewOp(kind, done))
           /\ NewOp(kind, done).kind = kind /\ NewOp(kind, done).done = done
BY DEF NewOp, Operations, OpStates, IsLive

\* An operation that has recorded nothing is typed.
LEMMA NoCheckpointsType == NoCheckpoints \in Checkpoints
BY DEF NoCheckpoints, Checkpoints

-----------------------------------------------------------------------------
(* The journal has one live operation, and a pass of another one is stale. *)

\* A superseding operation: everything before it is settled, and a pass under way is stale.
LEMMA Superseded ==
    ASSUME Journal, NEW J \in Seq(Operations), NEW op \in Operations, Pursue(J, op),
           Len(J) = Len(ops), \A k \in 1..Len(J) : ~IsLive(J[k]) /\ J[k].kind = ops[k].kind,
           \A k \in 1..Len(J) : ops[k].state = "succeeded" => J[k].state = "succeeded",
           IsLive(op), op.kind # "adopt",
           op.kind \in {"create", "restore"} => status' = "pending",
           op.kind = "retire" => status' = "retiring",
           op.kind = "reprovision" => status' = "ready",
           pass' = pass \/ pass' = NoPass
    PROVE  /\ ops' \in Seq(Operations) /\ current' \in 0..Len(ops') /\ status' \in Statuses
           /\ pass' \in Passes /\ pass'.op <= Len(ops')
           /\ OneLiveOperation' /\ StatusFollows' /\ PassIsLive'
<1>1. /\ ops' \in Seq(Operations) /\ Len(ops') = Len(J) + 1 /\ current' = Len(J) + 1
      /\ DOMAIN ops' = 1..(Len(J) + 1) /\ Len(J) \in Nat
      /\ \A k \in 1..Len(J) : ops'[k] = J[k]
      /\ ops'[Len(J) + 1] = op
  BY Pursued
<1>2. ops \in Seq(Operations) /\ DOMAIN ops = 1..Len(ops) /\ pass \in Passes
      /\ pass.op <= Len(ops)
  BY LenProperties DEF Journal, TypeOK
<1>3. op.kind \in Kinds /\ status' \in {"pending", "retiring", "ready"}
  BY DEF Operations, Kinds
<1>4. NoPass \in Passes /\ NoPass.op = 0 /\ NoPass.at = "idle"
  BY DEF NoPass, Passes, Steps, Saves
<1>5. pass' \in Passes /\ pass'.op <= Len(ops')
  BY <1>1, <1>2, <1>4 DEF Passes
<1>6. OneLiveOperation'
  BY <1>1 DEF OneLiveOperation, IsLive
<1>7. \A k \in 1..Len(J) : J[k].kind = "adopt" => J[k].state = "succeeded"
  BY <1>2 DEF Journal, StatusFollows
<1>8. StatusFollows'
  BY <1>1, <1>3, <1>7 DEF StatusFollows, IsLive
<1>9. PassIsLive'
  <2> SUFFICES ASSUME (pass.at # "idle")' PROVE (pass.op \in DOMAIN ops /\ Stale)'
    BY DEF PassIsLive
  <2>1. pass' = pass /\ pass.op \in 1..Len(ops)
    BY <1>2, <1>4 DEF Journal, PassIsLive
  <2> QED BY <1>1, <2>1 DEF Stale
<1>10. current' \in 0..Len(ops') /\ status' \in Statuses
  BY <1>1, <1>3 DEF Statuses
<1> QED BY <1>1, <1>5, <1>6, <1>8, <1>9, <1>10

\* The pass's own operation, still current, changes state or checkpoints.
LEMMA Advanced ==
    ASSUME Journal, pass.at # "idle", ~Stale,
           NEW e \in Operations, e.kind = ops[pass.op].kind, e.kind # "adopt",
           ops' \in Seq(Operations), Len(ops') = Len(ops), current' = current,
           \A k \in 1..Len(ops) : k # pass.op => ops'[k] = ops[k],
           ops'[pass.op] = e, status' # "none",
           status' = "failed" => e.kind \in {"create", "restore"},
           IsLive(e) => /\ e.kind \in {"create", "restore"} => status' \in {"pending", "reconciling"}
                        /\ e.kind = "retire" => status' = "retiring"
                        /\ e.kind = "reprovision" => status' = "ready",
           pass'.at # "idle" => pass'.op = pass.op /\ IsLive(e)
    PROVE  OneLiveOperation' /\ StatusFollows' /\ PassIsLive'
<1>1. /\ ops \in Seq(Operations) /\ DOMAIN ops = 1..Len(ops) /\ DOMAIN ops' = 1..Len(ops)
      /\ pass.op \in 1..Len(ops) /\ current = pass.op /\ Len(ops) \in Nat
  BY LenProperties DEF Journal, TypeOK, PassIsLive, Stale
<1>2. \A k \in 1..Len(ops) : k # pass.op => ~IsLive(ops'[k])
  BY <1>1 DEF Journal, OneLiveOperation
<1>3. OneLiveOperation'
  BY <1>1, <1>2 DEF OneLiveOperation
<1>4. StatusFollows'
  BY <1>1, <1>2 DEF Journal, StatusFollows
<1>5. PassIsLive'
  BY <1>1 DEF PassIsLive, Stale
<1> QED BY <1>3, <1>4, <1>5

\* The journal is not touched and the pass goes on with its operation or ends.
LEMMA Untouched ==
    ASSUME Journal, UNCHANGED row,
           pass'.at # "idle" => pass.at # "idle" /\ pass'.op = pass.op
    PROVE  OneLiveOperation' /\ StatusFollows' /\ PassIsLive'
BY DEF Journal, row, OneLiveOperation, StatusFollows, PassIsLive, Stale

\* What a pass becomes when it goes on, saves or ends.
LEMMA PassTypes ==
    /\ NoPass \in Passes /\ NoPass.op = 0 /\ NoPass.at = "idle"
    /\ \A p \in Passes, s \in Steps :
         [p EXCEPT !.at = s] \in Passes /\ [p EXCEPT !.at = s].op = p.op
         /\ [p EXCEPT !.at = s].at = s
    /\ \A p \in Passes, v \in Saves :
         [p EXCEPT !.at = "save", !.save = v] \in Passes
         /\ [p EXCEPT !.at = "save", !.save = v].op = p.op
         /\ [p EXCEPT !.at = "save", !.save = v].at = "save"
<1>1. NoPass \in Passes /\ NoPass.op = 0 /\ NoPass.at = "idle"
  BY DEF NoPass, Passes, Steps, Saves
<1>2. ASSUME NEW p \in Passes, NEW s \in Steps
      PROVE  [p EXCEPT !.at = s] \in Passes /\ [p EXCEPT !.at = s].op = p.op
             /\ [p EXCEPT !.at = s].at = s
  BY DEF Passes
<1>3. ASSUME NEW p \in Passes, NEW v \in Saves
      PROVE  [p EXCEPT !.at = "save", !.save = v] \in Passes
             /\ [p EXCEPT !.at = "save", !.save = v].op = p.op
             /\ [p EXCEPT !.at = "save", !.save = v].at = "save"
  BY DEF Passes, Steps
<1> QED BY <1>1, <1>2, <1>3

\* The parts of the state a request or a step changes, with the journal apart.
JournalPart ==
    /\ status \in Statuses /\ ops \in Seq(Operations) /\ current \in 0..Len(ops)
    /\ pass \in Passes /\ pass.op <= Len(ops)
    /\ OneLiveOperation /\ StatusFollows /\ PassIsLive
DataPart ==
    /\ config \in [active: BOOLEAN, allowed: SUBSET Names, team: Teams]
    /\ directory \in [team: Teams, names: SUBSET Names]
    /\ identity \in BOOLEAN
    /\ grants \subseteq Channels
    /\ bot \in {"absent", "stranger", "enabled", "disabled"}
    /\ tokens \subseteq {"filed", "loose"} /\ file \in BOOLEAN
    /\ botTeams \subseteq Teams /\ members \subseteq Channels
    /\ trimmed \subseteq Channels
    /\ edits \in 0..MaxEdits /\ faults \in 0..MaxFaults

\* The journal and the rest of the state make up the invariant.
LEMMA JournalParts == Journal <=> JournalPart /\ DataPart
BY DEF Journal, TypeOK, JournalPart, DataPart

\* queueMembershipReprovisioning leaves the reprovision it queues as the one live operation.
LEMMA Queued ==
    ASSUME Journal, NEW concerned \in BOOLEAN, QueueReprovision(concerned), UNCHANGED pass
    PROVE  JournalPart'
<1>1. CASE ~(concerned /\ status = "ready" /\ Owned) \/ AlreadyQueued
  <2>1. UNCHANGED row
    BY <1>1 DEF QueueReprovision
  <2>2. OneLiveOperation' /\ StatusFollows' /\ PassIsLive'
    BY <2>1, Untouched
  <2> QED BY <2>1, <2>2, JournalParts DEF JournalPart, row
<1>2. CASE concerned /\ status = "ready" /\ Owned /\ ~AlreadyQueued
  <2> DEFINE running == ops[current].kind = "reprovision" /\ ops[current].state = "running"
             J == IF running THEN [ops EXCEPT ![current].state = "cancelled"] ELSE ops
             op == NewOp("reprovision", NoCheckpoints)
  <2>1. Pursue(J, op) /\ status' = "ready"
    BY <1>2, Zenon DEF QueueReprovision
  <2>2. ops \in Seq(Operations) /\ DOMAIN ops = 1..Len(ops) /\ current \in 1..Len(ops)
        /\ Len(ops) \in Nat
    BY <1>2, LenProperties DEF Journal, TypeOK, StatusFollows, Owned
  <2>3. \A k \in 1..Len(ops) : IsLive(ops[k]) => k = current /\ running
    <3> SUFFICES ASSUME NEW k \in 1..Len(ops), IsLive(ops[k]) PROVE k = current /\ running
      OBVIOUS
    <3>1. k = current
      BY <2>2 DEF Journal, OneLiveOperation
    <3>2. ops[k] \in Operations
      BY <2>2, LenProperties
    <3>3. ops[k].kind = "reprovision"
      BY <1>2, <2>2, <3>2 DEF Journal, StatusFollows, Operations, Kinds, IsLive
    <3> QED BY <1>2, <3>1, <3>3 DEF AlreadyQueued, IsLive
  <2>4. /\ J \in Seq(Operations) /\ Len(J) = Len(ops)
        /\ \A k \in 1..Len(J) : ~IsLive(J[k]) /\ J[k].kind = ops[k].kind
        /\ \A k \in 1..Len(J) : ops[k].state = "succeeded" => J[k].state = "succeeded"
    <3>1. CASE running
      <4>1. J = [ops EXCEPT ![current].state = "cancelled"]
        BY <3>1
      <4> HIDE DEF J
      <4>2. "cancelled" \in OpStates
        BY DEF OpStates
      <4>3. /\ J \in Seq(Operations) /\ Len(J) = Len(ops)
            /\ \A k \in 1..Len(ops) : k # current => J[k] = ops[k]
            /\ J[current].state = "cancelled" /\ J[current].kind = ops[current].kind
        BY <2>2, <4>1, <4>2, StateChange
      <4> QED BY <2>3, <3>1, <4>3 DEF IsLive
    <3>2. CASE ~running
      BY <2>2, <2>3, <3>2
    <3> QED BY <3>1, <3>2
  <2>5. op \in Operations /\ IsLive(op) /\ op.kind = "reprovision"
    BY NewOpType, NoCheckpointsType DEF Kinds
  <2> HIDE DEF J, op
  <2> QED BY <2>1, <2>4, <2>5, Superseded DEF JournalPart
<1> QED BY <1>1, <1>2

\* The pass's operation, while it is current, is live and typed.
LEMMA PassOp ==
    ASSUME Journal, pass.at # "idle"
    PROVE  /\ ops \in Seq(Operations) /\ DOMAIN ops = 1..Len(ops) /\ Len(ops) \in Nat
           /\ pass.op \in 1..Len(ops) /\ Op \in Operations /\ Op.done \in Checkpoints
           /\ ~Stale => IsLive(Op) /\ Op.kind # "adopt" /\ current = pass.op /\ status # "none"
<1>1. /\ ops \in Seq(Operations) /\ DOMAIN ops = 1..Len(ops) /\ Len(ops) \in Nat
      /\ pass.op \in 1..Len(ops)
  BY LenProperties DEF Journal, TypeOK, PassIsLive
<1>2. Op \in Operations /\ Op.done \in Checkpoints
  <2>1. Op \in Operations
    BY <1>1, LenProperties DEF Op
  <2> QED BY <2>1 DEF Operations
<1>3. ~Stale => IsLive(Op) /\ current = pass.op
  BY <1>1 DEF Journal, PassIsLive, Stale, Op
<1>4. ~Stale => Op.kind # "adopt"
  BY <1>1, <1>3 DEF Journal, StatusFollows, Op, IsLive
<1>5. status # "none"
  BY <1>1 DEF Journal, StatusFollows
<1> QED BY <1>1, <1>2, <1>3, <1>4, <1>5

\* Settling an operation that its agent still pursues, or starting it.
LEMMA StateSet ==
    ASSUME Journal, pass.at # "idle", ~Stale, NEW st \in OpStates,
           ops' = [ops EXCEPT ![pass.op].state = st], current' = current,
           status' \in Statuses \ {"none"}, status' = "failed" => Op.kind \in {"create", "restore"},
           st = "running" \/ st \in {"succeeded", "failed"},
           st = "running" =>
             /\ Op.kind \in {"create", "restore"} => status' = "reconciling"
             /\ Op.kind \notin {"create", "restore"} => status' = status,
           pass' = NoPass
             \/ (st = "running" /\ \E step \in Steps : pass' = [pass EXCEPT !.at = step])
    PROVE  JournalPart'
<1>1. /\ ops \in Seq(Operations) /\ DOMAIN ops = 1..Len(ops) /\ Len(ops) \in Nat
      /\ pass.op \in 1..Len(ops) /\ Op \in Operations
      /\ IsLive(Op) /\ Op.kind # "adopt" /\ current = pass.op
  BY PassOp
<1>2. /\ ops' \in Seq(Operations) /\ Len(ops') = Len(ops)
      /\ \A k \in 1..Len(ops) : k # pass.op => ops'[k] = ops[k]
      /\ ops'[pass.op].state = st /\ ops'[pass.op].kind = Op.kind
  BY <1>1, StateChange DEF Op
<1>3. ops'[pass.op] \in Operations
  BY <1>1, <1>2, LenProperties
<1>4. pass' \in Passes /\ pass'.op <= Len(ops') /\ (pass'.at # "idle" => pass'.op = pass.op)
      /\ (pass'.at # "idle" => st = "running")
  <2>1. pass \in Passes
    BY DEF Journal, TypeOK
  <2>2. CASE pass' = NoPass
    <3>1. pass' \in Passes /\ pass'.op = 0 /\ pass'.at = "idle"
      BY <2>2, PassTypes
    <3> QED BY <1>1, <1>2, <3>1
  <2>3. CASE st = "running" /\ \E step \in Steps : pass' = [pass EXCEPT !.at = step]
    <3>1. PICK step \in Steps : pass' = [pass EXCEPT !.at = step]
      BY <2>3
    <3>2. pass' \in Passes /\ pass'.op = pass.op
      BY <2>1, <3>1, PassTypes
    <3> QED BY <1>1, <1>2, <2>3, <3>2
  <2> QED BY <2>2, <2>3
<1>5. /\ Op.kind = "retire" => status = "retiring"
      /\ Op.kind = "reprovision" => status = "ready"
  BY <1>1 DEF Journal, StatusFollows, Op
<1>6. IsLive(ops'[pass.op]) <=> st = "running"
  BY <1>2 DEF IsLive
<1>7. OneLiveOperation' /\ StatusFollows' /\ PassIsLive'
  <2> DEFINE e == ops'[pass.op]
  <2>1. e \in Operations /\ e.kind = ops[pass.op].kind /\ e.kind # "adopt"
    BY <1>1, <1>2, <1>3 DEF Op
  <2>2. IsLive(e) => /\ e.kind \in {"create", "restore"} => status' \in {"pending", "reconciling"}
                     /\ e.kind = "retire" => status' = "retiring"
                     /\ e.kind = "reprovision" => status' = "ready"
    BY <1>2, <1>5, <1>6
  <2>3. /\ pass'.at # "idle" => pass'.op = pass.op /\ IsLive(e)
        /\ status' = "failed" => e.kind \in {"create", "restore"}
    BY <1>2, <1>4, <1>6
  <2>4. ops'[pass.op] = e /\ status' # "none"
    OBVIOUS
  <2> HIDE DEF e
  <2> QED BY <1>2, <2>1, <2>2, <2>3, <2>4, Advanced
<1> QED BY <1>1, <1>2, <1>4, <1>7, JournalParts DEF JournalPart

\* No agent, or an adopted one: no operation is live.
LEMMA JournalInit == Init => Journal
<1> SUFFICES ASSUME Init PROVE Journal
  OBVIOUS
<1> USE ProvisioningAssumption
<1> DEFINE adopt == [kind |-> "adopt", state |-> "succeeded", done |-> NoCheckpoints]
<1>1. adopt \in Operations /\ <<adopt>> \in Seq(Operations) /\ Len(<<adopt>>) = 1
      /\ DOMAIN <<adopt>> = 1..1 /\ <<adopt>>[1] = adopt
  BY NoCheckpointsType DEF Operations, Kinds, OpStates
<1>2. pass \in Passes /\ pass.op = 0 /\ pass.at = "idle"
  BY PassTypes DEF Init
<1>3. Home \in Teams
  BY DEF Home
<1>4. (ops = <<>> /\ current = 0 /\ status = "none")
      \/ (ops = <<adopt>> /\ current = 1 /\ status = "ready")
  BY DEF Init
<1>5. JournalPart
  <2>1. PassIsLive /\ status \in Statuses
    BY <1>2, <1>4 DEF PassIsLive, Statuses
  <2>2. CASE ops = <<>> /\ current = 0 /\ status = "none"
    <3>1. ops \in Seq(Operations) /\ Len(ops) = 0 /\ DOMAIN ops = {}
      BY <2>2
    <3> QED BY <1>2, <2>1, <2>2, <3>1 DEF JournalPart, OneLiveOperation, StatusFollows
  <2>3. CASE ops = <<adopt>> /\ current = 1 /\ status = "ready"
    <3>1. ops \in Seq(Operations) /\ Len(ops) = 1 /\ \A k \in DOMAIN ops : ops[k] = adopt
      BY <1>1, <2>3
    <3>2. adopt.kind = "adopt" /\ adopt.state = "succeeded" /\ ~IsLive(adopt)
      BY DEF IsLive
    <3> HIDE DEF adopt
    <3> QED BY <1>2, <2>1, <2>3, <3>1, <3>2 DEF JournalPart, OneLiveOperation, StatusFollows
  <2> QED BY <1>4, <2>2, <2>3
<1>6. DataPart
  <2>1. /\ directory \in [team: Teams, names: SUBSET Names] /\ grants = {} /\ trimmed = {}
        /\ edits \in 0..MaxEdits /\ faults \in 0..MaxFaults
    <3>1. directory = [team |-> Home, names |-> Published] /\ Published \subseteq Names
          /\ grants = {} /\ trimmed = {} /\ edits = 0 /\ faults = 0
      BY DEF Init
    <3> QED BY <1>3, <3>1
  <2>2. config \in [active: BOOLEAN, allowed: SUBSET Names, team: Teams]
    <3>1. \/ config = [active |-> FALSE, allowed |-> {}, team |-> Home]
          \/ config = [active |-> TRUE, allowed |-> Published, team |-> Home]
      BY DEF Init
    <3>2. {} \in SUBSET Names /\ Published \in SUBSET Names
      OBVIOUS
    <3>3. CASE config = [active |-> FALSE, allowed |-> {}, team |-> Home]
      BY <1>3, <3>2, <3>3
    <3>4. CASE config = [active |-> TRUE, allowed |-> Published, team |-> Home]
      BY <1>3, <3>2, <3>4
    <3> QED BY <3>1, <3>3, <3>4
  <2>3. /\ identity \in BOOLEAN /\ bot \in {"absent", "stranger", "enabled", "disabled"}
        /\ tokens \subseteq {"filed", "loose"} /\ file \in BOOLEAN
    BY DEF Init
  <2>4. botTeams \subseteq Teams /\ members \subseteq Channels
    BY <1>3 DEF Init, Channels
  <2> QED BY <2>1, <2>2, <2>3, <2>4 DEF DataPart
<1> QED BY <1>5, <1>6, JournalParts

\* Requests leave one live operation.
LEMMA JournalRequest ==
    ASSUME Journal, Request
    PROVE  JournalPart'
<1>0. ops \in Seq(Operations) /\ DOMAIN ops = 1..Len(ops) /\ Len(ops) \in Nat
      /\ current \in 0..Len(ops) /\ \A k \in 1..Len(ops) : ops[k] \in Operations
  BY LenProperties DEF Journal, TypeOK
<1> DEFINE none(kind) == NewOp(kind, NoCheckpoints)
<1>c. /\ Cancelled(ops) \in Seq(Operations) /\ Len(Cancelled(ops)) = Len(ops)
      /\ \A k \in 1..Len(Cancelled(ops)) :
           ~IsLive(Cancelled(ops)[k]) /\ Cancelled(ops)[k].kind = ops[k].kind
      /\ \A k \in 1..Len(Cancelled(ops)) :
           ops[k].state = "succeeded" => Cancelled(ops)[k].state = "succeeded"
  BY <1>0, CancelledJournal DEF IsLive
<1>1. ASSUME NEW allowed \in Wanted, Create(allowed) PROVE JournalPart'
  <2>1. none("create") \in Operations /\ IsLive(none("create")) /\ none("create").kind = "create"
    BY NewOpType, NoCheckpointsType DEF Kinds
  <2>2. ops = <<>> /\ Pursue(ops, none("create")) /\ status' = "pending" /\ pass' = pass
    BY <1>1 DEF Create, Journal, StatusFollows
  <2>3. Len(ops) = 0
    BY <2>2
  <2>4. \A k \in 1..Len(ops) : FALSE
    BY <2>3
  <2> HIDE DEF none
  <2> QED BY <1>0, <2>1, <2>2, <2>4, Superseded DEF JournalPart
<1>2. CASE Retire
  <2>1. none("retire") \in Operations /\ IsLive(none("retire")) /\ none("retire").kind = "retire"
    BY NewOpType, NoCheckpointsType DEF Kinds
  <2>2. Pursue(Cancelled(ops), none("retire")) /\ status' = "retiring" /\ pass' = pass
    BY <1>2 DEF Retire
  <2> HIDE DEF none
  <2> QED BY <1>c, <2>1, <2>2, Superseded DEF JournalPart
<1>3. CASE Restore
  <2>1. none("restore") \in Operations /\ IsLive(none("restore")) /\ none("restore").kind = "restore"
    BY NewOpType, NoCheckpointsType DEF Kinds
  <2>2. Pursue(Cancelled(ops), none("restore")) /\ status' = "pending" /\ pass' = pass
    BY <1>3 DEF Restore
  <2> HIDE DEF none
  <2> QED BY <1>c, <2>1, <2>2, Superseded DEF JournalPart
<1>4. CASE Retry
  <2> DEFINE again == [ops[current] EXCEPT !.state = "pending"]
  <2>1. /\ current \in 1..Len(ops) /\ ops[current].state = "failed" /\ Pursue(ops, again)
        /\ pass' = pass /\ status' = IF status = "failed" THEN "pending" ELSE status
        /\ CASE status = "retiring" -> ops[current].kind = "retire"
             [] status = "ready" -> ops[current].kind = "reprovision"
             [] OTHER -> status = "failed"
    BY <1>0, <1>4 DEF Retry
  <2>2. again \in Operations /\ IsLive(again) /\ again.kind = ops[current].kind
    BY <1>0, <2>1 DEF Operations, OpStates, IsLive
  <2>3. \A k \in 1..Len(ops) : ~IsLive(ops[k])
    BY <1>0, <2>1 DEF Journal, OneLiveOperation, IsLive
  <2>4. /\ again.kind \in {"create", "restore"} => status' = "pending"
        /\ again.kind = "retire" => status' = "retiring"
        /\ again.kind = "reprovision" => status' = "ready"
        /\ again.kind # "adopt"
    <3> HIDE DEF again
    <3>1. status = "failed" => ops[current].kind \in {"create", "restore"}
      BY DEF Journal, StatusFollows
    <3> QED BY <2>1, <2>2, <3>1
  <2> HIDE DEF again
  <2> QED BY <1>0, <2>1, <2>2, <2>3, <2>4, Superseded DEF JournalPart
<1>5. ASSUME NEW allowed \in Wanted, EditChannels(allowed) PROVE JournalPart'
  BY <1>5, Queued DEF EditChannels
<1>6. ASSUME NEW t \in Teams, ChangeTeam(t) PROVE JournalPart'
  <2>1. config.active \in BOOLEAN
    BY DEF Journal, TypeOK
  <2> QED BY <1>6, <2>1, Queued DEF ChangeTeam
<1>7. ASSUME NEW c \in Channels, RevokeGrant(c) PROVE JournalPart'
  BY <1>7, Queued DEF RevokeGrant
<1>8. CASE (\E c \in Channels : GrantChannel(c)) \/ RenameStranger
  <2>1. UNCHANGED row /\ UNCHANGED pass
    BY <1>8 DEF GrantChannel, RenameStranger
  <2>2. OneLiveOperation' /\ StatusFollows' /\ PassIsLive'
    BY <2>1, Untouched
  <2> QED BY <2>1, <2>2, JournalParts DEF JournalPart, row
<1> QED BY <1>1, <1>2, <1>3, <1>4, <1>5, <1>6, <1>7, <1>8 DEF Request

\* A failed operation is settled and its agent's status says so.
LEMMA JournalFail ==
    ASSUME Journal, pass.at # "idle", FailOperation
    PROVE  JournalPart'
<1>1. pass' = NoPass
  BY DEF FailOperation, EndPass
<1>2. CASE Stale \/ ~IsLive(Op)
  <2>1. UNCHANGED row
    BY <1>2, Zenon DEF FailOperation
  <2>2. OneLiveOperation' /\ StatusFollows' /\ PassIsLive'
    BY <1>1, <2>1, PassTypes, Untouched
  <2>3. pass' \in Passes /\ pass'.op = 0
    BY <1>1, PassTypes
  <2>4. Len(ops) \in Nat
    BY LenProperties DEF Journal, TypeOK
  <2> QED BY <2>1, <2>2, <2>3, <2>4, JournalParts DEF JournalPart, row
<1>3. CASE ~Stale /\ IsLive(Op)
  <2>1. /\ ops' = [ops EXCEPT ![pass.op].state = "failed"] /\ current' = current
        /\ status' = CASE Op.kind = "retire" -> "retiring"
                       [] Op.kind = "reprovision" -> "ready"
                       [] OTHER -> "failed"
    BY <1>3, Zenon DEF FailOperation
  <2>2. Op.kind \in Kinds /\ Op.kind # "adopt"
    BY <1>3, PassOp DEF Operations
  <2>3. status' \in Statuses \ {"none"} /\ (status' = "failed" => Op.kind \in {"create", "restore"})
    BY <2>1, <2>2 DEF Statuses, Kinds
  <2> QED BY <1>1, <1>3, <2>1, <2>3, StateSet DEF OpStates
<1> QED BY <1>2, <1>3

\* A checkpoint's result is a set of checkpoints.
LEMMA SavedType ==
    ASSUME pass \in Passes, NEW d \in Checkpoints
    PROVE  Saved(d) \in Checkpoints
<1>1. pass.save \in Saves /\ pass.team \in SUBSET Teams /\ pass.chan \in SUBSET Channels
  BY DEF Passes
<1>2. /\ [d EXCEPT !.bot = TRUE] \in Checkpoints /\ [d EXCEPT !.token = TRUE] \in Checkpoints
      /\ [d EXCEPT !.revoked = TRUE] \in Checkpoints /\ [d EXCEPT !.disabled = TRUE] \in Checkpoints
      /\ [d EXCEPT !.deleted = TRUE] \in Checkpoints
  BY DEF Checkpoints
<1>3. [d EXCEPT !.team = pass.team, !.joined = {}] \in Checkpoints
  BY <1>1 DEF Checkpoints
<1>4. /\ [d EXCEPT !.joined = @ \cup pass.chan] \in Checkpoints
      /\ [d EXCEPT !.left = @ \cup pass.chan] \in Checkpoints
  BY <1>1 DEF Checkpoints
<1> QED BY <1>1, <1>2, <1>3, <1>4 DEF Saved, Saves

\* The steps of the provisioner that only read the journal.
LEMMA JournalQuiet ==
    ASSUME Journal, UNCHANGED row, pass' \in Passes,
           pass'.at # "idle" => pass.at # "idle" /\ pass'.op = pass.op, pass'.op \in {0, pass.op}
    PROVE  JournalPart'
<1>1. OneLiveOperation' /\ StatusFollows' /\ PassIsLive'
  BY Untouched
<1> QED BY <1>1, JournalParts, LenProperties DEF JournalPart, row

\* The provisioner's steps keep one live operation.
LEMMA JournalPass ==
    ASSUME Journal, PassStep \/ PassRefused \/ PassAbort
    PROVE  JournalPart'
<1>p. pass \in Passes /\ pass.op \in Nat
  BY DEF Journal, TypeOK, Passes
<1>d. /\ config \in [active: BOOLEAN, allowed: SUBSET Names, team: Teams]
      /\ directory.names \in SUBSET Names /\ members \subseteq Channels /\ botTeams \subseteq Teams
  BY DEF Journal, TypeOK
<1>g. ASSUME NEW step \in Steps, pass.at # "idle", Goto(step), UNCHANGED row PROVE JournalPart'
  <2>1. pass' \in Passes /\ pass'.op = pass.op
    BY <1>p, <1>g, PassTypes DEF Goto
  <2> QED BY <1>g, <2>1, JournalQuiet
<1>s. ASSUME NEW v \in Saves, pass.at # "idle", SaveNext(v), UNCHANGED row PROVE JournalPart'
  <2>1. pass' \in Passes /\ pass'.op = pass.op
    BY <1>p, <1>s, PassTypes DEF SaveNext
  <2> QED BY <1>s, <2>1, JournalQuiet
<1>e. ASSUME EndPass, UNCHANGED row PROVE JournalPart'
  <2>1. pass' \in Passes /\ pass'.op = 0 /\ pass'.at = "idle"
    BY <1>e, PassTypes DEF EndPass
  <2> QED BY <1>e, <2>1, JournalQuiet
<1> USE DEF Steps, Saves
<1>1. CASE PassList
  <2>1. PICK i \in DOMAIN ops :
          /\ Listed(ops[i])
          /\ pass' = [NoPass EXCEPT
               !.op = i,
               !.at = CASE ops[i].state = "pending" -> "claim"
                        [] ops[i].state = "running" /\ ops[i].kind = "retire" -> "recover"
                        [] OTHER -> "load"]
    BY <1>1 DEF PassList
  <2>2. i \in 1..Len(ops) /\ Len(ops) \in Nat /\ DOMAIN ops = 1..Len(ops)
    BY LenProperties DEF Journal, TypeOK
  <2>3. UNCHANGED row
    BY <1>1 DEF PassList, control
  <2>4. pass' \in Passes /\ pass'.op = i
    <3> DEFINE at == CASE ops[i].state = "pending" -> "claim"
                       [] ops[i].state = "running" /\ ops[i].kind = "retire" -> "recover"
                       [] OTHER -> "load"
    <3>1. at \in Steps /\ i \in Nat
      BY <2>2
    <3>2. pass' = [NoPass EXCEPT !.op = i, !.at = at]
      BY <2>1
    <3> HIDE DEF at
    <3> QED BY <3>1, <3>2 DEF NoPass, Passes
  <2>5. OneLiveOperation' /\ StatusFollows'
    BY <2>3 DEF Journal, row, OneLiveOperation, StatusFollows
  <2>6. PassIsLive'
    BY <2>1, <2>3, <2>4 DEF PassIsLive, Listed, row
  <2> QED BY <2>2, <2>3, <2>4, <2>5, <2>6, JournalParts DEF JournalPart, row
<1>2. CASE PassClaim
  <2>1. CASE Stale \/ (Op.kind # "retire" /\ ~Resolved)
    BY <1>2, <1>e, <2>1, Zenon DEF PassClaim
  <2>2. CASE ~(Stale \/ (Op.kind # "retire" /\ ~Resolved))
    <3>1. /\ pass.at = "claim" /\ ops' = [ops EXCEPT ![pass.op].state = "running"]
          /\ status' = IF Op.kind \in {"create", "restore"} THEN "reconciling" ELSE status
          /\ Goto(IF Op.kind = "retire" THEN "recover" ELSE "load")
          /\ current' = current
      BY <1>2, <2>2, Zenon DEF PassClaim
    <3>2. ~Stale /\ status # "none" /\ status \in Statuses
      BY <2>2, <3>1, PassOp DEF Journal, TypeOK
    <3>3. \E step \in Steps : pass' = [pass EXCEPT !.at = step]
      BY <3>1 DEF Goto
    <3>4. IsLive(Op) /\ (Op.kind \notin {"create", "restore"} => status # "failed")
      BY <3>1, <3>2, PassOp DEF Journal, StatusFollows, Stale, Op
    <3>5. status' \in Statuses \ {"none"} /\ (status' = "failed" => Op.kind \in {"create", "restore"})
      BY <3>1, <3>2, <3>4 DEF Statuses
    <3> QED BY <3>1, <3>2, <3>3, <3>5, StateSet DEF OpStates
  <2> QED BY <2>1, <2>2
<1>3. CASE PassLoad
  <2>1. CASE Resolved
    <3>1. pass' \in Passes /\ pass'.op = pass.op /\ pass.at # "idle" /\ UNCHANGED row
      <4>1. {config.team} \in SUBSET Teams /\ config.allowed \in SUBSET Names
            /\ KnownNames \in SUBSET Names /\ "bot" \in Steps
        BY <1>d DEF KnownNames
      <4>2. /\ pass.at = "load" /\ UNCHANGED row
            /\ pass' = [pass EXCEPT !.at = "bot", !.team = {config.team},
                                   !.names = config.allowed, !.known = KnownNames]
        BY <1>3, <2>1 DEF PassLoad, control
      <4> QED BY <1>p, <4>1, <4>2 DEF Passes
    <3> QED BY <3>1, JournalQuiet
  <2>2. CASE ~Resolved
    BY <1>3, <1>e, <2>2, Zenon DEF PassLoad, control
  <2> QED BY <2>1, <2>2
<1>4. CASE PassBot
  BY <1>4, <1>g, <1>s DEF PassBot, control
<1>5. CASE PassIdentity
  BY <1>5, <1>g DEF PassIdentity
<1>6. CASE PassToken
  BY <1>6, <1>g, <1>s DEF PassToken, control
<1>7. CASE PassIssue \/ PassWrite
  BY <1>7, <1>g, <1>s DEF PassIssue, PassWrite, control
<1>8. CASE PassTeam \/ PassOthers \/ PassListMembers
  <2>1. pass.team \X pass.names \subseteq Channels /\ {c \in members : c[1] \in pass.team} \subseteq Channels
    BY <1>p, <1>d DEF Passes, Channels
  <2>2. CASE PassTeam \/ PassOthers
    <3>1. pass.at # "idle" /\ UNCHANGED row
      BY <2>2 DEF PassTeam, PassOthers, control
    <3>2. CASE pass' = [pass EXCEPT !.at = "save", !.save = "team", !.teams = botTeams]
      <4>1. pass' \in Passes /\ pass'.op = pass.op
        BY <1>p, <1>d, <3>2 DEF Passes
      <4> QED BY <3>1, <4>1, JournalQuiet
    <3>3. CASE pass' = [pass EXCEPT !.at = "list", !.teams = {}]
      <4>1. pass' \in Passes /\ pass'.op = pass.op
        BY <1>p, <3>3 DEF Passes
      <4> QED BY <3>1, <4>1, JournalQuiet
    <3> QED BY <2>2, <3>2, <3>3 DEF PassTeam, PassOthers
  <2>3. CASE PassListMembers
    <3> DEFINE todo == pass.team \X pass.names
               listed == {c \in members : c[1] \in pass.team}
    <3>1. /\ pass.at = "list" /\ UNCHANGED row
          /\ pass' = [pass EXCEPT !.at = "join", !.todo = todo, !.listed = listed]
      BY <2>3 DEF PassListMembers
    <3>2. todo \in SUBSET Channels /\ listed \in SUBSET Channels
      BY <2>1
    <3> HIDE DEF todo, listed
    <3>3. pass' \in Passes /\ pass'.op = pass.op
      BY <1>p, <3>1, <3>2 DEF Passes
    <3> QED BY <3>1, <3>3, JournalQuiet
  <2> QED BY <1>8, <2>2, <2>3
<1>9. CASE PassJoin
  <2>1. pass.at = "join" /\ UNCHANGED row
    BY <1>9 DEF PassJoin, control
  <2>2. CASE pass' = [NoPass EXCEPT !.at = "trim", !.op = pass.op, !.todo = pass.listed]
    <3>1. pass' \in Passes /\ pass'.op = pass.op
      BY <1>p, <2>2 DEF NoPass, Passes
    <3> QED BY <2>1, <3>1, JournalQuiet
  <2>3. ASSUME NEW c \in pass.todo,
               pass' = [pass EXCEPT !.at = "save", !.save = "joined", !.chan = {c}, !.todo = @ \ {c}]
        PROVE  JournalPart'
    <3>1. pass' \in Passes /\ pass'.op = pass.op
      BY <1>p, <2>3 DEF Passes
    <3> QED BY <2>1, <3>1, JournalQuiet
  <2> QED BY <1>9, <2>1, <2>2, <2>3, <1>e, Zenon DEF PassJoin
<1>10. CASE PassTrim
  <2>1. pass.at = "trim" /\ UNCHANGED row
    BY <1>10 DEF PassTrim, control
  <2>2. ASSUME NEW c \in pass.todo,
               pass' = [pass EXCEPT !.at = IF c \in AllowedIds THEN "trim" ELSE "remove",
                                  !.todo = @ \ {c},
                                  !.chan = IF c \in AllowedIds THEN {} ELSE {c}]
        PROVE  JournalPart'
    <3>1. pass' \in Passes /\ pass'.op = pass.op
      BY <1>p, <2>2 DEF Passes
    <3> QED BY <2>1, <3>1, JournalQuiet
  <2> QED BY <1>10, <2>1, <2>2, <1>g DEF PassTrim
<1>11. CASE PassRemove \/ PassChannels
  <2>1. CASE PassRemove
    <3>1. pass' \in Passes /\ pass'.op = pass.op /\ pass.at # "idle" /\ UNCHANGED row
      BY <1>p, <2>1 DEF PassRemove, Passes
    <3> QED BY <3>1, JournalQuiet
  <2>2. CASE PassChannels
    <3> DEFINE todo == IF Resolved THEN {c \in members : c[1] = config.team} \ Op.done.left ELSE {}
    <3>1. pass.at = "channels" /\ pass' = [pass EXCEPT !.at = "leave", !.todo = todo] /\ UNCHANGED row
      BY <2>2 DEF PassChannels, control
    <3>2. todo \in SUBSET Channels
      BY <1>d
    <3> HIDE DEF todo
    <3>3. pass' \in Passes /\ pass'.op = pass.op
      BY <1>p, <3>1, <3>2 DEF Passes
    <3> QED BY <3>1, <3>3, JournalQuiet
  <2> QED BY <1>11, <2>1, <2>2
<1>12. CASE PassRecover
  BY <1>12, <1>g DEF PassRecover
<1>13. CASE PassRevoke \/ PassDisable \/ PassDelete
  BY <1>13, <1>g, <1>s DEF PassRevoke, PassDisable, PassDelete, control
<1>14. CASE PassLeave
  <2>1. pass.at = "leave" /\ UNCHANGED row
    BY <1>14 DEF PassLeave, control
  <2>2. ASSUME NEW c \in pass.todo,
               pass' = [pass EXCEPT !.at = "save", !.save = "left", !.chan = {c}, !.todo = @ \ {c}]
        PROVE  JournalPart'
    <3>1. pass' \in Passes /\ pass'.op = pass.op
      BY <1>p, <2>2 DEF Passes
    <3> QED BY <2>1, <3>1, JournalQuiet
  <2> QED BY <1>14, <2>1, <2>2, <1>g DEF PassLeave
<1>15. CASE PassReject \/ PassRefused
  BY <1>15, JournalFail DEF PassReject, PassRefused, MattermostSteps
<1>16. CASE PassAbort
  BY <1>16, <1>e DEF PassAbort
<1>17. CASE PassSave
  <2>1. CASE ~MayRecord
    BY <1>17, <1>e, <2>1, Zenon DEF PassSave, row
  <2>2. CASE MayRecord
    <3>1. /\ pass.at = "save" /\ ops' = [ops EXCEPT ![pass.op].done = Saved(@)]
          /\ pass' = [pass EXCEPT !.at = After[pass.save], !.chan = {}, !.save = "bot"]
          /\ status' = status /\ current' = current
      BY <1>17, <2>2 DEF PassSave
    <3>2. /\ ops \in Seq(Operations) /\ DOMAIN ops = 1..Len(ops) /\ Len(ops) \in Nat
          /\ pass.op \in 1..Len(ops) /\ Op \in Operations /\ Op.done \in Checkpoints
          /\ ~Stale /\ IsLive(Op) /\ Op.kind # "adopt" /\ current = pass.op /\ status # "none"
          /\ Op.state = "running"
      BY <2>2, <3>1, PassOp DEF MayRecord, Op
    <3>3. Saved(Op.done) \in Checkpoints
      BY <1>p, <3>2, SavedType
    <3>4. ops' = [ops EXCEPT ![pass.op].done = Saved(Op.done)]
      BY <3>1 DEF Op
    <3> DEFINE e == ops'[pass.op]
    <3>5. /\ ops' \in Seq(Operations) /\ Len(ops') = Len(ops)
          /\ \A k \in 1..Len(ops) : k # pass.op => ops'[k] = ops[k]
          /\ e.state = "running" /\ e.kind = Op.kind
      BY <3>2, <3>3, <3>4, DoneChange DEF Op
    <3>6. e \in Operations
      BY <3>2, <3>5, LenProperties
    <3>7. pass' \in Passes /\ pass'.op = pass.op
      <4>1. After[pass.save] \in Steps
        BY <1>p DEF Passes, After
      <4> QED BY <1>p, <3>1, <4>1 DEF Passes
    <3>8. e.kind = ops[pass.op].kind /\ IsLive(e) /\ e = ops'[pass.op]
      BY <3>5 DEF Op, IsLive
    <3>9. /\ status = "failed" => e.kind \in {"create", "restore"}
          /\ e.kind \in {"create", "restore"} => status \in {"pending", "reconciling"}
          /\ e.kind = "retire" => status = "retiring"
          /\ e.kind = "reprovision" => status = "ready"
      BY <3>2, <3>8 DEF Journal, StatusFollows, Op
    <3> HIDE DEF e
    <3>10. OneLiveOperation' /\ StatusFollows' /\ PassIsLive'
      BY <3>1, <3>2, <3>5, <3>6, <3>7, <3>8, <3>9, Advanced
    <3> QED BY <3>1, <3>2, <3>5, <3>7, <3>10, JournalParts DEF JournalPart
  <2> QED BY <2>1, <2>2
<1>18. CASE PassComplete
  <2>1. CASE Stale \/ ~IsLive(Op)
    BY <1>18, <1>e, <2>1, Zenon DEF PassComplete
  <2>2. CASE ~(Stale \/ ~IsLive(Op))
    <3> DEFINE J == [ops EXCEPT ![pass.op].state = "succeeded"]
               op == NewOp("reprovision", NoCheckpoints)
    <3>1. /\ pass.at = "complete" /\ pass' = NoPass
          /\ status' = IF Op.kind = "retire" THEN "retired" ELSE "ready"
          /\ IF Drifted THEN Pursue(J, op) ELSE ops' = J /\ UNCHANGED current
      BY <1>18, <2>2 DEF PassComplete, EndPass
    <3>2. CASE ~Drifted
      BY <2>2, <3>1, <3>2, StateSet DEF OpStates, Statuses
    <3>3. CASE Drifted
      <4>1. /\ ops \in Seq(Operations) /\ DOMAIN ops = 1..Len(ops) /\ Len(ops) \in Nat
            /\ pass.op \in 1..Len(ops) /\ current = pass.op
        BY <2>2, <3>1, PassOp
      <4>2. /\ J \in Seq(Operations) /\ Len(J) = Len(ops)
            /\ \A k \in 1..Len(ops) : k # pass.op => J[k] = ops[k]
            /\ J[pass.op].state = "succeeded" /\ J[pass.op].kind = ops[pass.op].kind
        <5>1. J = [ops EXCEPT ![pass.op].state = "succeeded"] /\ "succeeded" \in OpStates
          BY DEF OpStates
        <5> HIDE DEF J
        <5> QED BY <4>1, <5>1, StateChange
      <4>3. Pursue(J, op) /\ status' = "ready"
        BY <3>1, <3>3 DEF Drifted
      <4>4. op \in Operations /\ IsLive(op) /\ op.kind = "reprovision"
        BY NewOpType, NoCheckpointsType DEF Kinds
      <4> HIDE DEF J, op
      <4>5. /\ \A k \in 1..Len(J) : ~IsLive(J[k]) /\ J[k].kind = ops[k].kind
            /\ \A k \in 1..Len(J) : ops[k].state = "succeeded" => J[k].state = "succeeded"
        BY <4>1, <4>2 DEF Journal, OneLiveOperation, IsLive
      <4> QED BY <3>1, <4>2, <4>3, <4>4, <4>5, Superseded DEF JournalPart
    <3> QED BY <3>2, <3>3
  <2> QED BY <2>1, <2>2
<1> QED BY <1>1, <1>2, <1>3, <1>4, <1>5, <1>6, <1>7, <1>8, <1>9, <1>10, <1>11, <1>12, <1>13,
           <1>14, <1>15, <1>16, <1>17, <1>18 DEF PassStep

\* Every step keeps the types of what is not the journal.
LEMMA DataStep ==
    ASSUME Journal, Next
    PROVE  DataPart'
<1>0. DataPart /\ pass \in Passes
  BY JournalParts DEF Journal, TypeOK
<1>a. ProvisioningAssumption
  BY ProvisioningAssumption
<1>p. pass.team \subseteq Teams /\ pass.todo \subseteq Channels /\ pass.chan \subseteq Channels
  BY <1>0 DEF Passes
<1> USE <1>0, <1>a, <1>p DEF DataPart, control, mattermost, bounds, row, ProvisioningAssumption
<1>1. ASSUME NEW allowed \in Wanted, Create(allowed) PROVE DataPart'
  BY <1>1 DEF Create
<1>2. ASSUME NEW allowed \in Wanted, EditChannels(allowed) PROVE DataPart'
  BY <1>2 DEF EditChannels, Edit
<1>3. CASE Retire
  BY <1>3 DEF Retire
<1>4. CASE Restore
  BY <1>4 DEF Restore
<1>5. CASE Retry
  BY <1>5 DEF Retry
<1>6. ASSUME NEW t \in Teams, ChangeTeam(t) PROVE DataPart'
  BY <1>6 DEF ChangeTeam, Edit
<1>7. ASSUME NEW c \in Channels, GrantChannel(c) PROVE DataPart'
  BY <1>7 DEF GrantChannel, Edit
<1>8. ASSUME NEW c \in Channels, RevokeGrant(c) PROVE DataPart'
  BY <1>8 DEF RevokeGrant, Edit
<1>9. CASE RenameStranger
  BY <1>9 DEF RenameStranger
<1>10. CASE PublishTeam
  BY <1>10 DEF PublishTeam
<1>11. CASE PassList
  BY <1>11 DEF PassList
<1>12. CASE PassClaim
  BY <1>12 DEF PassClaim
<1>13. CASE PassLoad
  BY <1>13 DEF PassLoad
<1>14. CASE PassBot
  BY <1>14 DEF PassBot
<1>15. CASE PassIdentity
  BY <1>15 DEF PassIdentity
<1>16. CASE PassToken
  BY <1>16 DEF PassToken
<1>17. CASE PassIssue
  BY <1>17 DEF PassIssue
<1>18. CASE PassWrite
  BY <1>18 DEF PassWrite
<1>19. CASE PassTeam
  BY <1>19 DEF PassTeam
<1>20. CASE PassOthers
  BY <1>20 DEF PassOthers
<1>21. CASE PassListMembers
  BY <1>21 DEF PassListMembers
<1>22. CASE PassJoin
  <2>1. members' = members \/ \E c \in pass.todo : members' = members \cup ({c} \ pass.listed)
    BY <1>22, Zenon DEF PassJoin
  <2>2. members' \subseteq Channels
    BY <2>1
  <2> QED BY <1>22, <2>2 DEF PassJoin
<1>23. CASE PassTrim
  BY <1>23 DEF PassTrim
<1>24. CASE PassRemove
  BY <1>24 DEF PassRemove
<1>25. CASE PassRecover
  <2>1. Recovered \in BOOLEAN
    BY Zenon DEF Recovered
  <2> QED BY <1>25, <2>1 DEF PassRecover
<1>26. CASE PassRevoke
  BY <1>26 DEF PassRevoke
<1>27. CASE PassDisable
  BY <1>27 DEF PassDisable
<1>28. CASE PassChannels
  BY <1>28 DEF PassChannels
<1>29. CASE PassLeave
  BY <1>29 DEF PassLeave
<1>30. CASE PassDelete
  BY <1>30 DEF PassDelete
<1>31. CASE PassSave
  BY <1>31 DEF PassSave
<1>32. CASE PassComplete
  BY <1>32 DEF PassComplete
<1>33. CASE PassReject
  BY <1>33 DEF PassReject, FailOperation
<1>34. CASE PassRefused
  BY <1>34 DEF PassRefused, FailOperation, Fault
<1>35. CASE PassAbort
  BY <1>35 DEF PassAbort, Fault
<1> QED BY <1>1, <1>2, <1>3, <1>4, <1>5, <1>6, <1>7, <1>8, <1>9, <1>10, <1>11, <1>12, <1>13, <1>14, <1>15, <1>16, <1>17, <1>18, <1>19, <1>20, <1>21, <1>22, <1>23, <1>24, <1>25, <1>26, <1>27, <1>28, <1>29, <1>30, <1>31, <1>32, <1>33, <1>34, <1>35
       DEF Next, Request, PassStep

\* Every step keeps the journal sound.
LEMMA JournalStep == Journal /\ [Next]_vars => Journal'
<1> SUFFICES ASSUME Journal, [Next]_vars PROVE Journal'
  OBVIOUS
<1>1. CASE Next
  <2>1. DataPart'
    BY <1>1, DataStep
  <2>2. JournalPart'
    <3>1. CASE PublishTeam
      <4>1. UNCHANGED row /\ UNCHANGED pass /\ pass \in Passes /\ pass.op = pass.op
        BY <3>1 DEF PublishTeam, Journal, TypeOK
      <4> QED BY <4>1, JournalQuiet
    <3> QED BY <1>1, <3>1, JournalRequest, JournalPass DEF Next
  <2> QED BY <2>1, <2>2 DEF Journal, TypeOK, JournalPart, DataPart
<1>2. CASE UNCHANGED vars
  BY <1>2 DEF vars, row, mattermost, bounds, Journal, TypeOK, OneLiveOperation, StatusFollows,
     PassIsLive, Stale
<1> QED BY <1>1, <1>2

\* The journal is sound in every reachable state.
LEMMA JournalAlways == Spec => []Journal
BY JournalInit, JournalStep, PTL DEF Spec

\* Every variable keeps its type, for any organization, journal length and number of faults
\* (agent-lifecycle.ts and agent-provisioner.ts write only these values).
THEOREM TypeCorrect == Spec => []TypeOK
<1>1. Journal => TypeOK
  BY DEF Journal
<1> QED BY <1>1, JournalAlways, PTL

\* An agent has at most one operation that is not settled, the one its lifecycle row names,
\* whatever requests and passes interleave (cancelNonterminalOperations,
\* queueMembershipReprovisioning, completeOperation).
THEOREM OneLive == Spec => []OneLiveOperation
<1>1. Journal => OneLiveOperation
  BY DEF Journal
<1> QED BY <1>1, JournalAlways, PTL

-----------------------------------------------------------------------------
(* A settled operation never changes. *)

Kept == \A i \in DOMAIN ops : ~IsLive(ops[i]) => ops'[i] = ops[i]

\* No step rewrites an operation that is settled.
LEMMA KeptStep ==
    ASSUME Journal, [Next]_vars
    PROVE  Kept
<1>0. ops \in Seq(Operations) /\ DOMAIN ops = 1..Len(ops) /\ Len(ops) \in Nat
      /\ current \in 0..Len(ops)
  BY LenProperties DEF Journal, TypeOK
<1>t. NoCheckpoints \in Checkpoints /\ \A kind \in Kinds : NewOp(kind, NoCheckpoints) \in Operations
  BY NewOpType, NoCheckpointsType
<1>u. ASSUME UNCHANGED row PROVE Kept
  BY <1>u DEF Kept, row
<1>c. ASSUME NEW op \in Operations, Pursue(Cancelled(ops), op) PROVE Kept
  <2>1. /\ Cancelled(ops) \in Seq(Operations) /\ Len(Cancelled(ops)) = Len(ops)
        /\ \A k \in 1..Len(ops) : ~IsLive(ops[k]) => Cancelled(ops)[k] = ops[k]
    BY <1>0, CancelledJournal
  <2>2. \A k \in 1..Len(ops) : ops'[k] = Cancelled(ops)[k]
    BY <1>c, <2>1, Pursued
  <2> QED BY <1>0, <2>1, <2>2 DEF Kept
<1>n. ASSUME NEW op \in Operations, Pursue(ops, op) PROVE Kept
  <2>1. \A k \in 1..Len(ops) : ops'[k] = ops[k]
    BY <1>0, <1>n, Pursued
  <2> QED BY <1>0, <2>1 DEF Kept
<1>s. ASSUME pass.at # "idle", ~Stale, NEW st \in OpStates,
             ops' = [ops EXCEPT ![pass.op].state = st] PROVE Kept
  <2>1. pass.op \in 1..Len(ops) /\ IsLive(ops[pass.op])
    BY <1>s, PassOp DEF Op
  <2>2. \A k \in 1..Len(ops) : k # pass.op => ops'[k] = ops[k]
    BY <1>0, <1>s, <2>1, StateChange
  <2> QED BY <1>0, <2>1, <2>2 DEF Kept
<1>q. ASSUME NEW concerned \in BOOLEAN, QueueReprovision(concerned) PROVE Kept
  <2> DEFINE running == ops[current].kind = "reprovision" /\ ops[current].state = "running"
             J == IF running THEN [ops EXCEPT ![current].state = "cancelled"] ELSE ops
             op == NewOp("reprovision", NoCheckpoints)
  <2>1. UNCHANGED row \/ (Owned /\ Pursue(J, op))
    BY <1>q, Zenon DEF QueueReprovision
  <2>2. op \in Operations
    BY <1>t DEF Kinds
  <2>3. CASE Owned /\ Pursue(J, op) /\ running
    <3>1. current \in 1..Len(ops)
      BY <1>0, <2>3 DEF Journal, StatusFollows, Owned
    <3>2. J = [ops EXCEPT ![current].state = "cancelled"] /\ "cancelled" \in OpStates
      BY <2>3 DEF OpStates
    <3>3. Pursue(J, op) /\ IsLive(ops[current])
      BY <2>3 DEF IsLive
    <3> HIDE DEF J, op, running
    <3>4. J \in Seq(Operations) /\ Len(J) = Len(ops)
          /\ \A k \in 1..Len(ops) : k # current => J[k] = ops[k]
      BY <1>0, <3>1, <3>2, StateChange
    <3>5. \A k \in 1..Len(ops) : ops'[k] = J[k]
      BY <2>2, <3>3, <3>4, Pursued
    <3> QED BY <1>0, <3>3, <3>4, <3>5 DEF Kept
  <2>4. CASE Owned /\ Pursue(J, op) /\ ~running
    BY <1>n, <2>2, <2>4
  <2> QED BY <1>u, <2>1, <2>3, <2>4
<1>f. ASSUME pass.at # "idle", FailOperation PROVE Kept
  <2>1. CASE Stale \/ ~IsLive(Op)
    BY <1>f, <1>u, <2>1, Zenon DEF FailOperation
  <2>2. CASE ~(Stale \/ ~IsLive(Op))
    BY <1>f, <1>s, <2>2 DEF FailOperation, OpStates
  <2> QED BY <2>1, <2>2
<1>1. ASSUME NEW allowed \in Wanted, Create(allowed) \/ EditChannels(allowed) PROVE Kept
  BY <1>1, <1>n, <1>q, <1>t DEF Create, EditChannels, Kinds
<1>2. CASE Retire \/ Restore
  BY <1>2, <1>c, <1>t DEF Retire, Restore, Kinds
<1>3. CASE Retry
  <2> DEFINE again == [ops[current] EXCEPT !.state = "pending"]
  <2>1. current \in 1..Len(ops) /\ Pursue(ops, again)
    BY <1>0, <1>3 DEF Retry
  <2>2. ops[current] \in Operations
    BY <1>0, <2>1, LenProperties
  <2>3. again \in Operations
    BY <2>2 DEF Operations, OpStates
  <2> HIDE DEF again
  <2> QED BY <1>n, <2>1, <2>3
<1>4. ASSUME NEW t \in Teams, ChangeTeam(t) PROVE Kept
  <2>1. config.active \in BOOLEAN
    BY DEF Journal, TypeOK
  <2> QED BY <1>4, <1>q, <2>1 DEF ChangeTeam
<1>5. ASSUME NEW c \in Channels, RevokeGrant(c) \/ GrantChannel(c) PROVE Kept
  BY <1>5, <1>q, <1>u DEF RevokeGrant, GrantChannel
<1>6. CASE PassClaim
  BY <1>6, <1>s, <1>u DEF PassClaim, OpStates
<1>7. CASE PassSave
  <2>1. CASE ~MayRecord
    BY <1>7, <2>1, Zenon DEF PassSave, Kept
  <2>2. CASE MayRecord
    <3>1. pass.at = "save" /\ ops' = [ops EXCEPT ![pass.op].done = Saved(Op.done)]
      BY <1>7, <2>2 DEF PassSave, Op
    <3>2. pass.op \in 1..Len(ops) /\ IsLive(ops[pass.op]) /\ Op.done \in Checkpoints
      BY <2>2, <3>1, PassOp DEF Op, MayRecord
    <3>3. Saved(Op.done) \in Checkpoints
      BY <3>2, SavedType DEF Journal, TypeOK
    <3>4. \A k \in 1..Len(ops) : k # pass.op => ops'[k] = ops[k]
      BY <1>0, <3>1, <3>2, <3>3, DoneChange
    <3> QED BY <1>0, <3>2, <3>4 DEF Kept
  <2> QED BY <2>1, <2>2
<1>8. CASE PassComplete
  <2>1. CASE Stale \/ ~IsLive(Op)
    BY <1>8, <1>u, <2>1, Zenon DEF PassComplete
  <2>2. CASE ~(Stale \/ ~IsLive(Op))
    <3> DEFINE J == [ops EXCEPT ![pass.op].state = "succeeded"]
               op == NewOp("reprovision", NoCheckpoints)
    <3>1. /\ pass.at = "complete" /\ ~Stale
          /\ IF Drifted THEN Pursue(J, op) ELSE ops' = J
      BY <1>8, <2>2 DEF PassComplete
    <3>2. J = [ops EXCEPT ![pass.op].state = "succeeded"] /\ "succeeded" \in OpStates
          /\ op \in Operations
      BY <1>t DEF OpStates, Kinds
    <3>3. pass.op \in 1..Len(ops) /\ IsLive(ops[pass.op])
      BY <3>1, PassOp DEF Op
    <3> HIDE DEF J, op
    <3>4. J \in Seq(Operations) /\ Len(J) = Len(ops)
          /\ \A k \in 1..Len(ops) : k # pass.op => J[k] = ops[k]
      BY <1>0, <3>2, <3>3, StateChange
    <3>5. \A k \in 1..Len(ops) : ops'[k] = J[k]
      BY <3>1, <3>2, <3>4, Pursued
    <3> QED BY <1>0, <3>3, <3>4, <3>5 DEF Kept
  <2> QED BY <2>1, <2>2
<1>9. CASE PassReject \/ PassRefused
  BY <1>9, <1>f DEF PassReject, PassRefused, MattermostSteps
<1>10. CASE \/ RenameStranger \/ PublishTeam \/ PassAbort
            \/ PassList \/ PassLoad \/ PassBot \/ PassIdentity \/ PassToken \/ PassIssue
            \/ PassWrite \/ PassTeam \/ PassOthers \/ PassListMembers \/ PassJoin \/ PassTrim
            \/ PassRemove \/ PassRecover \/ PassRevoke \/ PassDisable \/ PassChannels
            \/ PassLeave \/ PassDelete \/ UNCHANGED vars
  <2>1. UNCHANGED row
    BY <1>10 DEF RenameStranger, PublishTeam, PassAbort, PassList, PassLoad, PassBot, PassIdentity,
       PassToken, PassIssue, PassWrite, PassTeam, PassOthers, PassListMembers, PassJoin, PassTrim,
       PassRemove, PassRecover, PassRevoke, PassDisable, PassChannels, PassLeave, PassDelete,
       control, vars
  <2> QED BY <1>u, <2>1
<1> QED BY <1>1, <1>2, <1>3, <1>4, <1>5, <1>6, <1>7, <1>8, <1>9, <1>10
        DEF Next, Request, PassStep

\* No pass, request or crash ever rewrites an operation that is settled, so the checkpoints a
\* retire's recovery reads are those the superseded operation had (lockCurrentOperation,
\* checkpointOperation, recoverRetiringBotUserId).
THEOREM SettledFinal == Spec => SettledIsFinal
<1>1. Journal /\ [Next]_vars => [Kept]_vars
  BY KeptStep
<1> QED BY <1>1, JournalAlways, PTL DEF Spec, SettledIsFinal, Kept

-----------------------------------------------------------------------------
(* A retired agent has no access. *)

\* What a step that leaves the journal alone sees of the pass's operation.
LEMMA AccessFacts ==
    ASSUME Journal, Access, pass.at # "idle"
    PROVE  /\ pass.op \in DOMAIN ops /\ Op = ops[pass.op] /\ pass.op \in Nat \ {0}
           /\ Op.kind = "retire" => ~Stale
           /\ status # "retired"
BY PassOp DEF Access, AtRest, PassKind, Stale, Op

\* Provisioning leaves a retire alone: a pass that provisions while the agent is retiring is
\* stale, and the retire has recorded nothing that the pass could undo.
LEMMA AccessBuild ==
    ASSUME Journal, Access, UNCHANGED row, UNCHANGED <<config, grants>>,
           pass.at \in BuildSteps \ {"claim", "complete"},
           \/ pass'.at = "idle"
           \/ /\ pass'.op = pass.op
              /\ pass'.at \in BuildSteps \/ (pass'.at = "save" /\ pass'.save \notin RetireSaves),
           \/ bot' \in {"enabled", "disabled"}
           \/ /\ bot \in {"absent", "stranger"} /\ UNCHANGED <<bot, identity, tokens, file>>
              /\ pass'.at \in {"idle", "bot", "reject"}
    PROVE  Access'
<1>1. /\ status' = status /\ ops' = ops /\ current' = current /\ config' = config
      /\ grants' = grants /\ pass.at # "idle"
  BY DEF row, BuildSteps
<1>2. Op.kind # "retire" /\ Op = ops[pass.op] /\ status # "retired"
  BY <1>1, AccessFacts DEF Access, PassKind, BuildSteps, RetireSteps, Op
<1>3. PassKind'
  BY <1>1, <1>2 DEF PassKind
<1>4. NoBotYet'
  BY <1>1 DEF Access, NoBotYet
<1>5. Retiring'
  BY <1>1 DEF Access, Retiring, Stale
<1>6. RetireDone'
  <2> SUFFICES ASSUME current # 0, ops[current].kind = "retire"
               PROVE  /\ ops[current].done = NoCheckpoints
                      /\ ~(pass'.at # "idle" /\ pass'.op = current)
    BY <1>1 DEF RetireDone, NoCheckpoints, Stale
  <2>1. Stale
    BY <1>2 DEF Stale
  <2> QED BY <1>1, <2>1 DEF Access, Retiring, Stale
<1>7. AtRest' /\ RetiredHasNoAccess'
  BY <1>1, <1>2 DEF AtRest, RetiredHasNoAccess
<1> QED BY <1>3, <1>4, <1>5, <1>6, <1>7 DEF Access

\* The steps of a create, restore or reprovision leave a retired agent alone.
LEMMA AccessProvisions ==
    ASSUME Journal, Access,
           \/ PassLoad \/ PassBot \/ PassIdentity \/ PassToken \/ PassIssue \/ PassWrite
           \/ PassTeam \/ PassOthers \/ PassListMembers \/ PassJoin \/ PassTrim \/ PassRemove
    PROVE  Access'
<1>p. pass \in Passes /\ bot \in {"absent", "stranger", "enabled", "disabled"}
  BY DEF Journal, TypeOK
<1> DEFINE kept == UNCHANGED row /\ UNCHANGED <<config, grants>>
           goes == \/ pass'.at = "idle"
                   \/ /\ pass'.op = pass.op
                      /\ \/ pass'.at \in BuildSteps
                         \/ pass'.at = "save" /\ pass'.save \notin RetireSaves
           early == /\ bot \in {"absent", "stranger"} /\ UNCHANGED <<bot, identity, tokens, file>>
                    /\ pass'.at \in {"idle", "bot", "reject"}
<1>b. ASSUME pass.at \in BuildSteps \ {"claim", "load", "bot", "reject", "complete"}
      PROVE  bot \in {"enabled", "disabled"}
  BY <1>b, <1>p DEF Access, NoBotYet, BuildSteps
<1> USE DEF BuildSteps, RetireSaves
<1>1. CASE PassLoad
  <2>1. kept /\ pass.at = "load" /\ UNCHANGED <<bot, identity, tokens, file>>
    BY <1>1 DEF PassLoad, control, mattermost
  <2>2. pass'.at = "idle" \/ (pass'.op = pass.op /\ pass'.at = "bot")
    <3>1. CASE Resolved
      BY <1>1, <1>p, <3>1 DEF PassLoad, Passes
    <3>2. CASE ~Resolved
      BY <1>1, <3>2 DEF PassLoad, EndPass, NoPass
    <3> QED BY <3>1, <3>2
  <2>3. goes /\ (bot' \in {"enabled", "disabled"} \/ early)
    BY <1>p, <2>1, <2>2
  <2> QED BY <2>1, <2>3, AccessBuild
<1>2. CASE PassBot
  <2>1. kept /\ pass.at = "bot"
    BY <1>2 DEF PassBot, control
  <2>2. CASE Op.done.bot
    <3>1. bot \in {"enabled", "disabled"}
      BY <1>p, <2>1, <2>2, PassOp DEF Access, NoBotYet, Op
    <3> QED BY <1>2, <1>p, <2>1, <2>2, <3>1, AccessBuild DEF PassBot, Goto, Passes
  <2>3. CASE ~Op.done.bot /\ Taken
    <3>1. bot = "stranger" /\ UNCHANGED <<bot, identity, tokens, file>>
          /\ pass' = [pass EXCEPT !.at = "reject"]
      BY <1>2, <2>3 DEF PassBot, Taken, Goto, control
    <3> QED BY <1>p, <2>1, <3>1, AccessBuild DEF Passes
  <2>4. CASE ~Op.done.bot /\ ~Taken
    <3>1. bot' = "enabled" /\ pass' = [pass EXCEPT !.at = "save", !.save = "bot"]
      BY <1>2, <2>4 DEF PassBot, SaveNext
    <3>2. goes
      BY <1>p, <3>1 DEF Passes
    <3> QED BY <2>1, <3>1, <3>2, AccessBuild
  <2> QED BY <2>2, <2>3, <2>4
<1>3. CASE PassIdentity \/ PassToken \/ PassIssue \/ PassWrite
  <2>1. kept /\ pass.at \in {"identity", "token", "issue", "write"} /\ bot' = bot
    BY <1>3 DEF PassIdentity, PassToken, PassIssue, PassWrite, control, mattermost
  <2>2. (\E at \in BuildSteps : Goto(at)) \/ SaveNext("token")
    BY <1>3 DEF PassIdentity, PassToken, PassIssue, PassWrite
  <2>3. goes
    BY <1>p, <2>2 DEF Goto, SaveNext, Passes
  <2>4. bot' \in {"enabled", "disabled"}
    BY <1>b, <2>1
  <2> QED BY <2>1, <2>3, <2>4, AccessBuild
<1>4. CASE PassTeam \/ PassOthers \/ PassListMembers \/ PassRemove
  <2>1. kept /\ pass.at \in {"team", "others", "list", "remove"} /\ bot' = bot
    BY <1>4 DEF PassTeam, PassOthers, PassListMembers, PassRemove, control, mattermost
  <2>2. pass'.op = pass.op /\ (pass'.at \in {"list", "join", "trim"}
                               \/ (pass'.at = "save" /\ pass'.save = "team"))
    BY <1>4, <1>p DEF PassTeam, PassOthers, PassListMembers, PassRemove, Passes
  <2>3. goes
    BY <2>2
  <2>4. bot' \in {"enabled", "disabled"}
    BY <1>b, <2>1
  <2> QED BY <2>1, <2>3, <2>4, AccessBuild
<1>5. CASE PassJoin
  <2>1. kept /\ pass.at = "join" /\ bot' = bot
    BY <1>5 DEF PassJoin, control
  <2>2. \/ pass' = [NoPass EXCEPT !.at = "trim", !.op = pass.op, !.todo = pass.listed]
        \/ EndPass
        \/ \E c \in pass.todo : pass' = [pass EXCEPT !.at = "save", !.save = "joined",
                                            !.chan = {c}, !.todo = @ \ {c}]
    BY <1>5, Zenon DEF PassJoin
  <2>3. goes
    <3>1. CASE pass' = [NoPass EXCEPT !.at = "trim", !.op = pass.op, !.todo = pass.listed]
      BY <3>1 DEF NoPass
    <3>2. CASE EndPass
      BY <3>2 DEF EndPass, NoPass
    <3>3. ASSUME NEW c \in pass.todo,
                 pass' = [pass EXCEPT !.at = "save", !.save = "joined", !.chan = {c}, !.todo = @ \ {c}]
          PROVE  goes
      BY <1>p, <3>3 DEF Passes
    <3> QED BY <2>2, <3>1, <3>2, <3>3
  <2>4. bot' \in {"enabled", "disabled"}
    BY <1>b, <2>1
  <2> QED BY <2>1, <2>3, <2>4, AccessBuild
<1>6. CASE PassTrim
  <2>1. kept /\ pass.at = "trim" /\ bot' = bot
    BY <1>6 DEF PassTrim, control, mattermost
  <2>2. pass'.op = pass.op /\ pass'.at \in {"trim", "remove", "complete"}
    BY <1>6, <1>p DEF PassTrim, Goto, Passes
  <2>3. goes
    BY <2>2
  <2>4. bot' \in {"enabled", "disabled"}
    BY <1>b, <2>1
  <2> QED BY <2>1, <2>3, <2>4, AccessBuild
<1> QED BY <1>1, <1>2, <1>3, <1>4, <1>5, <1>6

\* A pass that ends leaves what is recorded as it is.
LEMMA AccessEnd ==
    ASSUME Journal, Access, UNCHANGED row, UNCHANGED <<config, grants, bot, identity, tokens, file>>,
           pass'.at = "idle"
    PROVE  Access'
<1>1. PassKind' /\ Retiring' /\ AtRest'
  BY DEF Access, PassKind, Retiring, AtRest, row, Stale
<1>2. NoBotYet' /\ RetiredHasNoAccess'
  BY DEF Access, NoBotYet, RetiredHasNoAccess, row, Owned
<1>3. RetireDone'
  BY DEF Access, RetireDone, row, Owned
<1> QED BY <1>1, <1>2, <1>3 DEF Access

\* The steps of a retire; each has those before it recorded.
LEMMA AccessRetires ==
    ASSUME Journal, Access,
           PassRecover \/ PassRevoke \/ PassDisable \/ PassChannels \/ PassLeave \/ PassDelete
    PROVE  Access'
<1>p. pass \in Passes /\ bot \in {"absent", "stranger", "enabled", "disabled"}
  BY DEF Journal, TypeOK
<1>1. /\ status' = status /\ ops' = ops /\ current' = current /\ config' = config
      /\ grants' = grants
      /\ pass.at \in {"recover", "revoke", "disable", "channels", "leave", "delete"}
  BY DEF PassRecover, PassRevoke, PassDisable, PassChannels, PassLeave, PassDelete, control, row
<1>2. /\ Op.kind = "retire" /\ Op = ops[pass.op] /\ pass.op = current /\ current # 0
      /\ status # "retired" /\ ~Stale
  BY <1>1, AccessFacts DEF Access, PassKind, BuildSteps, Op, Stale
<1>3. \/ \E at \in RetireSteps : pass' = [pass EXCEPT !.at = at]
      \/ \E v \in RetireSaves : pass' = [pass EXCEPT !.at = "save", !.save = v]
      \/ PassLeave \/ PassChannels
  BY DEF PassRecover, PassRevoke, PassDisable, PassDelete, Goto, SaveNext, RetireSteps, RetireSaves
<1>4. /\ pass'.op = pass.op /\ pass'.at # "idle"
      /\ pass'.at \in RetireSteps \/ (pass'.at = "save" /\ pass'.save \in RetireSaves)
  <2>1. CASE \E at \in RetireSteps : pass' = [pass EXCEPT !.at = at]
    BY <1>p, <2>1 DEF Passes, RetireSteps
  <2>2. CASE \E v \in RetireSaves : pass' = [pass EXCEPT !.at = "save", !.save = v]
    BY <1>p, <2>2 DEF Passes
  <2>3. CASE PassLeave \/ PassChannels
    BY <1>p, <2>3 DEF Passes, PassLeave, PassChannels, Goto, RetireSteps, RetireSaves
  <2> QED BY <1>3, <2>1, <2>2, <2>3
<1>5. PassKind' /\ AtRest' /\ RetiredHasNoAccess' /\ ~Stale'
  BY <1>1, <1>2, <1>4 DEF PassKind, AtRest, RetiredHasNoAccess, Stale
<1>6. Retiring'
  BY <1>1, <1>5 DEF Access, Retiring
<1>7. Access /\ NoBotYet /\ RetireDone
  BY DEF Access
<1>8. Owned' = Owned
  BY <1>1 DEF Owned
<1>9. NoBotYet' /\ RetireDone'
  <2>1. CASE PassRecover
    <3>1. /\ identity' = Recovered /\ UNCHANGED <<bot, tokens, file>>
          /\ pass.at = "recover" /\ pass'.at = IF Recovered THEN "revoke" ELSE "complete"
      BY <1>p, <2>1 DEF PassRecover, Goto, Passes, mattermost
    <3>2. Recovered <=> bot \in {"enabled", "disabled"}
      BY <1>p, <1>7 DEF NoBotYet, Recovered
    <3>3. NoBotYet'
      BY <1>1, <1>2, <1>4, <1>7, <3>1, <3>2 DEF NoBotYet
    <3>4. RetireDone'
      BY <1>p, <1>1, <1>2, <1>4, <1>5, <1>7, <1>8, <3>1, <3>2 DEF RetireDone
    <3> QED BY <3>3, <3>4
  <2>2. CASE PassRevoke
    <3>1. bot \in {"enabled", "disabled"} /\ UNCHANGED <<bot, file>>
      BY <1>p, <1>2, <1>7, <2>2 DEF NoBotYet, PassRevoke
    <3>2. CASE Op.done.revoked
      BY <1>1, <1>2, <1>4, <1>5, <1>7, <1>8, <2>2, <3>1, <3>2, <1>p DEF NoBotYet, RetireDone, PassRevoke, Goto, Passes
    <3>3. CASE ~Op.done.revoked
      BY <1>1, <1>2, <1>4, <1>5, <1>7, <1>8, <2>2, <3>1, <3>3, <1>p DEF NoBotYet, RetireDone, PassRevoke, SaveNext, Passes
    <3> QED BY <3>2, <3>3
  <2>3. CASE PassDisable
    <3>1. bot \in {"enabled", "disabled"} /\ UNCHANGED <<tokens, file>> /\ Op.done.revoked
      BY <1>p, <1>2, <1>7, <2>3 DEF NoBotYet, RetireDone, PassDisable
    <3>2. CASE Op.done.disabled
      BY <1>1, <1>2, <1>4, <1>5, <1>7, <1>8, <2>3, <3>1, <3>2, <1>p DEF NoBotYet, RetireDone, PassDisable, Goto, Passes
    <3>3. CASE ~Op.done.disabled
      BY <1>1, <1>2, <1>4, <1>5, <1>7, <1>8, <2>3, <3>1, <3>3, <1>p DEF NoBotYet, RetireDone, PassDisable, SaveNext, Passes
    <3> QED BY <3>2, <3>3
  <2>4. CASE PassChannels \/ PassLeave
    <3>1. /\ UNCHANGED <<bot, tokens, file, identity>> /\ pass.at \in {"channels", "leave"}
          /\ pass'.at \in {"leave", "delete"} \/ (pass'.at = "save" /\ pass'.save = "left")
      BY <1>p, <2>4 DEF PassChannels, PassLeave, Goto, Passes, control, mattermost
    <3> QED BY <1>1, <1>2, <1>4, <1>5, <1>7, <1>8, <3>1 DEF NoBotYet, RetireDone
  <2>5. CASE PassDelete
    <3>1. bot \in {"enabled", "disabled"} /\ UNCHANGED <<bot, tokens>> /\ Op.done.disabled
      BY <1>p, <1>2, <1>7, <2>5 DEF NoBotYet, RetireDone, PassDelete
    <3>2. CASE Op.done.deleted
      BY <1>1, <1>2, <1>4, <1>5, <1>7, <1>8, <2>5, <3>1, <3>2, <1>p DEF NoBotYet, RetireDone, PassDelete, Goto, Passes
    <3>3. CASE ~Op.done.deleted
      BY <1>1, <1>2, <1>4, <1>5, <1>7, <1>8, <2>5, <3>1, <3>3, <1>p DEF NoBotYet, RetireDone, PassDelete, SaveNext, Passes
    <3> QED BY <3>2, <3>3
  <2> QED BY <2>1, <2>2, <2>3, <2>4, <2>5
<1> QED BY <1>5, <1>6, <1>9 DEF Access

\* What concerns neither the journal nor the account; nothing is granted to a retiring agent.
LEMMA AccessSame ==
    ASSUME Journal, Access, UNCHANGED row, UNCHANGED <<pass, identity, tokens, file>>,
           bot' = bot \/ (bot = "stranger" /\ bot' = "absent"),
           status \in {"retiring", "retired"} => ~config'.active /\ grants' = {}
    PROVE  Access'
<1>1. status' = status /\ ops' = ops /\ current' = current /\ pass' = pass
  BY DEF row
<1>2. PassKind' /\ AtRest'
  BY <1>1 DEF Access, PassKind, AtRest
<1>3. NoBotYet'
  BY <1>1 DEF Access, NoBotYet
<1>4. Retiring'
  BY <1>1 DEF Access, Retiring, Stale
<1>5. RetireDone' /\ RetiredHasNoAccess'
  BY <1>1 DEF Access, RetireDone, RetiredHasNoAccess, Owned, Stale
<1> QED BY <1>2, <1>3, <1>4, <1>5 DEF Access

\* An operation that supersedes the others: a retire begins with nothing recorded, or goes on
\* from what the failed one recorded.
LEMMA AccessPursue ==
    ASSUME Journal, Access, NEW J \in Seq(Operations), NEW op \in Operations, Pursue(J, op),
           Len(J) = Len(ops),
           \A k \in 1..Len(J) : J[k].kind = ops[k].kind /\ J[k].done = ops[k].done,
           op.done = NoCheckpoints \/ (current # 0 /\ op.done = ops[current].done),
           UNCHANGED <<identity, bot, tokens>>, file' \in BOOLEAN, file' => file,
           status' # "retired", op.kind = "retire" <=> status' = "retiring",
           op.kind = "retire" =>
             /\ ~config'.active /\ grants' = {} /\ file' = file
             /\ \/ op.done = NoCheckpoints
                \/ ops[current].kind = "retire" /\ (pass.at # "idle" => Stale),
           pass'.at = "idle" \/ (pass' = pass /\ (pass.at # "idle" => Op.kind # "retire"))
    PROVE  Access'
<1>0. /\ ops \in Seq(Operations) /\ DOMAIN ops = 1..Len(ops) /\ current \in 0..Len(ops)
      /\ Len(ops) \in Nat
  BY LenProperties DEF Journal, TypeOK
<1>1. /\ current' = Len(ops) + 1 /\ DOMAIN ops' = 1..(Len(ops) + 1)
      /\ \A k \in 1..Len(ops) : ops'[k].kind = ops[k].kind /\ ops'[k].done = ops[k].done
      /\ ops'[current'] = op
  BY Pursued
<1>2. pass'.at # "idle" => /\ pass' = pass /\ Op.kind # "retire" /\ pass.op \in 1..Len(ops)
                           /\ ops'[pass.op].kind = Op.kind /\ Op = ops[pass.op] /\ Stale'
  <2> SUFFICES ASSUME pass'.at # "idle"
               PROVE  /\ pass' = pass /\ Op.kind # "retire" /\ pass.op \in 1..Len(ops)
                      /\ ops'[pass.op].kind = Op.kind /\ Op = ops[pass.op] /\ Stale'
    OBVIOUS
  <2>1. pass' = pass /\ pass.at # "idle" /\ Op.kind # "retire"
    OBVIOUS
  <2>2. pass.op \in 1..Len(ops)
    BY <2>1, PassOp
  <2> QED BY <1>0, <1>1, <2>1, <2>2 DEF Op, Stale
<1>3. PassKind'
  BY <1>2 DEF Access, PassKind
<1>4. NoBotYet'
  <2> SUFFICES ASSUME bot \in {"absent", "stranger"} PROVE NoBotYet'
    BY DEF NoBotYet
  <2>1. NoBotYet
    BY DEF Access
  <2>2. \A k \in 1..Len(ops) : ~ops[k].done.bot
    BY <1>0, <2>1 DEF NoBotYet
  <2>3. ~op.done.bot
    BY <1>0, <2>2 DEF NoCheckpoints
  <2>4. \A k \in DOMAIN ops' : ~ops'[k].done.bot
    BY <1>0, <1>1, <2>2, <2>3
  <2> QED BY <1>2, <2>1, <2>4 DEF NoBotYet
<1>5. Retiring'
  <2>1. status' = "retiring" => ~config'.active /\ grants' = {} /\ op.kind = "retire"
    OBVIOUS
  <2>2. status' = "retiring" /\ pass'.at # "idle" => op.done = NoCheckpoints
    BY <1>2 DEF Access, Retiring
  <2> QED BY <1>0, <1>1, <2>1, <2>2 DEF Retiring
<1>6. RetireDone'
  <2> SUFFICES ASSUME op.kind = "retire" PROVE RetireDone'
    BY <1>1 DEF RetireDone
  <2>1. Owned' <=> Owned
    BY <1>0, <1>1 DEF Owned
  <2>2. /\ op.done.revoked => tokens = {}
        /\ op.done.disabled => bot = "disabled" /\ op.done.revoked
        /\ op.done.deleted => (Owned => ~file) /\ op.done.disabled
    BY DEF Access, RetireDone, NoCheckpoints
  <2> QED BY <1>1, <1>2, <2>1, <2>2 DEF RetireDone
<1>7. AtRest' /\ RetiredHasNoAccess'
  BY DEF AtRest, RetiredHasNoAccess
<1> QED BY <1>3, <1>4, <1>5, <1>6, <1>7 DEF Access

\* An edit concerns an agent that is not retiring, or leaves its lifecycle alone.
LEMMA AccessQueued ==
    ASSUME Journal, Access, NEW concerned \in BOOLEAN, QueueReprovision(concerned),
           UNCHANGED <<pass, identity, bot, tokens, file>>,
           status \in {"retiring", "retired"} => ~config'.active /\ grants' = {}
    PROVE  Access'
<1>1. CASE ~(concerned /\ status = "ready" /\ Owned) \/ AlreadyQueued
  <2>1. UNCHANGED row
    BY <1>1, Zenon DEF QueueReprovision
  <2> QED BY <2>1, AccessSame
<1>2. CASE concerned /\ status = "ready" /\ Owned /\ ~AlreadyQueued
  <2> DEFINE running == ops[current].kind = "reprovision" /\ ops[current].state = "running"
             J == IF running THEN [ops EXCEPT ![current].state = "cancelled"] ELSE ops
             op == NewOp("reprovision", NoCheckpoints)
  <2>1. Pursue(J, op) /\ status' = "ready"
    BY <1>2, Zenon DEF QueueReprovision
  <2>2. ops \in Seq(Operations) /\ DOMAIN ops = 1..Len(ops) /\ current \in 1..Len(ops)
    BY <1>2, LenProperties DEF Journal, TypeOK, StatusFollows, Owned
  <2>3. J \in Seq(Operations) /\ Len(J) = Len(ops)
        /\ \A k \in 1..Len(J) : J[k].kind = ops[k].kind /\ J[k].done = ops[k].done
    <3>1. CASE running
      <4>1. J = [ops EXCEPT ![current].state = "cancelled"] /\ "cancelled" \in OpStates
        BY <3>1 DEF OpStates
      <4> HIDE DEF J
      <4>2. /\ J \in Seq(Operations) /\ Len(J) = Len(ops)
            /\ \A k \in 1..Len(ops) : k # current => J[k] = ops[k]
            /\ J[current].kind = ops[current].kind /\ J[current].done = ops[current].done
        BY <2>2, <4>1, StateChange
      <4> QED BY <4>2
    <3>2. CASE ~running
      BY <2>2, <3>2
    <3> QED BY <3>1, <3>2
  <2>4. op \in Operations /\ op.kind = "reprovision" /\ op.done = NoCheckpoints
    BY NewOpType, NoCheckpointsType DEF Kinds
  <2>5. pass.at # "idle" => Op.kind # "retire"
    BY <1>2, AccessFacts, PassOp DEF Journal, StatusFollows, Op
  <2>6. file' \in BOOLEAN /\ (file' => file)
    BY DEF Journal, TypeOK
  <2> HIDE DEF J, op
  <2> QED BY <2>1, <2>3, <2>4, <2>5, <2>6, AccessPursue
<1> QED BY <1>1, <1>2

\* A request gives a retired agent nothing, and starts a retire with nothing recorded.
LEMMA AccessRequest ==
    ASSUME Journal, Access, Request
    PROVE  Access'
<1>0. ops \in Seq(Operations) /\ DOMAIN ops = 1..Len(ops) /\ Len(ops) \in Nat
      /\ current \in 0..Len(ops) /\ file \in BOOLEAN /\ Owned \in BOOLEAN
      /\ config \in [active: BOOLEAN, allowed: SUBSET Names, team: Teams]
  BY LenProperties DEF Journal, TypeOK, Owned
<1>c. /\ Cancelled(ops) \in Seq(Operations) /\ Len(Cancelled(ops)) = Len(ops)
      /\ \A k \in 1..Len(Cancelled(ops)) :
           Cancelled(ops)[k].kind = ops[k].kind /\ Cancelled(ops)[k].done = ops[k].done
  BY <1>0, CancelledJournal
<1>t. \A kind \in Kinds : /\ NewOp(kind, NoCheckpoints) \in Operations
                          /\ NewOp(kind, NoCheckpoints).kind = kind
                          /\ NewOp(kind, NoCheckpoints).done = NoCheckpoints
  BY NewOpType, NoCheckpointsType
<1>r. ASSUME status # "retiring", pass.at # "idle" PROVE Op.kind # "retire"
  BY <1>r, AccessFacts, PassOp DEF Journal, StatusFollows, Op
<1>g. status \in {"retiring", "retired"} => ~config.active /\ grants = {}
  BY DEF Access, Retiring
<1>1. ASSUME NEW allowed \in Wanted, Create(allowed) PROVE Access'
  <2> DEFINE op == NewOp("create", NoCheckpoints)
  <2>1. /\ Pursue(ops, op) /\ status = "none" /\ status' = "pending" /\ pass' = pass
        /\ UNCHANGED <<identity, bot, tokens, file>>
    BY <1>1 DEF Create, mattermost
  <2>2. op \in Operations /\ op.kind = "create" /\ op.done = NoCheckpoints
    BY <1>t DEF Kinds
  <2> HIDE DEF op
  <2> QED BY <1>0, <1>r, <2>1, <2>2, AccessPursue
<1>2. CASE Retire
  <2> DEFINE op == NewOp("retire", NoCheckpoints)
  <2>1. /\ Pursue(Cancelled(ops), op) /\ status # "retiring" /\ status' = "retiring" /\ pass' = pass
        /\ UNCHANGED <<identity, bot, tokens, file>> /\ ~config'.active /\ grants' = {}
    BY <1>0, <1>2 DEF Retire, mattermost
  <2>2. op \in Operations /\ op.kind = "retire" /\ op.done = NoCheckpoints
    BY <1>t DEF Kinds
  <2> HIDE DEF op
  <2> QED BY <1>0, <1>c, <1>r, <2>1, <2>2, AccessPursue
<1>3. CASE Restore
  <2> DEFINE op == NewOp("restore", NoCheckpoints)
  <2>1. /\ Pursue(Cancelled(ops), op) /\ status = "retired" /\ status' = "pending" /\ pass' = pass
        /\ UNCHANGED <<identity, bot, tokens>> /\ file' = (file /\ Owned)
    BY <1>3 DEF Restore
  <2>2. op \in Operations /\ op.kind = "restore" /\ op.done = NoCheckpoints
    BY <1>t DEF Kinds
  <2>3. file' \in BOOLEAN /\ (file' => file)
    BY <1>0, <2>1
  <2> HIDE DEF op
  <2> QED BY <1>c, <1>r, <2>1, <2>2, <2>3, AccessPursue
<1>4. CASE Retry
  <2> DEFINE op == [ops[current] EXCEPT !.state = "pending"]
  <2>1. /\ current \in 1..Len(ops) /\ ops[current].state = "failed" /\ Pursue(ops, op)
        /\ pass' = pass /\ status' = (IF status = "failed" THEN "pending" ELSE status)
        /\ status \in {"retiring", "ready", "failed"}
        /\ (status = "retiring" => ops[current].kind = "retire")
        /\ (status = "ready" => ops[current].kind = "reprovision")
        /\ UNCHANGED <<identity, bot, tokens, file, config, grants>>
    BY <1>0, <1>4 DEF Retry, mattermost
  <2>2. ops[current] \in Operations
    BY <1>0, <2>1, LenProperties
  <2>3. op \in Operations /\ op.kind = ops[current].kind /\ op.done = ops[current].done
    BY <2>2 DEF Operations, OpStates
  <2> HIDE DEF op
  <2>4. pass.at # "idle" => Stale
    BY <2>1, PassOp DEF IsLive, Op
  <2>5. pass.at # "idle" => Op.kind # "retire"
    BY <2>4, AccessFacts
  <2>6. op.kind = "retire" <=> status' = "retiring"
    BY <2>1, <2>3 DEF Journal, StatusFollows
  <2>7. status' # "retired" /\ current # 0
    BY <2>1
  <2>8. op.kind = "retire" => ~config'.active /\ grants' = {} /\ ops[current].kind = "retire"
    BY <1>g, <2>1, <2>3, <2>6
  <2> QED BY <1>0, <2>1, <2>3, <2>4, <2>5, <2>6, <2>7, <2>8, AccessPursue
<1>5. ASSUME NEW allowed \in Wanted, EditChannels(allowed) PROVE Access'
  <2>1. /\ QueueReprovision(TRUE) /\ UNCHANGED <<pass, identity, bot, tokens, file>>
        /\ config.active /\ grants' = grants
    BY <1>5 DEF EditChannels, mattermost
  <2> QED BY <1>g, <2>1, AccessQueued
<1>6. ASSUME NEW t \in Teams, ChangeTeam(t) PROVE Access'
  <2>1. /\ QueueReprovision(config.active) /\ UNCHANGED <<pass, identity, bot, tokens, file>>
        /\ config'.active = config.active /\ grants' = {}
    BY <1>0, <1>6 DEF ChangeTeam, mattermost
  <2> QED BY <1>0, <1>g, <2>1, AccessQueued
<1>7. ASSUME NEW c \in Channels, RevokeGrant(c) PROVE Access'
  <2>1. /\ QueueReprovision(TRUE) /\ UNCHANGED <<pass, identity, bot, tokens, file>>
        /\ grants # {}
    BY <1>7 DEF RevokeGrant, mattermost
  <2> QED BY <1>g, <2>1, AccessQueued
<1>8. ASSUME NEW c \in Channels, GrantChannel(c) PROVE Access'
  <2>1. /\ UNCHANGED row /\ UNCHANGED <<pass, identity, bot, tokens, file>> /\ config.active
    BY <1>8 DEF GrantChannel
  <2> QED BY <1>g, <2>1, AccessSame
<1>9. CASE RenameStranger
  <2>1. /\ UNCHANGED row /\ UNCHANGED <<pass, identity, tokens, file, config, grants>>
        /\ bot = "stranger" /\ bot' = "absent"
    BY <1>9 DEF RenameStranger
  <2> QED BY <1>g, <2>1, AccessSame
<1> QED BY <1>1, <1>2, <1>3, <1>4, <1>5, <1>6, <1>7, <1>8, <1>9 DEF Request

\* Claiming or settling the current operation; a retire that succeeds has all its steps
\* recorded, or there was no account.
LEMMA AccessSettle ==
    ASSUME Journal, Access, pass.at # "idle", ~Stale, NEW st \in OpStates,
           ops' = [ops EXCEPT ![pass.op].state = st], current' = current,
           UNCHANGED <<config, grants, identity, bot, tokens, file>>,
           Op.kind = "retire" <=> status' \in {"retiring", "retired"},
           \/ pass'.at = "idle"
           \/ /\ pass'.op = pass.op /\ status' # "retired"
              /\ pass'.at = IF Op.kind = "retire" THEN "recover" ELSE "load",
           status' = "retired" => pass.at = "complete" /\ st = "succeeded"
    PROVE  Access'
<1>1. /\ ops \in Seq(Operations) /\ DOMAIN ops = 1..Len(ops) /\ Len(ops) \in Nat
      /\ pass.op \in 1..Len(ops) /\ current = pass.op /\ Op = ops[pass.op] /\ current # 0
  BY PassOp DEF Op
<1>2. /\ DOMAIN ops' = 1..Len(ops)
      /\ \A k \in 1..Len(ops) : ops'[k].kind = ops[k].kind /\ ops'[k].done = ops[k].done
      /\ ops'[pass.op].state = st
  BY <1>1, StateChange
<1>3. Owned' <=> Owned
  BY <1>1, <1>2 DEF Owned
<1>4. PassKind'
  BY <1>1, <1>2 DEF PassKind, RetireSteps, BuildSteps
<1>5. NoBotYet'
  <2>1. bot \in {"absent", "stranger"} =>
           ~identity /\ tokens = {} /\ ~file /\ \A k \in 1..Len(ops) : ~ops'[k].done.bot
    BY <1>1, <1>2 DEF Access, NoBotYet
  <2> QED BY <1>2, <2>1 DEF NoBotYet
<1>6. Op.kind = "retire" => status \in {"retiring", "retired"}
  BY <1>1 DEF Access, Retiring
<1>7. Retiring'
  <2>1. Op.kind = "retire" => ~config.active /\ grants = {}
    BY <1>6 DEF Access, Retiring
  <2>2. ~(pass'.at # "idle" /\ Stale')
    BY <1>1 DEF Stale
  <2> QED BY <1>1, <1>2, <2>1, <2>2 DEF Retiring
<1>8. Op.kind = "retire" =>
        /\ Op.done.revoked => tokens = {}
        /\ Op.done.disabled => bot = "disabled" /\ Op.done.revoked
        /\ Op.done.deleted => (Owned => ~file) /\ Op.done.disabled
        /\ pass.at = "complete" => Op.done.deleted \/ bot \in {"absent", "stranger"}
  BY <1>1 DEF Access, RetireDone
<1>9. RetireDone'
  BY <1>1, <1>2, <1>3, <1>8 DEF RetireDone
<1>10. AtRest'
  BY <1>1, <1>2 DEF AtRest
<1>11. RetiredHasNoAccess'
  <2> SUFFICES ASSUME status' = "retired"
               PROVE  tokens = {} /\ bot # "enabled" /\ grants = {} /\ (Owned => ~file)
    BY <1>3 DEF RetiredHasNoAccess
  <2>1. Op.kind = "retire" /\ grants = {}
    BY <1>6 DEF Access, Retiring
  <2>2. CASE Op.done.deleted
    BY <1>8, <2>1, <2>2
  <2>3. CASE bot \in {"absent", "stranger"}
    BY <2>1, <2>3 DEF Access, NoBotYet
  <2> QED BY <1>8, <2>1, <2>2, <2>3
<1> QED BY <1>4, <1>5, <1>7, <1>9, <1>10, <1>11 DEF Access

\* A checkpoint of the current operation records a step that was made.
LEMMA AccessSaves ==
    ASSUME Journal, Access, PassSave
    PROVE  Access'
<1>p. pass \in Passes /\ pass.at = "save"
  BY DEF Journal, TypeOK, PassSave
<1>k. /\ status' = status /\ current' = current
      /\ UNCHANGED <<config, grants, identity, bot, tokens, file>>
  BY DEF PassSave, mattermost
<1>1. CASE ~MayRecord
  <2>1. ops' = ops /\ pass'.at = "idle"
    BY <1>1 DEF PassSave, EndPass, NoPass
  <2> QED BY <1>k, <2>1, AccessEnd DEF row
<1>2. CASE MayRecord
  <2>1. /\ ops' = [ops EXCEPT ![pass.op].done = Saved(Op.done)]
        /\ pass' = [pass EXCEPT !.at = After[pass.save], !.chan = {}, !.save = "bot"]
    BY <1>2 DEF PassSave, Op
  <2>2. /\ ops \in Seq(Operations) /\ DOMAIN ops = 1..Len(ops) /\ Len(ops) \in Nat
        /\ pass.op \in 1..Len(ops) /\ current = pass.op /\ Op = ops[pass.op] /\ current # 0
        /\ Op.done \in Checkpoints /\ ~Stale /\ IsLive(Op)
    BY <1>2, <1>p, PassOp DEF Op, MayRecord
  <2>3. Saved(Op.done) \in Checkpoints
    BY <1>p, <2>2, SavedType
  <2> DEFINE d == Saved(Op.done)
  <2>4. /\ DOMAIN ops' = 1..Len(ops)
        /\ \A k \in 1..Len(ops) : ops'[k].kind = ops[k].kind
        /\ \A k \in 1..Len(ops) : k # pass.op => ops'[k] = ops[k]
        /\ ops'[pass.op].done = d
    BY <2>1, <2>2, <2>3, DoneChange
  <2>5. pass'.op = pass.op /\ pass'.at = After[pass.save] /\ pass.save \in Saves
    BY <1>p, <2>1 DEF Passes
  <2>6. Owned' <=> Owned
    BY <2>2, <2>4 DEF Owned
  <2>7. status # "retired" /\ ~Stale'
    BY <1>k, <1>p, <2>2, <2>5, AccessFacts DEF Stale
  <2>8. bot \in {"enabled", "disabled"}
    BY <1>p DEF Access, NoBotYet, Journal, TypeOK
  <2>9. AtRest' /\ RetiredHasNoAccess' /\ NoBotYet'
    BY <1>k, <2>7, <2>8 DEF AtRest, RetiredHasNoAccess, NoBotYet
  <2>10. Retiring'
    BY <1>k, <2>2, <2>4, <2>7 DEF Access, Retiring
  <2>11. PassKind'
    <3>1. IF Op.kind = "retire" THEN pass.save \in RetireSaves ELSE pass.save \notin RetireSaves
      BY <1>p, <2>2 DEF Access, PassKind, RetireSteps, BuildSteps
    <3>2. IF Op.kind = "retire" THEN After[pass.save] \in RetireSteps
          ELSE After[pass.save] \in BuildSteps
      BY <2>5, <3>1 DEF After, RetireSaves, RetireSteps, BuildSteps, Saves
    <3> QED BY <1>k, <2>2, <2>4, <2>5, <3>2 DEF PassKind
  <2>12. RetireDone'
    <3> SUFFICES ASSUME Op.kind = "retire" PROVE RetireDone'
      BY <1>k, <2>2, <2>4 DEF RetireDone
    <3>1. pass.save \in RetireSaves
      BY <1>p, <2>2 DEF Access, PassKind, RetireSteps
    <3>2. RetireDone
      BY DEF Access
    <3>3. /\ Op.done.revoked => tokens = {}
          /\ Op.done.disabled => bot = "disabled" /\ Op.done.revoked
          /\ Op.done.deleted => (Owned => ~file) /\ Op.done.disabled
          /\ pass.save = "revoked" => tokens = {}
          /\ pass.save = "disabled" => Op.done.revoked /\ bot = "disabled"
          /\ pass.save = "left" => Op.done.disabled
          /\ pass.save = "deleted" => Op.done.disabled /\ (Owned => ~file)
      BY <1>p, <2>2, <3>2 DEF RetireDone
    <3>4. CASE pass.save = "revoked"
      <4>1. d = [Op.done EXCEPT !.revoked = TRUE] /\ pass'.at = "disable"
        BY <2>5, <3>4 DEF Saved, After
      <4>2. d.revoked /\ d.disabled = Op.done.disabled /\ d.deleted = Op.done.deleted
        BY <2>2, <4>1 DEF Checkpoints
      <4> HIDE DEF d
      <4> QED BY <1>k, <2>2, <2>4, <2>5, <2>6, <2>8, <3>3, <3>4, <4>1, <4>2 DEF RetireDone
    <3>5. CASE pass.save = "disabled"
      <4>1. d = [Op.done EXCEPT !.disabled = TRUE] /\ pass'.at = "channels"
        BY <2>5, <3>5 DEF Saved, After
      <4>2. d.disabled /\ d.revoked = Op.done.revoked /\ d.deleted = Op.done.deleted
        BY <2>2, <4>1 DEF Checkpoints
      <4> HIDE DEF d
      <4> QED BY <1>k, <2>2, <2>4, <2>5, <2>6, <2>8, <3>3, <3>5, <4>1, <4>2 DEF RetireDone
    <3>6. CASE pass.save = "left"
      <4>1. d = [Op.done EXCEPT !.left = @ \cup pass.chan] /\ pass'.at = "leave"
        BY <2>5, <3>6 DEF Saved, After
      <4>2. d.disabled = Op.done.disabled /\ d.revoked = Op.done.revoked /\ d.deleted = Op.done.deleted
        BY <2>2, <4>1 DEF Checkpoints
      <4> HIDE DEF d
      <4> QED BY <1>k, <2>2, <2>4, <2>5, <2>6, <2>8, <3>3, <3>6, <4>1, <4>2 DEF RetireDone
    <3>7. CASE pass.save = "deleted"
      <4>1. d = [Op.done EXCEPT !.deleted = TRUE] /\ pass'.at = "complete"
        BY <2>5, <3>7 DEF Saved, After
      <4>2. d.deleted /\ d.revoked = Op.done.revoked /\ d.disabled = Op.done.disabled
        BY <2>2, <4>1 DEF Checkpoints
      <4> HIDE DEF d
      <4> QED BY <1>k, <2>2, <2>4, <2>5, <2>6, <2>8, <3>3, <3>7, <4>1, <4>2 DEF RetireDone
    <3> QED BY <3>1, <3>4, <3>5, <3>6, <3>7 DEF RetireSaves
  <2> QED BY <2>9, <2>10, <2>11, <2>12 DEF Access
<1> QED BY <1>1, <1>2

\* Neither a missing nor an adopted agent is retired.
LEMMA AccessInit == Init => Access
<1> SUFFICES ASSUME Init PROVE Access
  OBVIOUS
<1>1. pass.at = "idle"
  BY PassTypes DEF Init
<1>2. CASE ops = <<>> /\ current = 0 /\ status = "none" /\ ~identity /\ tokens = {} /\ ~file
  BY <1>1, <1>2 DEF Access, PassKind, NoBotYet, Retiring, RetireDone, AtRest, RetiredHasNoAccess
<1>3. CASE /\ status = "ready" /\ current = 1
           /\ ops = <<[kind |-> "adopt", state |-> "succeeded", done |-> NoCheckpoints]>>
           /\ bot = "enabled" \/ (bot = "absent" /\ ~identity /\ tokens = {} /\ ~file)
  <2>1. DOMAIN ops = 1..1 /\ ops[1].kind = "adopt" /\ ~ops[1].done.bot
    BY <1>3 DEF NoCheckpoints
  <2>2. NoBotYet
    BY <1>1, <1>3, <2>1 DEF NoBotYet
  <2> QED BY <1>1, <1>3, <2>1, <2>2
          DEF Access, PassKind, Retiring, RetireDone, AtRest, RetiredHasNoAccess
<1> QED BY <1>2, <1>3 DEF Init

\* A pass takes up the one live operation: claims it when it is pending, resumes it otherwise.
LEMMA TakenUp ==
    ASSUME Journal, PassList
    PROVE  /\ pass'.op = current /\ current \in DOMAIN ops /\ IsLive(ops[current])
           /\ pass'.at \in {"claim", "recover", "load"}
           /\ pass'.at # "claim" => ops[current].state = "running"
           /\ pass'.at = "recover" => ops[current].kind = "retire"
           /\ pass'.at = "load" => ops[current].kind # "retire"
<1>1. PICK i \in DOMAIN ops :
        /\ Listed(ops[i])
        /\ pass' = [NoPass EXCEPT
             !.op = i,
             !.at = CASE ops[i].state = "pending" -> "claim"
                      [] ops[i].state = "running" /\ ops[i].kind = "retire" -> "recover"
                      [] OTHER -> "load"]
  BY DEF PassList
<1>2. i = current /\ IsLive(ops[i]) /\ ops[i].state \in {"pending", "running"}
  BY <1>1 DEF Journal, OneLiveOperation, Listed, IsLive
<1>3. CASE ops[i].state = "pending"
  <2>1. pass' = [NoPass EXCEPT !.op = i, !.at = "claim"]
    BY <1>1, <1>3
  <2> QED BY <1>2, <2>1 DEF NoPass
<1>4. CASE ops[i].state = "running" /\ ops[i].kind = "retire"
  <2>1. pass' = [NoPass EXCEPT !.op = i, !.at = "recover"]
    BY <1>1, <1>4
  <2> QED BY <1>2, <1>4, <2>1 DEF NoPass
<1>5. CASE ops[i].state = "running" /\ ops[i].kind # "retire"
  <2>1. pass' = [NoPass EXCEPT !.op = i, !.at = "load"]
    BY <1>1, <1>5
  <2> QED BY <1>2, <1>5, <2>1 DEF NoPass
<1> QED BY <1>2, <1>3, <1>4, <1>5

\* Every step keeps what a retire has taken away.
LEMMA AccessStep == Journal /\ Access /\ [Next]_vars => Access'
<1> SUFFICES ASSUME Journal, Access, [Next]_vars PROVE Access'
  OBVIOUS
<1>g. status \in {"retiring", "retired"} => ~config.active /\ grants = {}
  BY DEF Access, Retiring
<1>1. CASE Request
  BY <1>1, AccessRequest
<1>2. CASE PublishTeam \/ UNCHANGED vars
  <2>1. UNCHANGED row /\ UNCHANGED <<pass, identity, tokens, file, bot, config, grants>>
    BY <1>2 DEF PublishTeam, vars, mattermost
  <2> QED BY <1>g, <2>1, AccessSame
<1>3. CASE PassList
  <2>2. /\ status' = status /\ ops' = ops /\ current' = current /\ config' = config
        /\ grants' = grants /\ identity' = identity /\ bot' = bot /\ tokens' = tokens /\ file' = file
    BY <1>3 DEF PassList, control, row, mattermost
  <2>4. /\ pass'.op = current /\ pass'.at \in {"claim", "recover", "load"}
        /\ pass'.at = "recover" => ops[current].kind = "retire"
        /\ pass'.at = "load" => ops[current].kind # "retire"
    BY <1>3, TakenUp
  <2>3. status # "retired"
    BY <1>3, TakenUp DEF Access, AtRest, IsLive
  <2>5. PassKind'
    BY <2>2, <2>4 DEF PassKind, RetireSteps, BuildSteps
  <2>6. NoBotYet'
    BY <2>2, <2>4 DEF Access, NoBotYet
  <2>7. Retiring' /\ AtRest' /\ RetiredHasNoAccess'
    BY <2>2, <2>3, <2>4 DEF Access, Retiring, AtRest, RetiredHasNoAccess, Stale
  <2>8. RetireDone'
    BY <2>2, <2>4 DEF Access, RetireDone, Owned
  <2> QED BY <2>5, <2>6, <2>7, <2>8 DEF Access
<1>4. CASE PassClaim
  <2>1. pass.at = "claim" /\ UNCHANGED <<config, grants, identity, bot, tokens, file>>
    BY <1>4 DEF PassClaim, mattermost
  <2>2. CASE Stale \/ (Op.kind # "retire" /\ ~Resolved)
    <3>1. pass'.at = "idle" /\ UNCHANGED row
      BY <1>4, <2>2 DEF PassClaim, EndPass, NoPass
    <3> QED BY <2>1, <3>1, AccessEnd
  <2>3. CASE ~(Stale \/ (Op.kind # "retire" /\ ~Resolved))
    <3>1. /\ ops' = [ops EXCEPT ![pass.op].state = "running"] /\ current' = current
          /\ status' = (IF Op.kind \in {"create", "restore"} THEN "reconciling" ELSE status)
          /\ pass' = [pass EXCEPT !.at = IF Op.kind = "retire" THEN "recover" ELSE "load"]
      BY <1>4, <2>3 DEF PassClaim, Goto
    <3>2. /\ pass'.op = pass.op /\ pass'.at = IF Op.kind = "retire" THEN "recover" ELSE "load"
      BY <3>1 DEF Journal, TypeOK, Passes
    <3>3. ~Stale /\ IsLive(Op) /\ status # "retired" /\ Op = ops[current] /\ current # 0
      BY <2>1, <2>3, AccessFacts, PassOp DEF Stale
    <3>4. Op.kind = "retire" <=> status' \in {"retiring", "retired"}
      BY <3>1, <3>3 DEF Access, Retiring
    <3>5. status' # "retired" /\ "running" \in OpStates
      BY <3>1, <3>3 DEF OpStates
    <3> QED BY <2>1, <3>1, <3>2, <3>3, <3>4, <3>5, AccessSettle
  <2> QED BY <2>2, <2>3
<1>5. CASE PassSave
  BY <1>5, AccessSaves
<1>6. CASE PassComplete
  <2>1. /\ pass.at = "complete" /\ UNCHANGED <<config, grants, identity, bot, tokens, file>>
        /\ pass' = NoPass /\ pass'.at = "idle"
    BY <1>6 DEF PassComplete, mattermost, EndPass, NoPass
  <2>2. CASE Stale \/ ~IsLive(Op)
    <3>1. UNCHANGED row
      BY <1>6, <2>2, Zenon DEF PassComplete
    <3> QED BY <2>1, <3>1, AccessEnd
  <2>3. CASE ~(Stale \/ ~IsLive(Op))
    <3> DEFINE J == [ops EXCEPT ![pass.op].state = "succeeded"]
               op == NewOp("reprovision", NoCheckpoints)
    <3>1. /\ status' = IF Op.kind = "retire" THEN "retired" ELSE "ready"
          /\ IF Drifted THEN Pursue(J, op) ELSE ops' = J /\ UNCHANGED current
      BY <1>6, <2>3 DEF PassComplete
    <3>2. CASE ~Drifted
      BY <2>1, <2>3, <3>1, <3>2, AccessSettle DEF OpStates
    <3>3. CASE Drifted
      <4>1. /\ ops \in Seq(Operations) /\ pass.op \in 1..Len(ops)
            /\ Pursue(J, op) /\ status' = "ready"
        BY <2>1, <3>1, <3>3, PassOp DEF Drifted
      <4>2. /\ op \in Operations /\ op.kind = "reprovision" /\ op.done = NoCheckpoints
            /\ J = [ops EXCEPT ![pass.op].state = "succeeded"] /\ "succeeded" \in OpStates
        BY NewOpType, NoCheckpointsType DEF Kinds, OpStates
      <4> HIDE DEF J, op
      <4>3. /\ J \in Seq(Operations) /\ Len(J) = Len(ops)
            /\ \A k \in 1..Len(J) : J[k].kind = ops[k].kind /\ J[k].done = ops[k].done
        BY <4>1, <4>2, StateChange
      <4>4. file' \in BOOLEAN /\ (file' => file)
        BY <2>1 DEF Journal, TypeOK
      <4> QED BY <2>1, <4>1, <4>2, <4>3, <4>4, AccessPursue
    <3> QED BY <3>2, <3>3
  <2> QED BY <2>2, <2>3
<1>7. CASE PassReject \/ PassRefused
  <2>1. /\ pass.at # "idle" /\ UNCHANGED <<config, grants, identity, bot, tokens, file>>
        /\ FailOperation /\ pass'.at = "idle"
    BY <1>7 DEF PassReject, PassRefused, MattermostSteps, FailOperation, mattermost, EndPass, NoPass
  <2>2. CASE Stale \/ ~IsLive(Op)
    <3>1. UNCHANGED row
      BY <2>1, <2>2, Zenon DEF FailOperation
    <3> QED BY <2>1, <3>1, AccessEnd
  <2>3. CASE ~(Stale \/ ~IsLive(Op))
    <3>1. /\ ops' = [ops EXCEPT ![pass.op].state = "failed"] /\ current' = current
          /\ status' = CASE Op.kind = "retire" -> "retiring"
                         [] Op.kind = "reprovision" -> "ready"
                         [] OTHER -> "failed"
      BY <2>1, <2>3 DEF FailOperation
    <3>2. (Op.kind = "retire" <=> status' \in {"retiring", "retired"}) /\ status' # "retired"
          /\ "failed" \in OpStates
      BY <3>1 DEF OpStates
    <3> QED BY <2>1, <2>3, <3>1, <3>2, AccessSettle
  <2> QED BY <2>2, <2>3
<1>8. CASE PassAbort
  <2>1. /\ UNCHANGED row /\ UNCHANGED <<config, grants, identity, bot, tokens, file>>
        /\ pass'.at = "idle"
    BY <1>8 DEF PassAbort, mattermost, EndPass, NoPass
  <2> QED BY <2>1, AccessEnd
<1> QED BY <1>1, <1>2, <1>3, <1>4, <1>5, <1>6, <1>7, <1>8, AccessProvisions, AccessRetires
        DEF Next, PassStep

\* When an agent is retired its account is disabled, it has no live token, no grant and, if
\* the provisioner made it, no token file - whatever create, restore or reprovision was being
\* carried out when the retire was requested, and however often either was interrupted
\* (requestAgentRetire, recoverRetiringBotUserId, processRetireOperation).
THEOREM RetiredIsPowerless == Spec => []RetiredHasNoAccess
<1>1. Init => Journal /\ Access
  BY JournalInit, AccessInit
<1>2. Journal /\ Access /\ [Next]_vars => (Journal /\ Access)'
  BY JournalStep, AccessStep
<1>3. Access => RetiredHasNoAccess
  BY DEF Access
<1> QED BY <1>1, <1>2, <1>3, PTL DEF Spec

Untaken ==
    bot = "stranger" =>
        bot' \in {"stranger", "absent"} /\ UNCHANGED <<tokens, file, botTeams, members>>

\* No step touches a stranger's account.
LEMMA UntakenStep ==
    ASSUME Journal, Access, [Next]_vars
    PROVE  Untaken
<1> SUFFICES ASSUME bot = "stranger"
             PROVE  bot' \in {"stranger", "absent"} /\ UNCHANGED <<tokens, file, botTeams, members>>
  BY DEF Untaken
<1>1. /\ file = FALSE /\ \A i \in DOMAIN ops : ~ops[i].done.bot
      /\ pass.at \in {"idle", "claim", "load", "bot", "reject", "recover", "complete"}
  BY DEF Access, NoBotYet, Journal, TypeOK
<1>2. CASE PassBot
  <2>1. ~Op.done.bot /\ Taken
    BY <1>1, <1>2, PassOp DEF PassBot, Op, Taken
  <2> QED BY <1>2, <2>1 DEF PassBot
<1>3. CASE Restore
  BY <1>1, <1>3 DEF Restore
<1>4. ASSUME NEW c \in Channels, GrantChannel(c) \/ RevokeGrant(c)
      PROVE  bot' = bot /\ UNCHANGED <<tokens, file, botTeams, members>>
  BY <1>4 DEF GrantChannel, RevokeGrant, mattermost
<1>5. ASSUME NEW allowed \in Wanted, Create(allowed) \/ EditChannels(allowed)
      PROVE  bot' = bot /\ UNCHANGED <<tokens, file, botTeams, members>>
  BY <1>5 DEF Create, EditChannels, mattermost
<1>6. CASE Retire \/ Retry \/ (\E t \in Teams : ChangeTeam(t)) \/ RenameStranger \/ PublishTeam
  BY <1>6 DEF Retire, Retry, ChangeTeam, RenameStranger, PublishTeam, mattermost
<1>7. CASE \/ PassList \/ PassClaim \/ PassLoad \/ PassRecover \/ PassComplete \/ PassReject
           \/ PassRefused \/ PassAbort \/ UNCHANGED vars
  BY <1>7 DEF PassList, PassClaim, PassLoad, PassRecover, PassComplete, PassReject, PassRefused,
     PassAbort, FailOperation, mattermost, vars
<1>8. ~(\/ PassIdentity \/ PassToken \/ PassIssue \/ PassWrite \/ PassTeam \/ PassOthers
        \/ PassListMembers \/ PassJoin \/ PassTrim \/ PassRemove \/ PassRevoke \/ PassDisable
        \/ PassChannels \/ PassLeave \/ PassDelete \/ PassSave)
  BY <1>1 DEF PassIdentity, PassToken, PassIssue, PassWrite, PassTeam, PassOthers,
     PassListMembers, PassJoin, PassTrim, PassRemove, PassRevoke, PassDisable, PassChannels,
     PassLeave, PassDelete, PassSave
<1> QED BY <1>2, <1>3, <1>4, <1>5, <1>6, <1>7, <1>8 DEF Next, Request, PassStep

\* A stranger's account with the agent's username is never enabled, given a token, moved or
\* stripped by any create, retry or retire (ensureBot, findPlausibleGatewayBot).
THEOREM StrangerIsSafe == Spec => StrangerUntouched
<1>1. Init => Journal /\ Access
  BY JournalInit, AccessInit
<1>2. Journal /\ Access /\ [Next]_vars => (Journal /\ Access)'
  BY JournalStep, AccessStep
<1>3. Journal /\ Access /\ [Next]_vars => [Untaken]_vars
  BY UntakenStep
<1> QED BY <1>1, <1>2, <1>3, PTL DEF Spec, StrangerUntouched, Untaken

-----------------------------------------------------------------------------
(* Once settled the bot is where it is configured to be. *)

\* An agent that is not retired is in the configuration; only one of the lifecycle's own is
\* reprovisioned.
ConfigFollows ==
    /\ status \in {"pending", "reconciling", "ready", "failed"} => config.active
    /\ (\E i \in DOMAIN ops : ops[i].kind = "reprovision") => Owned

\* A pass that was superseded ends before the operation that superseded it is claimed.
PassFollows ==
    /\ pass.at # "idle" /\ Stale => ops[current].state = "pending"
    /\ pass.at \notin {"idle", "claim"} /\ ~Stale => Op.state = "running"

At(steps, saves) == pass.at \in steps \/ (pass.at = "save" /\ pass.save \in saves)
LoadedSteps == {"bot", "identity", "token", "issue", "write", "team", "others", "list", "join"}
Target == pass.team \X pass.names
Configured == {config.team} \X config.allowed

\* A reprovision that was not superseded works on the configuration as it is.
ReadIsCurrent ==
    At(LoadedSteps, Saves) /\ Op.kind = "reprovision" =>
        /\ pass.team = {config.team} /\ pass.names = config.allowed
        /\ Resolved /\ pass.known \subseteq KnownNames

\* The teams the bot is in while it is taken out of the others, and what was recorded of it.
InTeam ==
    /\ At({"others"}, {"team"}) => botTeams \subseteq pass.teams \cup pass.team
    /\ At({"others", "list", "join"}, {"joined"}) => Op.done.team = pass.team
    /\ At({"others", "list"}, {}) => Op.done.joined = {}
    /\ At({"list", "join"}, {"joined"}) => botTeams \subseteq pass.team

\* What was joined or found joined stays so until channels are left.
Joining ==
    At({"join"}, {"joined"}) =>
        /\ pass.listed \subseteq members /\ (pass.at = "save" => pass.chan \subseteq members)
        /\ Op.done.joined \subseteq members
        /\ \A c \in Target \ pass.todo : c \in members /\ c[2] \in pass.known

\* Channels are left that are not allowed: by a reprovision none that is configured; by a create
\* or restore possibly one that it recorded as joined.
Trimming ==
    At({"trim", "remove", "complete"}, {}) =>
        IF Op.kind = "reprovision"
          THEN /\ Resolved /\ config.allowed \subseteq KnownNames
               /\ botTeams \subseteq {config.team} /\ Configured \subseteq members
               /\ pass.at = "remove" => pass.chan \cap Configured = {}
          ELSE botTeams \subseteq Op.done.team /\ Op.done.joined \subseteq members \cup trimmed

Converging ==
    pass.at # "idle" /\ ~Stale /\ Op.kind # "retire" =>
        ReadIsCurrent /\ InTeam /\ Joining /\ Trimming

Settling == ConfigFollows /\ PassFollows /\ Converging /\ ReadyIsMember

\* While a pass is under way the agent is not settled.
LEMMA NotSettled ==
    ASSUME Journal, PassFollows, pass.at # "idle"
    PROVE  ~Settled
<1>1. CASE Stale
  BY <1>1 DEF PassFollows, Settled
<1>2. CASE ~Stale
  BY <1>2, PassOp DEF Settled, IsLive, Op
<1> QED BY <1>1, <1>2

\* The journal and the configuration are left alone, and the pass goes on or ends.
LEMMA QuietStep ==
    ASSUME Journal, Settling, pass.at # "idle", UNCHANGED <<row, config>>, Converging',
           pass'.at # "idle" => pass'.op = pass.op /\ pass'.at # "claim" /\ pass.at # "claim"
    PROVE  Settling'
<1>1. ConfigFollows'
  BY DEF Settling, ConfigFollows, row, Owned
<1>2. PassFollows'
  BY DEF Settling, PassFollows, row, Stale, Op
<1>3. ~Settled'
  BY NotSettled DEF Settling, Settled, row, Owned
<1> QED BY <1>1, <1>2, <1>3 DEF Settling, ReadyIsMember

\* A pass that ends leaves nothing to say of it.
LEMMA EndedPass ==
    ASSUME Journal, Settling, pass.at # "idle", UNCHANGED <<row, config>>, EndPass
    PROVE  Settling'
<1>1. pass'.at = "idle"
  BY PassTypes DEF EndPass
<1>2. Converging'
  BY <1>1 DEF Converging
<1> QED BY <1>1, <1>2, QuietStep

\* An operation supersedes the others: the pass, if it goes on, is of one of those.
LEMMA NewOperation ==
    ASSUME Journal, Settling, NEW J \in Seq(Operations), NEW op \in Operations, Pursue(J, op),
           Len(J) = Len(ops), \A k \in 1..Len(J) : J[k].kind = ops[k].kind,
           op.state = "pending", pass' = pass \/ pass' = NoPass,
           op.kind = "reprovision" => Owned,
           status' \in {"pending", "reconciling", "ready", "failed"} => config'.active
    PROVE  Settling'
<1>1. /\ ops' \in Seq(Operations) /\ current' = Len(ops) + 1
      /\ DOMAIN ops' = 1..(Len(ops) + 1) /\ DOMAIN ops = 1..Len(ops) /\ Len(ops) \in Nat
      /\ \A k \in 1..Len(ops) : ops'[k].kind = ops[k].kind
      /\ ops'[Len(ops) + 1] = op
  BY Pursued, LenProperties DEF Journal, TypeOK
<1>2. Owned => Owned'
  BY <1>1 DEF Owned
<1>3. (\E i \in DOMAIN ops' : ops'[i].kind = "reprovision") => Owned'
  <2> SUFFICES ASSUME NEW i \in DOMAIN ops', ops'[i].kind = "reprovision" PROVE Owned'
    OBVIOUS
  <2>1. CASE i \in 1..Len(ops)
    BY <1>1, <1>2, <2>1 DEF Settling, ConfigFollows
  <2>2. CASE i = Len(ops) + 1
    BY <1>1, <1>2, <2>2
  <2> QED BY <1>1, <2>1, <2>2
<1>4. ConfigFollows'
  BY <1>3 DEF ConfigFollows
<1>5. pass'.at # "idle" => pass'.op \in 1..Len(ops)
  BY <1>1, PassTypes DEF Journal, PassIsLive
<1>6. pass'.at # "idle" => Stale'
  BY <1>1, <1>5 DEF Stale
<1>7. ops'[current'].state = "pending"
  BY <1>1
<1>8. PassFollows' /\ Converging'
  BY <1>6, <1>7 DEF PassFollows, Converging
<1>9. ReadyIsMember'
  BY <1>7 DEF ReadyIsMember, Settled
<1> QED BY <1>4, <1>8, <1>9 DEF Settling

\* The provisioner's own steps that leave the journal alone.
BuildStep ==
    \/ PassLoad \/ PassBot \/ PassIdentity \/ PassToken \/ PassIssue \/ PassWrite
    \/ PassTeam \/ PassOthers \/ PassListMembers \/ PassJoin \/ PassTrim \/ PassRemove

\* What these steps do not change.
LEMMA BuildFacts ==
    ASSUME Journal, BuildStep
    PROVE  /\ UNCHANGED <<row, config, directory>> /\ pass \in Passes /\ pass.at \in BuildSteps \ {"claim", "complete", "reject"}
           /\ Resolved' = Resolved /\ KnownNames' = KnownNames /\ Configured' = Configured
<1>1. UNCHANGED <<row, config, directory>> /\ pass \in Passes
  BY DEF BuildStep, PassLoad, PassBot, PassIdentity, PassToken, PassIssue, PassWrite, PassTeam,
         PassOthers, PassListMembers, PassJoin, PassTrim, PassRemove, control, Journal, TypeOK
<1>2. pass.at \in BuildSteps \ {"claim", "complete", "reject"}
  BY DEF BuildStep, PassLoad, PassBot, PassIdentity, PassToken, PassIssue, PassWrite, PassTeam,
         PassOthers, PassListMembers, PassJoin, PassTrim, PassRemove, BuildSteps
<1> QED BY <1>1, <1>2 DEF Resolved, KnownNames, Configured

\* A pass goes on to another step with what it has read.
LEMMA StepFields ==
    ASSUME pass \in Passes
    PROVE  /\ \A s \in Steps : LET p == [pass EXCEPT !.at = s] IN
                /\ p.at = s /\ p.op = pass.op /\ p.save = pass.save
                /\ p.team = pass.team /\ p.names = pass.names /\ p.known = pass.known
                /\ p.teams = pass.teams /\ p.listed = pass.listed /\ p.todo = pass.todo
                /\ p.chan = pass.chan
           /\ \A s \in Saves : LET p == [pass EXCEPT !.at = "save", !.save = s] IN
                /\ p.at = "save" /\ p.op = pass.op /\ p.save = s
                /\ p.team = pass.team /\ p.names = pass.names /\ p.known = pass.known
                /\ p.teams = pass.teams /\ p.listed = pass.listed /\ p.todo = pass.todo
                /\ p.chan = pass.chan
  BY DEF Passes

\* Up to the token: what was read is kept.
LEMMA EarlySteps ==
    ASSUME Settling, pass.at # "idle", UNCHANGED <<config, directory>>,
           At({"bot", "identity", "token", "issue", "write"}, {"bot", "token"}),
           Stale' = Stale, Op'.kind = Op.kind, pass'.team = pass.team, pass'.names = pass.names,
           pass'.known = pass.known,
           \/ pass'.at \in {"identity", "token", "issue", "write", "team", "reject"}
           \/ pass'.at = "save" /\ pass'.save \in {"bot", "token"}
    PROVE  Converging'
<1> SUFFICES ASSUME ~Stale', Op'.kind # "retire"
             PROVE  ReadIsCurrent' /\ InTeam' /\ Joining' /\ Trimming'
  BY DEF Converging
<1>1. ~Stale /\ Op.kind # "retire" /\ Resolved' = Resolved /\ KnownNames' = KnownNames
  BY DEF Resolved, KnownNames
<1>2. ReadIsCurrent
  BY <1>1 DEF Settling, Converging
<1>3. At(LoadedSteps, Saves)
  BY DEF At, LoadedSteps, Saves
<1>4. ReadIsCurrent'
  BY <1>1, <1>2, <1>3 DEF ReadIsCurrent
<1>5. ~At({"others", "list", "join", "trim", "remove", "complete"}, {"team", "joined"})'
  BY DEF At
<1>6. InTeam' /\ Joining' /\ Trimming'
  BY <1>5 DEF At, InTeam, Joining, Trimming
<1> QED BY <1>4, <1>6

\* A pass that goes on in an unchanged journal is as stale as it was, of the same operation.
LEMMA SameOp ==
    ASSUME UNCHANGED row, pass'.op = pass.op
    PROVE  Op' = Op /\ Stale' = Stale
  BY DEF Op, Stale, row

\* loadLifecycleConfig to ensureBotToken.
LEMMA EarlyConverges ==
    ASSUME Journal, Settling,
           PassLoad \/ PassBot \/ PassIdentity \/ PassToken \/ PassIssue \/ PassWrite
    PROVE  Settling'
<1>0. UNCHANGED <<row, config, directory>> /\ pass \in Passes /\ pass.at # "idle"
      /\ Resolved' = Resolved /\ KnownNames' = KnownNames
  BY BuildFacts DEF BuildStep, BuildSteps
<1>1. CASE PassLoad /\ Resolved
  <2>1. pass' = [pass EXCEPT !.at = "bot", !.team = {config.team},
                             !.names = config.allowed, !.known = KnownNames]
    BY <1>1 DEF PassLoad
  <2>2. pass'.at = "bot" /\ pass'.op = pass.op /\ pass'.team = {config.team}
    BY <1>0, <2>1 DEF Passes
  <2>3. pass'.names = config.allowed /\ pass'.known = KnownNames
    BY <1>0, <2>1 DEF Passes
  <2>4. ReadIsCurrent'
    BY <1>0, <1>1, <2>2, <2>3 DEF ReadIsCurrent
  <2>5. InTeam' /\ Joining' /\ Trimming'
    BY <2>2 DEF InTeam, Joining, Trimming, At
  <2>6. Converging' /\ pass.at = "load"
    BY <1>1, <2>4, <2>5 DEF Converging, PassLoad
  <2> QED BY <1>0, <2>2, <2>6, QuietStep
<1>2. CASE PassLoad /\ ~Resolved
  BY <1>0, <1>2, EndedPass DEF PassLoad
<1>3. ASSUME pass.at \in {"bot", "identity", "token", "issue", "write"},
             \/ \E s \in {"identity", "token", "issue", "write", "team", "reject"} : Goto(s)
             \/ \E s \in {"bot", "token"} : SaveNext(s)
      PROVE  Settling'
  <2>1. /\ pass'.op = pass.op /\ pass'.team = pass.team /\ pass'.names = pass.names
        /\ pass'.known = pass.known
        /\ \/ pass'.at \in {"identity", "token", "issue", "write", "team", "reject"}
           \/ pass'.at = "save" /\ pass'.save \in {"bot", "token"}
    <3>1. CASE \E s \in {"identity", "token", "issue", "write", "team", "reject"} : Goto(s)
      <4>1. PICK s \in {"identity", "token", "issue", "write", "team", "reject"} :
                   pass' = [pass EXCEPT !.at = s]
        BY <3>1 DEF Goto
      <4>2. pass'.at = s /\ pass'.op = pass.op /\ pass'.team = pass.team
        BY <1>0, <4>1 DEF Passes
      <4>3. pass'.names = pass.names /\ pass'.known = pass.known
        BY <1>0, <4>1 DEF Passes
      <4> QED BY <4>2, <4>3
    <3>2. CASE \E s \in {"bot", "token"} : SaveNext(s)
      <4>1. PICK s \in {"bot", "token"} : pass' = [pass EXCEPT !.at = "save", !.save = s]
        BY <3>2 DEF SaveNext
      <4>2. pass'.at = "save" /\ pass'.save = s /\ pass'.op = pass.op /\ pass'.team = pass.team
        BY <1>0, <4>1 DEF Passes
      <4>3. pass'.names = pass.names /\ pass'.known = pass.known
        BY <1>0, <4>1 DEF Passes
      <4> QED BY <4>2, <4>3
    <3> QED BY <1>3, <3>1, <3>2
  <2>2. At({"bot", "identity", "token", "issue", "write"}, {"bot", "token"})
    BY <1>3 DEF At
  <2>3. Converging'
    BY <1>0, <2>1, <2>2, SameOp, EarlySteps
  <2> QED BY <1>0, <1>3, <2>1, <2>3, QuietStep
<1>4. CASE PassBot \/ PassIdentity \/ PassToken \/ PassIssue \/ PassWrite
  BY <1>3, <1>4 DEF PassBot, PassIdentity, PassToken, PassIssue, PassWrite
<1> QED BY <1>1, <1>2, <1>4

\* The parts of Converging hold of a pass that was not superseded.
LEMMA Converges ==
    ASSUME Settling, pass.at # "idle", ~Stale, Op.kind # "retire"
    PROVE  ReadIsCurrent /\ InTeam /\ Joining /\ Trimming
  BY DEF Settling, Converging

\* convergeMembership up to the list of the channels the bot is in.
LEMMA TeamConverges ==
    ASSUME Journal, Settling, PassTeam \/ PassOthers \/ PassListMembers
    PROVE  Settling'
<1>0. UNCHANGED <<row, config, directory>> /\ pass \in Passes /\ pass.at # "idle"
      /\ Resolved' = Resolved /\ KnownNames' = KnownNames
  BY BuildFacts DEF BuildStep, BuildSteps
<1>1. CASE PassTeam
  <2>1. /\ pass.at = "team" /\ botTeams' = botTeams \cup pass.team
        /\ pass' = [pass EXCEPT !.at = "save", !.save = "team", !.teams = botTeams]
    BY <1>1 DEF PassTeam
  <2>2. pass'.at = "save" /\ pass'.save = "team" /\ pass'.teams = botTeams /\ pass'.op = pass.op
    BY <1>0, <2>1 DEF Passes
  <2>3. pass'.team = pass.team /\ pass'.names = pass.names /\ pass'.known = pass.known
    BY <1>0, <2>1 DEF Passes
  <2>4. ASSUME ~Stale', Op'.kind # "retire"
        PROVE  ReadIsCurrent' /\ InTeam' /\ Joining' /\ Trimming'
    <3>1. Op' = Op /\ ReadIsCurrent
      BY <1>0, <2>2, <2>4, SameOp, Converges
    <3>2. ReadIsCurrent'
      BY <1>0, <2>1, <2>3, <3>1 DEF ReadIsCurrent, At, LoadedSteps
    <3>3. InTeam'
      BY <2>1, <2>2, <2>3 DEF InTeam, At
    <3>4. Joining' /\ Trimming'
      BY <2>2 DEF Joining, Trimming, At
    <3> QED BY <3>2, <3>3, <3>4
  <2> QED BY <1>0, <2>1, <2>2, <2>4, QuietStep DEF Converging
<1>2. CASE PassOthers
  <2>1. /\ pass.at = "others" /\ botTeams' = botTeams \ (pass.teams \ pass.team)
        /\ pass' = [pass EXCEPT !.at = "list", !.teams = {}]
    BY <1>2 DEF PassOthers
  <2>2. pass'.at = "list" /\ pass'.op = pass.op
        /\ pass'.team = pass.team /\ pass'.names = pass.names /\ pass'.known = pass.known
    BY <1>0, <2>1 DEF Passes
  <2>3. ASSUME ~Stale', Op'.kind # "retire"
        PROVE  ReadIsCurrent' /\ InTeam' /\ Joining' /\ Trimming'
    <3>1. Op' = Op /\ ReadIsCurrent /\ InTeam
      BY <1>0, <2>2, <2>3, SameOp, Converges
    <3>2. ReadIsCurrent'
      BY <1>0, <2>1, <2>2, <3>1 DEF ReadIsCurrent, At, LoadedSteps
    <3>3. InTeam'
      BY <2>1, <2>2, <3>1 DEF InTeam, At
    <3>4. Joining' /\ Trimming'
      BY <2>2 DEF Joining, Trimming, At
    <3> QED BY <3>2, <3>3, <3>4
  <2> QED BY <1>0, <2>1, <2>2, <2>3, QuietStep DEF Converging
<1>3. CASE PassListMembers
  <2>1. /\ pass.at = "list" /\ UNCHANGED <<botTeams, members>>
        /\ pass' = [pass EXCEPT !.at = "join", !.todo = pass.team \X pass.names,
                                !.listed = {c \in members : c[1] \in pass.team}]
    BY <1>3 DEF PassListMembers, mattermost
  <2>2. pass'.at = "join" /\ pass'.op = pass.op
        /\ pass'.team = pass.team /\ pass'.names = pass.names /\ pass'.known = pass.known
    BY <1>0, <2>1 DEF Passes
  <2>3. pass'.todo = pass.team \X pass.names /\ pass'.listed \subseteq members
    BY <1>0, <2>1 DEF Passes
  <2>4. ASSUME ~Stale', Op'.kind # "retire"
        PROVE  ReadIsCurrent' /\ InTeam' /\ Joining' /\ Trimming'
    <3>1. Op' = Op /\ ReadIsCurrent /\ InTeam
      BY <1>0, <2>2, <2>4, SameOp, Converges
    <3>2. ReadIsCurrent'
      BY <1>0, <2>1, <2>2, <3>1 DEF ReadIsCurrent, At, LoadedSteps
    <3>3. InTeam'
      BY <2>1, <2>2, <3>1 DEF InTeam, At
    <3>4. Joining'
      <4>1. Op.done.joined = {}
        BY <2>1, <3>1 DEF InTeam, At
      <4>2. Target' \ pass'.todo = {}
        BY <2>2, <2>3 DEF Target
      <4> QED BY <2>1, <2>2, <2>3, <3>1, <4>1, <4>2 DEF Joining
    <3>5. Trimming'
      BY <2>2 DEF Trimming, At
    <3> QED BY <3>2, <3>3, <3>4, <3>5
  <2> QED BY <1>0, <2>1, <2>2, <2>4, QuietStep DEF Converging
<1> QED BY <1>1, <1>2, <1>3

\* Into the configured channels.
LEMMA JoinConverges ==
    ASSUME Journal, Settling, PassJoin
    PROVE  Settling'
<1>0. UNCHANGED <<row, config, directory, botTeams>> /\ pass \in Passes /\ pass.at = "join"
      /\ Resolved' = Resolved /\ KnownNames' = KnownNames /\ Configured' = Configured
  BY BuildFacts DEF BuildStep, PassJoin
<1>1. CASE pass.todo = {} /\ UNCHANGED members
           /\ pass' = [NoPass EXCEPT !.at = "trim", !.op = pass.op, !.todo = pass.listed]
  <2>1. pass'.at = "trim" /\ pass'.op = pass.op
    BY <1>1 DEF NoPass
  <2>2. ASSUME ~Stale', Op'.kind # "retire"
        PROVE  ReadIsCurrent' /\ InTeam' /\ Joining' /\ Trimming'
    <3>1. Op' = Op /\ ReadIsCurrent /\ InTeam /\ Joining
      BY <1>0, <2>1, <2>2, SameOp, Converges
    <3>2. ReadIsCurrent' /\ InTeam' /\ Joining'
      BY <2>1 DEF ReadIsCurrent, InTeam, Joining, At, LoadedSteps
    <3>3. \A c \in Target : c \in members /\ c[2] \in pass.known
      BY <1>0, <1>1, <3>1 DEF Joining, At
    <3>4. Op.done.team = pass.team /\ botTeams \subseteq pass.team /\ Op.done.joined \subseteq members
      BY <1>0, <3>1 DEF InTeam, Joining, At
    <3>5. CASE Op.kind = "reprovision"
      <4>1. /\ pass.team = {config.team} /\ pass.names = config.allowed
            /\ Resolved /\ pass.known \subseteq KnownNames
        BY <1>0, <3>1, <3>5 DEF ReadIsCurrent, At, LoadedSteps
      <4>2. Configured \subseteq members
        BY <3>3, <4>1 DEF Target, Configured
      <4>3. config.allowed \subseteq KnownNames
        <5> SUFFICES ASSUME NEW n \in config.allowed PROVE n \in KnownNames
          OBVIOUS
        <5>1. <<config.team, n>> \in Target
          BY <4>1 DEF Target
        <5>2. <<config.team, n>>[2] \in pass.known
          BY <3>3, <5>1
        <5> QED BY <4>1, <5>2
      <4>4. Trimming'
        BY <1>0, <1>1, <2>1, <3>1, <3>4, <3>5, <4>1, <4>2, <4>3 DEF Trimming
      <4> QED BY <3>2, <4>4
    <3>6. CASE Op.kind # "reprovision"
      <4>1. Trimming'
        BY <1>0, <1>1, <2>1, <3>1, <3>4, <3>6 DEF Trimming
      <4> QED BY <3>2, <4>1
    <3> QED BY <3>5, <3>6
  <2> QED BY <1>0, <2>1, <2>2, QuietStep DEF Converging
<1>2. CASE EndPass
  BY <1>0, <1>2, EndedPass
<1>3. ASSUME NEW c \in pass.todo, c[2] \in pass.known, members' = members \cup ({c} \ pass.listed),
             pass' = [pass EXCEPT !.at = "save", !.save = "joined",
                                  !.chan = {c}, !.todo = @ \ {c}]
      PROVE  Settling'
  <2>1. pass'.at = "save" /\ pass'.save = "joined" /\ pass'.op = pass.op /\ pass'.team = pass.team
    BY <1>0, <1>3 DEF Passes
  <2>2. pass'.names = pass.names /\ pass'.known = pass.known /\ pass'.listed = pass.listed
    BY <1>0, <1>3 DEF Passes
  <2>3. pass'.chan = {c} /\ pass'.todo = pass.todo \ {c}
    BY <1>0, <1>3 DEF Passes
  <2>4. ASSUME ~Stale', Op'.kind # "retire"
        PROVE  ReadIsCurrent' /\ InTeam' /\ Joining' /\ Trimming'
    <3>1. Op' = Op /\ ReadIsCurrent /\ InTeam /\ Joining
      BY <1>0, <2>1, <2>4, SameOp, Converges
    <3>2. ReadIsCurrent'
      BY <1>0, <2>1, <2>2, <3>1 DEF ReadIsCurrent, At, LoadedSteps
    <3>3. InTeam'
      BY <1>0, <2>1, <3>1 DEF InTeam, At
    <3>4. Joining'
      <4>1. /\ pass.listed \subseteq members /\ Op.done.joined \subseteq members
            /\ \A d \in Target \ pass.todo : d \in members /\ d[2] \in pass.known
        BY <1>0, <3>1 DEF Joining, At
      <4>2. Target' = Target
        BY <2>1, <2>2 DEF Target
      <4>3. \A d \in Target' \ pass'.todo : d \in members' /\ d[2] \in pass'.known
        BY <1>3, <2>2, <2>3, <4>1, <4>2
      <4>4. pass'.chan \subseteq members' /\ pass'.listed \subseteq members'
        BY <1>3, <2>2, <2>3, <4>1
      <4>5. Op'.done.joined \subseteq members'
        BY <1>3, <3>1, <4>1
      <4> QED BY <4>3, <4>4, <4>5 DEF Joining
    <3>5. Trimming'
      BY <2>1 DEF Trimming, At
    <3> QED BY <3>2, <3>3, <3>4, <3>5
  <2> QED BY <1>0, <2>1, <2>4, QuietStep DEF Converging
<1> QED BY <1>1, <1>2, <1>3 DEF PassJoin

\* Out of the channels that are not allowed now.
LEMMA TrimConverges ==
    ASSUME Journal, Settling, PassTrim \/ PassRemove
    PROVE  Settling'
<1>0. UNCHANGED <<row, config, directory, botTeams>> /\ pass \in Passes
      /\ pass.at \in {"trim", "remove"}
      /\ Resolved' = Resolved /\ KnownNames' = KnownNames /\ Configured' = Configured
  BY BuildFacts DEF BuildStep, PassTrim, PassRemove, control, mattermost
<1>1. ASSUME pass'.op = pass.op, pass'.at \in {"trim", "remove", "complete"},
             \/ UNCHANGED <<members, trimmed>>
             \/ /\ pass.at = "remove" /\ members' = members \ pass.chan
                /\ trimmed' = trimmed \cup pass.chan,
             pass'.at = "remove" => \E c : c \notin AllowedIds /\ pass'.chan = {c}
      PROVE  Settling'
  <2>1. ASSUME ~Stale', Op'.kind # "retire"
        PROVE  ReadIsCurrent' /\ InTeam' /\ Joining' /\ Trimming'
    <3>1. Op' = Op /\ Trimming
      BY <1>0, <1>1, <2>1, SameOp, Converges
    <3>2. ReadIsCurrent' /\ InTeam' /\ Joining'
      BY <1>1 DEF ReadIsCurrent, InTeam, Joining, At, LoadedSteps
    <3>3. CASE Op.kind = "reprovision"
      <4>1. /\ Resolved /\ config.allowed \subseteq KnownNames
            /\ botTeams \subseteq {config.team} /\ Configured \subseteq members
            /\ pass.at = "remove" => pass.chan \cap Configured = {}
        BY <1>0, <3>1, <3>3 DEF Trimming, At
      <4>2. Configured \subseteq AllowedIds
        BY <4>1 DEF Configured, AllowedIds, ConfiguredIds
      <4>3. pass'.at = "remove" => pass'.chan \cap Configured = {}
        BY <1>1, <4>2
      <4>4. Configured \subseteq members'
        BY <1>1, <4>1
      <4>5. Trimming'
        BY <1>0, <3>1, <3>3, <4>1, <4>3, <4>4 DEF Trimming
      <4> QED BY <3>2, <4>5
    <3>4. CASE Op.kind # "reprovision"
      <4>1. botTeams \subseteq Op.done.team /\ Op.done.joined \subseteq members \cup trimmed
        BY <1>0, <3>1, <3>4 DEF Trimming, At
      <4>2. Op.done.joined \subseteq members' \cup trimmed'
        BY <1>1, <4>1
      <4>3. Trimming'
        BY <1>0, <3>1, <3>4, <4>1, <4>2 DEF Trimming
      <4> QED BY <3>2, <4>3
    <3> QED BY <3>3, <3>4
  <2> QED BY <1>0, <1>1, <2>1, QuietStep DEF Converging
<1>2. CASE PassTrim
  <2>1. UNCHANGED <<members, trimmed>>
    BY <1>2 DEF PassTrim, control, mattermost
  <2>2. CASE Goto("complete")
    <3>1. pass'.op = pass.op /\ pass'.at = "complete"
      BY <1>0, <2>2, StepFields DEF Goto, Steps
    <3> QED BY <1>1, <2>1, <3>1
  <2>3. ASSUME NEW c \in pass.todo,
               pass' = [pass EXCEPT !.at = IF c \in AllowedIds THEN "trim" ELSE "remove",
                                    !.todo = @ \ {c},
                                    !.chan = IF c \in AllowedIds THEN {} ELSE {c}]
        PROVE  Settling'
    <3>1. pass'.op = pass.op /\ pass'.at = IF c \in AllowedIds THEN "trim" ELSE "remove"
      BY <1>0, <2>3 DEF Passes
    <3>2. pass'.chan = IF c \in AllowedIds THEN {} ELSE {c}
      BY <1>0, <2>3 DEF Passes
    <3> QED BY <1>1, <2>1, <3>1, <3>2
  <2> QED BY <1>2, <2>2, <2>3 DEF PassTrim
<1>3. CASE PassRemove
  <2>1. /\ pass.at = "remove" /\ members' = members \ pass.chan
        /\ trimmed' = trimmed \cup pass.chan
        /\ pass' = [pass EXCEPT !.at = "trim", !.chan = {}]
    BY <1>3 DEF PassRemove
  <2>2. pass'.op = pass.op /\ pass'.at = "trim"
    BY <1>0, <2>1 DEF Passes
  <2> QED BY <1>1, <2>1, <2>2
<1> QED BY <1>2, <1>3

\* An operation under way that is not a retire is of an agent in the configuration.
LEMMA PassActive ==
    ASSUME Journal, Settling, pass.at # "idle", ~Stale, Op.kind # "retire"
    PROVE  config.active
<1>1. IsLive(Op) /\ Op.kind # "adopt" /\ Op.kind \in Kinds /\ pass.op \in DOMAIN ops
  BY PassOp DEF Operations
<1>2. status \in {"pending", "reconciling", "ready"}
  BY <1>1 DEF Journal, StatusFollows, Op, Kinds
<1> QED BY <1>2 DEF Settling, ConfigFollows

\* The current operation is started, or records a checkpoint.
LEMMA OwnStep ==
    ASSUME Journal, Settling, pass.at # "idle", ~Stale, current' = current, config' = config,
           DOMAIN ops' = DOMAIN ops, \A k \in DOMAIN ops : ops'[k].kind = ops[k].kind,
           ops'[pass.op].state = "running", pass'.op = pass.op, Converging',
           status' = status \/ Op.kind \in {"create", "restore"}
    PROVE  Settling'
<1>1. Owned' <=> Owned
  BY DEF Owned
<1>2. (\E i \in DOMAIN ops' : ops'[i].kind = "reprovision") => Owned'
  BY <1>1 DEF Settling, ConfigFollows
<1>3. status' # status => config.active
  BY PassActive
<1>4. ConfigFollows'
  BY <1>2, <1>3 DEF Settling, ConfigFollows
<1>5. ~Stale' /\ Op'.state = "running" /\ current = pass.op
  BY DEF Stale, Op
<1>6. PassFollows' /\ ReadyIsMember'
  BY <1>5 DEF PassFollows, ReadyIsMember, Settled
<1> QED BY <1>4, <1>6 DEF Settling

\* The current operation succeeds or fails, and the pass ends with it.
LEMMA SettleStep ==
    ASSUME Journal, Settling, pass.at # "idle", ~Stale, NEW st \in OpStates, config' = config,
           ops' = [ops EXCEPT ![pass.op].state = st], current' = current, EndPass,
           Op.kind = "retire" => status' \in {"retiring", "retired"}, ReadyIsMember'
    PROVE  Settling'
<1>1. ops \in Seq(Operations) /\ pass.op \in 1..Len(ops)
  BY PassOp
<1>2. DOMAIN ops' = DOMAIN ops /\ \A k \in DOMAIN ops : ops'[k].kind = ops[k].kind
  BY <1>1, StateChange
<1>3. (\E i \in DOMAIN ops' : ops'[i].kind = "reprovision") => Owned'
  BY <1>2 DEF Owned, Settling, ConfigFollows
<1>4. ConfigFollows'
  BY <1>3, PassActive DEF ConfigFollows
<1>5. pass'.at = "idle"
  BY PassTypes DEF EndPass
<1> QED BY <1>4, <1>5 DEF Settling, PassFollows, Converging

\* markProvisioning.
LEMMA ClaimConverges ==
    ASSUME Journal, Settling, PassClaim
    PROVE  Settling'
<1>1. pass.at = "claim" /\ pass \in Passes /\ config' = config
  BY DEF PassClaim, Journal, TypeOK
<1>2. CASE Stale \/ (Op.kind # "retire" /\ ~Resolved)
  <2>1. EndPass /\ UNCHANGED row
    BY <1>2, Zenon DEF PassClaim
  <2> QED BY <1>1, <2>1, EndedPass
<1>3. CASE ~(Stale \/ (Op.kind # "retire" /\ ~Resolved))
  <2>1. /\ ops' = [ops EXCEPT ![pass.op].state = "running"] /\ current' = current
        /\ status' = (IF Op.kind \in {"create", "restore"} THEN "reconciling" ELSE status)
        /\ pass' = [pass EXCEPT !.at = IF Op.kind = "retire" THEN "recover" ELSE "load"]
    BY <1>3 DEF PassClaim, Goto
  <2>2. pass'.op = pass.op /\ pass'.at \in {"recover", "load"}
    BY <1>1, <2>1 DEF Passes
  <2>3. ops \in Seq(Operations) /\ pass.op \in 1..Len(ops)
    BY <1>1, PassOp
  <2>4. /\ DOMAIN ops' = DOMAIN ops /\ \A k \in DOMAIN ops : ops'[k].kind = ops[k].kind
        /\ ops'[pass.op].state = "running"
    BY <2>1, <2>3, StateChange DEF OpStates
  <2>5. Converging'
    BY <2>2 DEF Converging, ReadIsCurrent, InTeam, Joining, Trimming, At, LoadedSteps
  <2>6. status' = status \/ Op.kind \in {"create", "restore"}
    BY <2>1
  <2> QED BY <1>1, <1>3, <2>1, <2>2, <2>4, <2>5, <2>6, OwnStep
<1> QED BY <1>2, <1>3

\* runLockedProvisionerPass.
LEMMA ListConverges ==
    ASSUME Journal, Settling, PassList
    PROVE  Settling'
<1>1. UNCHANGED row /\ config' = config
  BY DEF PassList, control
<1>2. /\ pass'.op = current /\ IsLive(ops[current]) /\ pass'.at \in {"claim", "recover", "load"}
      /\ pass'.at # "claim" => ops[current].state = "running"
  BY TakenUp
<1>3. ~Stale' /\ Op' = ops[current]
  BY <1>1, <1>2 DEF Stale, Op, row
<1>4. PassFollows'
  BY <1>2, <1>3 DEF PassFollows
<1>5. Converging'
  BY <1>2 DEF Converging, ReadIsCurrent, InTeam, Joining, Trimming, At, LoadedSteps
<1>6. ConfigFollows'
  BY <1>1 DEF Settling, ConfigFollows, row, Owned
<1>7. ~Settled'
  BY <1>1, <1>2 DEF Settled, IsLive, row
<1> QED BY <1>4, <1>5, <1>6, <1>7 DEF Settling, ReadyIsMember

\* checkpointOperation: what is recorded of the team and the channels is so.
LEMMA SaveConverges ==
    ASSUME Journal, Access, Settling, PassSave
    PROVE  Settling'
<1>0. pass \in Passes /\ pass.at = "save" /\ status' = status /\ current' = current
      /\ UNCHANGED <<config, directory, botTeams, members, trimmed>>
  BY DEF PassSave, mattermost, Journal, TypeOK
<1>1. CASE ~MayRecord
  <2>1. EndPass /\ UNCHANGED row
    BY <1>0, <1>1 DEF PassSave, row
  <2> QED BY <1>0, <2>1, EndedPass
<1>2. CASE MayRecord
  <2> DEFINE d == Saved(Op.done)
  <2>1. /\ ops' = [ops EXCEPT ![pass.op].done = d]
        /\ pass' = [pass EXCEPT !.at = After[pass.save], !.chan = {}, !.save = "bot"]
    BY <1>2 DEF PassSave, Op
  <2>2. /\ ops \in Seq(Operations) /\ DOMAIN ops = 1..Len(ops) /\ pass.op \in 1..Len(ops)
        /\ Op.done \in Checkpoints /\ ~Stale /\ Op.state = "running"
    BY <1>0, <1>2, PassOp DEF MayRecord, Op
  <2>3. d \in Checkpoints
    BY <1>0, <2>2, SavedType
  <2>4. /\ DOMAIN ops' = DOMAIN ops /\ \A k \in DOMAIN ops : ops'[k].kind = ops[k].kind
        /\ ops'[pass.op].done = d /\ ops'[pass.op].state = "running"
    <3> HIDE DEF d
    <3> QED BY <2>1, <2>2, <2>3, DoneChange DEF Op
  <2>5. pass'.op = pass.op /\ pass'.at = After[pass.save] /\ pass.save \in Saves
    BY <1>0, <2>1 DEF Passes
  <2>6. pass'.team = pass.team /\ pass'.names = pass.names /\ pass'.known = pass.known
    BY <1>0, <2>1 DEF Passes
  <2>7. pass'.teams = pass.teams /\ pass'.listed = pass.listed /\ pass'.todo = pass.todo
    BY <1>0, <2>1 DEF Passes
  <2>8. Op'.done = d /\ Op'.kind = Op.kind /\ ~Stale'
        /\ Resolved' = Resolved /\ KnownNames' = KnownNames
    BY <1>0, <2>2, <2>4, <2>5 DEF Op, Stale, Resolved, KnownNames
  <2>9. Converging'
    <3> SUFFICES ASSUME Op.kind # "retire" PROVE Converging'
      BY <2>8 DEF Converging
    <3>1. pass.save \in {"bot", "token", "team", "joined"}
      BY <1>0, <2>5 DEF Access, PassKind, Op, BuildSteps, RetireSaves, Saves
    <3>2. ReadIsCurrent /\ InTeam /\ Joining
      BY <1>0, <2>2, Converges
    <3>3. CASE pass.save \in {"bot", "token"}
      <4>1. pass'.at \in {"identity", "team"} /\ At({"bot", "identity", "token", "issue", "write"}, {"bot", "token"})
        BY <1>0, <2>5, <3>3 DEF After, At
      <4>2. Stale' = Stale
        BY <2>2, <2>8 DEF Stale
      <4> QED BY <1>0, <2>6, <2>8, <4>1, <4>2, EarlySteps
    <3>4. CASE pass.save = "team"
      <4>1. pass'.at = "others" /\ d = [Op.done EXCEPT !.team = pass.team, !.joined = {}]
        BY <2>5, <3>4 DEF After, Saved
      <4>2. d.team = pass.team /\ d.joined = {}
        BY <2>2, <4>1 DEF Checkpoints
      <4>3. ReadIsCurrent'
        BY <1>0, <2>5, <2>6, <2>8, <3>2 DEF ReadIsCurrent, At
      <4>4. InTeam'
        BY <1>0, <2>6, <2>7, <2>8, <3>2, <3>4, <4>1, <4>2 DEF InTeam, At
      <4>5. Joining' /\ Trimming'
        BY <4>1 DEF Joining, Trimming, At
      <4> QED BY <4>3, <4>4, <4>5 DEF Converging
    <3>5. CASE pass.save = "joined"
      <4>1. pass'.at = "join" /\ d = [Op.done EXCEPT !.joined = @ \cup pass.chan]
        BY <2>5, <3>5 DEF After, Saved
      <4>2. d.team = Op.done.team /\ d.joined = Op.done.joined \cup pass.chan
        BY <2>2, <4>1 DEF Checkpoints
      <4>3. ReadIsCurrent'
        BY <1>0, <2>5, <2>6, <2>8, <3>2 DEF ReadIsCurrent, At
      <4>4. InTeam'
        BY <1>0, <2>6, <2>8, <3>2, <3>5, <4>1, <4>2 DEF InTeam, At
      <4>5. /\ pass.listed \subseteq members /\ pass.chan \subseteq members
            /\ Op.done.joined \subseteq members
            /\ \A c \in Target \ pass.todo : c \in members /\ c[2] \in pass.known
        BY <1>0, <3>2, <3>5 DEF Joining, At
      <4>6. Target' = Target
        BY <2>6 DEF Target
      <4>7. Joining'
        BY <1>0, <2>6, <2>7, <2>8, <4>1, <4>2, <4>5, <4>6 DEF Joining
      <4>8. Trimming'
        BY <4>1 DEF Trimming, At
      <4> QED BY <4>3, <4>4, <4>7, <4>8 DEF Converging
    <3> QED BY <3>1, <3>3, <3>4, <3>5
  <2> HIDE DEF d
  <2> QED BY <1>0, <2>2, <2>4, <2>5, <2>9, OwnStep
<1> QED BY <1>1, <1>2

\* The steps of a retire say nothing of where the bot is to be.
LEMMA RetireConverges ==
    ASSUME Journal, Access, Settling,
           PassRecover \/ PassRevoke \/ PassDisable \/ PassChannels \/ PassLeave \/ PassDelete
    PROVE  Settling'
<1>1. UNCHANGED <<row, config>> /\ pass \in Passes
  BY DEF PassRecover, PassRevoke, PassDisable, PassChannels, PassLeave, PassDelete, control,
         Journal, TypeOK
<1>2. pass.at \in {"recover", "revoke", "disable", "channels", "leave", "delete"}
  BY DEF PassRecover, PassRevoke, PassDisable, PassChannels, PassLeave, PassDelete
<1>3. Op.kind = "retire"
  BY <1>2 DEF Access, PassKind, BuildSteps, Op
<1>4. pass'.op = pass.op /\ pass'.at # "claim"
  <2>1. CASE PassRecover \/ PassRevoke \/ PassDisable \/ PassDelete
    <3>1. \/ \E s \in {"revoke", "complete", "disable", "channels"} : pass' = [pass EXCEPT !.at = s]
          \/ \E s \in {"revoked", "disabled", "deleted"} :
                pass' = [pass EXCEPT !.at = "save", !.save = s]
      BY <2>1 DEF PassRecover, PassRevoke, PassDisable, PassDelete, Goto, SaveNext
    <3> QED BY <1>1, <3>1 DEF Passes
  <2>2. CASE PassChannels \/ PassLeave
    BY <1>1, <2>2 DEF PassChannels, PassLeave, Goto, Passes
  <2> QED BY <2>1, <2>2
<1>5. Op' = Op
  BY <1>1, <1>4, SameOp
<1>6. Converging'
  BY <1>3, <1>5 DEF Converging
<1> QED BY <1>1, <1>2, <1>4, <1>6, QuietStep

\* completeOperation: what was done is what is configured, or a reprovision follows.
LEMMA CompleteConverges ==
    ASSUME Journal, Settling, PassComplete
    PROVE  Settling'
<1>0. pass.at = "complete" /\ EndPass /\ UNCHANGED <<config, botTeams, members, trimmed>>
  BY DEF PassComplete, mattermost
<1>1. CASE Stale \/ ~IsLive(Op)
  <2>1. UNCHANGED row
    BY <1>1, Zenon DEF PassComplete
  <2> QED BY <1>0, <2>1, EndedPass
<1>2. CASE ~(Stale \/ ~IsLive(Op))
  <2> DEFINE J == [ops EXCEPT ![pass.op].state = "succeeded"]
             op == NewOp("reprovision", NoCheckpoints)
  <2>1. /\ status' = IF Op.kind = "retire" THEN "retired" ELSE "ready"
        /\ IF Drifted THEN Pursue(J, op) ELSE ops' = J /\ UNCHANGED current
    BY <1>2 DEF PassComplete
  <2>2. ops \in Seq(Operations) /\ DOMAIN ops = 1..Len(ops) /\ pass.op \in 1..Len(ops) /\ ~Stale
        /\ current = pass.op /\ Op \in Operations /\ Op.kind # "adopt"
    BY <1>0, <1>2, PassOp
  <2>3. "succeeded" \in OpStates
    BY DEF OpStates
  <2>4. J \in Seq(Operations) /\ Len(J) = Len(ops)
        /\ (\A k \in 1..Len(J) : J[k].kind = ops[k].kind) /\ J[pass.op].kind = Op.kind
    BY <2>2, <2>3, StateChange DEF Op
  <2>5. CASE Drifted
    <3>1. op \in Operations /\ op.kind = "reprovision" /\ op.state = "pending"
      BY NewOpType, NoCheckpointsType DEF Kinds, NewOp
    <3>2. Op.kind \in {"create", "restore"} /\ Owned
      BY <2>2, <2>5 DEF Drifted, Owned, Op
    <3>3. config'.active
      BY <1>0, <2>2, <3>2, PassActive
    <3>4. Pursue(J, op) /\ pass' = NoPass
      BY <1>0, <2>1, <2>5 DEF EndPass
    <3> HIDE DEF J, op
    <3> QED BY <2>4, <3>1, <3>2, <3>3, <3>4, NewOperation
  <2>6. CASE ~Drifted
    <3>1. ops' = J /\ current' = current
      BY <2>1, <2>6
    <3>2. ReadyIsMember'
      <4> SUFFICES ASSUME Settled' PROVE ReadyIsMember'
        BY DEF ReadyIsMember
      <4>1. Op.kind # "retire" /\ ops'[current'].kind = Op.kind
        BY <2>1, <2>2, <2>4, <3>1 DEF Settled
      <4>2. Trimming
        BY <1>0, <2>2, <4>1, Converges
      <4>3. Missing' = Configured \ members
        BY <1>0 DEF Missing, Configured
      <4>4. CASE Op.kind = "reprovision"
        BY <1>0, <4>1, <4>2, <4>3, <4>4 DEF ReadyIsMember, Trimming, At
      <4>5. CASE Op.kind # "reprovision"
        <5>1. Op.kind \in {"create", "restore"}
          BY <2>2, <4>1, <4>5 DEF Operations, Kinds
        <5>2. /\ Op.done.team = {config.team} /\ config.allowed \subseteq KnownNames
              /\ Op.done.joined = ConfiguredIds
          BY <2>6, <5>1 DEF Drifted
        <5>3. ConfiguredIds = Configured
          BY <5>2 DEF ConfiguredIds, Configured
        <5>4. botTeams \subseteq Op.done.team /\ Op.done.joined \subseteq members \cup trimmed
          BY <1>0, <4>2, <4>5 DEF Trimming, At
        <5> QED BY <1>0, <4>1, <4>3, <4>5, <5>2, <5>3, <5>4 DEF ReadyIsMember
      <4> QED BY <4>4, <4>5
    <3>3. Op.kind = "retire" => status' \in {"retiring", "retired"}
      BY <2>1
    <3> QED BY <1>0, <2>2, <2>3, <3>1, <3>2, <3>3, SettleStep
  <2> QED BY <2>5, <2>6
<1> QED BY <1>1, <1>2

\* failOperation: an agent whose operation failed is not settled.
LEMMA FailConverges ==
    ASSUME Journal, Settling, pass.at # "idle", FailOperation
    PROVE  Settling'
<1>0. EndPass /\ config' = config
  BY DEF FailOperation
<1>1. CASE Stale \/ ~IsLive(Op)
  <2>1. UNCHANGED row
    BY <1>1, Zenon DEF FailOperation
  <2> QED BY <1>0, <2>1, EndedPass
<1>2. CASE ~(Stale \/ ~IsLive(Op))
  <2>1. /\ ops' = [ops EXCEPT ![pass.op].state = "failed"] /\ current' = current
        /\ status' = CASE Op.kind = "retire" -> "retiring"
                       [] Op.kind = "reprovision" -> "ready"
                       [] OTHER -> "failed"
    BY <1>2, Zenon DEF FailOperation
  <2>2. ops \in Seq(Operations) /\ pass.op \in 1..Len(ops) /\ current = pass.op /\ ~Stale
    BY <1>2, PassOp
  <2>3. ops'[current'].state = "failed" /\ "failed" \in OpStates
    BY <2>1, <2>2, StateChange DEF OpStates
  <2>4. ReadyIsMember'
    BY <2>3 DEF ReadyIsMember, Settled
  <2>5. Op.kind = "retire" => status' \in {"retiring", "retired"}
    BY <2>1
  <2> QED BY <1>0, <2>1, <2>2, <2>3, <2>4, <2>5, SettleStep
<1> QED BY <1>1, <1>2

\* Members are added or more channels are published.
LEMMA OutsideStep ==
    ASSUME Settling, UNCHANGED <<row, pass, config, botTeams, trimmed>>,
           members \subseteq members', Resolved => Resolved', KnownNames \subseteq KnownNames'
    PROVE  Settling'
<1>1. /\ status' = status /\ current' = current /\ ops' = ops /\ Op' = Op /\ Stale' = Stale
      /\ Target' = Target /\ Configured' = Configured
  BY DEF row, Op, Stale, Target, Configured
<1>2. ConfigFollows' /\ PassFollows'
  BY <1>1 DEF Settling, ConfigFollows, PassFollows, Owned
<1>3. ReadyIsMember'
  BY <1>1 DEF Settling, ReadyIsMember, Settled, Owned, Missing
<1>4. ASSUME pass'.at # "idle", ~Stale', Op'.kind # "retire"
      PROVE  ReadIsCurrent' /\ InTeam' /\ Joining' /\ Trimming'
  <2>1. ReadIsCurrent /\ InTeam /\ Joining /\ Trimming
    BY <1>1, <1>4, Converges
  <2>2. ReadIsCurrent'
    BY <1>1, <2>1 DEF ReadIsCurrent, At
  <2>3. InTeam'
    BY <1>1, <2>1 DEF InTeam, At
  <2>4. Joining'
    BY <1>1, <2>1 DEF Joining, At
  <2>5. Trimming'
    BY <1>1, <2>1 DEF Trimming, At
  <2> QED BY <2>2, <2>3, <2>4, <2>5
<1> QED BY <1>2, <1>3, <1>4 DEF Settling, Converging

\* The configuration changes while nothing is settled and no reprovision has read it.
LEMMA ReadLater ==
    ASSUME Settling, UNCHANGED <<row, pass, directory, botTeams, members, trimmed>>,
           config'.active = config.active, ~Settled,
           pass.at \notin {"idle", "claim"} /\ ~Stale => Op.kind # "reprovision"
    PROVE  Settling'
<1>1. /\ status' = status /\ current' = current /\ ops' = ops /\ Op' = Op /\ Stale' = Stale
      /\ Target' = Target
  BY DEF row, Op, Stale, Target
<1>2. ConfigFollows' /\ PassFollows'
  BY <1>1 DEF Settling, ConfigFollows, PassFollows, Owned
<1>3. ReadyIsMember'
  BY <1>1 DEF ReadyIsMember, Settled, Owned
<1>4. ASSUME pass'.at # "idle", ~Stale', Op'.kind # "retire"
      PROVE  ReadIsCurrent' /\ InTeam' /\ Joining' /\ Trimming'
  <2>1. InTeam /\ Joining /\ Trimming /\ (pass.at = "claim" \/ Op.kind # "reprovision")
    BY <1>1, <1>4, Converges
  <2>2. ReadIsCurrent'
    BY <1>1, <2>1 DEF ReadIsCurrent, At, LoadedSteps
  <2>3. InTeam'
    BY <1>1, <2>1 DEF InTeam, At
  <2>4. Joining'
    BY <1>1, <2>1 DEF Joining, At
  <2>5. Trimming'
    BY <1>1, <2>1 DEF Trimming, At
  <2> QED BY <2>2, <2>3, <2>4, <2>5
<1> QED BY <1>2, <1>3, <1>4 DEF Settling, Converging

\* queueMembershipReprovisioning: a settled agent, or one whose reprovision has read what
\* changes, gets a new reprovision.
LEMMA QueueStep ==
    ASSUME Journal, Settling, NEW concerned \in BOOLEAN, QueueReprovision(concerned),
           UNCHANGED <<pass, directory, botTeams, members, trimmed>>,
           config'.active = config.active, status = "ready" => concerned
    PROVE  Settling'
<1>1. CASE ~(concerned /\ status = "ready" /\ Owned) \/ AlreadyQueued
  <2>1. UNCHANGED row
    BY <1>1, Zenon DEF QueueReprovision
  <2>2. ~Settled
    BY <1>1 DEF Settled, AlreadyQueued
  <2>3. ASSUME pass.at \notin {"idle", "claim"}, ~Stale, Op.kind = "reprovision" PROVE FALSE
    <3>1. Op.state = "running" /\ Op = ops[current]
      BY <2>3 DEF Settling, PassFollows, Op, Stale
    <3>2. status = "ready" /\ Owned
      BY <2>3, PassOp DEF Journal, StatusFollows, Settling, ConfigFollows, Op
    <3> QED BY <1>1, <3>1, <3>2 DEF AlreadyQueued
  <2> QED BY <2>1, <2>2, <2>3, ReadLater
<1>2. CASE concerned /\ status = "ready" /\ Owned /\ ~AlreadyQueued
  <2> DEFINE running == ops[current].kind = "reprovision" /\ ops[current].state = "running"
             J == IF running THEN [ops EXCEPT ![current].state = "cancelled"] ELSE ops
             op == NewOp("reprovision", NoCheckpoints)
  <2>1. Pursue(J, op) /\ status' = "ready"
    BY <1>2, Zenon DEF QueueReprovision
  <2>2. ops \in Seq(Operations) /\ DOMAIN ops = 1..Len(ops) /\ current \in 1..Len(ops)
    BY <1>2, LenProperties DEF Journal, TypeOK, StatusFollows, Owned
  <2>3. J \in Seq(Operations) /\ Len(J) = Len(ops) /\ \A k \in 1..Len(J) : J[k].kind = ops[k].kind
    <3>1. CASE running
      <4>1. J = [ops EXCEPT ![current].state = "cancelled"] /\ "cancelled" \in OpStates
        BY <3>1 DEF OpStates
      <4> HIDE DEF J
      <4> QED BY <2>2, <4>1, StateChange
    <3>2. CASE ~running
      BY <2>2, <3>2
    <3> QED BY <3>1, <3>2
  <2>4. op \in Operations /\ op.kind = "reprovision" /\ op.state = "pending"
    BY NewOpType, NoCheckpointsType DEF Kinds, NewOp
  <2>5. config'.active
    BY <1>2 DEF Settling, ConfigFollows
  <2> HIDE DEF J, op
  <2> QED BY <1>2, <2>1, <2>3, <2>4, <2>5, NewOperation
<1> QED BY <1>1, <1>2

\* What operators and people do.
LEMMA RequestConverges ==
    ASSUME Journal, Settling, Request
    PROVE  Settling'
<1>0. /\ ops \in Seq(Operations) /\ DOMAIN ops = 1..Len(ops) /\ Len(ops) \in Nat
      /\ config \in [active: BOOLEAN, allowed: SUBSET Names, team: Teams]
  BY LenProperties DEF Journal, TypeOK
<1>1. ASSUME NEW allowed \in Wanted, Create(allowed) PROVE Settling'
  <2> DEFINE op == NewOp("create", NoCheckpoints)
  <2>1. op \in Operations /\ op.kind = "create" /\ op.state = "pending"
    BY NewOpType, NoCheckpointsType DEF Kinds, NewOp
  <2>2. Pursue(ops, op) /\ pass' = pass /\ config' = [config EXCEPT !.active = TRUE, !.allowed = allowed]
    BY <1>1 DEF Create
  <2>3. config'.active
    BY <1>0, <2>2
  <2> HIDE DEF op
  <2> QED BY <1>0, <2>1, <2>2, <2>3, NewOperation
<1>2. ASSUME NEW allowed \in Wanted, EditChannels(allowed) PROVE Settling'
  <2>1. /\ config' = [config EXCEPT !.allowed = allowed] /\ QueueReprovision(TRUE)
        /\ UNCHANGED <<pass, directory, botTeams, members, trimmed>>
    BY <1>2 DEF EditChannels, mattermost
  <2>2. config'.active = config.active
    BY <1>0, <2>1
  <2> QED BY <2>1, <2>2, QueueStep
<1>3. CASE Retire
  <2> DEFINE op == NewOp("retire", NoCheckpoints)
             J == Cancelled(ops)
  <2>1. op \in Operations /\ op.kind = "retire" /\ op.state = "pending"
    BY NewOpType, NoCheckpointsType DEF Kinds, NewOp
  <2>2. Pursue(J, op) /\ pass' = pass /\ status' = "retiring"
    BY <1>3 DEF Retire
  <2>3. J \in Seq(Operations) /\ Len(J) = Len(ops) /\ \A k \in 1..Len(J) : J[k].kind = ops[k].kind
    BY <1>0, CancelledJournal
  <2> HIDE DEF op, J
  <2> QED BY <1>0, <2>1, <2>2, <2>3, NewOperation
<1>4. CASE Restore
  <2> DEFINE op == NewOp("restore", NoCheckpoints)
             J == Cancelled(ops)
  <2>1. op \in Operations /\ op.kind = "restore" /\ op.state = "pending"
    BY NewOpType, NoCheckpointsType DEF Kinds, NewOp
  <2>2. Pursue(J, op) /\ pass' = pass /\ config' = [config EXCEPT !.active = TRUE]
    BY <1>4 DEF Restore
  <2>3. J \in Seq(Operations) /\ Len(J) = Len(ops) /\ \A k \in 1..Len(J) : J[k].kind = ops[k].kind
    BY <1>0, CancelledJournal
  <2>4. config'.active
    BY <1>0, <2>2
  <2> HIDE DEF op, J
  <2> QED BY <1>0, <2>1, <2>2, <2>3, <2>4, NewOperation
<1>5. CASE Retry
  <2> DEFINE op == [ops[current] EXCEPT !.state = "pending"]
  <2>1. /\ current # 0 /\ Pursue(ops, op) /\ pass' = pass /\ config' = config
        /\ status' = IF status = "failed" THEN "pending" ELSE status
    BY <1>5 DEF Retry
  <2>2. current \in 1..Len(ops)
    BY <1>0, <2>1 DEF Journal, TypeOK
  <2>3. ops[current] \in Operations
    BY <1>0, <2>2, LenProperties
  <2>4. op \in Operations /\ op.kind = ops[current].kind /\ op.state = "pending"
    BY <2>3 DEF Operations, OpStates
  <2>5. op.kind = "reprovision" => Owned
    BY <1>0, <2>2, <2>4 DEF Settling, ConfigFollows
  <2>6. status' \in {"pending", "reconciling", "ready", "failed"} => config'.active
    BY <2>1 DEF Settling, ConfigFollows
  <2> HIDE DEF op
  <2> QED BY <1>0, <2>1, <2>4, <2>5, <2>6, NewOperation
<1>6. ASSUME NEW t \in Teams, ChangeTeam(t) PROVE Settling'
  <2>1. /\ config' = [config EXCEPT !.team = t] /\ QueueReprovision(config.active)
        /\ UNCHANGED <<pass, directory, botTeams, members, trimmed>>
    BY <1>6 DEF ChangeTeam, mattermost
  <2>2. config'.active = config.active /\ config.active \in BOOLEAN
    BY <1>0, <2>1
  <2>3. status = "ready" => config.active
    BY DEF Settling, ConfigFollows
  <2> QED BY <2>1, <2>2, <2>3, QueueStep
<1>7. ASSUME NEW c \in Channels, GrantChannel(c) PROVE Settling'
  <2>1. UNCHANGED <<row, pass, config, directory, botTeams, trimmed>> /\ members \subseteq members'
    BY <1>7 DEF GrantChannel
  <2>2. Resolved' = Resolved /\ KnownNames' = KnownNames
    BY <2>1 DEF Resolved, KnownNames
  <2> QED BY <2>1, <2>2, OutsideStep
<1>8. ASSUME NEW c \in Channels, RevokeGrant(c) PROVE Settling'
  <2>1. QueueReprovision(TRUE) /\ config' = config
        /\ UNCHANGED <<pass, directory, botTeams, members, trimmed>>
    BY <1>8 DEF RevokeGrant, mattermost
  <2> QED BY <2>1, QueueStep
<1>9. CASE RenameStranger
  <2>1. UNCHANGED <<row, pass, config, directory, botTeams, members, trimmed>>
    BY <1>9 DEF RenameStranger
  <2>2. Resolved' = Resolved /\ KnownNames' = KnownNames
    BY <2>1 DEF Resolved, KnownNames
  <2> QED BY <2>1, <2>2, OutsideStep
<1> QED BY <1>1, <1>2, <1>3, <1>4, <1>5, <1>6, <1>7, <1>8, <1>9 DEF Request

\* An adopted agent is nobody the lifecycle provisions.
LEMMA SettlingInit == Init => Settling
<1> SUFFICES ASSUME Init PROVE Settling
  OBVIOUS
<1>1. pass.at = "idle"
  BY PassTypes DEF Init
<1>2. ConfigFollows /\ ~Owned
  <2>1. CASE ops = <<>> /\ status = "none"
    BY <2>1 DEF ConfigFollows, Owned
  <2>2. CASE /\ ops = <<[kind |-> "adopt", state |-> "succeeded", done |-> NoCheckpoints]>>
             /\ config = [active |-> TRUE, allowed |-> Published, team |-> Home]
    BY <2>2 DEF ConfigFollows, Owned
  <2> QED BY <2>1, <2>2 DEF Init
<1> QED BY <1>1, <1>2 DEF Settling, PassFollows, Converging, ReadyIsMember, Settled

\* Every step keeps it.
LEMMA SettlingStep == Journal /\ Access /\ Settling /\ [Next]_vars => Settling'
<1> SUFFICES ASSUME Journal, Access, Settling, [Next]_vars PROVE Settling'
  OBVIOUS
<1>1. CASE Request
  BY <1>1, RequestConverges
<1>2. CASE PublishTeam
  <2>1. UNCHANGED <<row, pass, config, botTeams, members, trimmed>>
        /\ directory' = [team |-> config.team, names |-> Names]
    BY <1>2 DEF PublishTeam, mattermost
  <2>2. Resolved' /\ KnownNames' = Names
    BY <2>1 DEF Resolved, KnownNames
  <2>3. KnownNames \subseteq Names
    BY DEF KnownNames, Journal, TypeOK
  <2> QED BY <2>1, <2>2, <2>3, OutsideStep
<1>3. CASE UNCHANGED vars
  <2>1. UNCHANGED <<row, pass, config, directory, botTeams, members, trimmed>>
    BY <1>3 DEF vars, mattermost
  <2>2. Resolved' = Resolved /\ KnownNames' = KnownNames
    BY <2>1 DEF Resolved, KnownNames
  <2> QED BY <2>1, <2>2, OutsideStep
<1>4. CASE PassReject \/ PassRefused
  <2>1. pass.at # "idle" /\ FailOperation
    BY <1>4 DEF PassReject, PassRefused, MattermostSteps
  <2> QED BY <2>1, FailConverges
<1>5. CASE PassAbort
  <2>1. pass.at # "idle" /\ UNCHANGED <<row, config>> /\ EndPass
    BY <1>5 DEF PassAbort
  <2> QED BY <2>1, EndedPass
<1> QED BY <1>1, <1>2, <1>3, <1>4, <1>5, ListConverges, ClaimConverges, EarlyConverges,
        TeamConverges, JoinConverges, TrimConverges, RetireConverges, SaveConverges,
        CompleteConverges DEF Next, PassStep

\* When an agent of the lifecycle is ready and its operation has succeeded, its bot is in
\* every channel it is configured for and in no other team, whatever edits, grants, retires
\* and crashes raced the pass; a create or restore may only miss a channel that it left itself
\* (queueMembershipReprovisioning, completeOperation's fence, convergeMembership).
THEOREM ReadyMeansMember == Spec => []ReadyIsMember
<1>1. Init => Journal /\ Access /\ Settling
  BY JournalInit, AccessInit, SettlingInit
<1>2. Journal /\ Access /\ Settling /\ [Next]_vars => (Journal /\ Access /\ Settling)'
  BY JournalStep, AccessStep, SettlingStep
<1>3. Settling => ReadyIsMember
  BY DEF Settling
<1> QED BY <1>1, <1>2, <1>3, PTL DEF Spec

=============================================================================
