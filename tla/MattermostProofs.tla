-------------------------- MODULE MattermostProofs --------------------------
(***************************************************************************)
(* Proofs about Membership and Listener, the two loops that read           *)
(* Mattermost, for every set of posts and people, every bound and every    *)
(* fault.  Membership: a grant comes into force only by an add that may    *)
(* give it.  Listener: what was posted while the channel was not managed   *)
(* is not recorded, and the cursor passes no post nobody has dealt with.   *)
(***************************************************************************)
EXTENDS Membership, Listener, SequenceTheorems, WellFoundedInduction, TLAPS

-----------------------------------------------------------------------------
(* Membership. *)

PassSteps == {"idle", "list", "active", "judge", "grant", "revoke", "leave", "listener",
              "check", "gone", "new", "grace", "sweep", "listener_leaves"}
GrantStates == {"none", "active", "revoked"}
FoundChanges == [kind: {"add", "gone", "none"}, by: People \cup {"admin", "none"}, at: Nat]
PassRecords == [pc: PassSteps, member: BOOLEAN, configured: BOOLEAN, state: GrantStates,
                since: Nat, checked: Nat, why: Reasons, found: FoundChanges]
GrantRecords == [state: GrantStates, since: Nat, checked: Nat, reason: Reasons]

\* What every variable is.
MembershipTypes ==
    /\ records \in Seq(MembershipRecords) /\ grant \in GrantRecords /\ pass \in PassRecords
    /\ member \in BOOLEAN /\ listenerIn \in BOOLEAN /\ configured \in BOOLEAN /\ started \in BOOLEAN
    /\ moment \in Nat /\ configEdits \in 0..MaxEdits /\ pendingGrant \in {"no", "waiting", "over"}
    /\ admin \in BOOLEAN /\ mishaps \in 0..MaxMembershipFaults

\* No record is newer than the newest change.
RecordsArePast == \A i \in DOMAIN records : records[i].at <= moment

\* The add a pass judges or grants by is on record, and was made by who may grant once it has
\* been judged.
AddIsOnRecord(f) ==
    \E i \in DOMAIN records : /\ records[i].kind = "add" /\ records[i].by = f.by
                              /\ records[i].at = f.at
JudgesAdds ==
    /\ pass.pc \in {"judge", "grant"} => AddIsOnRecord(pass.found)
    /\ pass.pc = "grant" => MayGrant(pass.found.by)
    /\ pass.pc = "revoke" => pass.why # "config_removed"

\* An add made for the configuration leaves, once the channel is taken out of it, a row: one
\* that is dated after the add, unless an owner's grant was left alone.
TombstonesCover ==
    /\ grant.state = "active" => grant.reason # "config_removed"
    /\ \A i \in DOMAIN records :
        records[i].kind = "add" /\ records[i].configured /\ ~configured =>
            /\ grant.state # "none"
            /\ grant.reason = "config_removed" => records[i].at <= grant.since

MembershipInv == MembershipTypes /\ RecordsArePast /\ JudgesAdds /\ TombstonesCover

-----------------------------------------------------------------------------
\* The edits of the pass.
LEMMA PassEdits ==
    ASSUME NEW p \in PassRecords, NEW pc \in PassSteps
    PROVE  /\ [p EXCEPT !.pc = pc] \in PassRecords /\ [p EXCEPT !.pc = pc].pc = pc
           /\ [p EXCEPT !.pc = pc].found = p.found /\ [p EXCEPT !.pc = pc].why = p.why
BY DEF PassRecords

\* A pass that takes up a change it has found is still a pass, and has the rest as it was.
LEMMA PassFound ==
    ASSUME NEW p \in PassRecords, NEW pc \in PassSteps, NEW f \in FoundChanges
    PROVE  /\ [p EXCEPT !.pc = pc, !.found = f] \in PassRecords
           /\ [p EXCEPT !.pc = pc, !.found = f].pc = pc
           /\ [p EXCEPT !.pc = pc, !.found = f].found = f
BY DEF PassRecords

\* The same of a step that makes such an edit.
LEMMA PassGoes ==
    ASSUME pass \in PassRecords, NEW pc \in PassSteps, pass' = [pass EXCEPT !.pc = pc]
    PROVE  pass' \in PassRecords /\ pass'.pc = pc /\ pass'.found = pass.found
BY PassEdits, Zenon

\* A pass that gives the bot's place up for a reason keeps what it has read.
LEMMA PassEnds ==
    ASSUME pass \in PassRecords, NEW why \in Reasons,
           pass' = [pass EXCEPT !.pc = "revoke", !.why = why]
    PROVE  pass' \in PassRecords /\ pass'.pc = "revoke" /\ pass'.why = why
<1>1. "revoke" \in PassSteps
  BY DEF PassSteps
<1> DEFINE new == [pass EXCEPT !.pc = "revoke", !.why = why]
<1>2. new \in PassRecords /\ new.pc = "revoke" /\ new.why = why
  BY <1>1 DEF PassRecords
<1>3. pass' = new
  OBVIOUS
<1> HIDE DEF new
<1> QED BY <1>2, <1>3

\* A pass that finds a change keeps what else it has read.
LEMMA PassFinds ==
    ASSUME pass \in PassRecords, NEW pc \in PassSteps, NEW f \in FoundChanges,
           pass' = [pass EXCEPT !.pc = pc, !.found = f]
    PROVE  pass' \in PassRecords /\ pass'.pc = pc /\ pass'.found = f
<1> DEFINE new == [pass EXCEPT !.pc = pc, !.found = f]
<1>1. new \in PassRecords /\ new.pc = pc /\ new.found = f
  BY DEF PassRecords
<1>2. pass' = new
  OBVIOUS
<1> HIDE DEF new
<1> QED BY <1>1, <1>2

\* No pass, and no change, are such records.
LEMMA NoPassType == NoPass \in PassRecords /\ NoPass.pc = "idle" /\ NoChange \in FoundChanges
BY DEF NoPass, NoChange, PassRecords, PassSteps, GrantStates, FoundChanges, Reasons

\* A nonempty set of natural numbers has a least, and a bounded one a greatest.
LEMMA LeastExists ==
    ASSUME NEW S \in SUBSET Nat, S # {} PROVE \E n \in S : \A m \in S : n <= m
<1>1. PICK n \in S : \A m \in S : ~(<<m, n>> \in OpToRel(<, Nat))
  BY NatLessThanWellFounded, WFMin
<1>2. \A m \in S : ~(m < n)
  BY <1>1 DEF OpToRel
<1> QED BY <1>2

\* A nonempty bounded set of natural numbers has a greatest element.
LEMMA GreatestExists ==
    ASSUME NEW b \in Nat, NEW S \in SUBSET (0..b), S # {} PROVE \E n \in S : \A m \in S : m <= n
<1> DEFINE T == {b - n : n \in S}
<1>0. \A n \in S : b - n \in Nat
  OBVIOUS
<1>1. T \in SUBSET Nat /\ T # {}
  BY <1>0
<1>2. PICK t \in T : \A m \in T : t <= m
  BY <1>1, LeastExists
<1>3. PICK n \in S : t = b - n
  BY <1>2
<1>4. \A m \in S : b - n <= b - m
  BY <1>2, <1>3
<1> QED BY <1>3, <1>4

\* findChange tells a change that is on record.
LEMMA FoundIsOnRecord ==
    ASSUME MembershipTypes, NEW after \in Nat
    PROVE  /\ FindChange(after) \in FoundChanges
           /\ FindChange(after).kind = "add" => AddIsOnRecord(FindChange(after))
<1> DEFINE newest == CHOOSE i \in KnownRecords : \A j \in KnownRecords : j <= i
<1>1. CASE KnownRecords = {} \/ records[newest].at <= after
  <2>1. FindChange(after) = NoChange
    BY <1>1 DEF FindChange
  <2> QED BY <2>1, NoPassType DEF NoChange
<1>2. CASE ~(KnownRecords = {} \/ records[newest].at <= after)
  <2>1. FindChange(after) = [kind |-> records[newest].kind, by |-> records[newest].by,
                             at |-> records[newest].at]
    BY <1>2 DEF FindChange
  <2>2. newest \in KnownRecords
    <3>1. records \in Seq(MembershipRecords)
      BY DEF MembershipTypes
    <3>2. DOMAIN records \subseteq 0..Len(records) /\ Len(records) \in Nat
      BY <3>1
    <3>3. KnownRecords \in SUBSET (0..Len(records)) /\ KnownRecords # {}
      BY <1>2, <3>2 DEF KnownRecords
    <3>4. \E i \in KnownRecords : \A j \in KnownRecords : j <= i
      BY <3>2, <3>3, GreatestExists
    <3> QED BY <3>4
  <2>3. newest \in DOMAIN records /\ records[newest] \in MembershipRecords
    BY <2>2 DEF KnownRecords, MembershipTypes
  <2> HIDE DEF newest
  <2> QED BY <2>1, <2>3 DEF MembershipRecords, FoundChanges, AddIsOnRecord
<1> QED BY <1>1, <1>2

-----------------------------------------------------------------------------
\* A step that makes at most one new record, and leaves the row and the configuration alone.
LEMMA ChannelStep ==
    ASSUME MembershipInv, MembershipTypes',
           \/ UNCHANGED <<records, moment>>
           \/ \E what \in {"add", "gone"}, by \in People \cup {"admin"} : NewRecord(what, by),
           UNCHANGED <<configured, grant>>,
           \/ UNCHANGED pass
           \/ pass'.pc \notin {"judge", "grant", "revoke"}
    PROVE  MembershipInv'
<1> USE DEF MembershipInv
<1>t. records \in Seq(MembershipRecords) /\ moment \in Nat /\ configured \in BOOLEAN
  BY DEF MembershipTypes
<1>1. CASE UNCHANGED <<records, moment>>
  BY <1>1 DEF RecordsArePast, JudgesAdds, AddIsOnRecord, TombstonesCover
<1>2. ASSUME NEW what \in {"add", "gone"}, NEW by \in People \cup {"admin"}, NewRecord(what, by)
      PROVE  MembershipInv'
  <2> DEFINE new == [kind |-> what, by |-> by, at |-> moment + 1, erased |-> FALSE,
                     configured |-> configured]
  <2>1. /\ moment' = moment + 1 /\ records' = Append(records, new)
        /\ new.at = moment + 1 /\ new.configured = configured
    BY <1>2 DEF NewRecord
  <2> HIDE DEF new
  <2>2. /\ \A i \in DOMAIN records : i \in DOMAIN records' /\ records'[i] = records[i]
        /\ \A i \in DOMAIN records' : i \in DOMAIN records \/ records'[i] = new
    BY <1>t, <2>1
  <2>3. RecordsArePast'
    <3>0. \A i \in DOMAIN records : records[i] \in MembershipRecords
      BY <1>t
    <3>1. \A i \in DOMAIN records : records[i].at \in Nat /\ records[i].at <= moment
      BY <3>0 DEF RecordsArePast, MembershipRecords
    <3> QED BY <1>t, <2>1, <2>2, <3>1 DEF RecordsArePast
  <2>4. JudgesAdds'
    BY <2>2 DEF JudgesAdds, AddIsOnRecord
  <2>5. TombstonesCover'
    BY <1>t, <2>1, <2>2 DEF TombstonesCover
  <2> QED BY <2>3, <2>4, <2>5
<1> QED BY <1>1, <1>2

\* A step of the pass that goes on to an add that is on record.
LEMMA PassStep ==
    ASSUME MembershipInv, MembershipTypes', UNCHANGED <<records, moment, configured, grant>>,
           JudgesAdds'
    PROVE  MembershipInv'
BY DEF MembershipInv, RecordsArePast, TombstonesCover

\* A step that changes the row, and makes no record.
LEMMA GrantStep ==
    ASSUME MembershipInv, MembershipTypes', UNCHANGED <<records, moment>>, TombstonesCover',
           pass' = pass \/ pass'.pc \notin {"judge", "grant", "revoke"}
    PROVE  MembershipInv'
BY DEF MembershipInv, RecordsArePast, JudgesAdds, AddIsOnRecord

\* Ending a grant for another reason than the configuration.
LEMMA RevokeKeeps ==
    ASSUME MembershipInv, NEW reason \in Reasons, reason # "config_removed", Revoke(reason)
    PROVE  /\ grant' \in GrantRecords /\ started' \in BOOLEAN
           /\ configured' = configured /\ records' = records => TombstonesCover'
<1> USE DEF MembershipInv
<1>t. grant \in GrantRecords /\ configured \in BOOLEAN /\ started \in BOOLEAN
  BY DEF MembershipTypes
<1>1. started' \in BOOLEAN
  BY <1>t DEF Revoke, Followed
<1>2. CASE grant.state = "active"
  <2>1. grant' = [grant EXCEPT !.state = "revoked", !.reason = reason]
    BY <1>2 DEF Revoke
  <2>2. grant' \in GrantRecords /\ grant'.state = "revoked" /\ grant'.reason = reason
    BY <1>t, <2>1 DEF GrantRecords, GrantStates
  <2> QED BY <1>1, <2>2 DEF TombstonesCover
<1>3. CASE grant.state # "active"
  <2>1. grant' = grant
    BY <1>3 DEF Revoke
  <2> QED BY <1>t, <1>1, <2>1 DEF TombstonesCover
<1> QED BY <1>2, <1>3

\* A new record, its type.
LEMMA NewRecordType ==
    ASSUME MembershipTypes, NEW what \in {"add", "gone"}, NEW by \in People \cup {"admin"},
           NewRecord(what, by)
    PROVE  records' \in Seq(MembershipRecords) /\ moment' \in Nat
<1> DEFINE new == [kind |-> what, by |-> by, at |-> moment + 1, erased |-> FALSE,
                   configured |-> configured]
<1>1. new \in MembershipRecords
  BY DEF MembershipTypes, MembershipRecords
<1>2. records' = Append(records, new) /\ moment' = moment + 1
  BY DEF NewRecord
<1> HIDE DEF new
<1> QED BY <1>1, <1>2 DEF MembershipTypes

\* Every step of the membership loop, of the operator and of Mattermost keeps the invariant.
LEMMA MembershipStep ==
    ASSUME MembershipInv, [MembershipNext]_membershipVars PROVE MembershipInv'
<1> USE DEF MembershipInv
<1>t. /\ records \in Seq(MembershipRecords) /\ grant \in GrantRecords /\ pass \in PassRecords
      /\ configured \in BOOLEAN /\ started \in BOOLEAN /\ moment \in Nat /\ member \in BOOLEAN
  BY DEF MembershipTypes
<1>p. pass.found \in FoundChanges /\ pass.why \in Reasons
  BY <1>t DEF PassRecords
<1>f. CallFault => mishaps' \in 0..MaxMembershipFaults
  BY MembershipAssumption DEF CallFault, MembershipTypes
<1>1. ASSUME NEW person \in People, AddBot(person) PROVE MembershipInv'
  <2>1. NewRecord("add", person) /\ person \in People \cup {"admin"}
    BY <1>1 DEF AddBot, Changes
  <2>2. records' \in Seq(MembershipRecords) /\ moment' \in Nat
    BY <2>1, NewRecordType
  <2>3. MembershipTypes'
    BY <1>1, <2>2 DEF AddBot, MembershipTypes, grantSide, aside
  <2> QED BY <1>1, <2>1, <2>3, ChannelStep DEF AddBot, grantSide
<1>2. CASE RemoveBot
  <2>1. NewRecord("gone", "owner") /\ "owner" \in People \cup {"admin"}
    BY <1>2 DEF RemoveBot, Changes, People
  <2>2. records' \in Seq(MembershipRecords) /\ moment' \in Nat
    BY <2>1, NewRecordType
  <2>3. MembershipTypes'
    BY <1>2, <2>2 DEF RemoveBot, MembershipTypes, grantSide, aside
  <2> QED BY <1>2, <2>1, <2>3, ChannelStep DEF RemoveBot, grantSide
<1>3. CASE EraseRecord
  <2>1. PICK i \in DOMAIN records : records' = [records EXCEPT ![i].erased = TRUE]
    BY <1>3 DEF EraseRecord
  <2> DEFINE new == [records[i] EXCEPT !.erased = TRUE]
  <2>2. records[i] \in MembershipRecords
    BY <1>t
  <2>3. /\ new \in MembershipRecords /\ new.kind = records[i].kind /\ new.by = records[i].by
        /\ new.at = records[i].at /\ new.configured = records[i].configured
    BY <2>2 DEF MembershipRecords
  <2>4. records' = [records EXCEPT ![i] = new]
    BY <2>1
  <2> HIDE DEF new
  <2>5. records' \in Seq(MembershipRecords) /\ DOMAIN records' = DOMAIN records
    BY <1>t, <2>3, <2>4
  <2>6. \A k \in DOMAIN records :
          /\ records'[k].kind = records[k].kind /\ records'[k].by = records[k].by
          /\ records'[k].at = records[k].at /\ records'[k].configured = records[k].configured
    BY <1>t, <2>3, <2>4
  <2>7. /\ UNCHANGED <<moment, configured, grant, pass>>
        /\ MembershipTypes'
    BY <1>3, <2>5 DEF EraseRecord, grantSide, aside, MembershipTypes
  <2>8. RecordsArePast' /\ JudgesAdds'
    BY <2>5, <2>6, <2>7 DEF RecordsArePast, JudgesAdds, AddIsOnRecord
  <2>9. TombstonesCover'
    BY <2>5, <2>6, <2>7 DEF TombstonesCover
  <2> QED BY <2>7, <2>8, <2>9
<1>4. CASE PlanAdminAdd \/ DropAdminAdd \/ GraceEnds
  <2>1. MembershipTypes' /\ UNCHANGED <<records, moment, configured, grant, pass>>
    BY <1>4 DEF PlanAdminAdd, DropAdminAdd, GraceEnds, channelSide, grantSide, aside, MembershipTypes
  <2> QED BY <2>1, ChannelStep
<1>5. CASE AdminAdd
  <2>1. \/ UNCHANGED channelSide
        \/ NewRecord("add", "admin") /\ member' = TRUE
    BY <1>5 DEF AdminAdd, Changes
  <2>2. UNCHANGED <<configured, grant, pass>>
    BY <1>5 DEF AdminAdd, grantSide
  <2>3. CASE UNCHANGED channelSide
    <3>1. MembershipTypes'
      BY <1>5, <2>3 DEF AdminAdd, channelSide, grantSide, MembershipTypes
    <3> QED BY <2>2, <2>3, <3>1, ChannelStep DEF channelSide
  <2>4. CASE NewRecord("add", "admin") /\ member' = TRUE
    <3>1. records' \in Seq(MembershipRecords) /\ moment' \in Nat
      BY <2>4, NewRecordType
    <3>2. MembershipTypes'
      BY <1>5, <2>4, <3>1 DEF AdminAdd, grantSide, MembershipTypes
    <3> QED BY <2>2, <2>4, <3>2, ChannelStep
  <2> QED BY <2>1, <2>3, <2>4
<1>6. CASE Configure
  <2>1. MembershipTypes' /\ UNCHANGED <<records, moment, grant, pass>> /\ configured' = TRUE
    BY <1>6, MembershipAssumption DEF Configure, channelSide, aside, MembershipTypes
  <2>2. TombstonesCover'
    BY <2>1 DEF TombstonesCover
  <2> QED BY <2>1, <2>2, GrantStep
<1>7. CASE Unconfigure
  <2> DEFINE dead == [state |-> "revoked", since |-> moment, checked |-> grant.checked,
                      reason |-> "config_removed"]
  <2>1. /\ dead \in GrantRecords /\ dead.state = "revoked" /\ dead.since = moment
    BY <1>t DEF GrantRecords, GrantStates, Reasons
  <2>2. grant' = IF grant.state = "active" THEN grant ELSE dead
    BY <1>7 DEF Unconfigure, Tombstone
  <2> HIDE DEF dead
  <2>3. grant' \in GrantRecords /\ started' \in BOOLEAN
    BY <1>7, <1>t, <2>1, <2>2 DEF Unconfigure, Followed
  <2>4. MembershipTypes' /\ UNCHANGED <<records, moment, pass>>
    <3>1. configEdits' \in 0..MaxEdits /\ configured' = FALSE
      BY <1>7, MembershipAssumption DEF Unconfigure, MembershipTypes
    <3>2. UNCHANGED <<records, member, moment, listenerIn, pass, pendingGrant, admin, mishaps>>
      BY <1>7 DEF Unconfigure, channelSide, aside
    <3> QED BY <2>3, <3>1, <3>2 DEF MembershipTypes
  <2>5. TombstonesCover'
    BY <2>1, <2>2, <2>4 DEF TombstonesCover, RecordsArePast
  <2> QED BY <2>4, <2>5, GrantStep
<1>8. CASE OperatorRevokes
  <2>1. Revoke("operator") /\ "operator" \in Reasons
    BY <1>8 DEF OperatorRevokes, Reasons
  <2>2. /\ grant' \in GrantRecords /\ started' \in BOOLEAN
        /\ configured' = configured /\ records' = records => TombstonesCover'
    BY <2>1, RevokeKeeps
  <2>3. MembershipTypes' /\ UNCHANGED <<records, moment, configured, pass>>
    BY <1>8, <2>2, MembershipAssumption DEF OperatorRevokes, channelSide, aside, MembershipTypes
  <2> QED BY <2>2, <2>3, GrantStep
<1>9. CASE BeginPass
  <2> DEFINE p == [NoPass EXCEPT !.pc = "list", !.configured = configured, !.state = grant.state,
                                 !.since = grant.since, !.checked = grant.checked,
                                 !.why = grant.reason]
  <2>1. p \in PassRecords /\ p.pc = "list"
    BY <1>t DEF NoPass, NoChange, PassRecords, PassSteps, GrantRecords, GrantStates, FoundChanges,
                Reasons
  <2>2. pass' = p
    BY <1>9 DEF BeginPass
  <2> HIDE DEF p
  <2>3. MembershipTypes' /\ UNCHANGED <<records, moment, configured, grant>>
    BY <1>9, <2>1, <2>2 DEF BeginPass, channelSide, grantSide, aside, MembershipTypes
  <2> QED BY <2>1, <2>2, <2>3, ChannelStep
<1>10. CASE ListChannels
  <2>1. PICK pc \in {"sweep", "active", "new"} :
          pass' = [pass EXCEPT !.member = member, !.pc = pc]
    BY <1>10 DEF ListChannels
  <2>2. pass' \in PassRecords /\ pass'.pc = pc
    BY <1>t, <2>1 DEF PassRecords, PassSteps
  <2>3. pendingGrant' \in {"no", "waiting", "over"}
    BY <1>10 DEF ListChannels, MembershipTypes
  <2>4. MembershipTypes' /\ UNCHANGED <<records, moment, configured, grant>>
    BY <1>10, <2>2, <2>3 DEF ListChannels, channelSide, grantSide, aside, MembershipTypes
  <2> QED BY <2>2, <2>4, ChannelStep
<1>11. CASE CheckGrant
  <2> DEFINE after == IF pass.checked > pass.since THEN pass.checked ELSE pass.since
             change == FindChange(after)
  <2>1. after \in Nat
    BY <1>t DEF PassRecords
  <2>2. change \in FoundChanges /\ (change.kind = "add" => AddIsOnRecord(change))
    BY <2>1, FoundIsOnRecord
  <2>3. \/ pass' = [pass EXCEPT !.pc = "revoke", !.why = "bot_left"]
        \/ pass' = [pass EXCEPT !.pc = "gone"]
        \/ change.kind = "add" /\ pass' = [pass EXCEPT !.pc = "judge", !.found = change]
        \/ pass' = [pass EXCEPT !.pc = "listener", !.found = [change EXCEPT !.at = moment]]
    <3>1. change.kind \in {"add", "gone", "none"}
      BY <2>2 DEF FoundChanges
    <3> HIDE DEF after
    <3>2. pass' = CASE ~pass.member -> [pass EXCEPT !.pc = "revoke", !.why = "bot_left"]
                    [] pass.member /\ change.kind = "gone" -> [pass EXCEPT !.pc = "gone"]
                    [] pass.member /\ change.kind = "add" ->
                         [pass EXCEPT !.pc = "judge", !.found = change]
                    [] pass.member /\ change.kind = "none" ->
                         [pass EXCEPT !.pc = "listener", !.found = [change EXCEPT !.at = moment]]
      BY <1>11 DEF CheckGrant, after
    <3> HIDE DEF change
    <3> QED BY <3>1, <3>2
  <2> HIDE DEF change
  <2>4. [change EXCEPT !.at = moment] \in FoundChanges
    BY <1>t, <2>2 DEF FoundChanges
  <2>5. pass' \in PassRecords
    <3>1. "gone" \in PassSteps /\ "judge" \in PassSteps /\ "listener" \in PassSteps
          /\ "bot_left" \in Reasons
      BY DEF PassSteps, Reasons
    <3> QED BY <1>t, <2>2, <2>3, <2>4, <3>1, PassGoes, PassEnds, PassFinds
  <2>6. MembershipTypes' /\ UNCHANGED <<records, moment, configured, grant>>
    BY <1>11, <2>5 DEF CheckGrant, channelSide, grantSide, aside, MembershipTypes
  <2>7. JudgesAdds'
    <3>1. CASE pass' = [pass EXCEPT !.pc = "revoke", !.why = "bot_left"]
      <4>1. pass'.pc = "revoke" /\ pass'.why = "bot_left"
        <5>1. "bot_left" \in Reasons
          BY DEF Reasons
        <5> QED BY <1>t, <3>1, <5>1, PassEnds
      <4> QED BY <4>1 DEF JudgesAdds
    <3>2. CASE pass' = [pass EXCEPT !.pc = "gone"]
      BY <1>t, <3>2, PassEdits DEF PassSteps, JudgesAdds
    <3>3. CASE change.kind = "add" /\ pass' = [pass EXCEPT !.pc = "judge", !.found = change]
      <4>1. pass'.pc = "judge" /\ pass'.found = change
        BY <1>t, <2>2, <3>3, PassFound DEF PassSteps
      <4> QED BY <2>2, <2>6, <3>3, <4>1 DEF JudgesAdds, AddIsOnRecord
    <3>4. CASE pass' = [pass EXCEPT !.pc = "listener", !.found = [change EXCEPT !.at = moment]]
      <4>1. pass'.pc = "listener"
        <5>1. PICK g \in FoundChanges : g = [change EXCEPT !.at = moment]
          BY <2>4
        <5>2. pass' = [pass EXCEPT !.pc = "listener", !.found = g] /\ "listener" \in PassSteps
          BY <3>4, <5>1 DEF PassSteps
        <5> QED BY <1>t, <5>2, PassFinds
      <4> QED BY <4>1 DEF JudgesAdds
    <3> QED BY <2>3, <3>1, <3>2, <3>3, <3>4
  <2> QED BY <2>6, <2>7, PassStep
<1>12. ASSUME NEW why \in Reasons \ {"config_removed"},
              pass' = [pass EXCEPT !.pc = "revoke", !.why = why],
              MembershipTypes, UNCHANGED <<channelSide, listenerIn, grantSide, admin>>,
              pendingGrant' \in {"no", "waiting", "over"}, mishaps' \in 0..MaxMembershipFaults
       PROVE  MembershipInv'
  <2>1. pass' \in PassRecords /\ pass'.pc = "revoke" /\ pass'.why = why
    BY <1>12, <1>t, PassEnds
  <2>2. MembershipTypes' /\ UNCHANGED <<records, moment, configured, grant>>
    BY <1>12, <2>1 DEF channelSide, grantSide, MembershipTypes
  <2>3. JudgesAdds'
    BY <2>1 DEF JudgesAdds
  <2> QED BY <2>2, <2>3, PassStep
<1>13. CASE ConfirmGone \/ TooManyPosts
  <2>1. pendingGrant' \in {"no", "waiting", "over"} /\ mishaps' \in 0..MaxMembershipFaults
    BY <1>13, <1>f DEF ConfirmGone, TooManyPosts, aside, MembershipTypes
  <2>2. PICK why \in {"add_unverified", "bot_left"} :
          pass' = [pass EXCEPT !.pc = "revoke", !.why = why]
    BY <1>13 DEF ConfirmGone, TooManyPosts
  <2>3. why \in Reasons \ {"config_removed"}
    BY DEF Reasons
  <2> QED BY <1>12, <1>13, <2>1, <2>2, <2>3 DEF ConfirmGone, TooManyPosts, aside
<1>14. CASE JudgeAdd
  <2>1. pendingGrant' \in {"no", "waiting", "over"} /\ mishaps' \in 0..MaxMembershipFaults
    BY <1>14 DEF JudgeAdd, aside, MembershipTypes
  <2>2. CASE MayGrant(pass.found.by)
    <3>1. pass' = [pass EXCEPT !.pc = "grant"]
      BY <1>14, <2>2 DEF JudgeAdd
    <3>2. pass' \in PassRecords /\ pass'.pc = "grant" /\ pass'.found = pass.found
      BY <1>t, <3>1, PassEdits DEF PassSteps
    <3>3. MembershipTypes' /\ UNCHANGED <<records, moment, configured, grant>>
      BY <1>14, <2>1, <3>2 DEF JudgeAdd, channelSide, grantSide, aside, MembershipTypes
    <3>4. JudgesAdds'
      BY <1>14, <2>2, <3>2, <3>3 DEF JudgeAdd, JudgesAdds, AddIsOnRecord, MayGrant
    <3> QED BY <3>3, <3>4, PassStep
  <2>3. CASE ~MayGrant(pass.found.by)
    <3>1. "not_owner_or_admin" \in Reasons \ {"config_removed"}
      BY DEF Reasons
    <3> QED BY <1>12, <1>14, <2>1, <2>3, <3>1 DEF JudgeAdd, aside
  <2> QED BY <2>2, <2>3
<1>15. CASE GrantChannel
  <2>1. UNCHANGED <<records, moment, configured>>
    BY <1>15 DEF GrantChannel, channelSide
  <2>2. CASE Grants
    <3> DEFINE new == [state |-> "active", since |-> pass.found.at, checked |-> pass.found.at,
                       reason |-> "none"]
    <3>1. /\ new \in GrantRecords /\ new.state = "active" /\ new.reason = "none"
      BY <1>p DEF GrantRecords, GrantStates, Reasons, FoundChanges
    <3>2. grant' = new /\ pass' = [pass EXCEPT !.pc = "listener"] /\ started' = TRUE
      BY <1>15, <2>2 DEF GrantChannel, GoTo
    <3> HIDE DEF new
    <3>3. pass' \in PassRecords /\ pass'.pc = "listener"
      BY <1>t, <3>2, PassEdits DEF PassSteps
    <3>4. MembershipTypes'
      BY <1>15, <3>1, <3>2, <3>3 DEF GrantChannel, channelSide, aside, MembershipTypes
    <3>5. TombstonesCover'
      BY <3>1, <3>2 DEF TombstonesCover
    <3> QED BY <2>1, <3>3, <3>4, <3>5, GrantStep
  <2>3. CASE ~Grants
    <3>1. UNCHANGED <<grant, started>>
      BY <1>15, <2>3 DEF GrantChannel
    <3>2. \/ pass' = [pass EXCEPT !.pc = "listener"]
          \/ pass' = [pass EXCEPT !.pc = "listener", !.found = [pass.found EXCEPT !.kind = "none"]]
          \/ pass' = [pass EXCEPT !.pc = "sweep"]
      BY <1>15, <2>3 DEF GrantChannel
    <3>3. [pass.found EXCEPT !.kind = "none"] \in FoundChanges
      BY <1>p DEF FoundChanges
    <3>4. pass' \in PassRecords /\ pass'.pc \in {"listener", "sweep"}
      <4>1. "listener" \in PassSteps /\ "sweep" \in PassSteps
        BY DEF PassSteps
      <4> QED BY <1>t, <3>2, <3>3, <4>1, PassGoes, PassFinds
    <3>5. MembershipTypes'
      BY <1>15, <3>1, <3>4 DEF GrantChannel, channelSide, aside, MembershipTypes
    <3> QED BY <2>1, <3>1, <3>4, <3>5, ChannelStep
  <2> QED BY <2>2, <2>3
<1>16. CASE BringListener
  <2>1. pass' \in PassRecords /\ pass'.pc = "check"
    BY <1>16, <1>t, PassEdits DEF BringListener, GoTo, PassSteps
  <2>2. MembershipTypes' /\ UNCHANGED <<records, moment, configured, grant>>
    BY <1>16, <2>1 DEF BringListener, channelSide, grantSide, aside, MembershipTypes
  <2> QED BY <2>1, <2>2, ChannelStep
<1>17. CASE ListenerRefused
  <2>1. pendingGrant' \in {"no", "waiting", "over"} /\ mishaps' \in 0..MaxMembershipFaults
    BY <1>17, <1>f DEF ListenerRefused, MembershipTypes
  <2>2. "listener_not_added" \in Reasons \ {"config_removed"}
    BY DEF Reasons
  <2>3. CASE pass' = [pass EXCEPT !.pc = "revoke", !.why = "listener_not_added"]
    BY <1>12, <1>17, <2>1, <2>2, <2>3 DEF ListenerRefused
  <2>4. ASSUME NEW pc \in {"check", "sweep"}, pass' = [pass EXCEPT !.pc = pc] PROVE MembershipInv'
    <3>1. pass' \in PassRecords /\ pass'.pc = pc
      <4>1. pc \in PassSteps
        BY <2>4 DEF PassSteps
      <4> QED BY <1>t, <2>4, <4>1, PassGoes
    <3>2. MembershipTypes' /\ UNCHANGED <<records, moment, configured, grant>>
      BY <1>17, <2>1, <3>1 DEF ListenerRefused, channelSide, grantSide, MembershipTypes
    <3> QED BY <3>1, <3>2, ChannelStep
  <2> QED BY <1>17, <2>3, <2>4 DEF ListenerRefused
<1>18. CASE MarkChecked
  <2>1. \/ grant' = grant
        \/ grant' = [grant EXCEPT !.checked = pass.found.at]
    BY <1>18 DEF MarkChecked
  <2>2. /\ grant' \in GrantRecords /\ grant'.state = grant.state /\ grant'.since = grant.since
        /\ grant'.reason = grant.reason
    <3>1. CASE grant' = [grant EXCEPT !.checked = pass.found.at]
      BY <1>t, <1>p, <3>1 DEF GrantRecords, FoundChanges
    <3> QED BY <1>t, <2>1, <3>1
  <2>3. pass' \in PassRecords /\ pass'.pc = "sweep"
    BY <1>18, <1>t, PassEdits DEF MarkChecked, GoTo, PassSteps
  <2>4. MembershipTypes' /\ UNCHANGED <<records, moment, configured>>
    BY <1>18, <2>2, <2>3 DEF MarkChecked, channelSide, aside, MembershipTypes
  <2>5. TombstonesCover'
    BY <2>2, <2>4 DEF TombstonesCover
  <2> QED BY <2>3, <2>4, <2>5, GrantStep
<1>19. CASE RecordRevoked
  <2>1. Revoke(pass.why) /\ pass.why # "config_removed"
    BY <1>19 DEF RecordRevoked, JudgesAdds
  <2>2. /\ grant' \in GrantRecords /\ started' \in BOOLEAN
        /\ configured' = configured /\ records' = records => TombstonesCover'
    BY <1>p, <2>1, RevokeKeeps
  <2>3. pass' \in PassRecords /\ pass'.pc \in {"sweep", "leave"}
    <3>1. PICK pc \in {"sweep", "leave"} : pass' = [pass EXCEPT !.pc = pc]
      BY <1>19 DEF RecordRevoked, GoTo
    <3>2. pc \in PassSteps
      BY <3>1 DEF PassSteps
    <3> QED BY <1>t, <3>1, <3>2, PassGoes
  <2>4. MembershipTypes' /\ UNCHANGED <<records, moment, configured>>
    BY <1>19, <2>2, <2>3 DEF RecordRevoked, channelSide, aside, MembershipTypes
  <2> QED BY <2>2, <2>3, <2>4, GrantStep
<1>20. CASE LeaveChannel
  <2>1. pass' \in PassRecords /\ pass'.pc = "sweep"
    BY <1>20, <1>t, PassEdits DEF LeaveChannel, GoTo, PassSteps
  <2>2. UNCHANGED <<records, moment>> \/ NewRecord("gone", "admin")
    BY <1>20 DEF LeaveChannel
  <2>3. records' \in Seq(MembershipRecords) /\ moment' \in Nat
    BY <1>t, <2>2, NewRecordType
  <2>4. MembershipTypes' /\ UNCHANGED <<configured, grant>>
    BY <1>20, <2>1, <2>3 DEF LeaveChannel, grantSide, aside, MembershipTypes
  <2> QED BY <2>1, <2>2, <2>4, ChannelStep
<1>21. CASE JudgeMembership
  <2> DEFINE change == FindChange(0)
  <2>1. change \in FoundChanges /\ (change.kind = "add" => AddIsOnRecord(change))
    BY FoundIsOnRecord
  <2>2. \/ change.kind = "add" /\ pass' = [pass EXCEPT !.pc = "judge", !.found = change]
        \/ pass' = [pass EXCEPT !.pc = "grace"]
    BY <1>21 DEF JudgeMembership
  <2> HIDE DEF change
  <2>3. pass' \in PassRecords
    <3>1. "judge" \in PassSteps /\ "grace" \in PassSteps
      BY DEF PassSteps
    <3> QED BY <1>t, <2>1, <2>2, <3>1, PassGoes, PassFinds
  <2>4. MembershipTypes' /\ UNCHANGED <<records, moment, configured, grant>>
    BY <1>21, <2>3 DEF JudgeMembership, channelSide, grantSide, aside, MembershipTypes
  <2>5. JudgesAdds'
    <3>1. CASE change.kind = "add" /\ pass' = [pass EXCEPT !.pc = "judge", !.found = change]
      <4>1. pass'.pc = "judge" /\ pass'.found = change
        BY <1>t, <2>1, <3>1, PassFound DEF PassSteps
      <4> QED BY <2>1, <2>4, <3>1, <4>1 DEF JudgesAdds, AddIsOnRecord
    <3>2. CASE pass' = [pass EXCEPT !.pc = "grace"]
      BY <1>t, <3>2, PassEdits DEF PassSteps, JudgesAdds
    <3> QED BY <2>2, <3>1, <3>2
  <2> QED BY <2>4, <2>5, PassStep
<1>22. CASE WaitGrace
  <2>1. PICK pc \in {"leave", "sweep"} : pass' = [pass EXCEPT !.pc = pc]
    BY <1>22 DEF WaitGrace, GoTo
  <2>2. pass' \in PassRecords /\ pass'.pc = pc
    <3>1. pc \in PassSteps
      BY <2>1 DEF PassSteps
    <3> QED BY <1>t, <2>1, <3>1, PassGoes
  <2>3. MembershipTypes' /\ UNCHANGED <<records, moment, configured, grant>>
    BY <1>22, <2>2 DEF WaitGrace, channelSide, grantSide, aside, MembershipTypes
  <2> QED BY <2>2, <2>3, ChannelStep
<1>23. CASE SweepListener \/ ListenerLeaves \/ StepFails \/ ControllerDies
  <2>1. \/ pass' = NoPass
        \/ \E pc \in {"listener_leaves", "sweep"} : pass' = [pass EXCEPT !.pc = pc]
    BY <1>23 DEF SweepListener, ListenerLeaves, StepFails, ControllerDies, GoTo
  <2>2. pass' \in PassRecords /\ pass'.pc \in {"idle", "listener_leaves", "sweep"}
    <3>1. "listener_leaves" \in PassSteps /\ "sweep" \in PassSteps
      BY DEF PassSteps
    <3>2. CASE pass' = NoPass
      BY <3>2, NoPassType
    <3>3. ASSUME NEW pc \in {"listener_leaves", "sweep"}, pass' = [pass EXCEPT !.pc = pc]
          PROVE  pass' \in PassRecords /\ pass'.pc = pc
      BY <1>t, <3>1, <3>3, PassGoes
    <3> QED BY <2>1, <3>2, <3>3
  <2>3. started' \in BOOLEAN
    BY <1>23, <1>t DEF SweepListener, ListenerLeaves, StepFails, ControllerDies, Followed, grantSide
  <2>4. MembershipTypes' /\ UNCHANGED <<records, moment, configured, grant>>
    BY <1>23, <1>f, <2>2, <2>3
       DEF SweepListener, ListenerLeaves, StepFails, ControllerDies, channelSide, grantSide, aside,
           MembershipTypes
  <2> QED BY <2>2, <2>4, ChannelStep
<1>24. CASE UNCHANGED membershipVars
  <2>1. MembershipTypes' /\ UNCHANGED <<records, moment, configured, grant, pass>>
    BY <1>24 DEF membershipVars, MembershipTypes
  <2> QED BY <2>1, ChannelStep
<1> QED BY <1>1, <1>2, <1>3, <1>4, <1>5, <1>6, <1>7, <1>8, <1>9, <1>10, <1>11, <1>13, <1>14, <1>15,
           <1>16, <1>17, <1>18, <1>19, <1>20, <1>21, <1>22, <1>23, <1>24
        DEF MembershipNext, Synchronize

\* The invariant holds at first.
LEMMA MembershipInitInv == MembershipInit => MembershipInv
<1> SUFFICES ASSUME MembershipInit PROVE MembershipInv
  OBVIOUS
<1>1. grant \in GrantRecords /\ records \in Seq(MembershipRecords)
  BY DEF MembershipInit, GrantRecords, GrantStates, Reasons
<1>2. MembershipTypes
  <2>1. 0 \in 0..MaxEdits /\ 0 \in 0..MaxMembershipFaults
    BY MembershipAssumption
  <2>2. NoPass \in PassRecords /\ 0 \in Nat
    BY NoPassType
  <2> QED BY <1>1, <2>1, <2>2 DEF MembershipInit, MembershipTypes
<1>3. RecordsArePast /\ JudgesAdds /\ TombstonesCover
  BY NoPassType DEF MembershipInit, RecordsArePast, JudgesAdds, TombstonesCover
<1> QED BY <1>2, <1>3 DEF MembershipInv

\* The invariant always holds.
LEMMA MembershipInvHolds == MembershipSpec => []MembershipInv
BY MembershipInitInv, MembershipStep, PTL DEF MembershipSpec

\* The channel's records, the grant's row and the pass keep their types.
THEOREM MembershipTypeCorrect == MembershipSpec => []MembershipTypeOK
<1>1. MembershipInv => MembershipTypeOK
  BY DEF MembershipInv, MembershipTypes, MembershipTypeOK, GrantRecords, GrantStates, PassRecords,
         PassSteps, FoundChanges
<1> QED BY <1>1, MembershipInvHolds, PTL

\* A grant comes into force, or is renewed, only by an add newer than the row, made by an owner
\* or, for a channel not configured then, a system admin (grantChannel, judgeAdd,
\* tombstoneUnconfiguredChannels): whatever was read before and happens in between.
THEOREM GrantsAreOnlyGiven == MembershipSpec => GrantsAreGiven
<1> DEFINE Given ==
      grant'.state = "active" /\ <<grant'.state, grant'.since>> # <<grant.state, grant.since>> =>
         \E i \in DOMAIN records :
            /\ records[i].kind = "add" /\ records[i].at = grant'.since
            /\ grant.state = "none" \/ records[i].at > grant.since
            /\ \/ records[i].by = "owner"
               \/ records[i].by = "admin" /\ (records[i].configured =>
                     grant.state # "none" /\ grant.reason # "config_removed")
<1>1. MembershipInv /\ [MembershipNext]_membershipVars => [Given]_membershipVars
  <2> SUFFICES ASSUME MembershipInv, MembershipNext PROVE Given
    OBVIOUS
  <2> USE DEF MembershipInv
  <2>t. grant \in GrantRecords
    BY DEF MembershipTypes
  <2>1. CASE UNCHANGED grant
    BY <2>1
  <2>2. CASE grant'.state = "revoked"
    BY <2>2
  <2>3. CASE MarkChecked
    <3>1. grant' = grant \/ grant' = [grant EXCEPT !.checked = pass.found.at]
      BY <2>3 DEF MarkChecked
    <3>2. [grant EXCEPT !.checked = pass.found.at].state = grant.state
          /\ [grant EXCEPT !.checked = pass.found.at].since = grant.since
      BY <2>t DEF GrantRecords
    <3> QED BY <3>1, <3>2
  <2>4. ASSUME NEW reason, Revoke(reason) PROVE Given
    <3>1. grant' = grant \/ grant' = [grant EXCEPT !.state = "revoked", !.reason = reason]
      BY <2>4 DEF Revoke
    <3>2. [grant EXCEPT !.state = "revoked", !.reason = reason].state = "revoked"
      BY <2>t DEF GrantRecords
    <3> QED BY <2>1, <2>2, <3>1, <3>2
  <2>5. CASE Unconfigure
    <3>1. grant' = grant \/ grant'.state = "revoked"
      BY <2>5 DEF Unconfigure, Tombstone
    <3> QED BY <2>1, <2>2, <3>1
  <2>6. CASE GrantChannel /\ Grants
    <3>1. grant'.since = pass.found.at
      BY <2>6 DEF GrantChannel
    <3>2. PICK i \in DOMAIN records : /\ records[i].kind = "add" /\ records[i].by = pass.found.by
                                      /\ records[i].at = pass.found.at
      BY <2>6 DEF GrantChannel, JudgesAdds, AddIsOnRecord
    <3>3. records[i].by \in {"owner", "admin"} /\ ~configured
          /\ (grant.state = "none" \/ records[i].at > grant.since)
      BY <2>6, <3>2 DEF GrantChannel, Grants, JudgesAdds, MayGrant
    <3>4. records[i].configured => grant.state # "none" /\ grant.reason # "config_removed"
      <4>1. records[i] \in MembershipRecords
        BY DEF MembershipTypes
      <4>2. records[i].at \in Nat /\ grant.since \in Nat
        BY <2>t, <4>1 DEF MembershipRecords, GrantRecords
      <4> QED BY <3>2, <3>3, <4>2 DEF TombstonesCover
    <3> QED BY <3>1, <3>2, <3>3, <3>4
  <2>7. CASE GrantChannel /\ ~Grants
    BY <2>1, <2>7 DEF GrantChannel
  <2>8. CASE OperatorRevokes \/ RecordRevoked
    BY <2>4, <2>8 DEF OperatorRevokes, RecordRevoked
  <2>9. CASE \/ BeginPass \/ ListChannels \/ CheckGrant \/ ConfirmGone \/ JudgeAdd \/ BringListener
             \/ ListenerRefused \/ LeaveChannel \/ JudgeMembership \/ WaitGrace \/ SweepListener
             \/ ListenerLeaves \/ GraceEnds \/ TooManyPosts \/ StepFails \/ ControllerDies
             \/ (\E person \in People : AddBot(person)) \/ RemoveBot \/ EraseRecord \/ PlanAdminAdd
             \/ AdminAdd \/ DropAdminAdd \/ Configure
    <3>1. UNCHANGED grant
      BY <2>9 DEF BeginPass, ListChannels, CheckGrant, ConfirmGone, JudgeAdd, BringListener,
                  ListenerRefused, LeaveChannel, JudgeMembership, WaitGrace, SweepListener,
                  ListenerLeaves, GraceEnds, TooManyPosts, StepFails, ControllerDies, AddBot,
                  RemoveBot, EraseRecord, PlanAdminAdd, AdminAdd, DropAdminAdd, Configure, grantSide
    <3> QED BY <2>1, <3>1
  <2> QED BY <2>3, <2>5, <2>6, <2>7, <2>8, <2>9 DEF MembershipNext, Synchronize
<1> QED BY <1>1, MembershipInvHolds, PTL DEF MembershipSpec, GrantsAreGiven

-----------------------------------------------------------------------------
(* The listener. *)

PostRecords == [st: {"none", "stamped", "visible"}, at: Nat, upd: Nat, edited: BOOLEAN]
ChannelRecords == [managed: BOOLEAN, gen: Nat, left: Nat, started: BOOLEAN, cursor: Nat, floor: Nat,
                   atFloor: SUBSET Posts]
TaskSteps == {"idle", "live", "save", "scan", "start", "fetch", "next", "replay", "finish"}
TaskRecords == [pc: TaskSteps, frame: Frames, since: Nat, floor: Nat, atFloor: SUBSET Posts,
                newest: Nat, gen: Nat, todo: SUBSET Frames]
Outcomes == Recorded \cup {"none", "rejected", "skipped"}
ItemStates == {"sending", "sent", "dead", "cancelled"}

\* What every variable is.
ListenerTypes ==
    /\ now \in 0..MaxTime /\ kind \in Threads /\ post \in [Posts -> PostRecords]
    /\ item \in [Posts -> ItemStates] /\ retired \subseteq Kinds
    /\ channel \in ChannelRecords /\ task \in TaskRecords /\ queue \in Seq(Frames)
    /\ failing \in BOOLEAN /\ socket \in {"down", "up", "gap"} /\ faults \in 0..MaxFaults
    /\ outcome \in [Posts -> Outcomes] /\ private \subseteq Posts

\* The frames in the chain, the one it is at included.
Queued == {queue[i] : i \in DOMAIN queue}

\* Nothing is dated later than now; a stamped post appears within the margin.
PostsAreDated ==
    /\ \A p \in Posts : /\ post[p].at <= post[p].upd /\ post[p].upd <= now
                        /\ post[p].st # "none" => 0 < post[p].at
                        /\ post[p].st = "stamped" => now < post[p].at + Margin
    /\ channel.cursor <= now /\ task.newest <= now /\ task.frame.upd <= now
    /\ \A f \in Queued \cup task.todo : f.upd <= now

\* A frame or a post read tells of a post that is there.
FrameIsTrue(f) == f.p \in Visible /\ f.at = post[f.p].at

\* The chain is at the head of its queue, its frames are true, and the frame of a creation is
\* handled within the margin.
ChainInStep ==
    /\ task.pc # "idle" => queue # <<>>
    /\ task.pc \in {"live", "save"} =>
         Head(queue) = task.frame /\ task.frame # SyncTask /\ ~failing
    /\ task.pc \notin {"idle", "live", "save"} => Head(queue) = SyncTask
    /\ \A f \in Queued : f # SyncTask => FrameIsTrue(f)
    /\ \A f \in Queued : f.change = "created" => now < f.at + Margin
    /\ \A f \in task.todo : FrameIsTrue(f)
    /\ task.pc = "replay" => task.frame \in task.todo
    /\ task.pc \in {"finish", "fetch", "scan", "start"} => task.todo = {}

\* Only a managed channel has a catch-up; a scan knows the generation it was made in, and a sync
\* the catch-up it replays by.
ChannelInStep ==
    /\ channel.started => channel.managed
    /\ channel.left <= channel.gen /\ (~channel.managed => channel.left = channel.gen)
    /\ task.pc \in {"scan", "start"} =>
         /\ ~channel.started /\ task.gen <= channel.gen
         /\ ~channel.managed => task.gen < channel.left
    /\ task.pc \in {"fetch", "next", "replay", "finish"} /\ channel.started =>
         /\ task.floor = channel.floor /\ task.atFloor = channel.atFloor
         /\ task.since = Larger(0, channel.cursor - Margin)

\* What was posted while the channel was not managed lies before its start, also before the one
\* that a scan about to be installed has found.
BeforeStart(p, floor, atFloor) == post[p].at < floor \/ (post[p].at = floor /\ p \in atFloor)
PrivateInStep ==
    /\ private \subseteq Visible
    /\ \A p \in Posts : outcome[p] # "none" => p \in Visible
    /\ channel.started => \A p \in private : BeforeStart(p, channel.floor, channel.atFloor)
    /\ task.pc = "start" /\ channel.left <= task.gen =>
         \A p \in private : BeforeStart(p, task.floor, task.atFloor)

ListenerInv ==
    /\ ListenerTypes /\ PostsAreDated /\ ChainInStep /\ ChannelInStep /\ PrivateInStep
    /\ UnmanagedIsPrivate

-----------------------------------------------------------------------------
\* LargestOf is a bound of what it is taken of, and within any bound of it (channelStartOf).
LEMMA LargestIs ==
    ASSUME NEW b \in Nat, NEW S \in SUBSET (0..b)
    PROVE  LargestOf(S) \in 0..b /\ \A k \in S : k <= LargestOf(S)
<1>1. \E n \in S \cup {0} : \A k \in S : k <= n
  <2>1. CASE S = {}
    BY <2>1
  <2>2. CASE S # {}
    BY <2>2, GreatestExists
  <2> QED BY <2>1, <2>2
<1>2. LargestOf(S) \in S \cup {0} /\ \A k \in S : k <= LargestOf(S)
  BY <1>1 DEF LargestOf
<1>3. S \cup {0} \subseteq 0..b
  OBVIOUS
<1> QED BY <1>2, <1>3

\* The rest of a queue.
LEMMA TailIs ==
    ASSUME NEW S, NEW q \in Seq(S), q # <<>>
    PROVE  /\ Tail(q) \in Seq(S) /\ Head(q) = q[1] /\ 1 \in DOMAIN q /\ Head(q) \in S
           /\ \A i \in DOMAIN Tail(q) : i + 1 \in DOMAIN q /\ Tail(q)[i] = q[i + 1]
           /\ \A k \in DOMAIN q : k = 1 \/ (k - 1 \in DOMAIN Tail(q) /\ Tail(q)[k - 1] = q[k])
<1>1. Len(q) \in Nat /\ Len(q) # 0 /\ DOMAIN q = 1..Len(q)
  OBVIOUS
<1>2. Tail(q) \in Seq(S) /\ Len(Tail(q)) = Len(q) - 1 /\ Head(q) = q[1]
  BY <1>1
<1>3. \A i \in 1..(Len(q) - 1) : Tail(q)[i] = q[i + 1]
  BY <1>1
<1>4. DOMAIN Tail(q) = 1..(Len(q) - 1)
  BY <1>1, <1>2
<1> QED BY <1>1, <1>2, <1>3, <1>4

\* A queue with one more task.
LEMMA AppendIs ==
    ASSUME NEW S, NEW q \in Seq(S), NEW f \in S
    PROVE  /\ Append(q, f) \in Seq(S) /\ Append(q, f) # <<>>
           /\ q # <<>> => Head(Append(q, f)) = Head(q) /\ Tail(Append(q, f)) = Append(Tail(q), f)
           /\ q = <<>> => Tail(Append(q, f)) = <<>>
           /\ \A i \in DOMAIN q : i \in DOMAIN Append(q, f) /\ Append(q, f)[i] = q[i]
           /\ Len(q) + 1 \in DOMAIN Append(q, f) /\ Append(q, f)[Len(q) + 1] = f
           /\ \A i \in DOMAIN Append(q, f) : i \in DOMAIN q \/ i = Len(q) + 1
           /\ \A i \in DOMAIN q : i \in Nat /\ i < Len(q) + 1
           /\ Len(q) \in Nat
<1>1. Len(q) \in Nat /\ DOMAIN q = 1..Len(q)
  OBVIOUS
<1>2. /\ Append(q, f) \in Seq(S) /\ Len(Append(q, f)) = Len(q) + 1 /\ Append(q, f) # <<>>
      /\ \A i \in 1..Len(q) : Append(q, f)[i] = q[i]
      /\ Append(q, f)[Len(q) + 1] = f
  BY AppendProperties
<1>3. /\ q # <<>> => Head(Append(q, f)) = Head(q) /\ Tail(Append(q, f)) = Append(Tail(q), f)
      /\ q = <<>> => Tail(Append(q, f)) = <<>>
  BY HeadTailAppend
<1>4. DOMAIN Append(q, f) = 1..(Len(q) + 1)
  BY <1>1, <1>2
<1> QED BY <1>1, <1>2, <1>3, <1>4

\* A sync is a task, and a chain that is at nothing has the type of a task.
LEMMA IdleIs ==
    /\ SyncTask \in Frames /\ SyncTask.upd = 0 /\ SyncTask.change = "sync" /\ SyncTask.p = None
    /\ Idle \in TaskRecords /\ Idle.pc = "idle" /\ Idle.frame = SyncTask /\ Idle.newest = 0
    /\ Idle.todo = {} /\ Idle.gen = 0
BY DEF SyncTask, Frames, Idle, TaskRecords, TaskSteps

\* A sync put at the end of the chain: nothing but the sync is new.
LEMMA WithSyncIs ==
    ASSUME queue \in Seq(Frames)
    PROVE  /\ WithSync \in Seq(Frames) /\ WithSync # <<>>
           /\ queue # <<>> => Head(WithSync) = Head(queue)
           /\ \A i \in DOMAIN WithSync : \/ WithSync[i] = SyncTask
                                         \/ i \in DOMAIN queue /\ WithSync[i] = queue[i]
           /\ \A i \in DOMAIN queue : i \in DOMAIN WithSync /\ WithSync[i] = queue[i]
BY IdleIs, AppendIs DEF WithSync

\* The tasks of the chain are frames.
LEMMA QueuedAreFrames ==
    ASSUME ListenerTypes
    PROVE  \A f \in Queued : f \in Frames /\ f.upd \in Nat /\ f.at \in Nat
<1>1. \A f \in Queued : f \in Frames
  BY ElementOfSeq DEF ListenerTypes, Queued
<1> QED BY <1>1 DEF Frames

\* What holds of the frame of a change while it waits.
FrameFits(f) ==
    /\ f.upd <= now
    /\ f # SyncTask => FrameIsTrue(f)
    /\ f.change = "created" => now < f.at + Margin

\* A chain whose frames fit, and whose task is at its head, is in step.
LEMMA ChainByFrames ==
    ASSUME ListenerInv
    PROVE  \A f \in Queued : FrameFits(f)
BY DEF ListenerInv, ChainInStep, PostsAreDated, FrameFits

-----------------------------------------------------------------------------
(* Mattermost's side. *)

\* What is visible stays visible, and nothing is made earlier than it was.
PostsGrow ==
    /\ now \in Nat /\ now' \in Nat /\ now <= now'
    /\ \A p \in Posts : /\ post[p].st # "none" => post'[p].at = post[p].at
                        /\ post[p].st = "visible" => post'[p].st = "visible"

\* A frame that told of a post that was there still does.
LEMMA TrueStays ==
    ASSUME PostsGrow, NEW f, FrameIsTrue(f) PROVE FrameIsTrue(f)'
BY DEF PostsGrow, FrameIsTrue, Visible

\* A frame arrives, alone or after a sync that its gap calls for, or is lost.
LEMMA BroadcastIs ==
    ASSUME ListenerTypes, NEW f \in Frames, Broadcast(f)
    PROVE  /\ queue' \in Seq(Frames) /\ socket' \in {"down", "up", "gap"}
           /\ faults' \in 0..MaxFaults
           /\ \A i \in DOMAIN queue' : queue'[i] \in Queued \cup {SyncTask, f}
           /\ queue # <<>> => queue' # <<>> /\ Head(queue') = Head(queue)
<1> USE DEF ListenerTypes
<1>1. CASE socket # "down" /\ Arrive(f) /\ UNCHANGED faults
  <2> DEFINE base == IF socket = "gap" THEN WithSync ELSE queue
  <2>1. /\ base \in Seq(Frames) /\ \A i \in DOMAIN base : base[i] \in Queued \cup {SyncTask}
        /\ queue # <<>> => base # <<>> /\ Head(base) = Head(queue)
    BY WithSyncIs DEF Queued
  <2>2. queue' = Append(base, f) /\ socket' = "up"
    BY <1>1 DEF Arrive
  <2> HIDE DEF base
  <2>3. \A i \in DOMAIN Append(base, f) : Append(base, f)[i] \in Queued \cup {SyncTask, f}
    BY <2>1, AppendIs
  <2>4. Append(base, f) \in Seq(Frames)
        /\ (queue # <<>> => Append(base, f) # <<>> /\ Head(Append(base, f)) = Head(queue))
    BY <2>1, AppendIs
  <2> QED BY <1>1, <2>2, <2>3, <2>4
<1>2. CASE socket = "down" /\ UNCHANGED <<queue, socket, faults>>
  BY <1>2 DEF Queued
<1>3. CASE /\ "lose_frame" \in ListenerFaults /\ Fault
           /\ socket # "down" /\ socket' = "gap" /\ UNCHANGED queue
  BY <1>3, ListenerAssumption DEF Queued, Fault
<1> QED BY <1>1, <1>2, <1>3 DEF Broadcast

\* Tasks come to the end of the chain; the one it is at goes on.
LEMMA ChainGrows ==
    ASSUME ListenerInv, PostsGrow, UNCHANGED <<task, failing>>, queue' \in Seq(Frames),
           \A f \in Queued : FrameFits(f)',
           \A f \in Queued' : f \in Queued \/ FrameFits(f)',
           queue # <<>> => queue' # <<>> /\ Head(queue') = Head(queue)
    PROVE  ChainInStep'
<1>1. \A f \in task.todo : FrameIsTrue(f)'
  BY TrueStays DEF ListenerInv, ChainInStep
<1>2. \A f \in Queued' : FrameFits(f)'
  OBVIOUS
<1>3. \A f \in Queued' : (f # SyncTask => FrameIsTrue(f)') /\ (f.change = "created" => now' < f.at + Margin)
  BY <1>2 DEF FrameFits
<1> QED BY <1>1, <1>3 DEF ListenerInv, ChainInStep

\* What waits in the chain goes on fitting when the posts change and time goes on within the
\* margin of what is under way.
LEMMA FitsLater ==
    ASSUME ListenerInv, PostsGrow, now' = now \/ SettledPost(now')
    PROVE  \A f \in Queued : FrameFits(f)'
<1> SUFFICES ASSUME NEW f \in Queued PROVE FrameFits(f)'
  OBVIOUS
<1>1. FrameFits(f)
  BY ChainByFrames
<1>2. PICK i \in DOMAIN queue : f = queue[i]
  BY DEF Queued
<1>3. f # SyncTask => FrameIsTrue(f)'
  BY <1>1, TrueStays DEF FrameFits
<1>4. f \in Frames /\ f.upd \in Nat /\ f.at \in Nat
  BY QueuedAreFrames DEF ListenerInv
<1>5. f.change = "created" => now' < f.at + Margin
  BY <1>1, <1>2, IdleIs DEF FrameFits, SettledPost
<1>6. f.upd <= now'
  BY <1>1, <1>4 DEF FrameFits, PostsGrow
<1> QED BY <1>3, <1>5, <1>6 DEF FrameFits

\* Later posts leave what the configuration and the history say of the ones there are.
LEMMA PrivateKept ==
    ASSUME ListenerInv, PostsGrow, UNCHANGED <<channel, task, outcome, private>>
    PROVE  ChannelInStep' /\ PrivateInStep' /\ UnmanagedIsPrivate'
<1>1. Visible \subseteq Visible' /\ \A p \in Visible : post'[p].at = post[p].at
  BY DEF PostsGrow, Visible
<1>2. \A p \in private : p \in Visible
  BY DEF ListenerInv, PrivateInStep
<1>3. ASSUME NEW p \in private, NEW a, NEW S
      PROVE  BeforeStart(p, a, S)' <=> BeforeStart(p, a, S)
  BY <1>1, <1>2 DEF BeforeStart
<1>4. PrivateInStep'
  BY <1>1, <1>2, <1>3 DEF ListenerInv, PrivateInStep, BeforeStart
<1> QED BY <1>4 DEF ListenerInv, ChannelInStep, UnmanagedIsPrivate

\* The fields of a post.
LEMMA PostFields ==
    ASSUME ListenerTypes, NEW p \in Posts
    PROVE  /\ post[p] \in PostRecords /\ post[p].at \in Nat /\ post[p].upd \in Nat
           /\ post[p].edited \in BOOLEAN /\ post[p].st \in {"none", "stamped", "visible"}
           /\ now \in Nat
<1>1. post[p] \in PostRecords
  BY DEF ListenerTypes
<1>2. now \in Nat
  BY ListenerAssumption DEF ListenerTypes
<1> QED BY <1>1, <1>2 DEF PostRecords

\* What the channel and the chain have noted is still not later than now.
LEMMA DatesKept ==
    ASSUME ListenerInv, PostsGrow, UNCHANGED <<channel, task>>,
           \A f \in Queued' : f.upd <= now',
           \A q \in Posts : /\ post'[q].at <= post'[q].upd /\ post'[q].upd <= now'
                            /\ post'[q].st # "none" => 0 < post'[q].at
                            /\ post'[q].st = "stamped" => now' < post'[q].at + Margin
    PROVE  PostsAreDated'
<1> USE DEF ListenerInv
<1>1. channel.cursor \in Nat /\ task.newest \in Nat /\ task.frame.upd \in Nat
  BY DEF ListenerTypes, ChannelRecords, TaskRecords, Frames
<1>2. \A f \in task.todo : f.upd \in Nat
  BY DEF ListenerTypes, TaskRecords, Frames
<1>3. channel'.cursor <= now' /\ task'.newest <= now' /\ task'.frame.upd <= now'
  BY <1>1 DEF PostsAreDated, PostsGrow
<1>4. \A f \in task'.todo : f.upd <= now'
  BY <1>2 DEF PostsAreDated, PostsGrow
<1> QED BY <1>3, <1>4 DEF PostsAreDated

\* Stamp keeps the invariant.
LEMMA ListenerStampStep ==
    ASSUME ListenerInv, NEW p \in Posts, Stamp(p)
    PROVE  ListenerInv'
<1> USE DEF ListenerInv
<1>1. PICK t \in Later :
        /\ now' = t
        /\ post' = [post EXCEPT ![p] = [st |-> "stamped", at |-> t, upd |-> t, edited |-> FALSE]]
  BY DEF Stamp
<1>2. /\ post[p].st = "none"
      /\ UNCHANGED <<kind, item, retired, channel, task, queue, failing, socket, faults, outcome,
                     private>>
  BY DEF Stamp, bridge, listener
<1>3. t \in Nat /\ now < t /\ t <= MaxTime /\ SettledPost(t) /\ now \in Nat
  BY ListenerAssumption DEF Later, ListenerTypes
<1>4. [st |-> "stamped", at |-> t, upd |-> t, edited |-> FALSE] \in PostRecords
  BY <1>3 DEF PostRecords
<1>5. post \in [Posts -> PostRecords]
  BY DEF ListenerTypes
<1>6. /\ post' \in [Posts -> PostRecords]
      /\ post'[p] = [st |-> "stamped", at |-> t, upd |-> t, edited |-> FALSE]
      /\ \A q \in Posts : q # p => post'[q] = post[q]
  BY <1>1, <1>4, <1>5
<1>7. ListenerTypes'
  BY <1>1, <1>2, <1>3, <1>6, ListenerAssumption DEF ListenerTypes
<1>8. PostsGrow
  BY <1>1, <1>2, <1>3, <1>6 DEF PostsGrow
<1>9. \A f \in Queued : FrameFits(f)'
  BY <1>1, <1>3, <1>8, FitsLater
<1>10. Queued' = Queued
  BY <1>2 DEF Queued
<1>11. ChainInStep'
  BY <1>2, <1>8, <1>9, <1>10, ChainGrows DEF ListenerTypes
<1>12. PostsAreDated'
  <2>1. \A q \in Posts : /\ post'[q].at <= post'[q].upd /\ post'[q].upd <= now'
                         /\ post'[q].st # "none" => 0 < post'[q].at
                         /\ post'[q].st = "stamped" => now' < post'[q].at + Margin
    <3> SUFFICES ASSUME NEW q \in Posts
                 PROVE  /\ post'[q].at <= post'[q].upd /\ post'[q].upd <= now'
                        /\ post'[q].st # "none" => 0 < post'[q].at
                        /\ post'[q].st = "stamped" => now' < post'[q].at + Margin
      OBVIOUS
    <3>1. CASE q = p
      BY <3>1, <1>1, <1>3, <1>6, ListenerAssumption
    <3>2. CASE q # p
      BY <3>2, <1>1, <1>3, <1>6, PostFields, ListenerAssumption DEF PostsAreDated, SettledPost
    <3> QED BY <3>1, <3>2
  <2>2. \A f \in Queued' : f.upd <= now'
    BY <1>9, <1>10 DEF FrameFits
  <2> QED BY <2>1, <2>2, <1>2, <1>8, DatesKept
<1> QED BY <1>2, <1>7, <1>8, <1>11, <1>12, PrivateKept

\* The frame of a change tells of the post as it is then.
LEMMA FrameOf ==
    ASSUME ListenerInv, post' \in [Posts -> PostRecords], NEW p \in Posts, post'[p].st = "visible",
           NEW change \in {"created", "edited"}, post'[p].upd <= now',
           change = "created" => now' < post'[p].at + Margin,
           NEW f, f = Frame(p, change)
    PROVE  /\ f \in Frames /\ FrameFits(f)' /\ f.p = p /\ f.change = change /\ f # SyncTask
           /\ f.at = post'[p].at /\ f.upd = post'[p].upd
<1>1. post'[p].at \in Nat /\ post'[p].upd \in Nat /\ post'[p].edited \in BOOLEAN
  BY DEF PostRecords
<1>2. /\ f \in Frames /\ f.p = p /\ f.at = post'[p].at /\ f.upd = post'[p].upd
      /\ f.change = change
  BY <1>1 DEF Frame, Frames
<1>3. FrameIsTrue(f)'
  BY <1>2 DEF FrameIsTrue, Visible
<1> QED BY <1>2, <1>3, IdleIs DEF FrameFits

\* A broadcast leaves the chain in step.
LEMMA BroadcastKeeps ==
    ASSUME ListenerInv, PostsGrow, now' = now \/ SettledPost(now'), UNCHANGED <<task, failing>>,
           NEW f \in Frames, FrameFits(f)', Broadcast(f)
    PROVE  ChainInStep' /\ \A g \in Queued' : g.upd <= now'
<1>1. \A g \in Queued : FrameFits(g)'
  BY FitsLater
<1>2. /\ queue' \in Seq(Frames) /\ \A i \in DOMAIN queue' : queue'[i] \in Queued \cup {SyncTask, f}
      /\ queue # <<>> => queue' # <<>> /\ Head(queue') = Head(queue)
  BY BroadcastIs DEF ListenerInv
<1>3. FrameFits(SyncTask)'
  BY IdleIs DEF FrameFits, PostsGrow
<1>4. \A g \in Queued' : g \in Queued \cup {SyncTask, f}
  BY <1>2 DEF Queued
<1>5. \A g \in Queued' : FrameFits(g)'
  BY <1>1, <1>3, <1>4
<1>6. ChainInStep'
  BY <1>1, <1>2, <1>5, ChainGrows
<1> QED BY <1>5, <1>6 DEF FrameFits

\* What a post's appearance changes: the post is visible, and its root's update_at may grow.
LEMMA AppearIs ==
    ASSUME ListenerInv, NEW p \in Posts, Appear(p)
    PROVE  /\ post' \in [Posts -> PostRecords] /\ PostsGrow /\ now' = now
           /\ post'[p].st = "visible" /\ post'[p].at = post[p].at /\ post'[p].upd = post[p].upd
           /\ \A q \in Posts : /\ q # p => post'[q].st = post[q].st
                               /\ post'[q].at = post[q].at /\ post[q].upd <= post'[q].upd
                               /\ post'[q].upd <= now
<1> USE DEF ListenerInv
<1>1. /\ post[p].st = "stamped" /\ now' = now
      /\ post' = [q \in Posts |->
                  IF q = p THEN [post[q] EXCEPT !.st = "visible"]
                  ELSE IF q = Root[p] THEN [post[q] EXCEPT !.upd = Larger(@, post[p].at)]
                  ELSE post[q]]
  BY DEF Appear
<1>2. post[p].at <= post[p].upd /\ post[p].upd <= now
  BY DEF PostsAreDated
<1>3. ASSUME NEW q \in Posts
      PROVE  /\ post'[q] \in PostRecords /\ post'[q].at = post[q].at
             /\ post[q].upd <= post'[q].upd /\ post'[q].upd <= now
             /\ q = p => post'[q].st = "visible" /\ post'[q].upd = post[q].upd
             /\ q # p => post'[q].st = post[q].st
  <2> DEFINE larger == Larger(post[q].upd, post[p].at)
  <2>1. larger \in Nat /\ post[q].upd <= larger /\ larger <= now
    BY <1>2, PostFields DEF Larger, PostsAreDated
  <2> HIDE DEF larger
  <2>2. post[q] \in PostRecords /\ post[q].upd \in Nat /\ post[q].upd <= now
    BY PostFields DEF PostsAreDated
  <2>3. CASE q = p
    <3>1. post'[q] = [post[q] EXCEPT !.st = "visible"]
      BY <2>3, <1>1
    <3> QED BY <3>1, <2>2, <2>3 DEF PostRecords
  <2>4. CASE q # p /\ q = Root[p]
    <3>1. post'[q] = [post[q] EXCEPT !.upd = larger]
      BY <2>4, <1>1 DEF larger
    <3> QED BY <3>1, <2>1, <2>2, <2>4 DEF PostRecords
  <2>5. CASE q # p /\ q # Root[p]
    <3>1. post'[q] = post[q]
      BY <2>5, <1>1
    <3> QED BY <3>1, <2>2, <2>5
  <2> QED BY <2>3, <2>4, <2>5
<1>4. post' \in [Posts -> PostRecords]
  <2>1. DOMAIN post' = Posts /\ post' = [q \in Posts |-> post'[q]]
    BY <1>1
  <2> QED BY <2>1, <1>3
<1>5. PostsGrow
  BY <1>1, <1>3, PostFields DEF PostsGrow
<1> QED BY <1>1, <1>3, <1>4, <1>5

\* Appear keeps the invariant: what appears in a channel that is not managed was recorded by
\* nobody.
LEMMA ListenerAppearStep ==
    ASSUME ListenerInv, NEW p \in Posts, Appear(p)
    PROVE  ListenerInv'
<1> USE DEF ListenerInv
<1>1. /\ post[p].st = "stamped" /\ Broadcast(Frame(p, "created"))
      /\ private' = IF channel.managed THEN private ELSE private \cup {p}
      /\ UNCHANGED <<now, kind, item, retired, channel, task, failing, outcome>>
  BY DEF Appear, bridge
<1>2. /\ post' \in [Posts -> PostRecords] /\ PostsGrow /\ now' = now
      /\ post'[p].st = "visible" /\ post'[p].at = post[p].at /\ post'[p].upd = post[p].upd
      /\ \A q \in Posts : /\ q # p => post'[q].st = post[q].st
                          /\ post'[q].at = post[q].at /\ post[q].upd <= post'[q].upd
                          /\ post'[q].upd <= now
  BY AppearIs
<1>3. now < post[p].at + Margin /\ post[p].upd <= now
  BY <1>1 DEF PostsAreDated
<1>4. PICK f : f = Frame(p, "created")
  OBVIOUS
<1>41. f \in Frames /\ FrameFits(f)' /\ Broadcast(f)
  BY <1>1, <1>2, <1>3, <1>4, FrameOf
<1>5. ChainInStep' /\ \A g \in Queued' : g.upd <= now'
  BY <1>1, <1>2, <1>41, BroadcastKeeps
<1>6. ListenerTypes'
  BY <1>1, <1>2, <1>41, BroadcastIs DEF ListenerTypes
<1>7. PostsAreDated'
  <2>1. ASSUME NEW q \in Posts
        PROVE  /\ post'[q].at <= post'[q].upd /\ post'[q].upd <= now'
               /\ post'[q].st # "none" => 0 < post'[q].at
               /\ post'[q].st = "stamped" => now' < post'[q].at + Margin
    <3>1. post'[q].at \in Nat /\ post'[q].upd \in Nat /\ post[q].upd \in Nat
      BY <1>2, PostFields DEF PostRecords
    <3>2. /\ post[q].at <= post[q].upd /\ (post[q].st # "none" => 0 < post[q].at)
          /\ (post[q].st = "stamped" => now < post[q].at + Margin)
      BY DEF PostsAreDated
    <3> QED BY <1>1, <1>2, <3>1, <3>2
  <2> QED BY <2>1, <1>1, <1>2, <1>5, DatesKept
<1>8. ChannelInStep'
  BY <1>1 DEF ChannelInStep
<1>9. p \notin Visible /\ outcome[p] = "none"
  BY <1>1 DEF Visible, PrivateInStep
<1>10. UnmanagedIsPrivate'
  BY <1>1, <1>9 DEF UnmanagedIsPrivate, Recorded
<1>11. PrivateInStep'
  <2>1. Visible \subseteq Visible' /\ p \in Visible'
    BY <1>2 DEF PostsGrow, Visible
  <2>2. private' \subseteq Visible' /\ \A q \in Posts : outcome'[q] # "none" => q \in Visible'
    BY <2>1, <1>1 DEF PrivateInStep
  <2>3. ASSUME NEW q \in private, NEW a, NEW S
        PROVE  BeforeStart(q, a, S)' <=> BeforeStart(q, a, S)
    BY <1>2 DEF BeforeStart, ListenerTypes
  <2>4. CASE channel.managed
    <3>1. private' = private
      BY <2>4, <1>1
    <3> QED BY <3>1, <2>2, <2>3, <1>1 DEF PrivateInStep, BeforeStart
  <2>5. CASE ~channel.managed
    BY <2>5, <2>2, <1>1 DEF PrivateInStep, ChannelInStep, ListenerTypes, ChannelRecords, TaskRecords
  <2> QED BY <2>4, <2>5
<1> QED BY <1>5, <1>6, <1>7, <1>8, <1>10, <1>11

\* What an edit changes: the post's update_at, which is now.
LEMMA EditIs ==
    ASSUME ListenerInv, NEW p \in Posts, Edit(p)
    PROVE  /\ post' \in [Posts -> PostRecords] /\ PostsGrow /\ now < now' /\ now' \in 0..MaxTime
           /\ SettledPost(now') /\ post[p].st = "visible" /\ post'[p].upd = now'
           /\ \A q \in Posts : /\ post'[q].st = post[q].st /\ post'[q].at = post[q].at
                               /\ post[q].upd <= post'[q].upd /\ post'[q].upd <= now'
<1> USE DEF ListenerInv
<1>1. PICK t \in Later : /\ now' = t
                         /\ post' = [post EXCEPT ![p] = [@ EXCEPT !.upd = t, !.edited = TRUE]]
  BY DEF Edit
<1>2. t \in Nat /\ now < t /\ t <= MaxTime /\ SettledPost(t) /\ now \in Nat
  BY ListenerAssumption DEF Later, ListenerTypes
<1> DEFINE new == [post[p] EXCEPT !.upd = t, !.edited = TRUE]
<1>3. post \in [Posts -> PostRecords] /\ post[p] \in PostRecords
  BY DEF ListenerTypes
<1>4. new \in PostRecords /\ new.st = post[p].st /\ new.at = post[p].at /\ new.upd = t
  BY <1>2, <1>3 DEF PostRecords
<1>5. post' = [post EXCEPT ![p] = new]
  BY <1>1
<1> HIDE DEF new
<1>6. /\ post' \in [Posts -> PostRecords] /\ post'[p] = new
      /\ \A q \in Posts : q # p => post'[q] = post[q]
  BY <1>3, <1>4, <1>5
<1>7. ASSUME NEW q \in Posts
      PROVE  /\ post'[q].st = post[q].st /\ post'[q].at = post[q].at
             /\ post[q].upd <= post'[q].upd /\ post'[q].upd <= now'
  <2>1. post[q].upd <= now /\ post[q].upd \in Nat
    BY PostFields DEF PostsAreDated
  <2> QED BY <2>1, <1>1, <1>2, <1>4, <1>6
<1>8. PostsGrow
  BY <1>1, <1>2, <1>7 DEF PostsGrow
<1>9. post[p].st = "visible"
  BY DEF Edit
<1> QED BY <1>1, <1>2, <1>4, <1>6, <1>7, <1>8, <1>9, ListenerAssumption

\* Edit keeps the invariant.
LEMMA ListenerEditStep ==
    ASSUME ListenerInv, NEW p \in Posts, Edit(p)
    PROVE  ListenerInv'
<1> USE DEF ListenerInv
<1>1. /\ Broadcast(Frame(p, "edited"))
      /\ UNCHANGED <<kind, item, retired, channel, task, failing, outcome, private>>
  BY DEF Edit, bridge
<1>2. /\ post' \in [Posts -> PostRecords] /\ PostsGrow /\ now < now' /\ now' \in 0..MaxTime
      /\ SettledPost(now') /\ post[p].st = "visible" /\ post'[p].upd = now'
      /\ \A q \in Posts : /\ post'[q].st = post[q].st /\ post'[q].at = post[q].at
                          /\ post[q].upd <= post'[q].upd /\ post'[q].upd <= now'
  BY EditIs
<1>3. PICK f : f = Frame(p, "edited")
  OBVIOUS
<1>4. f \in Frames /\ FrameFits(f)' /\ Broadcast(f)
  BY <1>1, <1>2, <1>3, FrameOf
<1>5. ChainInStep' /\ \A g \in Queued' : g.upd <= now'
  BY <1>1, <1>2, <1>4, BroadcastKeeps
<1>6. ListenerTypes'
  BY <1>1, <1>2, <1>4, BroadcastIs DEF ListenerTypes
<1>7. PostsAreDated'
  <2>1. ASSUME NEW q \in Posts
        PROVE  /\ post'[q].at <= post'[q].upd /\ post'[q].upd <= now'
               /\ post'[q].st # "none" => 0 < post'[q].at
               /\ post'[q].st = "stamped" => now' < post'[q].at + Margin
    <3>1. post'[q].at \in Nat /\ post'[q].upd \in Nat /\ post[q].upd \in Nat
      BY <1>2, PostFields DEF PostRecords
    <3>2. post[q].at <= post[q].upd /\ (post[q].st # "none" => 0 < post[q].at)
      BY DEF PostsAreDated
    <3>3. post[q].st = "stamped" => now' < post[q].at + Margin
      BY <1>2 DEF SettledPost
    <3> QED BY <1>1, <1>2, <3>1, <3>2, <3>3
  <2> QED BY <2>1, <1>1, <1>2, <1>5, DatesKept
<1> QED BY <1>1, <1>2, <1>5, <1>6, <1>7, PrivateKept

-----------------------------------------------------------------------------
(* The outbox, the operator and the connection. *)

\* Without a change of a post or of the clock the posts are as they were.
LEMMA NothingGrows ==
    ASSUME ListenerInv, UNCHANGED <<now, post>> PROVE PostsGrow
BY ListenerAssumption DEF ListenerInv, ListenerTypes, PostsGrow

\* The outbox and an agent's retirement change nothing the listener keeps.
LEMMA BridgeStep ==
    ASSUME ListenerInv, (\E p \in Posts : Settle(p)) \/ (\E k \in {"agent", "card"} : Retire(k))
    PROVE  ListenerInv'
<1> USE DEF ListenerInv
<1>1. /\ UNCHANGED <<now, kind, post, private, channel, task, queue, failing, socket, faults,
                     outcome>>
      /\ item' \in [Posts -> ItemStates] /\ retired' \subseteq Kinds
  <2>1. CASE \E p \in Posts : Settle(p)
    BY <2>1 DEF Settle, mattermost, listener, ListenerTypes, ItemStates
  <2>2. CASE \E k \in {"agent", "card"} : Retire(k)
    BY <2>2 DEF Retire, mattermost, listener, ListenerTypes, ItemStates, Kinds
  <2> QED BY <2>1, <2>2
<1>2. ListenerTypes'
  BY <1>1 DEF ListenerTypes
<1>3. PostsAreDated' /\ ChainInStep'
  BY <1>1 DEF PostsAreDated, ChainInStep, Queued, FrameIsTrue, Visible
<1>4. ChannelInStep' /\ PrivateInStep' /\ UnmanagedIsPrivate'
  BY <1>1 DEF ChannelInStep, PrivateInStep, BeforeStart, Visible, UnmanagedIsPrivate
<1> QED BY <1>2, <1>3, <1>4

\* The channel leaves management, or comes back.
LEMMA RevisionStep ==
    ASSUME ListenerInv, Leave \/ Rejoin PROVE ListenerInv'
<1> USE DEF ListenerInv
<1>1. UNCHANGED <<now, kind, post, private, item, retired, task, queue, failing, socket, faults,
                  outcome>>
  BY DEF Leave, Rejoin, mattermost, listener
<1>2. channel \in ChannelRecords /\ channel.gen \in Nat /\ channel.left \in Nat
      /\ channel.gen + 1 \in Nat
  BY DEF ListenerTypes, ChannelRecords
<1>3. /\ channel' \in ChannelRecords /\ ~channel'.started /\ channel'.cursor <= now
      /\ channel'.gen = channel.gen + 1
      /\ \/ ~channel'.managed /\ channel'.left = channel'.gen
         \/ ~channel.managed /\ channel'.managed /\ channel'.left = channel.left
  <2>1. CASE Leave
    <3> DEFINE new == [channel EXCEPT !.managed = FALSE, !.gen = @ + 1, !.left = channel.gen + 1,
                           !.started = FALSE, !.cursor = 0, !.floor = 0, !.atFloor = {}]
    <3>0. /\ new.started = FALSE /\ new.cursor = 0 /\ new.gen = channel.gen + 1
          /\ new.managed = FALSE /\ new.left = channel.gen + 1
      BY <1>2 DEF ChannelRecords
    <3>3. new \in ChannelRecords
      BY <1>2 DEF ChannelRecords
    <3>1. /\ new \in ChannelRecords /\ ~new.started /\ new.cursor = 0 /\ new.gen = channel.gen + 1
          /\ ~new.managed /\ new.left = channel.gen + 1
      BY <3>0, <3>3
    <3>2. channel' = new
      BY <2>1 DEF Leave
    <3> HIDE DEF new
    <3> QED BY <3>1, <3>2, ListenerAssumption DEF ListenerTypes
  <2>2. CASE Rejoin
    <3> DEFINE new == [channel EXCEPT !.managed = TRUE, !.gen = @ + 1]
    <3>0. /\ new.started = channel.started /\ new.cursor = channel.cursor
          /\ new.gen = channel.gen + 1 /\ new.managed = TRUE /\ new.left = channel.left
      BY <1>2 DEF ChannelRecords
    <3>4. new \in ChannelRecords
      BY <1>2 DEF ChannelRecords
    <3>1. /\ new \in ChannelRecords /\ new.started = channel.started /\ new.cursor = channel.cursor
          /\ new.gen = channel.gen + 1 /\ new.managed /\ new.left = channel.left
      BY <3>0, <3>4
    <3>2. channel' = new /\ ~channel.managed
      BY <2>2 DEF Rejoin
    <3> HIDE DEF new
    <3>3. ~channel.started /\ channel.cursor <= now
      BY <3>2 DEF ChannelInStep, PostsAreDated
    <3> QED BY <3>1, <3>2, <3>3
  <2> QED BY <2>1, <2>2
<1>4. ListenerTypes'
  BY <1>1, <1>3 DEF ListenerTypes
<1>5. PostsAreDated' /\ ChainInStep'
  BY <1>1, <1>3 DEF PostsAreDated, ChainInStep, Queued, FrameIsTrue, Visible
<1>6. task.gen \in Nat
  BY DEF ListenerTypes, TaskRecords
<1>7. ChannelInStep'
  BY <1>1, <1>2, <1>3, <1>6 DEF ChannelInStep
<1>8. task.pc = "start" /\ channel'.left <= task.gen => channel.left <= task.gen
  BY <1>2, <1>3, <1>6 DEF ChannelInStep
<1>9. PrivateInStep' /\ UnmanagedIsPrivate'
  BY <1>1, <1>3, <1>8 DEF PrivateInStep, BeforeStart, Visible, UnmanagedIsPrivate
<1> QED BY <1>4, <1>5, <1>7, <1>9

\* The socket comes up, closes, and a timer asks for a sync: the task the chain is at goes on.
LEMMA ConnectionStep ==
    ASSUME ListenerInv, Connect \/ Disconnect \/ SyncTimer PROVE ListenerInv'
<1> USE DEF ListenerInv
<1>1. UNCHANGED <<now, kind, post, private, item, retired, channel, task, failing, outcome>>
  BY DEF Connect, Disconnect, SyncTimer, mattermost, bridge
<1>2. /\ queue' \in Seq(Frames) /\ \A i \in DOMAIN queue' : queue'[i] \in Queued \cup {SyncTask}
      /\ queue # <<>> => queue' # <<>> /\ Head(queue') = Head(queue)
  <2>1. CASE Connect
    BY <2>1, WithSyncIs DEF Connect, ListenerTypes, Queued
  <2>2. CASE Disconnect
    BY <2>2 DEF Disconnect, ListenerTypes, Queued
  <2>3. CASE SyncTimer
    BY <2>3, IdleIs DEF SyncTimer, ListenerTypes
  <2> QED BY <2>1, <2>2, <2>3
<1>3. socket' \in {"down", "up", "gap"} /\ faults' \in 0..MaxFaults
  BY ListenerAssumption DEF Connect, Disconnect, SyncTimer, ListenerTypes, Fault
<1>4. ListenerTypes'
  BY <1>1, <1>2, <1>3 DEF ListenerTypes
<1>5. PostsGrow
  BY <1>1, NothingGrows
<1>6. \A f \in Queued' : f \in Queued \cup {SyncTask}
  BY <1>2 DEF Queued
<1>7. FrameFits(SyncTask)'
  BY <1>5, IdleIs DEF FrameFits, PostsGrow
<1>8. \A f \in Queued : FrameFits(f)'
  BY <1>1, <1>5, FitsLater
<1>9. ChainInStep'
  BY <1>1, <1>2, <1>5, <1>6, <1>7, <1>8, ChainGrows
<1>10. \A f \in Queued' : f.upd <= now'
  BY <1>6, <1>7, <1>8 DEF FrameFits
<1>11. PostsAreDated'
  BY <1>1, <1>5, <1>10, DatesKept DEF PostsAreDated
<1> QED BY <1>1, <1>4, <1>5, <1>9, <1>11, PrivateKept

\* The controller dies: its chain is gone, what the database and Mattermost hold is not.
LEMMA CrashStep ==
    ASSUME ListenerInv, Crash PROVE ListenerInv'
<1> USE DEF ListenerInv
<1>1. /\ UNCHANGED <<now, kind, post, private, item, retired, channel, outcome>>
      /\ socket' = "down" /\ queue' = <<>> /\ task' = Idle /\ failing' = FALSE
  BY DEF Crash, mattermost, bridge
<1>6. faults' \in 0..MaxFaults
  BY ListenerAssumption DEF Crash, Fault, ListenerTypes
<1>7. <<>> \in Seq(Frames)
  OBVIOUS
<1>2. ListenerTypes'
  BY <1>1, <1>6, <1>7, IdleIs DEF ListenerTypes
<1>3. Queued' = {} /\ now \in Nat
  BY <1>1, ListenerAssumption DEF Queued, ListenerTypes
<1>4. PostsAreDated' /\ ChainInStep'
  BY <1>1, <1>3, IdleIs DEF PostsAreDated, ChainInStep
<1>5. ChannelInStep' /\ PrivateInStep' /\ UnmanagedIsPrivate'
  BY <1>1, IdleIs DEF ChannelInStep, PrivateInStep, BeforeStart, Visible, UnmanagedIsPrivate
<1> QED BY <1>2, <1>4, <1>5

-----------------------------------------------------------------------------
(* The chain. *)

\* A task is over: the chain turns to what waits behind it.
LEMMA DoneIs ==
    ASSUME ListenerInv, queue # <<>>, Done, UNCHANGED <<now, post>>, failing' \in BOOLEAN,
           channel'.cursor <= now
    PROVE  /\ task' \in TaskRecords /\ queue' \in Seq(Frames) /\ task'.pc = "idle"
           /\ PostsAreDated' /\ ChainInStep' /\ \A f \in Queued' : f \in Queued
<1> USE DEF ListenerInv
<1>1. task' = Idle /\ queue' = Tail(queue)
  BY DEF Done
<1>2. queue' \in Seq(Frames) /\ \A i \in DOMAIN queue' : i + 1 \in DOMAIN queue /\ queue'[i] = queue[i + 1]
  BY <1>1, TailIs DEF ListenerTypes
<1>3. \A f \in Queued' : f \in Queued
  BY <1>2 DEF Queued
<1>4. now \in Nat
  BY ListenerAssumption DEF ListenerTypes
<1>5. PostsAreDated'
  BY <1>1, <1>3, <1>4, IdleIs DEF PostsAreDated
<1>6. \A f \in Queued' : (f # SyncTask => FrameIsTrue(f)') /\ (f.change = "created" => now' < f.at + Margin)
  BY <1>3, ChainByFrames DEF FrameFits, FrameIsTrue, Visible
<1>7. ChainInStep'
  BY <1>1, <1>6, IdleIs DEF ChainInStep
<1> QED BY <1>1, <1>2, <1>3, <1>5, <1>7, IdleIs

\* What is recorded is of posts there are, and of nothing private.
OutcomesFit(o) ==
    /\ o \in [Posts -> Outcomes] /\ \A p \in Posts : o[p] # "none" => p \in Visible
    /\ \A p \in private : o[p] \notin Recorded

\* The configuration's word on the channel is in order, and its start is after what is private.
ChannelFits(c) ==
    /\ c \in ChannelRecords /\ c.cursor <= now
    /\ c.started => c.managed /\ \A p \in private : BeforeStart(p, c.floor, c.atFloor)
    /\ c.left <= c.gen /\ (~c.managed => c.left = c.gen)

\* What is recorded and what the channel says is in order.
LEMMA FitsNow == ASSUME ListenerInv PROVE OutcomesFit(outcome) /\ ChannelFits(channel)
BY DEF ListenerInv, ListenerTypes, PrivateInStep, UnmanagedIsPrivate, OutcomesFit, ChannelFits,
       PostsAreDated, ChannelInStep

\* A task that is over leaves the history in order when the channel it leaves is.
LEMMA DoneKeeps ==
    ASSUME ListenerInv, queue # <<>>, Done, failing' \in BOOLEAN,
           UNCHANGED <<now, kind, post, private, item, retired, socket, outcome>>,
           faults' \in 0..MaxFaults, ChannelFits(channel')
    PROVE  ListenerInv'
<1> USE DEF ListenerInv
<1>1. channel' \in ChannelRecords /\ channel'.cursor <= now
  BY DEF ChannelFits
<1>2. /\ task' \in TaskRecords /\ queue' \in Seq(Frames) /\ task'.pc = "idle"
      /\ PostsAreDated' /\ ChainInStep'
  BY <1>1, DoneIs
<1>3. ListenerTypes'
  BY <1>1, <1>2 DEF ListenerTypes
<1>4. ChannelInStep'
  BY <1>2 DEF ChannelInStep, ChannelFits
<1>5. PrivateInStep' /\ UnmanagedIsPrivate'
  BY <1>2 DEF PrivateInStep, BeforeStart, Visible, UnmanagedIsPrivate, ChannelFits
<1> QED BY <1>2, <1>3, <1>4, <1>5

\* The chain's task moves on, on the same queue: what has to be shown of the new task.
LEMMA TaskMoves ==
    ASSUME ListenerInv, queue # <<>>, UNCHANGED <<now, kind, post, private, item, retired, channel,
                                                  queue, failing, socket, faults>>,
           OutcomesFit(outcome'), task' \in TaskRecords, task'.newest <= now,
           task'.frame.upd <= now, \A f \in task'.todo : f.upd <= now /\ FrameIsTrue(f),
           task'.pc \in {"live", "save"} =>
             Head(queue) = task'.frame /\ task'.frame # SyncTask /\ ~failing,
           task'.pc \notin {"idle", "live", "save"} => Head(queue) = SyncTask,
           task'.pc = "replay" => task'.frame \in task'.todo,
           task'.pc \in {"finish", "fetch", "scan", "start"} => task'.todo = {},
           task'.pc \in {"scan", "start"} =>
             /\ ~channel.started /\ task'.gen <= channel.gen
             /\ ~channel.managed => task'.gen < channel.left,
           task'.pc \in {"fetch", "next", "replay", "finish"} /\ channel.started =>
             /\ task'.floor = channel.floor /\ task'.atFloor = channel.atFloor
             /\ task'.since = Larger(0, channel.cursor - Margin),
           task'.pc = "start" /\ channel.left <= task'.gen =>
             \A p \in private : BeforeStart(p, task'.floor, task'.atFloor)
    PROVE  ListenerInv'
<1> USE DEF ListenerInv
<1>1. ListenerTypes'
  BY DEF ListenerTypes, OutcomesFit
<1>2. Queued' = Queued
  BY DEF Queued
<1>3. PostsAreDated'
  BY <1>2 DEF PostsAreDated
<1>4. \A f : FrameIsTrue(f)' <=> FrameIsTrue(f)
  BY DEF FrameIsTrue, Visible
<1>5. ChainInStep'
  BY <1>2, <1>4 DEF ChainInStep
<1>6. ChannelInStep'
  BY DEF ChannelInStep
<1>7. PrivateInStep' /\ UnmanagedIsPrivate'
  BY DEF PrivateInStep, BeforeStart, Visible, UnmanagedIsPrivate, OutcomesFit
<1> QED BY <1>1, <1>3, <1>5, <1>6, <1>7

\* handleChange stores a creation only when the channel's start admits it.
LEMMA HandleChangeIs ==
    ASSUME ListenerTypes, NEW p \in Posts, NEW change \in {"created", "recovered"}
    PROVE  /\ HandleChange(p, change) \in Outcomes \cup {"wait"}
           /\ HandleChange(p, change) \in Recorded => Admits(p)
<1>1. Stored(p, "rejected") \in Outcomes /\ Stored(p, "rejected") \notin Recorded
  BY DEF Stored, Outcomes, Recorded
<1>2. \A c \in {"created", "recovered"} :
        Stored(p, c) \in Outcomes /\ (Stored(p, c) \in Recorded => Admits(p))
  BY DEF Stored, Outcomes, Recorded
<1>3. kind[p] \in Kinds /\ item[p] \in ItemStates
  BY ListenerAssumption DEF ListenerTypes
<1>4. AgentPost(p, change) \in Outcomes \cup {"wait"} /\ (AgentPost(p, change) \in Recorded => Admits(p))
  <2>1. item[p] = "sent" \/ item[p] = "dead" \/ item[p] \in {"sending", "cancelled"}
    BY <1>3 DEF ItemStates
  <2> QED BY <1>1, <1>2, <2>1 DEF AgentPost, Outcomes, Recorded
<1>5. CommandPost(p, change) \in Outcomes \cup {"wait"} /\ (CommandPost(p, change) \in Recorded => Admits(p))
  BY <1>2 DEF CommandPost, Outcomes, Recorded
<1>6. "skipped" \in Outcomes /\ "skipped" \notin Recorded
  BY DEF Outcomes, Recorded
<1>7. CASE kind[p] = "human"
  BY <1>7, <1>2 DEF HandleChange
<1>8. CASE kind[p] = "agent"
  BY <1>8, <1>4 DEF HandleChange
<1>9. CASE kind[p] = "card"
  BY <1>9, <1>6 DEF HandleChange
<1>10. CASE kind[p] = "command"
  BY <1>10, <1>5 DEF HandleChange
<1> QED BY <1>3, <1>7, <1>8, <1>9, <1>10 DEF Kinds

\* A creation recorded is of a post the channel's start admits: nothing private.
LEMMA RecordIs ==
    ASSUME ListenerInv, NEW p \in Visible, NEW r \in Outcomes, r \in Recorded => Admits(p), Record(p, r)
    PROVE  OutcomesFit(outcome')
<1> USE DEF ListenerInv
<1>1. outcome \in [Posts -> Outcomes] /\ p \in Posts
  BY DEF ListenerTypes, Visible
<1>2. outcome' \in [Posts -> Outcomes] /\ \A q \in Posts : outcome'[q] = outcome[q] \/ (q = p /\ outcome'[q] = r)
  BY <1>1 DEF Record
<1>3. ASSUME p \in private PROVE ~Admits(p)
  <2>1. channel.floor \in Nat /\ post[p].at \in Nat
    BY <1>1, PostFields DEF ListenerTypes, ChannelRecords
  <2> QED BY <1>3, <2>1 DEF PrivateInStep, Admits, BeforeStart
<1>4. \A q \in private : q \in Posts
  BY DEF ListenerTypes
<1> QED BY <1>2, <1>3, <1>4 DEF OutcomesFit, PrivateInStep, UnmanagedIsPrivate

\* The frame at the head of the chain.
LEMMA HeadIs ==
    ASSUME ListenerInv, queue # <<>>
    PROVE  Head(queue) \in Queued /\ Head(queue) \in Frames /\ FrameFits(Head(queue))
<1>1. Head(queue) = queue[1] /\ 1 \in DOMAIN queue
  BY TailIs DEF ListenerInv, ListenerTypes
<1>2. Head(queue) \in Queued
  BY <1>1 DEF Queued
<1> QED BY <1>2, QueuedAreFrames, ChainByFrames DEF ListenerInv

\* A frame is taken up, left to the resync, handled, or fails.
LEMMA LiveStep ==
    ASSUME ListenerInv, BeginLive \/ HandleLive \/ LiveFails PROVE ListenerInv'
<1> USE DEF ListenerInv
<1>0. now \in Nat
  BY ListenerAssumption DEF ListenerTypes
<1>1. CASE BeginLive
  <2>1. /\ task.pc = "idle" /\ queue # <<>> /\ Head(queue) # SyncTask
        /\ UNCHANGED <<now, kind, post, private, item, retired, channel, failing, socket, faults,
                       outcome>>
    BY <1>1 DEF BeginLive, mattermost, bridge
  <2>2. CASE Done
    BY <2>1, <2>2, FitsNow, DoneKeeps DEF ListenerTypes
  <2>3. CASE /\ task' = [Idle EXCEPT !.pc = "live", !.frame = Head(queue)] /\ UNCHANGED queue
             /\ ~(failing \/ ~channel.managed)
    <3>1. Head(queue) \in Frames /\ FrameFits(Head(queue))
      BY <2>1, HeadIs
    <3>2. /\ task' \in TaskRecords /\ task'.pc = "live" /\ task'.frame = Head(queue)
          /\ task'.newest = 0 /\ task'.todo = {}
      BY <2>3, <3>1, IdleIs DEF TaskRecords, TaskSteps
    <3> QED BY <1>0, <2>1, <2>3, <3>1, <3>2, FitsNow, TaskMoves DEF FrameFits
  <2> QED BY <1>1, <2>2, <2>3 DEF BeginLive
<1>2. CASE HandleLive
  <2> DEFINE p == task.frame.p
             r == IF task.frame.change = "created" THEN HandleChange(p, "created") ELSE "none"
  <2>1. /\ task.pc = "live"
        /\ UNCHANGED <<now, kind, post, private, item, retired, channel, socket, faults>>
    BY <1>2 DEF HandleLive, mattermost, bridge
  <2>2. queue # <<>> /\ Head(queue) = task.frame /\ task.frame # SyncTask /\ ~failing
    BY <2>1 DEF ChainInStep
  <2>3. p \in Visible /\ p \in Posts
    BY <2>2, HeadIs DEF FrameFits, FrameIsTrue, Visible
  <2>4. r \in Outcomes \cup {"wait"} /\ (r \in Recorded => Admits(p))
    BY <2>3, HandleChangeIs DEF Outcomes, Recorded
  <2>5. CASE r = "wait" /\ Done /\ failing' = TRUE /\ UNCHANGED outcome
    BY <2>1, <2>2, <2>5, FitsNow, DoneKeeps DEF ListenerTypes
  <2>6. CASE r # "wait" /\ task' = [task EXCEPT !.pc = "save"] /\ Record(p, r)
             /\ UNCHANGED <<queue, failing>>
    <3> HIDE DEF p, r
    <3>1. task \in TaskRecords
      BY DEF ListenerTypes
    <3>2. /\ task' \in TaskRecords /\ task'.pc = "save" /\ task'.frame = task.frame
          /\ task'.newest = task.newest /\ task'.todo = task.todo
      BY <2>6, <3>1 DEF TaskRecords, TaskSteps
    <3>3. OutcomesFit(outcome')
      BY <2>3, <2>4, <2>6, RecordIs
    <3>4. /\ task.newest <= now /\ task.frame.upd <= now
          /\ \A f \in task.todo : f.upd <= now /\ FrameIsTrue(f)
      BY DEF PostsAreDated, ChainInStep
    <3> QED BY <2>1, <2>2, <2>6, <3>2, <3>3, <3>4, TaskMoves
  <2> QED BY <1>2, <2>5, <2>6 DEF HandleLive
<1>3. CASE LiveFails
  <2>1. /\ task.pc \in {"live", "save"} /\ Done /\ faults' \in 0..MaxFaults
        /\ UNCHANGED <<now, kind, post, private, item, retired, channel, socket, outcome>>
    BY <1>3, ListenerAssumption DEF LiveFails, mattermost, bridge, Fault, ListenerTypes
  <2>2. failing' \in BOOLEAN
    BY <1>3 DEF LiveFails
  <2>3. queue # <<>>
    BY <2>1 DEF ChainInStep
  <2> QED BY <2>1, <2>2, <2>3, FitsNow, DoneKeeps
<1> QED BY <1>1, <1>2, <1>3

\* The cursor only moves forward, and not beyond now.
LEMMA AdvanceIs ==
    ASSUME ListenerInv, NEW t \in Nat, t <= now, Advance(t)
    PROVE  /\ ChannelFits(channel') /\ channel'.managed = channel.managed
           /\ channel'.started = channel.started /\ channel'.floor = channel.floor
           /\ channel'.atFloor = channel.atFloor
           /\ channel'.cursor \in {channel.cursor, t}
<1> USE DEF ListenerInv
<1>1. ChannelFits(channel) /\ channel \in ChannelRecords
  BY FitsNow DEF ListenerTypes
<1>2. CASE channel' = channel
  BY <1>1, <1>2
<1>3. CASE channel' = [channel EXCEPT !.cursor = Larger(channel.cursor, t)]
  <2>1. PICK n \in {channel.cursor, t} : n = Larger(channel.cursor, t)
    BY DEF Larger
  <2>2. n \in Nat /\ n <= now
    BY <1>1 DEF ChannelFits, ChannelRecords
  <2>3. channel' = [channel EXCEPT !.cursor = n]
    BY <1>3, <2>1
  <2>4. /\ channel' \in ChannelRecords /\ channel'.cursor = n /\ channel'.managed = channel.managed
        /\ channel'.started = channel.started /\ channel'.floor = channel.floor
        /\ channel'.atFloor = channel.atFloor /\ channel'.left = channel.left
        /\ channel'.gen = channel.gen
    BY <1>1, <2>2, <2>3 DEF ChannelRecords
  <2> QED BY <1>1, <2>1, <2>2, <2>4 DEF ChannelFits
<1> QED BY <1>2, <1>3 DEF Advance

\* The cursor is saved after a frame, and at the end of a sync.
LEMMA SaveStep ==
    ASSUME ListenerInv, SaveLive \/ FinishSync PROVE ListenerInv'
<1> USE DEF ListenerInv
<1>1. /\ task.pc \in {"save", "finish"} /\ Done
      /\ UNCHANGED <<now, kind, post, private, item, retired, socket, faults, outcome>>
      /\ Advance(task.frame.upd) \/ Advance(task.newest)
  BY DEF SaveLive, FinishSync, EndSync, mattermost
<1>2. failing' \in BOOLEAN
  BY DEF SaveLive, FinishSync, EndSync, ListenerTypes
<1>3. /\ task.frame.upd \in Nat /\ task.frame.upd <= now /\ task.newest \in Nat /\ task.newest <= now
  BY DEF ListenerTypes, TaskRecords, Frames, PostsAreDated
<1>4. ChannelFits(channel')
  BY <1>1, <1>3, AdvanceIs
<1>5. queue # <<>> /\ faults' \in 0..MaxFaults
  BY <1>1 DEF ChainInStep, ListenerTypes
<1> QED BY <1>1, <1>2, <1>4, <1>5, DoneKeeps

\* Where a sync may start.
LEMMA SyncStartsAre ==
    ASSUME ListenerInv, channel.managed, NEW y \in SyncStarts
    PROVE  /\ y \in TaskRecords /\ y.frame = SyncTask /\ y.todo = {} /\ y.newest <= now
           /\ y.newest \in {0, channel.cursor}
           /\ \/ y.pc = "idle" /\ y = Idle /\ "directory" \in ListenerFaults
              \/ y.pc = "scan" /\ y.gen = channel.gen /\ ~channel.started
              \/ /\ y.pc = "fetch" /\ y.floor = channel.floor /\ y.atFloor = channel.atFloor
                 /\ y.since = Larger(0, channel.cursor - Margin) /\ channel.started
<1> USE DEF ListenerInv
<1>0. now \in Nat /\ channel.cursor <= now
  BY ListenerAssumption DEF ListenerTypes, PostsAreDated
<1>1. CASE y = Idle /\ "directory" \in ListenerFaults
  BY <1>0, <1>1, IdleIs
<1>2. CASE channel.started /\ y = [Idle EXCEPT !.pc = "fetch", !.newest = channel.cursor,
                        !.since = Larger(0, channel.cursor - Margin),
                        !.floor = channel.floor, !.atFloor = channel.atFloor]
  <2>1. channel.cursor \in Nat /\ channel.floor \in Nat /\ channel.atFloor \subseteq Posts
    BY DEF ListenerTypes, ChannelRecords
  <2>2. PICK s \in Nat : s = Larger(0, channel.cursor - Margin)
    BY <2>1, ListenerAssumption DEF Larger
  <2>3. y = [Idle EXCEPT !.pc = "fetch", !.newest = channel.cursor, !.since = s,
                         !.floor = channel.floor, !.atFloor = channel.atFloor]
    BY <1>2, <2>2
  <2>4. /\ y \in TaskRecords /\ y.frame = SyncTask /\ y.todo = {} /\ y.newest = channel.cursor
        /\ y.pc = "fetch" /\ y.floor = channel.floor /\ y.atFloor = channel.atFloor /\ y.since = s
    BY <2>1, <2>3, IdleIs DEF TaskRecords, TaskSteps
  <2> QED BY <1>0, <1>2, <2>2, <2>4
<1>3. CASE ~channel.started /\ y = [Idle EXCEPT !.pc = "scan", !.gen = channel.gen]
  <2>1. channel.gen \in Nat
    BY DEF ListenerTypes, ChannelRecords
  <2>2. /\ y \in TaskRecords /\ y.frame = SyncTask /\ y.todo = {} /\ y.newest = 0 /\ y.pc = "scan"
        /\ y.gen = channel.gen
    BY <1>3, <2>1, IdleIs DEF TaskRecords, TaskSteps
  <2> QED BY <1>0, <1>3, <2>2
<1> QED BY <1>1, <1>2, <1>3 DEF SyncStarts

\* BeginSync keeps the invariant (syncAll, the first reads of syncChannel).
LEMMA BeginSyncStep ==
    ASSUME ListenerInv, BeginSync PROVE ListenerInv'
<1> USE DEF ListenerInv
<1>1. /\ task.pc = "idle" /\ queue # <<>> /\ Head(queue) = SyncTask
      /\ UNCHANGED <<now, kind, post, private, item, retired, channel, socket, faults, outcome>>
  BY DEF BeginSync, mattermost, bridge
<1>2. faults' \in 0..MaxFaults /\ failing \in BOOLEAN
  BY <1>1 DEF ListenerTypes
<1>3. CASE ~channel.managed
  <2>1. Done /\ failing' = FALSE
    BY <1>3 DEF BeginSync, EndSync
  <2> QED BY <1>1, <1>2, <2>1, FitsNow, DoneKeeps
<1>4. CASE channel.managed
  <2>1. /\ task' \in SyncStarts /\ failing' = failing
        /\ queue' = IF task'.pc = "idle" THEN Tail(queue) ELSE queue
    BY <1>4 DEF BeginSync
  <2>2. /\ task' \in TaskRecords /\ task'.frame = SyncTask /\ task'.todo = {} /\ task'.newest <= now
        /\ \/ task'.pc = "idle" /\ task' = Idle
           \/ task'.pc = "scan" /\ task'.gen = channel.gen /\ ~channel.started
           \/ /\ task'.pc = "fetch" /\ task'.floor = channel.floor /\ task'.atFloor = channel.atFloor
              /\ task'.since = Larger(0, channel.cursor - Margin)
    BY <1>4, <2>1, SyncStartsAre
  <2>3. CASE task'.pc = "idle" /\ task' = Idle
    <3>1. Done
      BY <2>1, <2>3 DEF Done
    <3> QED BY <1>1, <1>2, <2>1, <3>1, FitsNow, DoneKeeps
  <2>4. CASE task'.pc # "idle"
    <3>1. now \in Nat /\ task'.frame.upd = 0 /\ channel.gen \in Nat
      BY <2>2, IdleIs, ListenerAssumption DEF ListenerTypes, ChannelRecords
    <3> QED BY <1>1, <1>4, <2>1, <2>2, <2>4, <3>1, FitsNow, TaskMoves
  <2> QED BY <2>2, <2>3, <2>4
<1> QED BY <1>3, <1>4

\* ScanStart finds a start that no visible post is after (channelStartOf).
LEMMA ScanStep ==
    ASSUME ListenerInv, ScanStart
    PROVE  /\ ListenerInv' /\ task'.newest \in Nat /\ \A p \in Visible : post[p].upd <= task'.newest
           /\ task'.pc = "start"
           /\ \A p \in Visible : BeforeStart(p, task'.floor, task'.atFloor)
<1> USE DEF ListenerInv
<1> DEFINE floor == LargestOf({post[p].at : p \in Visible})
           newest == LargestOf({post[p].upd : p \in Visible})
           top == {p \in Visible : post[p].at = floor}
<1>1. /\ task.pc = "scan" /\ task' = [task EXCEPT !.pc = "start", !.floor = floor, !.atFloor = top,
                                          !.newest = newest]
      /\ UNCHANGED <<now, kind, post, private, item, retired, channel, queue, failing, socket,
                     faults, outcome>>
  BY DEF ScanStart, mattermost, bridge
<1>2. now \in Nat
  BY ListenerAssumption DEF ListenerTypes
<1>3. \A p \in Visible : post[p].at \in 0..now /\ post[p].upd \in 0..now
  BY PostFields DEF Visible, PostsAreDated
<1>4. floor \in 0..now /\ \A p \in Visible : post[p].at <= floor
  BY <1>2, <1>3, LargestIs
<1>5. newest \in 0..now /\ \A p \in Visible : post[p].upd <= newest
  BY <1>2, <1>3, LargestIs
<1>6. top \subseteq Posts /\ \A p \in Visible : post[p].at = floor => p \in top
  BY DEF Visible
<1> HIDE DEF floor, newest, top
<1>7. task \in TaskRecords
  BY DEF ListenerTypes
<1>8. /\ task' \in TaskRecords /\ task'.pc = "start" /\ task'.floor = floor /\ task'.atFloor = top
      /\ task'.newest = newest /\ task'.gen = task.gen /\ task'.frame = task.frame
      /\ task'.todo = task.todo
  <2>1. floor \in Nat /\ newest \in Nat
    BY <1>4, <1>5
  <2> QED BY <1>1, <1>6, <1>7, <2>1 DEF TaskRecords, TaskSteps
<1>9. \A p \in Visible : BeforeStart(p, floor, top)
  BY <1>2, <1>3, <1>4, <1>6 DEF BeforeStart
<1>10. queue # <<>> /\ Head(queue) = SyncTask /\ task.todo = {} /\ task.frame.upd <= now
  BY <1>1 DEF ChainInStep, PostsAreDated
<1>11. /\ ~channel.started /\ task.gen <= channel.gen
       /\ ~channel.managed => task.gen < channel.left
  BY <1>1 DEF ChannelInStep
<1>12. \A p \in private : p \in Visible
  BY DEF PrivateInStep
<1>13. newest <= now
  BY <1>2, <1>5
<1>14. ListenerInv'
  BY <1>1, <1>8, <1>9, <1>10, <1>11, <1>12, <1>13, FitsNow, TaskMoves
<1> QED BY <1>5, <1>8, <1>9, <1>14

\* StartChannel keeps the invariant: a scan that is installed is after all that is private
\* (startManagedChannel).
LEMMA StartChannelStep ==
    ASSUME ListenerInv, StartChannel PROVE ListenerInv'
<1> USE DEF ListenerInv
<1>1. /\ task.pc = "start" /\ Done /\ failing' = ~InstallsScan
      /\ UNCHANGED <<now, kind, post, private, item, retired, socket, faults, outcome>>
  BY DEF StartChannel, EndSync, mattermost
<1>2. queue # <<>> /\ faults' \in 0..MaxFaults /\ failing' \in BOOLEAN
  BY <1>1 DEF ChainInStep, ListenerTypes
<1>3. ChannelFits(channel')
  <2>1. CASE channel' = channel
    BY <2>1, FitsNow
  <2>2. CASE /\ InstallsScan
             /\ channel' = [channel EXCEPT !.started = TRUE, !.cursor = task.newest,
                                       !.floor = task.floor, !.atFloor = task.atFloor]
    <3>1. task.newest \in Nat /\ task.newest <= now /\ task.floor \in Nat /\ task.atFloor \subseteq Posts
      BY DEF ListenerTypes, TaskRecords, PostsAreDated
    <3>2. channel \in ChannelRecords
      BY DEF ListenerTypes
    <3>3. channel' \in ChannelRecords
      BY <2>2, <3>1, <3>2 DEF ChannelRecords
    <3>4. /\ channel'.managed = channel.managed /\ channel'.cursor = task.newest
          /\ channel'.floor = task.floor /\ channel'.atFloor = task.atFloor
          /\ channel'.left = channel.left /\ channel'.gen = channel.gen
      BY <2>2, <3>2 DEF ChannelRecords
    <3>5. channel.managed /\ \A p \in private : BeforeStart(p, task.floor, task.atFloor)
      BY <1>1, <2>2 DEF InstallsScan, PrivateInStep
    <3>6. channel.left <= channel.gen
      BY DEF ChannelInStep
    <3> QED BY <3>1, <3>3, <3>4, <3>5, <3>6 DEF ChannelFits
  <2> QED BY <2>1, <2>2 DEF StartChannel
<1> QED BY <1>1, <1>2, <1>3, DoneKeeps

\* What a sync reads: the posts that changed after the window's start, as they are.
LEMMA ChangesAre ==
    ASSUME ListenerInv, NEW since \in Nat
    PROVE  /\ ChangesSince(since) \subseteq Frames
           /\ \A f \in ChangesSince(since) : /\ FrameIsTrue(f) /\ f.upd = post[f.p].upd
                                             /\ f.upd <= now
           /\ \A p \in Visible : post[p].upd > since => \E f \in ChangesSince(since) : f.p = p
<1>1. ASSUME NEW p \in Visible, NEW f,
             f = [p |-> p, change |-> "created", at |-> post[p].at, upd |-> post[p].upd,
                  edited |-> post[p].edited]
      PROVE  /\ f \in Frames /\ f.p = p /\ FrameIsTrue(f) /\ f.upd = post[p].upd /\ f.upd <= now
  <2>1. /\ p \in Posts /\ post[p].at \in Nat /\ post[p].upd \in Nat /\ post[p].edited \in BOOLEAN
        /\ post[p].upd <= now
    BY PostFields DEF Visible, ListenerInv, PostsAreDated
  <2>2. f \in Frames /\ f.p = p /\ f.at = post[p].at /\ f.upd = post[p].upd
    BY <1>1, <2>1 DEF Frames
  <2> QED BY <2>1, <2>2 DEF FrameIsTrue
<1>2. \A f \in ChangesSince(since) : \E p \in Visible :
          f = [p |-> p, change |-> "created", at |-> post[p].at, upd |-> post[p].upd,
               edited |-> post[p].edited]
  BY DEF ChangesSince
<1>3. \A f \in ChangesSince(since) : f \in Frames /\ FrameIsTrue(f) /\ f.upd = post[f.p].upd /\ f.upd <= now
  BY <1>1, <1>2
<1>4. ASSUME NEW p \in Visible, post[p].upd > since PROVE \E f \in ChangesSince(since) : f.p = p
  <2>1. PICK f : f = [p |-> p, change |-> "created", at |-> post[p].at, upd |-> post[p].upd,
                      edited |-> post[p].edited]
    OBVIOUS
  <2>2. f \in ChangesSince(since)
    BY <1>4, <2>1 DEF ChangesSince
  <2> QED BY <1>1, <2>1, <2>2
<1> QED BY <1>3, <1>4

\* FetchChanges keeps the invariant (channelChangesSince).
LEMMA FetchChangesStep ==
    ASSUME ListenerInv, FetchChanges PROVE ListenerInv'
<1> USE DEF ListenerInv
<1>1. /\ task.pc = "fetch" /\ task' = [task EXCEPT !.pc = "next", !.todo = ChangesSince(task.since)]
      /\ UNCHANGED <<now, kind, post, private, item, retired, channel, queue, failing, socket,
                     faults, outcome>>
  BY DEF FetchChanges, mattermost, bridge
<1>2. task \in TaskRecords /\ task.since \in Nat
  BY DEF ListenerTypes, TaskRecords
<1>3. PICK todo : todo = ChangesSince(task.since)
  OBVIOUS
<1>4. todo \subseteq Frames /\ \A f \in todo : FrameIsTrue(f) /\ f.upd <= now
  BY <1>2, <1>3, ChangesAre
<1>5. task' = [task EXCEPT !.pc = "next", !.todo = todo]
  BY <1>1, <1>3
<1>6. /\ task' \in TaskRecords /\ task'.pc = "next" /\ task'.todo = todo /\ task'.frame = task.frame
      /\ task'.newest = task.newest /\ task'.since = task.since /\ task'.floor = task.floor
      /\ task'.atFloor = task.atFloor
  BY <1>2, <1>4, <1>5 DEF TaskRecords, TaskSteps
<1>7. /\ queue # <<>> /\ Head(queue) = SyncTask /\ task.frame.upd <= now /\ task.newest <= now
  BY <1>1 DEF ChainInStep, PostsAreDated
<1>8. channel.started => /\ task.floor = channel.floor /\ task.atFloor = channel.atFloor
                         /\ task.since = Larger(0, channel.cursor - Margin)
  BY <1>1 DEF ChannelInStep
<1> QED BY <1>1, <1>4, <1>6, <1>7, <1>8, FitsNow, TaskMoves

\* There is a first post to replay.
LEMMA FirstExists ==
    ASSUME NEW todo \in SUBSET Frames, todo # {} PROVE \E f \in todo : ComesFirst(f, todo)
<1>1. \A f \in todo : f.at \in Nat
  BY DEF Frames
<1> DEFINE times == {f.at : f \in todo}
<1>2. times \in SUBSET Nat /\ times # {}
  BY <1>1
<1>3. PICK m \in times : \A k \in times : m <= k
  BY <1>2, LeastExists
<1>4. m \in Nat /\ \A g \in todo : m <= g.at
  BY <1>2, <1>3
<1>5. PICK e \in todo : e.at = m
  BY <1>3
<1>6. CASE \E f \in todo : f.at = m /\ Root[f.p] = None
  <2>1. PICK f \in todo : f.at = m /\ Root[f.p] = None
    BY <1>6
  <2>2. ComesFirst(f, todo)
    BY <1>1, <1>4, <2>1 DEF ComesFirst
  <2> QED BY <2>2
<1>7. CASE ~\E f \in todo : f.at = m /\ Root[f.p] = None
  <2>1. ComesFirst(e, todo)
    BY <1>1, <1>4, <1>5, <1>7 DEF ComesFirst
  <2> QED BY <2>1
<1> QED BY <1>6, <1>7

\* NextPost keeps the invariant: the post it takes up is one of those read.
LEMMA NextPostStep ==
    ASSUME ListenerInv, NextPost PROVE ListenerInv'
<1> USE DEF ListenerInv
<1>1. /\ task.pc = "next"
      /\ UNCHANGED <<now, kind, post, private, item, retired, channel, socket, faults, outcome>>
  BY DEF NextPost, mattermost, bridge
<1>2. /\ queue # <<>> /\ Head(queue) = SyncTask /\ task.frame.upd <= now /\ task.newest <= now
      /\ \A f \in task.todo : FrameIsTrue(f) /\ f.upd <= now
  BY <1>1 DEF ChainInStep, PostsAreDated
<1>3. channel.started => /\ task.floor = channel.floor /\ task.atFloor = channel.atFloor
                         /\ task.since = Larger(0, channel.cursor - Margin)
  BY <1>1 DEF ChannelInStep
<1>4. task \in TaskRecords /\ task.todo \subseteq Frames
  BY DEF ListenerTypes, TaskRecords
<1>5. CASE task.todo = {}
  <2>1. task' = [task EXCEPT !.pc = "finish"] /\ UNCHANGED <<queue, failing>>
    BY <1>5 DEF NextPost
  <2>2. /\ task' \in TaskRecords /\ task'.pc = "finish" /\ task'.todo = task.todo
        /\ task'.frame = task.frame /\ task'.newest = task.newest /\ task'.since = task.since
        /\ task'.floor = task.floor /\ task'.atFloor = task.atFloor
    BY <1>4, <2>1 DEF TaskRecords, TaskSteps
  <2> QED BY <1>1, <1>2, <1>3, <1>5, <2>1, <2>2, FitsNow, TaskMoves
<1>6. CASE task.todo # {} /\ ~channel.managed
  <2>1. Done /\ failing' = FALSE
    BY <1>6 DEF NextPost, EndSync
  <2> QED BY <1>1, <1>2, <2>1, FitsNow, DoneKeeps DEF ListenerTypes
<1>7. CASE task.todo # {} /\ channel.managed
  <2>1. PICK f : f = CHOOSE g \in task.todo : ComesFirst(g, task.todo)
    OBVIOUS
  <2>2. f \in task.todo /\ f \in Frames
    BY <1>4, <1>7, <2>1, FirstExists
  <2>3. task' = [task EXCEPT !.pc = "replay", !.frame = f] /\ UNCHANGED <<queue, failing>>
    BY <1>7, <2>1 DEF NextPost
  <2>4. /\ task' \in TaskRecords /\ task'.pc = "replay" /\ task'.todo = task.todo
        /\ task'.frame = f /\ task'.newest = task.newest /\ task'.since = task.since
        /\ task'.floor = task.floor /\ task'.atFloor = task.atFloor
    BY <1>4, <2>2, <2>3 DEF TaskRecords, TaskSteps
  <2> QED BY <1>1, <1>2, <1>3, <2>2, <2>3, <2>4, FitsNow, TaskMoves
<1> QED BY <1>5, <1>6, <1>7

\* How a replay leaves the task.
LEMMA ReplayIs ==
    ASSUME ListenerInv, task.pc = "replay",
           task' = [task EXCEPT !.pc = "next", !.todo = @ \ {task.frame},
                                !.newest = Larger(@, task.frame.upd)]
    PROVE  /\ task' \in TaskRecords /\ task'.pc = "next" /\ task'.todo = task.todo \ {task.frame}
           /\ task'.frame = task.frame /\ task'.since = task.since
           /\ task'.floor = task.floor /\ task'.atFloor = task.atFloor
           /\ task'.newest <= now /\ task'.newest \in {task.newest, task.frame.upd}
<1> USE DEF ListenerInv
<1>1. task \in TaskRecords /\ task.newest \in Nat /\ task.frame \in Frames /\ task.todo \subseteq Frames
  BY DEF ListenerTypes, TaskRecords
<1>2. task.frame.upd \in Nat /\ task.newest <= now /\ task.frame.upd <= now
  BY <1>1 DEF Frames, PostsAreDated
<1>3. PICK n \in {task.newest, task.frame.upd} : n = Larger(task.newest, task.frame.upd)
  BY DEF Larger
<1>4. n \in Nat /\ n <= now
  BY <1>1, <1>2, <1>3
<1>5. PICK rest \in SUBSET Frames : rest = task.todo \ {task.frame}
  BY <1>1
<1>6. task' = [task EXCEPT !.pc = "next", !.todo = rest, !.newest = n]
  BY <1>3, <1>5
<1>7. /\ task' \in TaskRecords /\ task'.pc = "next" /\ task'.todo = rest
      /\ task'.frame = task.frame /\ task'.since = task.since
      /\ task'.floor = task.floor /\ task'.atFloor = task.atFloor /\ task'.newest = n
  BY <1>1, <1>4, <1>6 DEF TaskRecords, TaskSteps
<1> QED BY <1>3, <1>4, <1>5, <1>7

\* ReplayPost keeps the invariant (syncPost).
LEMMA ReplayPostStep ==
    ASSUME ListenerInv, ReplayPost PROVE ListenerInv'
<1> USE DEF ListenerInv
<1> DEFINE f == task.frame
           r == IF Replays(f) THEN HandleChange(f.p, IF f.edited THEN "recovered" ELSE "created")
                ELSE "none"
<1>1. /\ task.pc = "replay"
      /\ UNCHANGED <<now, kind, post, private, item, retired, channel, socket, faults>>
  BY DEF ReplayPost, mattermost, bridge
<1>2. /\ queue # <<>> /\ Head(queue) = SyncTask /\ f.upd <= now
      /\ \A g \in task.todo : FrameIsTrue(g) /\ g.upd <= now
      /\ FrameIsTrue(f)
  BY <1>1 DEF ChainInStep, PostsAreDated
<1>3. channel.started => /\ task.floor = channel.floor /\ task.atFloor = channel.atFloor
                         /\ task.since = Larger(0, channel.cursor - Margin)
  BY <1>1 DEF ChannelInStep
<1>4. f.p \in Visible /\ f.p \in Posts
  BY <1>2 DEF FrameIsTrue, Visible
<1>5. r \in Outcomes \cup {"wait"} /\ (r \in Recorded => Admits(f.p))
  <2>1. \A c \in {"created", "recovered"} : /\ HandleChange(f.p, c) \in Outcomes \cup {"wait"}
                                            /\ HandleChange(f.p, c) \in Recorded => Admits(f.p)
    BY <1>4, HandleChangeIs
  <2> QED BY <2>1 DEF Outcomes, Recorded
<1>6. CASE r = "wait" /\ EndSync(TRUE) /\ UNCHANGED outcome
  BY <1>1, <1>2, <1>6, FitsNow, DoneKeeps DEF ListenerTypes, EndSync
<1>7. CASE /\ r # "wait" /\ Record(f.p, r) /\ UNCHANGED <<queue, failing>>
           /\ task' = [task EXCEPT !.pc = "next", !.todo = @ \ {f}, !.newest = Larger(@, f.upd)]
  <2>1. /\ task' \in TaskRecords /\ task'.pc = "next" /\ task'.todo = task.todo \ {task.frame}
        /\ task'.frame = task.frame /\ task'.since = task.since
        /\ task'.floor = task.floor /\ task'.atFloor = task.atFloor /\ task'.newest <= now
    BY <1>1, <1>7, ReplayIs
  <2> HIDE DEF r
  <2>2. OutcomesFit(outcome')
    BY <1>4, <1>5, <1>7, RecordIs
  <2> QED BY <1>1, <1>2, <1>3, <1>7, <2>1, <2>2, TaskMoves
<1> QED BY <1>6, <1>7 DEF ReplayPost

\* SyncFails keeps the invariant.
LEMMA SyncFailsStep ==
    ASSUME ListenerInv, SyncFails PROVE ListenerInv'
<1>1. /\ task.pc # "idle" /\ Done /\ failing' = TRUE
      /\ UNCHANGED <<now, kind, post, private, item, retired, channel, socket, outcome>>
  BY DEF SyncFails, EndSync, mattermost, bridge
<1>2. queue # <<>> /\ faults' \in 0..MaxFaults
  BY <1>1, ListenerAssumption DEF ListenerInv, ChainInStep, SyncFails, Fault, ListenerTypes
<1> QED BY <1>1, <1>2, FitsNow, DoneKeeps

\* The invariant holds at first.
LEMMA ListenerInitInv == ListenerInit => ListenerInv
<1> SUFFICES ASSUME ListenerInit PROVE ListenerInv
  OBVIOUS
<1> USE DEF ListenerInit
<1>1. \A p \in Posts : /\ post[p] \in PostRecords /\ post[p].st = "none" /\ post[p].at = 0
                       /\ post[p].upd = 0
  BY DEF PostRecords
<1>2. /\ channel \in ChannelRecords /\ ~channel.started /\ channel.managed /\ channel.left = 0
      /\ channel.gen = 0 /\ channel.cursor = 0
  BY DEF ChannelRecords
<1>3. queue = <<>> /\ queue \in Seq(Frames) /\ Queued = {}
  BY DEF Queued
<1>4. post \in [Posts -> PostRecords]
  BY <1>1
<1>9. now \in 0..MaxTime /\ faults \in 0..MaxFaults
  BY ListenerAssumption
<1>10. item \in [Posts -> ItemStates] /\ outcome \in [Posts -> Outcomes]
  BY DEF ItemStates, Outcomes
<1>11. retired \subseteq Kinds /\ private \subseteq Posts /\ task \in TaskRecords
  BY IdleIs
<1>5. ListenerTypes
  BY <1>2, <1>3, <1>4, <1>9, <1>10, <1>11 DEF ListenerTypes
<1>6. PostsAreDated
  BY <1>1, <1>2, <1>3, IdleIs DEF PostsAreDated
<1>7. ChainInStep /\ ChannelInStep
  BY <1>2, <1>3, IdleIs DEF ChainInStep, ChannelInStep
<1>8. PrivateInStep /\ UnmanagedIsPrivate
  BY <1>2, IdleIs DEF PrivateInStep, UnmanagedIsPrivate
<1> QED BY <1>5, <1>6, <1>7, <1>8 DEF ListenerInv

\* Every step keeps the invariant.
LEMMA ListenerStep == ListenerInv /\ [ListenerNext]_listenerVars => ListenerInv'
<1> SUFFICES ASSUME ListenerInv, [ListenerNext]_listenerVars PROVE ListenerInv'
  OBVIOUS
<1>1. CASE UNCHANGED listenerVars
  BY <1>1 DEF listenerVars, ListenerInv, ListenerTypes, PostsAreDated, ChainInStep, ChannelInStep,
              PrivateInStep, UnmanagedIsPrivate, Queued, FrameIsTrue, Visible, BeforeStart
<1>2. CASE ListenerNext
  BY <1>2, ListenerStampStep, ListenerAppearStep, ListenerEditStep, BridgeStep, RevisionStep,
     ConnectionStep, CrashStep, LiveStep, SaveStep, BeginSyncStep, ScanStep, StartChannelStep,
     FetchChangesStep, NextPostStep, ReplayPostStep, SyncFailsStep
  DEF ListenerNext, Environment, Live, Sync
<1> QED BY <1>1, <1>2

\* The invariant always holds.
LEMMA ListenerInvHolds == ListenerSpec => []ListenerInv
BY ListenerInitInv, ListenerStep, PTL DEF ListenerSpec

\* The listener's state, the channel's catch-up and the chain keep their types.
THEOREM ListenerTypeCorrect == ListenerSpec => []ListenerTypeOK
<1>1. ListenerInv => ListenerTypeOK
  BY DEF ListenerInv, ListenerTypes, ListenerTypeOK, PostRecords, ChannelRecords, TaskRecords,
         TaskSteps, ItemStates, Outcomes
<1> QED BY <1>1, ListenerInvHolds, PTL

\* What was posted while the channel was not managed is never recorded (afterChannelStart,
\* startManagedChannel), for any posts and any revisions, failures and crashes.
THEOREM UnmanagedStaysPrivate == ListenerSpec => []UnmanagedIsPrivate
<1>1. ListenerInv => UnmanagedIsPrivate
  BY DEF ListenerInv
<1> QED BY <1>1, ListenerInvHolds, PTL

-----------------------------------------------------------------------------
(* No post is passed by: the cursor may move beyond a post only after the post was dealt with. *)

\* A cursor at u still has a post of the time a in the window of its sync.
Behind(u, a) == u < a + Margin

\* The tasks that wait: the chain without the one it is at.
Waiting == IF task.pc = "idle" THEN queue ELSE Tail(queue)

HasSync(w) == \E j \in DOMAIN w : w[j] = SyncTask

\* Every frame of w that would move the cursor beyond a post of the time a waits after a sync.
Shielded(w, a) ==
    \A i \in DOMAIN w : \/ w[i] = SyncTask \/ Behind(w[i].upd, a)
                        \/ \E j \in DOMAIN w : j < i /\ w[j] = SyncTask

\* What waits does not pass the post by, and neither does a frame that is still to come.
Guarded(p) ==
    Shielded(Waiting, post[p].at) /\ (socket = "up" => HasSync(Waiting))

\* Neither does the task the chain is at.
TaskBehind(p) ==
    /\ task.pc \in {"live", "save"} => Behind(task.frame.upd, post[p].at)
    /\ task.pc \in {"start", "next", "replay", "finish"} => Behind(task.newest, post[p].at)
    /\ task.pc \in {"next", "replay", "finish"} => \A f \in task.todo : Behind(f.upd, post[p].at)

\* A post nobody has dealt with, and that no frame brings.
Unread(p) == p \in Visible /\ outcome[p] = "none" /\ p \notin PendingLive

\* The sync that runs comes to it.
SyncComes(p) == \/ task.pc = "fetch"
                \/ task.pc \in {"next", "replay"} /\ \E f \in task.todo : f.p = p

\* Frames are left alone until a sync.
HeldBack == failing /\ task.pc \notin {"next", "replay", "finish"}

NoneLeftBehind ==
    \A p \in Posts : Unread(p) /\ Admits(p) =>
        /\ Behind(channel.cursor, post[p].at)
        /\ SyncComes(p) \/ HeldBack \/ (Guarded(p) /\ TaskBehind(p))

\* The start a scan found may be installed: what was posted since is guarded.
ScanIsCurrent ==
    task.pc = "start" =>
        \A p \in Posts : Unread(p) /\ ~BeforeStart(p, task.floor, task.atFloor) =>
            Guarded(p) /\ Behind(task.newest, post[p].at)

\* The cursor is moved by a frame only after its post was dealt with.
SavedIsRecorded ==
    task.pc = "save" /\ task.frame.change = "created" =>
        outcome[task.frame.p] # "none" \/ ~Admits(task.frame.p)

CatchUpInv == ListenerInv /\ NoneLeftBehind /\ ScanIsCurrent /\ SavedIsRecorded

\* One more task waits.
LEMMA ShieldAppend ==
    ASSUME NEW w \in Seq(Frames), NEW f \in Frames, NEW a, Shielded(w, a),
           f = SyncTask \/ Behind(f.upd, a) \/ HasSync(w)
    PROVE  Shielded(Append(w, f), a)
<1>1. PICK v : v = Append(w, f)
  OBVIOUS
<1>2. /\ \A i \in DOMAIN w : i \in DOMAIN v /\ v[i] = w[i] /\ i \in Nat /\ i < Len(w) + 1
      /\ v[Len(w) + 1] = f /\ \A i \in DOMAIN v : i \in DOMAIN w \/ i = Len(w) + 1
  BY <1>1, AppendIs
<1>3. ASSUME NEW i \in DOMAIN v
      PROVE  v[i] = SyncTask \/ Behind(v[i].upd, a) \/ \E j \in DOMAIN v : j < i /\ v[j] = SyncTask
  <2>1. CASE i \in DOMAIN w
    BY <2>1, <1>2 DEF Shielded
  <2>2. CASE i = Len(w) + 1
    BY <2>2, <1>2 DEF HasSync
  <2> QED BY <1>2, <2>1, <2>2
<1> QED BY <1>1, <1>3 DEF Shielded

\* A sync that waits is not lost when a task comes.
LEMMA HasSyncAppend ==
    ASSUME NEW w \in Seq(Frames), NEW f \in Frames, HasSync(w) \/ f = SyncTask
    PROVE  HasSync(Append(w, f))
BY AppendIs DEF HasSync

\* The frame that waited first is taken up.
LEMMA ShieldTail ==
    ASSUME NEW w \in Seq(Frames), w # <<>>, NEW a, Shielded(w, a), Head(w) # SyncTask
    PROVE  /\ Behind(Head(w).upd, a) /\ Shielded(Tail(w), a)
           /\ HasSync(w) => HasSync(Tail(w))
<1>1. PICK v : v = Tail(w)
  OBVIOUS
<1>2. /\ Head(w) = w[1] /\ 1 \in DOMAIN w
      /\ \A i \in DOMAIN v : i + 1 \in DOMAIN w /\ v[i] = w[i + 1]
      /\ \A k \in DOMAIN w : k = 1 \/ (k - 1 \in DOMAIN v /\ v[k - 1] = w[k])
  BY <1>1, TailIs
<1>3. /\ \A k \in DOMAIN w : k \in Nat /\ 1 <= k
      /\ \A k \in DOMAIN v : k \in Nat
  <2>1. v \in Seq(Frames)
    BY <1>1, TailIs
  <2>2. DOMAIN w = 1..Len(w) /\ DOMAIN v = 1..Len(v)
    BY <2>1
  <2> QED BY <2>2
<1>4. Behind(Head(w).upd, a)
  BY <1>2, <1>3 DEF Shielded
<1>5. ASSUME NEW i \in DOMAIN v
      PROVE  v[i] = SyncTask \/ Behind(v[i].upd, a) \/ \E j \in DOMAIN v : j < i /\ v[j] = SyncTask
  <2>1. CASE \E j \in DOMAIN w : j < i + 1 /\ w[j] = SyncTask
    <3>1. PICK j \in DOMAIN w : j < i + 1 /\ w[j] = SyncTask
      BY <2>1
    <3>2. j - 1 \in DOMAIN v /\ v[j - 1] = SyncTask
      BY <1>2, <3>1
    <3>3. j - 1 < i
      BY <1>3, <3>1
    <3> QED BY <3>2, <3>3
  <2> QED BY <2>1, <1>2 DEF Shielded
<1>6. HasSync(w) => HasSync(v)
  BY <1>2 DEF HasSync
<1> QED BY <1>1, <1>4, <1>5, <1>6 DEF Shielded

\* The posts a frame of the chain brings.
LEMMA PendingIs ==
    ASSUME NEW p PROVE p \in PendingLive <=> \E f \in Queued : f.change = "created" /\ f.p = p
BY DEF PendingLive, Queued

\* What waits is of the chain.
LEMMA WaitingIs ==
    ASSUME ListenerInv
    PROVE  Waiting \in Seq(Frames) /\ \A i \in DOMAIN Waiting : Waiting[i] \in Queued
<1>1. queue \in Seq(Frames) /\ (task.pc # "idle" => queue # <<>>)
  BY DEF ListenerInv, ListenerTypes, ChainInStep
<1>2. CASE task.pc = "idle"
  BY <1>1, <1>2 DEF Waiting, Queued
<1>3. CASE task.pc # "idle"
  <2>1. /\ Tail(queue) \in Seq(Frames)
        /\ \A i \in DOMAIN Tail(queue) : i + 1 \in DOMAIN queue /\ Tail(queue)[i] = queue[i + 1]
    BY <1>1, <1>3, TailIs
  <2>2. Waiting = Tail(queue)
    BY <1>3 DEF Waiting
  <2> QED BY <2>1, <2>2 DEF Queued
<1> QED BY <1>2, <1>3

\* With a sync at its end, what waits has one.
LEMMA WithSyncWaits ==
    ASSUME ListenerInv, NEW v, v = IF task.pc = "idle" THEN WithSync ELSE Tail(WithSync)
    PROVE  /\ v \in {Waiting, Append(Waiting, SyncTask)} /\ HasSync(v) /\ v \in Seq(Frames)
           /\ task.pc # "idle" => WithSync # <<>>
<1>1. queue \in Seq(Frames) /\ (task.pc # "idle" => queue # <<>>)
  BY DEF ListenerInv, ListenerTypes, ChainInStep
<1>2. SyncTask \in Frames /\ Waiting \in Seq(Frames)
  BY IdleIs, WaitingIs
<1>3. CASE WithSync = queue /\ queue # <<>> /\ queue[Len(queue)] = SyncTask
           /\ (Len(queue) > 1 \/ task.pc = "idle")
  <2>1. v = Waiting
    BY <1>3 DEF Waiting
  <2>2. Len(queue) \in DOMAIN queue /\ Len(queue) \in Nat
    BY <1>1, <1>3
  <2>3. CASE task.pc = "idle"
    BY <1>3, <2>1, <2>2, <2>3, <1>2 DEF HasSync, Waiting
  <2>4. CASE task.pc # "idle"
    <3>1. Len(queue) - 1 \in DOMAIN Tail(queue) /\ Tail(queue)[Len(queue) - 1] = SyncTask
      BY <1>1, <1>3, <2>2, <2>4, TailIs
    <3> QED BY <1>2, <1>3, <2>1, <2>4, <3>1 DEF HasSync, Waiting
  <2> QED BY <2>3, <2>4
<1>4. CASE WithSync = Append(queue, SyncTask)
  <2>1. v = Append(Waiting, SyncTask)
    BY <1>1, <1>2, <1>4, AppendIs DEF Waiting
  <2>2. v \in Seq(Frames)
    BY <1>2, <2>1, AppendProperties
  <2>3. HasSync(v)
    BY <1>2, <2>1, HasSyncAppend
  <2>4. WithSync # <<>>
    BY <1>1, <1>2, <1>4, AppendProperties
  <2> QED BY <2>1, <2>2, <2>3, <2>4
<1> QED BY <1>3, <1>4 DEF WithSync

\* What a broadcast adds to what waits: the frame, behind a sync if any frame was lost, or nothing.
LEMMA BroadcastWaits ==
    ASSUME ListenerInv, UNCHANGED task, NEW f \in Frames, Broadcast(f)
    PROVE  /\ \A g \in Queued : g \in Queued'
           /\ \/ /\ f \in Queued'
                 /\ \E v \in {Waiting, Append(Waiting, SyncTask)} :
                      Waiting' = Append(v, f) /\ (HasSync(v) \/ (v = Waiting /\ socket = "up"))
              \/ Waiting' = Waiting /\ socket' # "up"
<1>0. queue \in Seq(Frames) /\ (task.pc # "idle" => queue # <<>>) /\ Waiting \in Seq(Frames)
  BY WaitingIs DEF ListenerInv, ListenerTypes, ChainInStep
<1>1. CASE socket # "down" /\ Arrive(f) /\ UNCHANGED faults
  <2>1. CASE socket = "gap"
    <3>1. queue' = Append(WithSync, f)
      BY <1>1, <2>1 DEF Arrive
    <3>2. PICK v : v = IF task.pc = "idle" THEN WithSync ELSE Tail(WithSync)
      OBVIOUS
    <3>3. /\ v \in {Waiting, Append(Waiting, SyncTask)} /\ HasSync(v)
          /\ task.pc # "idle" => WithSync # <<>>
      BY <3>2, WithSyncWaits
    <3>4. /\ WithSync \in Seq(Frames)
          /\ \A i \in DOMAIN queue : i \in DOMAIN WithSync /\ WithSync[i] = queue[i]
      BY <1>0, WithSyncIs
    <3>5. Waiting' = Append(v, f)
      BY <3>1, <3>2, <3>3, <3>4, AppendIs DEF Waiting
    <3>6. f \in Queued' /\ \A i \in DOMAIN queue : i \in DOMAIN queue' /\ queue'[i] = queue[i]
      BY <3>1, <3>4, AppendIs DEF Queued
    <3> QED BY <3>3, <3>5, <3>6 DEF Queued
  <2>2. CASE socket # "gap"
    <3>1. queue' = Append(queue, f)
      BY <1>1, <2>2 DEF Arrive
    <3>2. Waiting' = Append(Waiting, f)
      BY <1>0, <3>1, AppendIs DEF Waiting
    <3>3. f \in Queued' /\ \A i \in DOMAIN queue : i \in DOMAIN queue' /\ queue'[i] = queue[i]
      BY <1>0, <3>1, AppendIs DEF Queued
    <3>4. socket = "up"
      BY <1>1, <2>2 DEF ListenerInv, ListenerTypes
    <3> QED BY <3>2, <3>3, <3>4 DEF Queued
  <2> QED BY <2>1, <2>2
<1>2. CASE UNCHANGED queue /\ socket' # "up"
  BY <1>2 DEF Waiting, Queued
<1> QED BY <1>1, <1>2 DEF Broadcast

\* A guarded post stays guarded when a frame comes.
LEMMA BroadcastGuards ==
    ASSUME ListenerInv, UNCHANGED task, NEW f \in Frames, Broadcast(f), NEW p \in Posts,
           post'[p].at = post[p].at, Guarded(p)
    PROVE  Guarded(p)'
<1>1. Waiting \in Seq(Frames) /\ SyncTask \in Frames
  BY WaitingIs, IdleIs
<1>2. Shielded(Waiting, post[p].at) /\ (socket = "up" => HasSync(Waiting))
  BY DEF Guarded
<1>3. ASSUME NEW v \in {Waiting, Append(Waiting, SyncTask)}, Waiting' = Append(v, f),
             HasSync(v) \/ (v = Waiting /\ socket = "up")
      PROVE  Guarded(p)'
  <2>0. Append(Waiting, SyncTask) \in Seq(Frames)
    BY <1>1, AppendProperties
  <2>1. v \in Seq(Frames) /\ HasSync(v)
    BY <1>1, <1>2, <1>3, <2>0
  <2>2. Shielded(v, post[p].at)
    BY <1>1, <1>2, ShieldAppend
  <2>3. Shielded(Append(v, f), post[p].at) /\ HasSync(Append(v, f))
    BY <2>1, <2>2, ShieldAppend, HasSyncAppend
  <2> QED BY <1>3, <2>3 DEF Guarded
<1>4. CASE Waiting' = Waiting /\ socket' # "up"
  BY <1>2, <1>4 DEF Guarded
<1> QED BY <1>3, <1>4, BroadcastWaits

\* What waits is of the chain, and nothing is dated later than now.
ChainFacts ==
    /\ now \in Nat /\ \A p \in Posts : post[p].at \in Nat
    /\ \A i \in DOMAIN Waiting : Waiting[i] \in Queued
    /\ \A f \in Queued : f.upd \in Nat /\ f.upd <= now

\* The facts about the chain follow from its invariant.
LEMMA ChainFactsHold == ListenerInv => ChainFacts
<1> SUFFICES ASSUME ListenerInv PROVE ChainFacts
  OBVIOUS
<1>1. now \in Nat
  BY ListenerAssumption DEF ListenerInv, ListenerTypes
<1>2. \A p \in Posts : post[p].at \in Nat
  BY PostFields DEF ListenerInv
<1>3. \A f \in Queued : f.upd \in Nat /\ f.upd <= now
  BY QueuedAreFrames DEF ListenerInv, PostsAreDated
<1> QED BY <1>1, <1>2, <1>3, WaitingIs DEF ChainFacts

\* What goes on around the chain leaves no post behind, when what is guarded stays guarded and
\* what appears is brought by a frame, or is within the margin with more to come than frames.
LEMMA AroundTheChain ==
    ASSUME CatchUpInv, ListenerInv', UNCHANGED <<task, channel, failing, outcome>>,
           \A p \in PendingLive : p \in PendingLive',
           \A p \in Visible : /\ p \in Visible' /\ post'[p].at = post[p].at
                              /\ Guarded(p) => Guarded(p)',
           \A p \in Visible' : \/ p \in Visible \/ p \in PendingLive'
                               \/ now' < post'[p].at + Margin /\ socket' # "up"
    PROVE  CatchUpInv'
<1> USE DEF CatchUpInv
<1>1. \A p \in Visible : Admits(p)' <=> Admits(p)
  BY DEF Admits
<1>2. \A p : SyncComes(p)' <=> SyncComes(p)
  BY DEF SyncComes
<1>3. HeldBack' <=> HeldBack
  BY DEF HeldBack
<1>4. \A p \in Visible : TaskBehind(p) => TaskBehind(p)'
  BY DEF TaskBehind
<1>5. ASSUME NEW p \in Posts, Unread(p)', p \notin Visible
      PROVE  /\ Behind(channel'.cursor, post'[p].at) /\ Behind(task'.newest, post'[p].at)
             /\ Guarded(p)' /\ TaskBehind(p)'
  <2>f. ChainFacts'
    BY ChainFactsHold, PTL
  <2>1. now' < post'[p].at + Margin /\ socket' # "up"
    BY <1>5 DEF Unread
  <2>2. /\ post'[p].at \in Nat /\ now' \in Nat
        /\ \A u \in Nat : u <= now' => Behind(u, post'[p].at)
    <3>1. post'[p].at \in Nat /\ now' \in Nat
      BY <2>f DEF ChainFacts
    <3> QED BY <2>1, <3>1, ListenerAssumption DEF Behind
  <2>3. Shielded(Waiting', post'[p].at)
    <3>1. \A i \in DOMAIN Waiting' : Waiting'[i] \in Queued'
      BY <2>f DEF ChainFacts
    <3>2. \A f \in Queued' : f.upd \in Nat /\ f.upd <= now'
      BY <2>f DEF ChainFacts
    <3> QED BY <2>2, <3>1, <3>2 DEF Shielded
  <2>4. Guarded(p)'
    BY <2>1, <2>3 DEF Guarded
  <2>5. /\ channel'.cursor \in Nat /\ task'.newest \in Nat /\ task'.frame.upd \in Nat
        /\ \A f \in task'.todo : f.upd \in Nat
    BY DEF ListenerInv, ListenerTypes, ChannelRecords, TaskRecords, Frames
  <2>6. /\ channel'.cursor <= now' /\ task'.newest <= now' /\ task'.frame.upd <= now'
        /\ \A f \in task'.todo : f.upd <= now'
    BY DEF ListenerInv, PostsAreDated
  <2> QED BY <2>2, <2>4, <2>5, <2>6 DEF TaskBehind
<1>6. \A p \in Posts : Unread(p)' /\ p \in Visible => Unread(p)
  BY DEF Unread
<1>7. NoneLeftBehind'
  BY <1>1, <1>2, <1>3, <1>4, <1>5, <1>6 DEF NoneLeftBehind
<1>8. ScanIsCurrent'
  BY <1>5, <1>6 DEF ScanIsCurrent, BeforeStart
<1>9. task.pc = "save" => task.frame.p \in Visible
  BY HeadIs DEF ListenerInv, ChainInStep, FrameFits, FrameIsTrue
<1>10. SavedIsRecorded'
  BY <1>1, <1>9 DEF SavedIsRecorded
<1> QED BY <1>7, <1>8, <1>10

\* Mattermost's users.
LEMMA UsersLeaveNone ==
    ASSUME CatchUpInv, ListenerInv', NEW p \in Posts, Stamp(p) \/ Appear(p) \/ Edit(p)
    PROVE  CatchUpInv'
<1> USE DEF CatchUpInv
<1>0. UNCHANGED <<task, channel, failing, outcome>>
  BY DEF Stamp, Appear, Edit, bridge, listener
<1>1. CASE Stamp(p)
  <2>1. UNCHANGED <<queue, socket>>
    BY <1>1 DEF Stamp, listener
  <2>2. /\ Visible' = Visible /\ \A q \in Visible : post'[q] = post[q]
    <3>1. /\ post[p].st = "none" /\ post \in [Posts -> PostRecords]
          /\ \E t \in Later : post' =
               [post EXCEPT ![p] = [st |-> "stamped", at |-> t, upd |-> t, edited |-> FALSE]]
      BY <1>1 DEF Stamp, ListenerInv, ListenerTypes
    <3>2. PICK r : r.st = "stamped" /\ post' = [post EXCEPT ![p] = r]
      BY <3>1
    <3> QED BY <3>1, <3>2 DEF Visible
  <2>3. PendingLive' = PendingLive
    BY <2>1 DEF PendingLive
  <2>4. \A q \in Visible : Guarded(q) => Guarded(q)'
    BY <1>0, <2>1, <2>2 DEF Guarded, Waiting
  <2> QED BY <1>0, <2>2, <2>3, <2>4, AroundTheChain
<1>2. CASE Appear(p)
  <2>1. /\ post' \in [Posts -> PostRecords] /\ now' = now
        /\ post'[p].st = "visible" /\ post'[p].at = post[p].at /\ post'[p].upd = post[p].upd
        /\ \A q \in Posts : /\ q # p => post'[q].st = post[q].st
                            /\ post'[q].at = post[q].at
    BY <1>2, AppearIs
  <2>2. now < post[p].at + Margin /\ post[p].upd <= now /\ Broadcast(Frame(p, "created"))
    BY <1>2 DEF Appear, ListenerInv, PostsAreDated
  <2>3. PICK f : f = Frame(p, "created")
    OBVIOUS
  <2>4. f \in Frames /\ Broadcast(f) /\ f.p = p /\ f.change = "created"
    BY <2>1, <2>2, <2>3, FrameOf
  <2>5. /\ \A g \in Queued : g \in Queued'
        /\ f \in Queued' \/ socket' # "up"
    BY <1>0, <2>4, BroadcastWaits
  <2>6. \A q : q \in PendingLive' <=> \E g \in Queued' : g.change = "created" /\ g.p = q
    BY DEF PendingLive, Queued
  <2>7. \A q \in PendingLive : q \in PendingLive'
    BY <2>5, <2>6, PendingIs
  <2>8. \A q \in Visible : /\ q \in Visible' /\ post'[q].at = post[q].at
                           /\ Guarded(q) => Guarded(q)'
    BY <1>0, <2>1, <2>4, BroadcastGuards DEF Visible
  <2>9. \A q \in Visible' : q \in Visible \/ q = p
    BY <2>1 DEF Visible
  <2>10. p \in PendingLive' \/ (now' < post'[p].at + Margin /\ socket' # "up")
    BY <2>1, <2>2, <2>4, <2>5, <2>6
  <2> QED BY <1>0, <2>7, <2>8, <2>9, <2>10, AroundTheChain
<1>3. CASE Edit(p)
  <2>1. /\ post' \in [Posts -> PostRecords] /\ post[p].st = "visible" /\ post'[p].upd = now'
        /\ \A q \in Posts : /\ post'[q].st = post[q].st /\ post'[q].at = post[q].at
                            /\ post'[q].upd <= now'
    BY <1>3, EditIs
  <2>2. PICK f : f = Frame(p, "edited")
    OBVIOUS
  <2>3. Broadcast(f) /\ post'[p].upd <= now' /\ post'[p].st = "visible"
    BY <1>3, <2>1, <2>2 DEF Edit
  <2>4. f \in Frames
    BY <2>1, <2>2, <2>3, FrameOf
  <2>5. \A g \in Queued : g \in Queued'
    BY <1>0, <2>3, <2>4, BroadcastWaits
  <2>6. \A q : q \in PendingLive' <=> \E g \in Queued' : g.change = "created" /\ g.p = q
    BY DEF PendingLive, Queued
  <2>7. \A q \in PendingLive : q \in PendingLive'
    BY <2>5, <2>6, PendingIs
  <2>8. \A q \in Visible : /\ q \in Visible' /\ post'[q].at = post[q].at
                           /\ Guarded(q) => Guarded(q)'
    BY <1>0, <2>1, <2>3, <2>4, BroadcastGuards DEF Visible
  <2>9. \A q \in Visible' : q \in Visible
    BY <2>1 DEF Visible
  <2> QED BY <1>0, <2>7, <2>8, <2>9, AroundTheChain
<1> QED BY <1>1, <1>2, <1>3

\* The outbox, and the connection.
LEMMA ConnectionLeavesNone ==
    ASSUME CatchUpInv, ListenerInv',
           \/ (\E p \in Posts : Settle(p)) \/ (\E k \in {"agent", "card"} : Retire(k))
           \/ Connect \/ Disconnect \/ SyncTimer
    PROVE  CatchUpInv'
<1> USE DEF CatchUpInv
<1>1. UNCHANGED <<now, post, task, channel, failing, outcome>>
  BY DEF Settle, Retire, Connect, Disconnect, SyncTimer, mattermost, bridge, listener
<1>2. Visible' = Visible
  BY <1>1 DEF Visible
<1>3. queue \in Seq(Frames) /\ Waiting \in Seq(Frames) /\ SyncTask \in Frames
  BY WaitingIs, IdleIs DEF ListenerInv, ListenerTypes
<1>4. CASE UNCHANGED queue /\ (socket' = socket \/ socket' = "down")
  <2>1. PendingLive' = PendingLive /\ Waiting' = Waiting
    BY <1>1, <1>4 DEF PendingLive, Waiting
  <2>2. \A q \in Visible : Guarded(q) => Guarded(q)'
    BY <1>1, <1>4, <2>1 DEF Guarded
  <2> QED BY <1>1, <1>2, <2>1, <2>2, AroundTheChain
<1>5. CASE /\ Waiting' \in {Waiting, Append(Waiting, SyncTask)} /\ HasSync(Waiting')
           /\ \A i \in DOMAIN queue : i \in DOMAIN queue' /\ queue'[i] = queue[i]
  <2>1. \A q \in PendingLive : q \in PendingLive'
    BY <1>5 DEF PendingLive
  <2>2. \A q \in Visible : Guarded(q) => Guarded(q)'
    BY <1>1, <1>3, <1>5, ShieldAppend DEF Guarded
  <2> QED BY <1>1, <1>2, <2>1, <2>2, AroundTheChain
<1>6. CASE (\E p \in Posts : Settle(p)) \/ (\E k \in {"agent", "card"} : Retire(k)) \/ Disconnect
  BY <1>4, <1>6 DEF Settle, Retire, Disconnect, listener
<1>7. CASE Connect
  <2>1. queue' = WithSync
    BY <1>7 DEF Connect
  <2>2. PICK v : v = IF task.pc = "idle" THEN WithSync ELSE Tail(WithSync)
    OBVIOUS
  <2>3. Waiting' = v
    BY <1>1, <2>1, <2>2 DEF Waiting
  <2> QED BY <1>3, <1>5, <2>1, <2>2, <2>3, WithSyncWaits, WithSyncIs
<1>8. CASE SyncTimer
  <2>1. queue = <<>> /\ queue' = <<SyncTask>>
    BY <1>8 DEF SyncTimer
  <2>2. task.pc = "idle"
    BY <2>1 DEF ListenerInv, ChainInStep
  <2>3. Waiting = <<>> /\ Waiting' = <<SyncTask>>
    BY <1>1, <2>1, <2>2 DEF Waiting
  <2>4. <<SyncTask>> = Append(<<>>, SyncTask) /\ HasSync(<<SyncTask>>)
    BY DEF HasSync
  <2> QED BY <1>5, <2>1, <2>3, <2>4
<1> QED BY <1>6, <1>7, <1>8

\* After a revision, the channel is not started: it admits nothing.
LEMMA RevisionLeavesNone ==
    ASSUME CatchUpInv, ListenerInv', Leave \/ Rejoin PROVE CatchUpInv'
<1> USE DEF CatchUpInv
<1>1. UNCHANGED <<now, post, task, queue, failing, socket, outcome>>
  BY DEF Leave, Rejoin, mattermost, listener
<1>2. channel'.started = FALSE
  <2>1. channel \in ChannelRecords
    BY DEF ListenerInv, ListenerTypes
  <2>2. CASE Leave
    BY <2>1, <2>2 DEF Leave, ChannelRecords
  <2>3. CASE Rejoin
    <3>1. channel'.started = channel.started
      BY <2>1, <2>3 DEF Rejoin, ChannelRecords
    <3>2. channel.started \in BOOLEAN /\ ~channel.started
      BY <2>1, <2>3 DEF Rejoin, ListenerInv, ChannelInStep, ChannelRecords
    <3> QED BY <3>1, <3>2
  <2> QED BY <2>2, <2>3
<1>3. \A p : ~Admits(p)'
  BY <1>2 DEF Admits
<1>4. ScanIsCurrent'
  BY <1>1 DEF ScanIsCurrent, Unread, Visible, PendingLive, BeforeStart, Guarded, Waiting
<1> QED BY <1>3, <1>4 DEF NoneLeftBehind, SavedIsRecorded

\* What a frame of the chain brings is within the margin, and in the window of any sync.
LEMMA PendingIsFresh ==
    ASSUME ListenerInv, NEW f \in Queued, f.change = "created"
    PROVE  /\ f.p \in Visible /\ f.at = post[f.p].at /\ now < post[f.p].at + Margin
           /\ Behind(channel.cursor, post[f.p].at)
<1>1. FrameFits(f) /\ f # SyncTask /\ f.at \in Nat
  BY ChainByFrames, IdleIs, QueuedAreFrames DEF ListenerInv
<1>2. f.p \in Visible /\ f.at = post[f.p].at /\ now < post[f.p].at + Margin
  BY <1>1 DEF FrameFits, FrameIsTrue
<1>3. channel.cursor \in Nat /\ now \in Nat /\ channel.cursor <= now
  BY ListenerAssumption DEF ListenerInv, ListenerTypes, ChannelRecords, PostsAreDated
<1> QED BY <1>1, <1>2, <1>3, ListenerAssumption DEF Behind

\* After a crash nothing waits, and the sync of the next connection starts before what was under way.
LEMMA CrashLeavesNone ==
    ASSUME CatchUpInv, ListenerInv', Crash PROVE CatchUpInv'
<1> USE DEF CatchUpInv
<1>1. /\ UNCHANGED <<now, post, channel, outcome>>
      /\ socket' = "down" /\ queue' = <<>> /\ task' = Idle
  BY DEF Crash, mattermost, bridge
<1>2. task'.pc = "idle" /\ Waiting' = <<>>
  BY <1>1, IdleIs DEF Waiting
<1>3. \A p : Guarded(p)' /\ TaskBehind(p)'
  BY <1>1, <1>2 DEF Guarded, Shielded, TaskBehind
<1>4. ASSUME NEW p \in Posts, Unread(p)', Admits(p)' PROVE Behind(channel'.cursor, post'[p].at)
  <2>1. Admits(p) /\ p \in Visible /\ outcome[p] = "none"
    BY <1>1, <1>4 DEF Admits, Unread, Visible
  <2>2. CASE p \in PendingLive
    BY <1>1, <2>2, PendingIs, PendingIsFresh
  <2>3. CASE p \notin PendingLive
    BY <1>1, <2>1, <2>3 DEF NoneLeftBehind, Unread
  <2> QED BY <2>2, <2>3
<1> QED BY <1>2, <1>3, <1>4 DEF NoneLeftBehind, ScanIsCurrent, SavedIsRecorded

\* The chain turns to the next task: what waits stays, and one post at most is no longer brought.
LEMMA DoneWaits ==
    ASSUME ListenerInv, Done, queue # <<>>, UNCHANGED <<post, outcome>>
    PROVE  /\ task'.pc = "idle" /\ Waiting' = Tail(queue) /\ (task.pc # "idle" => Waiting' = Waiting)
           /\ \A p \in Posts : Unread(p)' =>
                \/ Unread(p)
                \/ /\ Head(queue).change = "created" /\ Head(queue).p = p
                   /\ p \in Visible /\ outcome[p] = "none" /\ Behind(channel.cursor, post[p].at)
<1>1. task'.pc = "idle" /\ queue' = Tail(queue)
  BY IdleIs DEF Done
<1>2. Waiting' = Tail(queue) /\ (task.pc # "idle" => Waiting' = Waiting)
  BY <1>1 DEF Waiting
<1>3. ASSUME NEW p \in Posts, Unread(p)', p \in PendingLive
      PROVE  /\ Head(queue).change = "created" /\ Head(queue).p = p
             /\ Behind(channel.cursor, post[p].at)
  <2>1. PICK i \in DOMAIN queue : queue[i].change = "created" /\ queue[i].p = p
    BY <1>3 DEF PendingLive
  <2>2. i = 1 \/ (i - 1 \in DOMAIN queue' /\ queue'[i - 1] = queue[i])
    BY <1>1, TailIs DEF ListenerInv, ListenerTypes
  <2>3. i = 1
    BY <1>3, <2>1, <2>2 DEF Unread, PendingLive
  <2>4. Head(queue) = queue[i]
    BY <2>3, TailIs DEF ListenerInv, ListenerTypes
  <2> QED BY <2>1, <2>4, HeadIs, PendingIsFresh
<1>4. \A p \in Posts : Unread(p)' => p \in Visible /\ outcome[p] = "none"
  BY DEF Unread, Visible
<1> QED BY <1>1, <1>2, <1>3, <1>4 DEF Unread

\* A task is over: what has to be shown of the posts nobody has dealt with.
LEMMA DoneLeavesNone ==
    ASSUME ListenerInv', task'.pc = "idle",
           \A p \in Posts : Unread(p)' /\ Admits(p)' =>
               Behind(channel'.cursor, post'[p].at) /\ (failing' \/ Guarded(p)')
    PROVE  CatchUpInv'
BY DEF CatchUpInv, NoneLeftBehind, ScanIsCurrent, SavedIsRecorded, HeldBack, TaskBehind

\* A change the channel's start admits is stored, refused for good, skipped, or waits.
LEMMA AdmittedIsDealtWith ==
    ASSUME ListenerTypes, NEW p \in Posts, NEW change \in {"created", "recovered"}, Admits(p)
    PROVE  HandleChange(p, change) # "none"
<1>1. \A c : Stored(p, c) = c
  BY DEF Stored
<1>2. kind[p] \in Kinds /\ item[p] \in ItemStates
  BY ListenerAssumption DEF ListenerTypes
<1>3. AgentPost(p, change) # "none"
  <2>1. item[p] = "sent" \/ item[p] = "dead" \/ item[p] \in {"sending", "cancelled"}
    BY <1>2 DEF ItemStates
  <2> QED BY <1>1, <2>1 DEF AgentPost
<1>4. CommandPost(p, change) # "none"
  BY <1>1 DEF CommandPost
<1> QED BY <1>1, <1>2, <1>3, <1>4 DEF HandleChange, Kinds

\* A frame is dropped, taken up, handled, or fails.
LEMMA LiveLeavesNone ==
    ASSUME CatchUpInv, ListenerInv', BeginLive \/ HandleLive \/ LiveFails PROVE CatchUpInv'
<1> USE DEF CatchUpInv
<1>0. UNCHANGED <<now, post, channel, socket>>
  BY DEF BeginLive, HandleLive, LiveFails, mattermost, bridge
<1>a. Visible' = Visible /\ \A p : Admits(p)' <=> Admits(p)
  BY <1>0 DEF Visible, Admits
<1>b. failing \in BOOLEAN /\ failing' \in BOOLEAN
  BY DEF ListenerInv, ListenerTypes
<1>1. ASSUME Done, queue # <<>>, UNCHANGED outcome, failing' PROVE CatchUpInv'
  <2>1. task'.pc = "idle"
    BY <1>0, <1>1, DoneWaits
  <2>2. \A p \in Posts : Unread(p)' /\ Admits(p)' => Behind(channel'.cursor, post'[p].at)
    BY <1>0, <1>a, <1>1, DoneWaits DEF NoneLeftBehind
  <2> QED BY <1>1, <2>1, <2>2, DoneLeavesNone
<1>2. CASE BeginLive
  <2>1. task.pc = "idle" /\ queue # <<>> /\ Head(queue) # SyncTask /\ UNCHANGED <<failing, outcome>>
    BY <1>2 DEF BeginLive
  <2>2. CASE failing
    BY <1>1, <1>2, <2>1, <2>2 DEF BeginLive
  <2>3. CASE ~channel.managed /\ ~failing
    <3>1. task'.pc = "idle" /\ \A p : ~Admits(p)'
      BY <1>2, <1>a, <2>3, IdleIs DEF BeginLive, Done, Admits
    <3> QED BY <3>1, DoneLeavesNone
  <2>4. CASE channel.managed /\ ~failing
    <3>1. task' = [Idle EXCEPT !.pc = "live", !.frame = Head(queue)] /\ UNCHANGED queue
      BY <1>2, <2>4 DEF BeginLive
    <3>2. task'.pc = "live" /\ task'.frame = Head(queue)
      BY <3>1, <2>1, IdleIs, HeadIs DEF TaskRecords
    <3>3. \A p \in Posts : Unread(p)' => Unread(p)
      BY <1>a, <2>1, <3>1 DEF Unread, PendingLive
    <3>4. ASSUME NEW p \in Posts, Unread(p)', Admits(p)'
          PROVE  Behind(channel'.cursor, post'[p].at) /\ Guarded(p)' /\ TaskBehind(p)'
      <4>1. Unread(p) /\ Admits(p) /\ ~SyncComes(p) /\ ~HeldBack
        BY <1>a, <2>1, <2>4, <3>3, <3>4 DEF SyncComes, HeldBack
      <4>2. Behind(channel.cursor, post[p].at) /\ Guarded(p)
        BY <4>1 DEF NoneLeftBehind
      <4>3. Waiting = queue /\ Waiting' = Tail(queue) /\ queue \in Seq(Frames)
        BY <2>1, <3>1, <3>2 DEF Waiting, ListenerInv, ListenerTypes
      <4>4. /\ Behind(Head(queue).upd, post[p].at) /\ Shielded(Tail(queue), post[p].at)
            /\ HasSync(queue) => HasSync(Tail(queue))
        BY <2>1, <4>2, <4>3, ShieldTail DEF Guarded
      <4>5. Guarded(p)'
        BY <1>0, <4>2, <4>3, <4>4 DEF Guarded
      <4>6. TaskBehind(p)'
        BY <1>0, <3>2, <4>4 DEF TaskBehind
      <4> QED BY <1>0, <4>2, <4>5, <4>6
    <3> QED BY <3>2, <3>4 DEF NoneLeftBehind, ScanIsCurrent, SavedIsRecorded
  <2> QED BY <2>2, <2>3, <2>4, <1>b DEF ListenerInv, ListenerTypes, ChannelRecords
<1>3. CASE HandleLive
  <2> DEFINE q == task.frame.p
             r == IF task.frame.change = "created" THEN HandleChange(q, "created") ELSE "none"
  <2>1. task.pc = "live" /\ queue # <<>> /\ Head(queue) = task.frame /\ task.frame # SyncTask /\ ~failing
    BY <1>3 DEF HandleLive, ListenerInv, ChainInStep
  <2>2. CASE r = "wait" /\ Done /\ failing' = TRUE /\ UNCHANGED outcome
    BY <1>1, <2>1, <2>2
  <2>3. CASE r # "wait" /\ task' = [task EXCEPT !.pc = "save"] /\ Record(q, r)
             /\ UNCHANGED <<queue, failing>>
    <3>1. q \in Visible /\ q \in Posts
      BY <2>1, HeadIs DEF FrameFits, FrameIsTrue, Visible
    <3>2. task.frame.change = "created" /\ Admits(q) => r # "none"
      BY <3>1, AdmittedIsDealtWith DEF ListenerInv
    <3> HIDE DEF r
    <3>3. task'.pc = "save" /\ task'.frame = task.frame
      BY <2>3 DEF ListenerInv, ListenerTypes, TaskRecords
    <3>4. /\ \A p \in Posts : outcome'[p] = "none" => outcome[p] = "none"
          /\ r # "none" => outcome'[q] # "none"
      BY <2>3, <3>1 DEF Record, ListenerInv, ListenerTypes
    <3>5. SavedIsRecorded'
      BY <1>a, <3>2, <3>3, <3>4 DEF SavedIsRecorded
    <3>6. ASSUME NEW p \in Posts, Unread(p)', Admits(p)'
          PROVE  Behind(channel'.cursor, post'[p].at) /\ Guarded(p)' /\ TaskBehind(p)'
      <4>1. Unread(p) /\ Admits(p) /\ ~SyncComes(p) /\ ~HeldBack
        BY <1>a, <2>1, <2>3, <3>4, <3>6 DEF Unread, PendingLive, SyncComes, HeldBack
      <4>2. Behind(channel.cursor, post[p].at) /\ Guarded(p) /\ TaskBehind(p)
        BY <4>1 DEF NoneLeftBehind
      <4>3. Waiting' = Waiting
        BY <2>1, <2>3, <3>3 DEF Waiting
      <4> QED BY <1>0, <2>1, <3>3, <4>2, <4>3 DEF Guarded, TaskBehind
    <3> QED BY <3>3, <3>5, <3>6 DEF NoneLeftBehind, ScanIsCurrent
  <2> QED BY <1>3, <2>2, <2>3 DEF HandleLive
<1>4. CASE LiveFails
  <2>1. /\ task.pc \in {"live", "save"} /\ Done /\ failing' = (failing \/ task.pc = "live")
        /\ UNCHANGED outcome
    BY <1>4 DEF LiveFails
  <2>2. queue # <<>> /\ Head(queue) = task.frame /\ ~failing
    BY <2>1 DEF ListenerInv, ChainInStep
  <2>3. CASE task.pc = "live"
    BY <1>1, <2>1, <2>2, <2>3
  <2>4. CASE task.pc = "save"
    <3>1. /\ task'.pc = "idle" /\ Waiting' = Waiting
          /\ \A p \in Posts : Unread(p)' =>
               Unread(p) \/ (Head(queue).change = "created" /\ Head(queue).p = p /\ outcome[p] = "none")
      BY <1>0, <2>1, <2>2, <2>4, DoneWaits
    <3>2. ASSUME NEW p \in Posts, Unread(p)', Admits(p)'
          PROVE  Behind(channel'.cursor, post'[p].at) /\ Guarded(p)'
      <4>1. Unread(p) /\ Admits(p) /\ ~SyncComes(p) /\ ~HeldBack
        BY <1>a, <2>2, <2>4, <3>1, <3>2 DEF SavedIsRecorded, SyncComes, HeldBack
      <4>2. Behind(channel.cursor, post[p].at) /\ Guarded(p)
        BY <4>1 DEF NoneLeftBehind
      <4> QED BY <1>0, <3>1, <4>2 DEF Guarded
    <3> QED BY <3>1, <3>2, DoneLeavesNone
  <2> QED BY <2>1, <2>3, <2>4
<1> QED BY <1>2, <1>3, <1>4

\* The cursor is saved only where what nobody has read stays in the window of the next sync.
LEMMA SaveLeavesNone ==
    ASSUME CatchUpInv, ListenerInv', SaveLive \/ FinishSync PROVE CatchUpInv'
<1> USE DEF CatchUpInv
<1>0. /\ UNCHANGED <<now, post, socket, outcome>> /\ Done
      /\ \/ task.pc = "save" /\ Advance(task.frame.upd)
         \/ task.pc = "finish" /\ Advance(task.newest)
  BY DEF SaveLive, FinishSync, EndSync, mattermost
<1>1. task.frame.upd \in Nat /\ task.frame.upd <= now /\ task.newest \in Nat /\ task.newest <= now
  BY DEF ListenerInv, ListenerTypes, TaskRecords, Frames, PostsAreDated
<1>2. /\ channel'.managed = channel.managed /\ channel'.started = channel.started
      /\ channel'.floor = channel.floor /\ channel'.atFloor = channel.atFloor
      /\ \/ channel'.cursor = channel.cursor
         \/ task.pc = "save" /\ channel'.cursor = task.frame.upd
         \/ task.pc = "finish" /\ channel'.cursor = task.newest
  BY <1>0, <1>1, AdvanceIs
<1>3. \A p : Admits(p)' <=> Admits(p)
  BY <1>0, <1>2 DEF Admits
<1>4. /\ queue # <<>> /\ (task.pc = "save" => Head(queue) = task.frame /\ ~failing)
      /\ task.pc = "finish" => Head(queue) = SyncTask
  BY <1>0 DEF ListenerInv, ChainInStep
<1>5. /\ task'.pc = "idle" /\ Waiting' = Waiting
      /\ \A p \in Posts : Unread(p)' =>
           Unread(p) \/ (Head(queue).change = "created" /\ Head(queue).p = p /\ outcome[p] = "none")
  BY <1>0, <1>4, DoneWaits
<1>6. ASSUME NEW p \in Posts, Unread(p)', Admits(p)'
      PROVE  Behind(channel'.cursor, post'[p].at) /\ Guarded(p)'
  <2>1. Unread(p) /\ Admits(p) /\ ~SyncComes(p) /\ ~HeldBack
    BY <1>0, <1>3, <1>4, <1>5, <1>6, IdleIs DEF SavedIsRecorded, SyncComes, HeldBack
  <2>2. Behind(channel.cursor, post[p].at) /\ Guarded(p) /\ TaskBehind(p)
    BY <2>1 DEF NoneLeftBehind
  <2>3. Behind(channel'.cursor, post[p].at)
    BY <1>2, <2>2 DEF TaskBehind
  <2> QED BY <1>0, <1>5, <2>2, <2>3 DEF Guarded
<1> QED BY <1>5, <1>6, DoneLeavesNone

\* A sync begins: it comes to every post, or there is none the channel admits.
LEMMA BeginSyncLeavesNone ==
    ASSUME CatchUpInv, ListenerInv', "directory" \notin ListenerFaults, BeginSync PROVE CatchUpInv'
<1> USE DEF CatchUpInv
<1>1. UNCHANGED <<now, post, channel, socket, outcome>>
  BY DEF BeginSync, mattermost, bridge
<1>2. Visible' = Visible /\ \A p : Admits(p)' <=> Admits(p)
  BY <1>1 DEF Visible, Admits
<1>3. CASE ~channel.managed
  <2>1. task'.pc = "idle" /\ \A p : ~Admits(p)'
    BY <1>2, <1>3, IdleIs DEF BeginSync, EndSync, Done, Admits
  <2> QED BY <2>1, DoneLeavesNone
<1>4. CASE channel.managed
  <2>1. task' \in SyncStarts /\ queue' = IF task'.pc = "idle" THEN Tail(queue) ELSE queue
    BY <1>4 DEF BeginSync
  <2>2. task'.pc = "fetch" \/ (task'.pc = "scan" /\ ~channel.started)
    BY <1>4, <2>1, SyncStartsAre
  <2>3. queue' = queue
    BY <2>1, <2>2
  <2>4. \A p : Unread(p)' => Unread(p)
    BY <1>1, <1>2, <2>3 DEF Unread, PendingLive
  <2>5. NoneLeftBehind'
    BY <1>1, <1>2, <2>2, <2>4 DEF NoneLeftBehind, SyncComes, Admits
  <2> QED BY <2>2, <2>5 DEF ScanIsCurrent, SavedIsRecorded
<1> QED BY <1>3, <1>4 DEF ListenerInv, ListenerTypes, ChannelRecords

\* A scan finds every post there is; one that is void is tried again.
LEMMA ScanLeavesNone ==
    ASSUME CatchUpInv, ListenerInv', ScanStart \/ StartChannel PROVE CatchUpInv'
<1> USE DEF CatchUpInv
<1>0. UNCHANGED <<now, post, socket, outcome>>
  BY DEF ScanStart, StartChannel, mattermost
<1>1. CASE ScanStart
  <2>1. /\ task'.pc = "start" /\ \A p \in Visible : BeforeStart(p, task'.floor, task'.atFloor)
    BY <1>1, ScanStep
  <2>2. UNCHANGED channel /\ ~channel.started
    BY <1>1 DEF ScanStart, bridge, ListenerInv, ChannelInStep
  <2>3. Visible' = Visible /\ \A p : ~Admits(p)'
    BY <1>0, <2>2 DEF Visible, Admits
  <2>4. ScanIsCurrent'
    BY <1>0, <2>1, <2>3 DEF ScanIsCurrent, Unread, BeforeStart
  <2> QED BY <2>1, <2>3, <2>4 DEF NoneLeftBehind, SavedIsRecorded
<1>2. CASE StartChannel
  <2>1. task.pc = "start" /\ Done /\ ~channel.started /\ queue # <<>> /\ Head(queue) = SyncTask
    BY <1>2 DEF StartChannel, EndSync, ListenerInv, ChannelInStep, ChainInStep
  <2>2. /\ task'.pc = "idle" /\ Waiting' = Waiting /\ \A p \in Posts : Unread(p)' => Unread(p)
    BY <1>0, <2>1, IdleIs, DoneWaits
  <2>3. CASE channel' = channel
    <3>1. \A p : ~Admits(p)'
      BY <2>1, <2>3 DEF Admits
    <3> QED BY <2>2, <3>1, DoneLeavesNone
  <2>4. CASE channel' = [channel EXCEPT !.started = TRUE, !.cursor = task.newest,
                                        !.floor = task.floor, !.atFloor = task.atFloor]
    <3>1. /\ channel'.cursor = task.newest /\ channel'.floor = task.floor
          /\ channel'.atFloor = task.atFloor
      BY <2>4 DEF ListenerInv, ListenerTypes, ChannelRecords
    <3>2. ASSUME NEW p \in Posts, Unread(p)', Admits(p)'
          PROVE  Behind(channel'.cursor, post'[p].at) /\ Guarded(p)'
      <4>1. post[p].at \in Nat /\ task.floor \in Nat
        BY PostFields DEF ListenerInv, ListenerTypes, TaskRecords
      <4>2. Unread(p) /\ ~BeforeStart(p, task.floor, task.atFloor)
        BY <1>0, <2>2, <3>1, <3>2, <4>1 DEF Admits, BeforeStart
      <4>3. Guarded(p) /\ Behind(task.newest, post[p].at)
        BY <2>1, <4>2 DEF ScanIsCurrent
      <4> QED BY <1>0, <2>2, <3>1, <4>3 DEF Guarded
    <3> QED BY <2>2, <3>2, DoneLeavesNone
  <2> QED BY <1>2, <2>3, <2>4 DEF StartChannel
<1> QED BY <1>1, <1>2

\* A post that nobody has read is in the window of the sync.
LEMMA UnreadIsInWindow ==
    ASSUME CatchUpInv, NEW p \in Posts, Unread(p), Admits(p),
           task.pc \in {"fetch", "next", "replay", "finish"}
    PROVE  /\ post[p].at > task.since /\ task.since \in Nat /\ post[p].upd > task.since
           /\ ~BeforeStart(p, task.floor, task.atFloor)
<1> USE DEF CatchUpInv
<1>1. /\ task.floor = channel.floor /\ task.atFloor = channel.atFloor
      /\ task.since = Larger(0, channel.cursor - Margin)
  BY DEF Admits, ListenerInv, ChannelInStep
<1>2. /\ channel.cursor \in Nat /\ task.since \in Nat /\ channel.floor \in Nat
  BY DEF ListenerInv, ListenerTypes, ChannelRecords, TaskRecords
<1>3. /\ post[p].at \in Nat /\ post[p].upd \in Nat /\ 0 < post[p].at /\ post[p].at <= post[p].upd
  BY PostFields DEF ListenerInv, PostsAreDated, Unread, Visible
<1>4. channel.cursor < post[p].at + Margin
  BY DEF NoneLeftBehind, Behind
<1>5. post[p].at > task.since
  BY <1>1, <1>2, <1>3, <1>4, ListenerAssumption DEF Larger
<1>6. ~BeforeStart(p, task.floor, task.atFloor)
  BY <1>1, <1>2, <1>3 DEF Admits, BeforeStart
<1> QED BY <1>2, <1>3, <1>5, <1>6

\* The sync reads every post nobody has read, and its task ends when each is dealt with.
LEMMA SyncLeavesNone ==
    ASSUME CatchUpInv, ListenerInv', FetchChanges \/ NextPost PROVE CatchUpInv'
<1> USE DEF CatchUpInv
<1>0. UNCHANGED <<now, post, channel, socket, outcome>>
  BY DEF FetchChanges, NextPost, mattermost, bridge
<1>a. Visible' = Visible /\ \A p : Admits(p)' <=> Admits(p)
  BY <1>0 DEF Visible, Admits
<1>b. task \in TaskRecords
  BY DEF ListenerInv, ListenerTypes
<1>1. CASE FetchChanges
  <2>1. /\ task.pc = "fetch" /\ UNCHANGED <<queue, failing>>
        /\ task' = [task EXCEPT !.pc = "next", !.todo = ChangesSince(task.since)]
    BY <1>1 DEF FetchChanges
  <2>2. task'.pc = "next" /\ task'.todo = ChangesSince(task.since)
    BY <1>b, <2>1 DEF TaskRecords
  <2>3. \A p : Unread(p)' => Unread(p)
    BY <1>0, <1>a, <2>1 DEF Unread, PendingLive
  <2>4. ASSUME NEW p \in Posts, Unread(p)', Admits(p)'
        PROVE  Behind(channel'.cursor, post'[p].at) /\ SyncComes(p)'
    <3>1. Unread(p) /\ Admits(p) /\ p \in Visible
      BY <1>a, <2>3, <2>4 DEF Unread
    <3>2. task.since \in Nat /\ post[p].upd > task.since
      BY <2>1, <3>1, UnreadIsInWindow
    <3>3. \E f \in task'.todo : f.p = p
      BY <2>2, <3>1, <3>2, ChangesAre
    <3> QED BY <1>0, <2>2, <3>1, <3>3 DEF NoneLeftBehind, SyncComes
  <2> QED BY <2>2, <2>4 DEF NoneLeftBehind, ScanIsCurrent, SavedIsRecorded
<1>2. CASE NextPost
  <2>1. task.pc = "next" /\ queue # <<>>
    BY <1>2 DEF NextPost, ListenerInv, ChainInStep
  <2>2. CASE task.todo # {} /\ ~channel.managed
    <3>1. task'.pc = "idle" /\ \A p : ~Admits(p)'
      BY <1>2, <1>a, <2>2, IdleIs DEF NextPost, EndSync, Done, Admits
    <3> QED BY <3>1, DoneLeavesNone
  <2>3. ASSUME UNCHANGED <<queue, failing>>, task'.todo = task.todo, task'.newest = task.newest,
               \/ task'.pc = "finish" /\ task.todo = {}
               \/ task'.pc = "replay"
        PROVE  CatchUpInv'
    <3>1. \A p : Unread(p)' => Unread(p)
      BY <1>0, <1>a, <2>3 DEF Unread, PendingLive
    <3>2. Waiting' = Waiting
      BY <2>1, <2>3 DEF Waiting
    <3>3. ASSUME NEW p \in Posts, Unread(p)', Admits(p)'
          PROVE  Behind(channel'.cursor, post'[p].at) /\ (SyncComes(p)' \/ (Guarded(p)' /\ TaskBehind(p)'))
      <4>1. Unread(p) /\ Admits(p) /\ ~HeldBack
        BY <1>a, <2>1, <3>1, <3>3 DEF HeldBack
      <4>2. Behind(channel.cursor, post[p].at) /\ (SyncComes(p) \/ (Guarded(p) /\ TaskBehind(p)))
        BY <4>1 DEF NoneLeftBehind
      <4>3. SyncComes(p) => SyncComes(p)'
        BY <2>1, <2>3 DEF SyncComes
      <4>4. Guarded(p) /\ TaskBehind(p) => Guarded(p)' /\ TaskBehind(p)'
        BY <1>0, <2>1, <2>3, <3>2 DEF Guarded, TaskBehind
      <4> QED BY <1>0, <4>2, <4>3, <4>4
    <3> QED BY <2>3, <3>3 DEF NoneLeftBehind, ScanIsCurrent, SavedIsRecorded
  <2>4. CASE task.todo = {}
    <3>1. task' = [task EXCEPT !.pc = "finish"] /\ UNCHANGED <<queue, failing>>
      BY <1>2, <2>4 DEF NextPost
    <3>2. task'.todo = task.todo /\ task'.newest = task.newest /\ task'.pc = "finish"
      BY <1>b, <3>1 DEF TaskRecords
    <3> QED BY <2>3, <2>4, <3>1, <3>2
  <2>5. CASE task.todo # {} /\ channel.managed
    <3>1. PICK f : task' = [task EXCEPT !.pc = "replay", !.frame = f] /\ UNCHANGED <<queue, failing>>
      BY <1>2, <2>5 DEF NextPost
    <3>2. task'.todo = task.todo /\ task'.newest = task.newest /\ task'.pc = "replay"
      BY <1>b, <3>1 DEF TaskRecords
    <3> QED BY <2>3, <3>1, <3>2
  <2> QED BY <2>2, <2>4, <2>5 DEF ListenerInv, ListenerTypes, ChannelRecords
<1> QED BY <1>1, <1>2

\* A post is replayed: it is dealt with, or the channel's frames are held back.
LEMMA ReplayLeavesNone ==
    ASSUME CatchUpInv, ListenerInv', ReplayPost PROVE CatchUpInv'
<1> USE DEF CatchUpInv
<1> DEFINE f == task.frame
           r == IF Replays(f) THEN HandleChange(f.p, IF f.edited THEN "recovered" ELSE "created")
                ELSE "none"
<1>1. task.pc = "replay" /\ UNCHANGED <<now, post, channel, socket>>
  BY DEF ReplayPost, mattermost, bridge
<1>2. Visible' = Visible /\ \A p : Admits(p)' <=> Admits(p)
  BY <1>1 DEF Visible, Admits
<1>3. queue # <<>> /\ Head(queue) = SyncTask /\ f \in task.todo /\ FrameIsTrue(f) /\ f.p \in Posts
  BY <1>1 DEF ListenerInv, ChainInStep, FrameIsTrue, Visible
<1>4. CASE r = "wait" /\ EndSync(TRUE) /\ UNCHANGED outcome
  <2>1. Done /\ failing' = TRUE
    BY <1>4 DEF EndSync
  <2>2. task'.pc = "idle" /\ \A p \in Posts : Unread(p)' => Unread(p)
    BY <1>1, <1>3, <1>4, <2>1, IdleIs, DoneWaits
  <2>3. \A p \in Posts : Unread(p)' /\ Admits(p)' => Behind(channel'.cursor, post'[p].at)
    BY <1>1, <1>2, <2>2 DEF NoneLeftBehind
  <2> QED BY <2>1, <2>2, <2>3, DoneLeavesNone
<1>5. CASE /\ r # "wait" /\ Record(f.p, r) /\ UNCHANGED <<queue, failing>>
           /\ task' = [task EXCEPT !.pc = "next", !.todo = @ \ {f}, !.newest = Larger(@, f.upd)]
  <2>1. /\ task'.pc = "next" /\ task'.todo = task.todo \ {f}
        /\ task'.newest \in {task.newest, f.upd}
    BY <1>1, <1>5, ReplayIs
  <2>2. /\ \A p \in Posts : outcome'[p] = "none" => outcome[p] = "none"
        /\ outcome'[f.p] = "none" => r = "none"
    <3> HIDE DEF r
    <3> QED BY <1>3, <1>5 DEF Record, ListenerInv, ListenerTypes
  <2>3. \A p \in Posts : Unread(p)' => Unread(p)
    BY <1>1, <1>2, <1>5, <2>2 DEF Unread, PendingLive
  <2>4. Waiting' = Waiting
    BY <1>1, <1>5, <2>1 DEF Waiting
  <2>5. ASSUME NEW q \in Posts, q = f.p, Unread(q)', Admits(q)' PROVE FALSE
    <3>1. Unread(q) /\ Admits(q) /\ outcome'[q] = "none"
      BY <1>2, <1>3, <2>3, <2>5 DEF Unread
    <3>2. /\ post[q].at > task.since /\ ~BeforeStart(q, task.floor, task.atFloor)
      BY <1>1, <1>3, <3>1, UnreadIsInWindow
    <3>3. f.at = post[q].at
      BY <1>3, <2>5 DEF FrameIsTrue
    <3>4. Replays(f)
      BY <2>5, <3>1, <3>2, <3>3 DEF Replays, BeforeStart, Unread, Recorded
    <3>5. \A c \in {"created", "recovered"} : HandleChange(q, c) # "none"
      BY <1>3, <3>1, AdmittedIsDealtWith DEF ListenerInv
    <3> QED BY <2>2, <2>5, <3>1, <3>4, <3>5
  <2>6. ASSUME NEW p \in Posts, Unread(p)', Admits(p)'
        PROVE  Behind(channel'.cursor, post'[p].at) /\ (SyncComes(p)' \/ (Guarded(p)' /\ TaskBehind(p)'))
    <3>1. Unread(p) /\ Admits(p) /\ ~HeldBack /\ p # f.p
      BY <1>1, <1>2, <2>3, <2>5, <2>6 DEF HeldBack
    <3>2. Behind(channel.cursor, post[p].at) /\ (SyncComes(p) \/ (Guarded(p) /\ TaskBehind(p)))
      BY <3>1 DEF NoneLeftBehind
    <3>3. SyncComes(p) => SyncComes(p)'
      BY <1>1, <2>1, <3>1 DEF SyncComes
    <3>4. Guarded(p) => Guarded(p)'
      BY <1>1, <2>4 DEF Guarded
    <3>5. TaskBehind(p) => TaskBehind(p)'
      BY <1>1, <1>3, <2>1 DEF TaskBehind
    <3> QED BY <1>1, <3>2, <3>3, <3>4, <3>5
  <2> QED BY <2>1, <2>6 DEF NoneLeftBehind, ScanIsCurrent, SavedIsRecorded
<1> QED BY <1>4, <1>5 DEF ReplayPost

\* A sync that fails holds the channel's frames back.
LEMMA FailureLeavesNone ==
    ASSUME CatchUpInv, ListenerInv', SyncFails PROVE CatchUpInv'
<1> USE DEF CatchUpInv
<1>1. /\ task.pc \notin {"idle", "live", "save"} /\ Done /\ failing' = TRUE
      /\ UNCHANGED <<now, post, channel, socket, outcome>>
  BY DEF SyncFails, EndSync, mattermost, bridge
<1>2. queue # <<>> /\ Head(queue) = SyncTask
  BY <1>1 DEF ListenerInv, ChainInStep
<1>3. task'.pc = "idle" /\ \A p \in Posts : Unread(p)' => Unread(p)
  BY <1>1, <1>2, IdleIs, DoneWaits
<1>4. \A p \in Posts : Unread(p)' /\ Admits(p)' => Behind(channel'.cursor, post'[p].at)
  BY <1>1, <1>3 DEF NoneLeftBehind, Admits
<1> QED BY <1>1, <1>3, <1>4, DoneLeavesNone

\* At first there is no post to leave behind.
LEMMA CatchUpInit == ListenerInit => CatchUpInv
<1> SUFFICES ASSUME ListenerInit PROVE CatchUpInv
  OBVIOUS
<1>1. ListenerInv
  BY ListenerInitInv
<1>2. \A p \in Posts : p \notin Visible
  BY DEF ListenerInit, Visible
<1>3. task.pc = "idle"
  BY IdleIs DEF ListenerInit
<1> QED BY <1>1, <1>2, <1>3 DEF CatchUpInv, NoneLeftBehind, ScanIsCurrent, SavedIsRecorded, Unread

\* No step leaves a post behind, when the directory can be read.
LEMMA CatchUpStep ==
    ASSUME "directory" \notin ListenerFaults
    PROVE  CatchUpInv /\ [ListenerNext]_listenerVars => CatchUpInv'
<1> SUFFICES ASSUME CatchUpInv, [ListenerNext]_listenerVars PROVE CatchUpInv'
  OBVIOUS
<1>1. ListenerInv'
  BY ListenerStep DEF CatchUpInv
<1>2. CASE UNCHANGED listenerVars
  BY <1>1, <1>2 DEF listenerVars, CatchUpInv, NoneLeftBehind, ScanIsCurrent, SavedIsRecorded, Unread,
                    Visible, PendingLive, Admits, SyncComes, HeldBack, Guarded, TaskBehind, Waiting,
                    BeforeStart
<1>3. CASE ListenerNext
  BY <1>1, <1>3, UsersLeaveNone, ConnectionLeavesNone, RevisionLeavesNone, CrashLeavesNone,
     LiveLeavesNone, SaveLeavesNone, BeginSyncLeavesNone, ScanLeavesNone, SyncLeavesNone,
     ReplayLeavesNone, FailureLeavesNone
  DEF ListenerNext, Environment, Live, Sync
<1> QED BY <1>2, <1>3

\* The cursor never moves beyond a post nobody has dealt with (handleLive, syncChannel,
\* advanceNumericCursor), for any posts, failures, lost frames and crashes, as long as the first
\* query of a sync, that of the directory, does not fail: a sync that ends there marks no channel
\* as failing, and the frames behind it go on.
THEOREM NoPostIsSkipped ==
    ASSUME "directory" \notin ListenerFaults
    PROVE  ListenerSpec => []NothingSkipped
<1>1. CatchUpInv => NothingSkipped
  <2> SUFFICES ASSUME CatchUpInv, NEW p \in Visible, Admits(p), post[p].at <= channel.cursor - Margin,
                      outcome[p] = "none", p \notin PendingLive
               PROVE  FALSE
    BY DEF NothingSkipped
  <2>1. p \in Posts /\ channel.cursor \in Nat
    BY DEF Visible, CatchUpInv, ListenerInv, ListenerTypes, ChannelRecords
  <2>2. post[p].at \in Nat
    BY <2>1, PostFields DEF CatchUpInv, ListenerInv
  <2>3. channel.cursor < post[p].at + Margin
    BY <2>1 DEF CatchUpInv, NoneLeftBehind, Unread, Behind
  <2> QED BY <2>1, <2>2, <2>3, ListenerAssumption
<1>2. CatchUpInv /\ [ListenerNext]_listenerVars => CatchUpInv'
  BY CatchUpStep
<1> QED BY <1>1, <1>2, CatchUpInit, PTL DEF ListenerSpec
=============================================================================
