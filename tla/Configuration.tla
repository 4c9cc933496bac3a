--------------------------- MODULE Configuration ---------------------------
(***************************************************************************)
(* The managed configuration (ADR-024) of one agent and its tool           *)
(* attachments (ADR-027): the journal of revisions, the projection that    *)
(* routing, scheduling and enforcement read, the tool catalog, and the     *)
(* requests of consoles, command lines and older releases that race over   *)
(* them (services/management.ts, admin.ts, tool-catalog.ts,                *)
(* console-management.ts, and the console's agent pages).                  *)
(*                                                                         *)
(* A revision's number is its place in the journal.  Every request reads a *)
(* base revision in one transaction and commits against it in a later one: *)
(* other requests, a deletion of a catalog entry, a retirement or an older *)
(* release come in between.                                                *)
(***************************************************************************)
EXTENDS Integers, Sequences, Permissions

CONSTANTS
    Editors,       \* the consoles and command lines at work
    LegacyLists,   \* the permission lists a person writes by hand
    RequestKinds,  \* some of AllRequests
    MaxRequests,   \* bound: requests made, a retry under a new key included
    MaxOthers      \* bound: lost answers, acts of an older release, applies, retirements

AllRequests == {"patch", "attach", "update", "detach", "adopt", "delete", "rollback", "import"}

ASSUME ConfigurationAssumption ==
    /\ LegacyLists \subseteq [Tools -> Levels] /\ LegacyLists # {}
    /\ RequestKinds \subseteq AllRequests
    /\ {MaxRequests, MaxOthers} \subseteq Nat

VARIABLES
    journal,    \* config_revisions with their snapshots, oldest first
    row,        \* the agent's row of agents and its catalog_attachments
    lifecycle,  \* agent_lifecycle.status: ready or retired
    live,       \* the catalog entries that are not deleted
    page,       \* page[e]: the request editor e is making, and what it has read
    shown,      \* shown[k]: the answer request k got
    release,    \* the release that runs: current, or one before ADR-027
    others      \* lost answers, acts of an older release, applies and retirements so far

configVars == <<journal, row, lifecycle, live, page, shown, release, others>>

Definitions == [in: BOOLEAN, enabled: BOOLEAN, perms: [Tools -> Levels], managed: BOOLEAN,
                attach: [Tools -> Modes]]
Absent == [in |-> FALSE, enabled |-> FALSE, perms |-> NoAttachments, managed |-> FALSE,
           attach |-> NoAttachments]
Revisions == [def: Definitions, by: RequestKinds \cup {"apply", "backfill", "lifecycle", "old"},
              key: 0..MaxRequests, tool: Tools, accept: SUBSET Tools]
Fields == {"enabled", "perms"}
NoPage == [pc |-> "idle", kind |-> "patch", key |-> 0, base |-> 0, edited |-> Absent,
           seen |-> Absent, tool |-> "run", mode |-> "none", draft |-> {}, perms |-> NoAttachments,
           plan |-> Absent, accept |-> {}]
Pages == [pc: {"idle", "open", "ready"}, kind: AllRequests, key: 0..MaxRequests, base: Nat,
          edited: Definitions, seen: Definitions, tool: Tools, mode: Modes, draft: SUBSET Fields,
          perms: [Tools -> Levels], plan: Definitions, accept: SUBSET Tools]

ConfigTypeOK ==
    /\ journal \in Seq(Revisions) /\ journal # <<>>
    /\ row \in Definitions /\ lifecycle \in {"ready", "retired"} /\ live \subseteq Tools
    /\ page \in [Editors -> Pages]
    /\ shown \in Seq({"none", "ok", "conflict", "invalid", "widens"}) /\ Len(shown) <= MaxRequests
    /\ release \in {"current", "old"}
    /\ others \in 0..MaxOthers

Revision(d, by, p) ==
    [def |-> d, by |-> by, key |-> p.key, tool |-> p.tool, accept |-> p.accept]

\* A configuration written by hand, before the tools hub was ever used, or imported with
\* the attachments its lists convert to.
ConfigInit ==
    /\ \E list \in LegacyLists, hub \in BOOLEAN :
         LET attach == IF hub THEN Conversion(list, Tools) ELSE NoAttachments
         IN  row = [in |-> TRUE, enabled |-> TRUE, managed |-> hub, attach |-> attach,
                    perms |-> IF hub THEN Compile(attach, Tools) ELSE list]
    /\ journal = <<Revision(row, "apply", NoPage)>>
    /\ lifecycle = "ready" /\ live = Tools
    /\ page = [e \in Editors |-> NoPage] /\ shown = <<>>
    /\ release = "current" /\ others = 0

-----------------------------------------------------------------------------
(* The journal and its projection. *)

Newest(revisions) == revisions[Len(revisions)].def

\* recordedEnabledAgreesWithLive fails: an older release toggled the row directly.
Drifted == row.in /\ row.enabled # Newest(journal).enabled

\* ensureConfigHistoryIn: the drift is recorded before anything else is read or written; the
\* attachments document carries forward.
History ==
    IF ~Drifted THEN journal
    ELSE Append(journal, Revision([Newest(journal) EXCEPT !.enabled = row.enabled], "backfill",
                                  NoPage))

Current == Newest(History)

\* mirrorCompiledAttachmentPermissions: a hub-managed agent's lists are its compiled attachments.
Mirror(d) == IF d.managed THEN [d EXCEPT !.perms = Compile(d.attach, live)] ELSE d

\* writeConfigRevisionIn on the row: an agent left out is disabled and its definition kept.
Projected(d) ==
    IF d.in THEN d
    ELSE [row EXCEPT !.in = FALSE, !.enabled = FALSE, !.managed = FALSE, !.attach = NoAttachments]

\* loadEffectivePermissionsIn: what is enforced, from the row and the catalog of the moment.
Enforced == IF row.managed THEN Compile(row.attach, live) ELSE row.perms

\* attachmentCatalogProblems: an attachment of an entry that does not exist any more.
AttachesDeleted(d) == \E t \in Tools \ live : d.attach[t] # "none"

\* dropAttachmentsToUnknownEntries.
Revived(d) == [d EXCEPT !.attach = [t \in Tools |-> IF t \in live THEN d.attach[t] ELSE "none"]]

\* rejectLifecycleOwnedRemovals.
Removes(d) == Current.in /\ ~d.in

NeverReadds(d) == FALSE

\* rejectRetiredAgentReadditions.
Readds(d) == ~Current.in /\ d.in /\ lifecycle = "retired"

\* What a commit without the lifecycle's trust refuses.
Problems(d) == AttachesDeleted(d) \/ Removes(d) \/ Readds(d)

\* A loss, an act of an older release, an apply or a retirement, once more.
Other == others < MaxOthers /\ others' = others + 1

KeyUsed(k) == k # 0 /\ \E i \in DOMAIN journal : journal[i].key = k

-----------------------------------------------------------------------------
(* One request: what the editor reads, and what it then asks for. *)

\* The conversion of hand written lists a page shows beside its attach and adopt buttons.
Shown == [Absent EXCEPT !.attach = Conversion(Current.perms, live)]

\* A read: it records a drift first, like every read of the active revision.
Unkeyed == {e \in Editors : page[e].pc = "open" /\ page[e].key = 0}
Opens(e, kind, p) ==
    /\ release = "current" /\ page[e].pc = "idle" /\ kind \in RequestKinds
    /\ Len(shown) + Cardinality(Unkeyed) < MaxRequests
    /\ page' = [page EXCEPT ![e] = [p EXCEPT !.pc = "open", !.kind = kind]]
    /\ journal' = History
    /\ UNCHANGED <<row, lifecycle, live, shown, release, others>>

\* The agent's page and the edits made on it.
OpenPatch(e) ==
    /\ Current.in
    /\ \E fields \in SUBSET Fields \ {{}}, list \in LegacyLists :
         /\ "perms" \notin fields => list = CHOOSE l \in LegacyLists : TRUE
         /\ Opens(e, "patch", [NoPage EXCEPT !.base = Len(History), !.edited = Current,
                                             !.seen = Current, !.draft = fields, !.perms = list])

\* The agent's tools, read for an attachment.
OpenAttach(e) ==
    /\ Current.in
    /\ \E t \in Tools, m \in Modes \ {"none"} :
         Opens(e, "attach", [NoPage EXCEPT !.base = Len(History), !.plan = Shown, !.tool = t,
                                           !.mode = m])
OpenUpdate(e) ==
    /\ Current.in
    /\ \E t \in Tools, m \in Modes \ {"none"} :
         Opens(e, "update", [NoPage EXCEPT !.tool = t, !.mode = m])
OpenDetach(e) == Current.in /\ \E t \in Tools : Opens(e, "detach", [NoPage EXCEPT !.tool = t])

\* consoleAdoptPreview.
OpenAdopt(e) ==
    /\ Current.in
    /\ Opens(e, "adopt", [NoPage EXCEPT !.base = Len(History), !.plan = Shown])

\* The entry's page and the impact it shows.
OpenDelete(e) ==
    \E t \in Tools : Opens(e, "delete", [NoPage EXCEPT !.seen = Current, !.tool = t])

\* A directory is read for an import, a revision for a rollback, and its diff shown.
OpenBundle(e) ==
    \E kind \in {"rollback", "import"} : Opens(e, kind, [NoPage EXCEPT !.base = Len(History)])

\* Every submission has a key of its own, kept over a retry of the same submission.
NewKey == Len(shown) + 1
Keyed(p) == IF p.key = 0 THEN [p EXCEPT !.key = NewKey] ELSE p
KeyTaken(p) == IF p.key = 0 THEN Len(shown) < MaxRequests /\ shown' = Append(shown, "none")
               ELSE UNCHANGED shown

\* The request moves on: nothing but its page changes, and a drift is recorded by the read.
Proceed(e, p) ==
    /\ page' = [page EXCEPT ![e] = [Keyed(p) EXCEPT !.pc = "ready"]]
    /\ journal' = History
    /\ KeyTaken(p)
    /\ UNCHANGED <<row, lifecycle, live, release, others>>

\* The request is answered before anything is sent to the journal.
Refuse(e, answer) ==
    /\ page' = [page EXCEPT ![e] = NoPage]
    /\ journal' = History
    /\ IF page[e].key = 0 THEN Len(shown) < MaxRequests /\ shown' = Append(shown, answer)
       ELSE shown' = [shown EXCEPT ![page[e].key] = answer]
    /\ UNCHANGED <<row, lifecycle, live, release, others>>

RebasesAll(seen, draft) == draft

\* rebaseDraft: a field whose own value changed elsewhere is dropped from the draft.
Rebased(seen, draft) == {f \in draft : seen[f] = Current[f]}

EditsManagedLists(p) == "perms" \in p.draft /\ p.seen.managed

\* "Reload and try again": what is left of the draft goes on from the newest revision.
Reload(e) ==
    LET left == Rebased(page[e].seen, page[e].draft)
    IN  /\ page' = [page EXCEPT ![e] = IF left = {} \/ ~Current.in THEN NoPage
                                       ELSE [page[e] EXCEPT !.base = Len(History), !.seen = Current,
                                                            !.draft = left]]
        /\ journal' = History
        /\ UNCHANGED <<row, lifecycle, live, shown, release, others>>

\* previewAgentPatch.
ReviewPatch(e) ==
    /\ release = "current" /\ page[e].pc = "open" /\ page[e].kind = "patch"
    /\ IF page[e].base # Len(History) THEN Reload(e)
       ELSE IF EditsManagedLists(page[e]) THEN Refuse(e, "invalid") ELSE Proceed(e, page[e])

\* checkAttachable, in a transaction of its own.
Attachable(t, m) == t \in live /\ (m = "allow" => Implied(t) \subseteq live)

NeverReplays(p) == FALSE

\* attachTool's first question: a key that has committed is answered by the commit.
ReplaysCommand(p) == KeyUsed(p.key)

\* attachTool up to its commit: pinned to the revision and to the conversion the page showed.
AttachVerdict(p) ==
    IF ReplaysCommand(p) THEN "proceed"
    ELSE IF ~Attachable(p.tool, p.mode) THEN "invalid"
    ELSE IF p.base # Len(History) THEN "conflict"
    ELSE IF Current.managed THEN "proceed"
    ELSE IF UnresolvedGrants(Current.perms, live) # {} THEN "invalid"
    ELSE IF Conversion(Current.perms, live) # p.plan.attach THEN "conflict" ELSE "proceed"

\* adoptOneAgent up to its commit; an agent already managed is left alone.
AdoptVerdict(p) ==
    IF p.base # Len(History) THEN "conflict"
    ELSE IF Current.managed THEN "ok"
    ELSE IF Conversion(Current.perms, live) # p.plan.attach THEN "conflict" ELSE "proceed"

SettleVerdict(e, verdict, p) == IF verdict = "proceed" THEN Proceed(e, p) ELSE Refuse(e, verdict)
AtOpen(e, kind) == release = "current" /\ page[e].pc = "open" /\ page[e].kind = kind

ResolveAttach(e) == AtOpen(e, "attach") /\ SettleVerdict(e, AttachVerdict(page[e]), page[e])
ResolveAdopt(e) == AtOpen(e, "adopt") /\ SettleVerdict(e, AdoptVerdict(page[e]), page[e])

\* updateAttachment and detachTool commit against the revision they read just before.
ResolveUpdate(e) ==
    /\ AtOpen(e, "update")
    /\ SettleVerdict(e, IF ReplaysCommand(page[e]) \/ Attachable(page[e].tool, page[e].mode)
                 THEN "proceed" ELSE "invalid",
              [page[e] EXCEPT !.base = Len(History)])
ResolveDetach(e) == AtOpen(e, "detach") /\ Proceed(e, [page[e] EXCEPT !.base = Len(History)])

\* configRollback drops what no entry backs any more; a file exported earlier is imported as it is.
ResolveRollback(e) ==
    /\ AtOpen(e, "rollback")
    /\ \E i \in DOMAIN journal : Proceed(e, [page[e] EXCEPT !.plan = Revived(journal[i].def)])
ResolveImport(e) ==
    /\ AtOpen(e, "import")
    /\ \E i \in DOMAIN journal : Proceed(e, [page[e] EXCEPT !.plan = journal[i].def])

-----------------------------------------------------------------------------
(* commitChange: one transaction under the lock of gateway_controls. *)

\* mergeAgentPatch and planEnabledChangeSet.
PatchDraft(p) ==
    [Current EXCEPT !.enabled = IF "enabled" \in p.draft THEN ~p.edited.enabled ELSE @,
                    !.perms = IF "perms" \in p.draft THEN p.perms ELSE @]

\* attach_tool on a hub-managed agent; the conversion and the attachment together on a legacy one.
AttachDraft(p) ==
    [Current EXCEPT !.managed = TRUE,
                    !.attach = [(IF Current.managed THEN @ ELSE p.plan.attach)
                                EXCEPT ![p.tool] = p.mode]]

\* update_attachment and detach_tool.
BindingDraft(p) == [Current EXCEPT !.attach[p.tool] = IF p.kind = "detach" THEN "none" ELSE p.mode]

\* set_tool_attachments.
AdoptDraft(p) == [Current EXCEPT !.managed = TRUE, !.attach = p.plan.attach]

\* applyChangeSet: the draft a request makes of the current definition.
Draft(p) ==
    CASE p.kind = "patch" -> PatchDraft(p)
      [] p.kind = "attach" -> AttachDraft(p)
      [] p.kind \in {"update", "detach"} -> BindingDraft(p)
      [] p.kind = "adopt" -> AdoptDraft(p)
      [] OTHER -> p.plan

NothingWidens(d) == {}

\* changeSetWidenings: a removal compared under the lock, with the catalog of the moment.
Widening(d) ==
    IF ~Current.managed THEN {}
    ELSE WidenedTools(Compile(Current.attach, live), Compile(d.attach, live))

\* commitChangeIn's decision, in its order.
CommitAnswer(p) ==
    LET d == Draft(p)
    IN  IF KeyUsed(p.key) THEN "replayed"
        ELSE IF p.base # Len(History) THEN "conflict"
        ELSE IF \/ p.kind = "update" /\ Current.attach[p.tool] = "none"
                \/ Problems(d)
        THEN "invalid"
        ELSE IF p.kind = "detach" /\ Widening(d) \notin {{}, p.accept} THEN "widens"
        ELSE IF Mirror(d) = Current THEN "unchanged" ELSE "committed"

\* What the caller is shown, and what its page does next: a patch may be reviewed again, and a
\* removal that widens confirmed.
Answer(a) == IF a \in {"replayed", "unchanged", "committed"} THEN "ok" ELSE a
AfterAnswer(p, a) ==
    IF p.kind = "patch" /\ a = "conflict" THEN [p EXCEPT !.pc = "open", !.key = 0]
    ELSE IF a = "widens" THEN [p EXCEPT !.pc = "open", !.key = 0, !.accept = Widening(Draft(p))]
    ELSE NoPage

\* An answer lost on its way: the same submission is made again under its key.
AfterLoss(p) ==
    IF p.kind \in {"attach", "update"} THEN [p EXCEPT !.pc = "open"]
    ELSE IF p.kind = "patch" THEN p ELSE NoPage

Commits(e) ==
    LET p == page[e]
        a == CommitAnswer(p)
    IN  /\ journal' = IF a = "committed" THEN Append(History, Revision(Mirror(Draft(p)), p.kind, p))
                      ELSE History
        /\ row' = IF a = "committed" THEN Projected(Mirror(Draft(p))) ELSE row
        /\ \/ /\ shown' = [shown EXCEPT ![p.key] = Answer(a)]
              /\ page' = [page EXCEPT ![e] = AfterAnswer(p, a)]
              /\ UNCHANGED others
           \/ /\ Other
              /\ page' = [page EXCEPT ![e] = AfterLoss(p)]
              /\ UNCHANGED shown
        /\ UNCHANGED <<lifecycle, live, release>>

AtReady(e, kinds) == release = "current" /\ page[e].pc = "ready" /\ page[e].kind \in kinds

\* commitAgentPatch, consoleAttachTool, consoleUpdateAttachment, consoleDetachTool,
\* consoleAdoptCommit, and the command line's import and rollback.
SendPatch(e) == AtReady(e, {"patch"}) /\ Commits(e)
SendAttach(e) == AtReady(e, {"attach"}) /\ Commits(e)
SendUpdate(e) == AtReady(e, {"update"}) /\ Commits(e)
SendDetach(e) == AtReady(e, {"detach"}) /\ Commits(e)
SendAdopt(e) == AtReady(e, {"adopt"}) /\ Commits(e)
SendBundle(e) == AtReady(e, {"rollback", "import"}) /\ Commits(e)

-----------------------------------------------------------------------------
(* Deleting a catalog entry. *)

\* legacyAgentsGrantingTool: hand written lists of a row that is configured, or runs anyway.
GrantedByLists(t) == ~row.managed /\ (row.in \/ row.enabled) /\ row.perms[t] = "allow"

NobodyImplies(t) == FALSE

\* agentsImplicitlyHoldingTool.
GrantedByImplication(t) ==
    Newest(journal).managed /\ HeldByImplication(Newest(journal).attach, live, t)

\* deleteCatalogEntry with its retries: the entry, every attachment of it and the check that
\* nothing widens, in one transaction bound to the impact the page showed.
Delete(e) ==
    LET p == page[e]
        t == p.tool
        attached == row.managed /\ row.attach[t] # "none"
        cleared == [Current EXCEPT !.attach[t] = "none"]
        answer == IF t \notin live \/ GrantedByLists(t) \/ GrantedByImplication(t) THEN "invalid"
                  ELSE IF attached # (p.seen.attach[t] # "none") THEN "conflict"
                  ELSE IF attached /\ Widening(cleared) # {} THEN "invalid" ELSE "ok"
    IN  /\ AtOpen(e, "delete") /\ Len(shown) < MaxRequests
        /\ shown' = Append(shown, answer)
        /\ page' = [page EXCEPT ![e] = NoPage]
        /\ live' = IF answer = "ok" THEN live \ {t} ELSE live
        /\ IF answer = "ok" /\ attached
           THEN /\ journal' = Append(History, Revision(Mirror(cleared), "delete", p))
                /\ row' = Projected(Mirror(cleared))
           ELSE UNCHANGED <<journal, row>>
        /\ UNCHANGED <<lifecycle, release, others>>

-----------------------------------------------------------------------------
(* Applies, the lifecycle, and an older release. *)

Records(d, by) ==
    /\ journal' = Append(History, Revision(Mirror(d), by, NoPage))
    /\ row' = Projected(Mirror(d))
    /\ UNCHANGED <<live, page, shown, release>>

\* applyConfig: a directory replaces the configuration, whatever its revision; attachments it
\* says nothing of carry forward.
Apply(list, in) ==
    LET d == IF in THEN [Current EXCEPT !.in = TRUE, !.enabled = TRUE, !.perms = list] ELSE Absent
    IN  /\ release = "current" /\ ~Problems(d)
        /\ Records(d, "apply") /\ Other
        /\ UNCHANGED lifecycle

\* requestAgentRetire and requestAgentRestore: the only removal and the only return.
RetireRow ==
    /\ release = "current" /\ lifecycle = "ready"
    /\ Records(Absent, "lifecycle") /\ Other
    /\ lifecycle' = "retired"

\* findLastConfiguredAgent.
LastConfigured ==
    journal[CHOOSE i \in DOMAIN journal :
              journal[i].def.in /\ \A j \in DOMAIN journal : journal[j].def.in => j <= i].def

Restore ==
    /\ release = "current" /\ lifecycle = "retired"
    /\ Records(Revived(LastConfigured), "lifecycle")
    /\ lifecycle' = "ready" /\ UNCHANGED others

Downgrade ==
    /\ release = "current" /\ others < MaxOthers
    /\ release' = "old"
    /\ UNCHANGED <<journal, row, lifecycle, live, page, shown, others>>

\* A release before the journal toggles the row alone.
OldToggle ==
    /\ release = "old" /\ row.in /\ Other
    /\ row' = [row EXCEPT !.enabled = ~@]
    /\ UNCHANGED <<journal, lifecycle, live, page, shown, release>>

\* A release before the tools hub records a revision without attachments and leaves the
\* projections of the hub as they are.
OldApply(list) ==
    LET d == [Newest(journal) EXCEPT !.perms = list, !.managed = FALSE, !.attach = NoAttachments]
    IN  /\ release = "old" /\ row.in /\ Other
        /\ journal' = Append(History, Revision([d EXCEPT !.enabled = TRUE], "old", NoPage))
        /\ row' = [row EXCEPT !.perms = list, !.enabled = TRUE]
        /\ UNCHANGED <<lifecycle, live, page, shown, release>>

\* ensureToolAttachmentsReconciled.
Reconciled == [row EXCEPT !.managed = Newest(journal).managed, !.attach = Newest(journal).attach]

\* The current release starts again: history first, then the attachments.
Upgrade ==
    /\ release = "old"
    /\ release' = "current"
    /\ journal' = History
    /\ row' = Reconciled
    /\ UNCHANGED <<lifecycle, live, page, shown, others>>

ConfigNext ==
    \/ \E e \in Editors :
         \/ OpenPatch(e) \/ OpenAttach(e) \/ OpenUpdate(e) \/ OpenDetach(e) \/ OpenAdopt(e)
         \/ OpenDelete(e) \/ OpenBundle(e)
         \/ ReviewPatch(e) \/ ResolveAttach(e) \/ ResolveUpdate(e) \/ ResolveDetach(e)
         \/ ResolveAdopt(e) \/ ResolveRollback(e) \/ ResolveImport(e)
         \/ SendPatch(e) \/ SendAttach(e) \/ SendUpdate(e) \/ SendDetach(e) \/ SendAdopt(e)
         \/ SendBundle(e) \/ Delete(e)
    \/ \E list \in LegacyLists, in \in BOOLEAN : Apply(list, in)
    \/ RetireRow \/ Restore
    \/ Downgrade \/ OldToggle \/ Upgrade
    \/ \E list \in LegacyLists : OldApply(list)

ConfigSpec == ConfigInit /\ [][ConfigNext]_configVars

-----------------------------------------------------------------------------
(* Properties. *)

\* What is enforced is what the active revision says: the projection and the catalog never
\* drift from the journal (loadEffectivePermissionsIn against the snapshot a person reads), over
\* deletions, rollbacks and an older release's applies.
EnforcedAsRecorded ==
    release = "current" => /\ Newest(journal).in = row.in
                           /\ row.in => Enforced = Newest(journal).perms

\* A runtime runs tests only for an agent that may write: confirming "write" frees "run" too.
Unlocked(confirmed) == {t \in Tools : ({t} \cup Implied(t)) \cap confirmed # {}}

\* Only a grant a person asked for widens access: a detachment, a deletion or an adoption gives
\* the agent nothing it could not do before, except the tools a person confirmed and those that
\* only waited for them, and attaching one tool never undoes the denial of another
\* (changeSetWidenings, legacyConversionAttachments).
AccessGrowsOnlyByGrant ==
    \A i \in 2..Len(journal) :
        LET r == journal[i]
            before == journal[i - 1].def.perms
        IN  /\ r.by \in {"detach", "delete", "adopt"} =>
                 Abilities(r.def.perms) \subseteq Abilities(before) \cup Unlocked(r.accept)
            /\ r.by = "attach" => \A t \in Tools \ {r.tool} :
                 before[t] = "deny" => r.def.perms[t] # "allow"

\* A caller told of a conflict or a refusal has changed nothing: a retry of a submission whose
\* answer was lost never reports a change that was made as one that was not (idempotency keys).
AnswersAreTrue ==
    \A k \in DOMAIN shown : shown[k] \in {"conflict", "invalid", "widens"} => ~KeyUsed(k)

\* An edit replaces only the value its editor had before them when they made it: over conflicts
\* and reloads, nobody's change to a field is overwritten unseen (base revisions, rebaseDraft).
NoUnseenOverwrite ==
    [][\A e \in Editors :
         /\ page[e].kind = "patch" /\ page[e].pc = "ready"
         /\ Len(journal') > Len(History) /\ journal'[Len(journal')].key = page[e].key
         => \A f \in page[e].draft : Current[f] = page[e].edited[f]]_configVars

=============================================================================
