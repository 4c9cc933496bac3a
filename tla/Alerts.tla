------------------------------- MODULE Alerts -------------------------------
(***************************************************************************)
(* Alert conditions (core services/alerts.ts) and what they are computed   *)
(* from: the controller's view of its Mattermost listener, the             *)
(* maintenance_status rows of retention and of the backup check            *)
(* (services/retention.ts), the newest configuration revision, and the     *)
(* rows of other components in trouble.  A sweep per reconciliation tick   *)
(* fires, reminds and resolves.  Timestamps are kept as ages, up to the    *)
(* age at which they stop to matter.                                       *)
(***************************************************************************)
EXTENDS Integers, FiniteSetsExt

CONSTANTS
    Threshold,        \* MATTERMOST_DISCONNECT_ALERT_MS
    Reminder,         \* ALERT_REMINDER_MS
    MaxSuccessAge,    \* MAINTENANCE_STALE_MS, and max_age_hours of the backup check
    RetentionEvery,   \* RETENTION_INTERVAL_MS
    TickEvery,        \* reconcileIntervalMs
    MaxDrops          \* bound: connections the listener of one process loses

ASSUME AlertsAssumption ==
    /\ {Threshold, Reminder, MaxSuccessAge, RetentionEvery, TickEvery} \subseteq Nat \ {0}
    /\ MaxDrops \in Nat

VARIABLES
    link,          \* the listener: running, connected, and how often it reconnected
    linkView,      \* what reconcileOnce remembers of it
    upkeep,        \* maintenance_status
    retaining,     \* a retention pass holds its lock
    newest,        \* the newest revision: a change, a backfill, or an acknowledged one
    trouble,       \* dead letters, dead outbox items, a spent budget, invalid output, a Gmail watch
    alertState,    \* alert_states
    tickAge,       \* since the last sweep
    steadyAge,     \* since the listener is connected without a break (Unset while it is not)
    outAge,        \* since the listener of this process is disconnected (Unset while it is not)
    firstRunAge,   \* since retention first ran
    heldAge        \* since the newest revision is an unacknowledged backfill, since trouble began

alertVars == <<link, linkView, upkeep, retaining, newest, trouble, alertState, tickAge,
               steadyAge, outAge, firstRunAge, heldAge>>

Unset == -1
Keys == {"mattermost", "retention", "backup", "history", "rows"}
Horizon == Max({Threshold, MaxSuccessAge}) + 2 * TickEvery + 1
Ages == Unset..Horizon

AlertsTypeOK ==
    /\ link \in [running : BOOLEAN, connected : BOOLEAN, reconnects : 0..MaxDrops]
    /\ linkView \in [down : Ages, up : Ages, reconnects : 0..MaxDrops]
    /\ upkeep \in [{"retention", "backup"} -> [run : Ages, success : Ages]]
    /\ retaining \in BOOLEAN /\ newest \in {"change", "backfill", "acked"} /\ trouble \in BOOLEAN
    /\ alertState \in [Keys -> [firing : BOOLEAN, notified : 0..Reminder]]
    /\ tickAge \in 0..TickEvery /\ {steadyAge, outAge, firstRunAge} \subseteq Ages
    /\ heldAge \in [{"history", "rows"} -> Ages]

-----------------------------------------------------------------------------
(* The listener. *)

LinkUp ==
    /\ link.running /\ ~link.connected
    /\ link' = [link EXCEPT !.connected = TRUE]
    /\ steadyAge' = 0 /\ outAge' = Unset
    /\ UNCHANGED <<linkView, upkeep, retaining, newest, trouble, alertState, tickAge, firstRunAge,
                   heldAge>>

\* onclose counts the connection it lost.
LinkDown ==
    /\ link.connected /\ link.reconnects < MaxDrops
    /\ link' = [link EXCEPT !.connected = FALSE, !.reconnects = @ + 1]
    /\ steadyAge' = Unset /\ outAge' = 0
    /\ UNCHANGED <<linkView, upkeep, retaining, newest, trouble, alertState, tickAge, firstRunAge,
                   heldAge>>

\* A controller starts as disconnected, and its first reconciliation runs before the listener.
RestartController ==
    /\ link.running
    /\ link' = [running |-> FALSE, connected |-> FALSE, reconnects |-> 0]
    /\ linkView' = [down |-> 0, up |-> Unset, reconnects |-> 0]
    /\ retaining' = FALSE
    /\ steadyAge' = Unset /\ outAge' = 0
    /\ UNCHANGED <<upkeep, newest, trouble, alertState, tickAge, firstRunAge, heldAge>>

StartListening ==
    /\ ~link.running
    /\ link' = [link EXCEPT !.running = TRUE]
    /\ UNCHANGED <<linkView, upkeep, retaining, newest, trouble, alertState, tickAge, steadyAge,
                   outAge, firstRunAge, heldAge>>

-----------------------------------------------------------------------------
(* Maintenance, revisions, and the rows of other components. *)

\* runRetentionIfDue, claimedRetention: one pass at a time, once per interval.
ClaimRetention ==
    /\ ~retaining
    /\ upkeep["retention"].run = Unset \/ upkeep["retention"].run >= RetentionEvery
    /\ retaining' = TRUE
    /\ upkeep' = [upkeep EXCEPT !["retention"].run = 0]
    /\ firstRunAge' = Max({firstRunAge, 0})
    /\ UNCHANGED <<link, linkView, newest, trouble, alertState, tickAge, steadyAge,
                   outAge, heldAge>>

\* claimedRetention: a pass is done, or failed, or was interrupted and is due again.
FinishRetention(outcome) ==
    /\ retaining
    /\ retaining' = FALSE
    /\ upkeep' = [upkeep EXCEPT !["retention"] =
                  CASE outcome = "done" -> [@ EXCEPT !.success = 0]
                    [] outcome = "failed" -> @
                    [] outcome = "stopped" -> [@ EXCEPT !.run = Min({@ + RetentionEvery, Horizon})]]
    /\ UNCHANGED <<link, linkView, newest, trouble, alertState, tickAge, steadyAge, outAge,
                   firstRunAge, heldAge>>

\* recordMaintenanceResult, of a backup check.
RecordBackupCheck(ok) ==
    /\ upkeep' = [upkeep EXCEPT !["backup"] = [run |-> 0, success |-> IF ok THEN 0 ELSE @.success]]
    /\ UNCHANGED <<link, linkView, retaining, newest, trouble, alertState, tickAge, steadyAge,
                   outAge, firstRunAge, heldAge>>

\* A revision is written, or an operator acknowledges the newest (ackConfigRevision).
WriteRevision(kind) ==
    /\ kind = "acked" => newest = "backfill"
    /\ newest' = kind
    /\ heldAge' = [heldAge EXCEPT !["history"] = IF kind = "backfill" THEN Max({@, 0}) ELSE Unset]
    /\ UNCHANGED <<link, linkView, upkeep, retaining, trouble, alertState, tickAge, steadyAge,
                   outAge, firstRunAge>>

\* Rows of other components get into trouble, or out of it.
ToggleTrouble ==
    /\ trouble' = ~trouble
    /\ heldAge' = [heldAge EXCEPT !["rows"] = IF trouble' THEN 0 ELSE Unset]
    /\ UNCHANGED <<link, linkView, upkeep, retaining, newest, alertState, tickAge, steadyAge,
                   outAge, firstRunAge>>

-----------------------------------------------------------------------------
(* The sweep. *)

\* Mutant: a connection lost and made again between two ticks goes unseen.
ObservedStateOnly(view) ==
    IF link.connected THEN [view EXCEPT !.up = Max({@, 0}), !.down = Unset]
    ELSE [view EXCEPT !.up = Unset, !.down = Max({@, 0})]

\* Mutant: every tick dates the disconnection anew.
ObservedAfresh(view) ==
    [down |-> IF link.connected THEN Unset ELSE 0, up |-> IF link.connected THEN 0 ELSE Unset,
     reconnects |-> link.reconnects]

\* reconcileOnce: a reconnect since the last tick was a drop too, and restarts the stable period.
ObservedLink(view) ==
    LET up == IF view.reconnects = link.reconnects THEN view.up ELSE Unset
    IN IF ~link.running THEN view
       ELSE IF link.connected
            THEN [down |-> Unset, up |-> Max({up, 0}), reconnects |-> link.reconnects]
            ELSE [down |-> Max({view.down, 0}), up |-> Unset, reconnects |-> link.reconnects]

\* mattermostCondition: an outage starts after the threshold, and ends after it too.
MattermostCondition(view) ==
    IF alertState["mattermost"].firing THEN view.up < Threshold ELSE view.down >= Threshold

\* maintenanceConditions: the backup check, whose last run failed or whose success is too old.
BackupCondition(t) ==
    t.run # Unset /\ (t.success = Unset \/ t.success > t.run \/ t.success > MaxSuccessAge)

\* maintenanceConditions: any other task.
RetentionCondition(t) == (IF t.success # Unset THEN t.success ELSE t.run) > MaxSuccessAge

\* configHistoryConditions.
HistoryCondition == newest = "backfill"

\* currentAlertConditions.
CurrentConditions(view) ==
    {k \in Keys : \/ k = "mattermost" /\ MattermostCondition(view)
                  \/ k = "history" /\ HistoryCondition
                  \/ k = "backup" /\ BackupCondition(upkeep["backup"])
                  \/ k = "retention" /\ RetentionCondition(upkeep["retention"])
                  \/ k = "rows" /\ trouble}

\* settleAlertCondition: fired, reminded, resolved or left alone.
SettledCondition(a, holds) ==
    IF ~holds THEN [a EXCEPT !.firing = FALSE]
    ELSE IF ~a.firing \/ a.notified >= Reminder THEN [firing |-> TRUE, notified |-> 0]
    ELSE a

\* sweepAlertConditions, in one transaction.
SweepAlerts ==
    LET view == ObservedLink(linkView)
        current == CurrentConditions(view)
    IN /\ tickAge > 0
       /\ linkView' = view
       /\ alertState' = [k \in Keys |-> SettledCondition(alertState[k], k \in current)]
       /\ tickAge' = 0
       /\ UNCHANGED <<link, upkeep, retaining, newest, trouble, steadyAge, outAge, firstRunAge,
                      heldAge>>

\* The sweep's transaction fails: what reconcileOnce observed is kept.
AlertSweepFails ==
    /\ tickAge > 0
    /\ linkView' = ObservedLink(linkView)
    /\ UNCHANGED <<link, upkeep, retaining, newest, trouble, alertState, tickAge, steadyAge,
                   outAge, firstRunAge, heldAge>>

Aged(age) == IF age = Unset THEN Unset ELSE Min({age + 1, Horizon})

\* Time passes; a sweep succeeds within every interval.
PassTime ==
    /\ tickAge < TickEvery /\ tickAge' = tickAge + 1
    /\ linkView' = [linkView EXCEPT !.down = Aged(@), !.up = Aged(@)]
    /\ upkeep' = [t \in DOMAIN upkeep |-> [run |-> Aged(upkeep[t].run),
                                           success |-> Aged(upkeep[t].success)]]
    /\ alertState' = [k \in Keys |-> [alertState[k] EXCEPT !.notified = Min({@ + 1, Reminder})]]
    /\ steadyAge' = Aged(steadyAge) /\ outAge' = Aged(outAge) /\ firstRunAge' = Aged(firstRunAge)
    /\ heldAge' = [k \in DOMAIN heldAge |-> Aged(heldAge[k])]
    /\ UNCHANGED <<link, retaining, newest, trouble>>

AlertsInit ==
    /\ link = [running |-> FALSE, connected |-> FALSE, reconnects |-> 0]
    /\ linkView = [down |-> 0, up |-> Unset, reconnects |-> 0]
    /\ upkeep = [t \in {"retention", "backup"} |-> [run |-> Unset, success |-> Unset]]
    /\ retaining = FALSE /\ newest = "change" /\ trouble = FALSE
    /\ alertState = [k \in Keys |-> [firing |-> FALSE, notified |-> 0]]
    /\ tickAge = 0 /\ steadyAge = Unset /\ outAge = 0 /\ firstRunAge = Unset
    /\ heldAge = [k \in {"history", "rows"} |-> Unset]

\* What happens to the listener, to the maintenance tasks, and to the rows.
LinkNext == LinkUp \/ LinkDown \/ RestartController \/ StartListening
RetentionNext == ClaimRetention \/ \E o \in {"done", "failed", "stopped"} : FinishRetention(o)
BackupNext == \E ok \in BOOLEAN : RecordBackupCheck(ok)
RowsNext == (\E k \in {"change", "backfill", "acked"} : WriteRevision(k)) \/ ToggleTrouble
SweepNext == SweepAlerts \/ AlertSweepFails \/ PassTime

AlertsNext == LinkNext \/ RetentionNext \/ BackupNext \/ RowsNext \/ SweepNext
AlertsSpec == AlertsInit /\ [][AlertsNext]_alertVars

-----------------------------------------------------------------------------

\* A flapping connection is one outage: its alert is resolved only when the listener has really
\* been connected without a break for the threshold, drops between two ticks and restarts of the
\* controller included (mattermostCondition, reconcileOnce).
FlappingIsOneOutage ==
    [][ alertState["mattermost"].firing /\ ~alertState'["mattermost"].firing
        => steadyAge >= Threshold ]_alertVars

\* What lasts is alerted: a listener disconnected for the threshold (counted from the start of the
\* controller), a retention or backup check whose last success is too old, an unacknowledged
\* backfill and rows in trouble are firing once the sweeps have had the time to see them.
LastingTroubleFires ==
    /\ outAge > Threshold + 2 * TickEvery => alertState["mattermost"].firing
    /\ \A t \in DOMAIN upkeep :
         upkeep[t].success > MaxSuccessAge + TickEvery => alertState[t].firing
    /\ \A k \in DOMAIN heldAge : heldAge[k] > TickEvery => alertState[k].firing

\* A retention that never succeeded is alerted three hours after its first run
\* (maintenanceConditions: "A task that never succeeded counts from its first run").
NeverSucceededFires ==
    upkeep["retention"].success = Unset /\ firstRunAge > MaxSuccessAge + TickEvery
    => alertState["retention"].firing
============================================================================
