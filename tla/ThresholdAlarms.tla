--------------------------- MODULE ThresholdAlarms ---------------------------
(***************************************************************************)
(* Threshold rules and alarms together: every cycle reports the same       *)
(* metrics in the same order, the processor gives each item a status       *)
(* (Thresholds), the batch is published, and ProcessBatch (AlarmManager)   *)
(* goes through it.                                                        *)
(*                                                                         *)
(* metricToAlarmType gives one alarm type to many metrics: all of          *)
(* snmp.host.memory, say, and the oper_status of every interface.          *)
(***************************************************************************)
EXTENDS AlarmManager, Thresholds

CONSTANTS
  Reported,     \* the items of a cycle without their values: device, metric
                \* and tags, in the order of the batch
  Values,
  metricToAlarmType

VARIABLES
  batch,  \* the items ProcessBatch has not come to yet
  at      \* the item it is at

compositeVars == <<vars, batch, at>>

alarmKey(t) == <<t.device, metricToAlarmType[t.metric]>>

InitComposite == Init /\ batch = <<>> /\ at = NoItem

(* The batch of a cycle, collected and tagged. *)
Cycle ==
  /\ step = "idle" /\ batch = <<>>
  /\ \E v \in [DOMAIN Reported -> Values] :
        batch' = [i \in DOMAIN Reported |->
                    [Reported[i] EXCEPT !.value = v[i]]]
  /\ UNCHANGED <<vars, at>>

(* ProcessBatch takes the items from the front; an error drops the others. *)
Take ==
  \/ /\ step' = "lookup"
     /\ batch # <<>>
     /\ item' = [key |-> alarmKey(Head(batch)), status |-> applyThresholds(Head(batch))]
     /\ at' = Head(batch)
     /\ batch' = Tail(batch)
  \/ /\ step' = "idle"
     /\ said'[item.key] = "none" \/ batch = <<>>
     /\ at' = NoItem
     /\ batch' = <<>>
  \/ /\ step' \notin {"lookup", "idle"}
     /\ UNCHANGED <<batch, at>>

NextComposite ==
  \/ Cycle
  \/ (ProcessBatch \/ Calls) /\ Take
  \/ Restart /\ batch' = <<>> /\ at' = NoItem

FairSpecComposite ==
  InitComposite /\ [][NextComposite]_compositeVars /\ WF_compositeVars(NextComposite)
-----------------------------------------------------------------------------
(* "injects threshold.status=normal for metrics with configured rules so alarms
   can auto-clear" (docs/DEVELOPMENT_STAGES.md): an alarm is closed for good,
   or on its way to another severity, by an item whose metric has a rule. *)
ClearedByItsRule ==
  [][\A s \in Slots : active[s] # NoAlarm /\ active'[s] = NoAlarm =>
        at # NoItem /\ Configured(at.metric)]_compositeVars
=============================================================================
