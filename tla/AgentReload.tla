---------------------------- MODULE AgentReload ----------------------------
(***************************************************************************)
(* How a running nms-agent picks up a change of devices.d: the commands of *)
(* DevicesDir and edits by hand change the directory, DevicesWatcher       *)
(* (internal/configwatch) turns the file events into a signal, and the     *)
(* loop of cmd/nms-agent/main.go loads the configuration again:            *)
(*                                                                         *)
(*   change -> event -> debounce timer -> changes channel -> select ->     *)
(*       LoadFromFile -> Validate -> reloadPipeline                        *)
(*                                                                         *)
(* The channel holds one signal and a send to a full channel is dropped.   *)
(* The loop reads it only between two delivery cycles, so changes arrive   *)
(* while it delivers, while it loads, and while it starts.  SIGHUP reaches *)
(* it through a channel of its own, also of capacity one.                  *)
(***************************************************************************)
EXTENDS DevicesDir

VARIABLES
  phase,     \* where the loop is
  listed,    \* names listed by the load that runs
  running,   \* the devices of the pipeline that runs
  watching,  \* has the watcher been started?
  event,     \* is an event waiting in watcher.Events?
  timer,     \* is the debounce timer running?
  changes,   \* is a signal in the changes channel?
  hangup,    \* is a SIGHUP in reloadCh?
  unseen     \* history: the directory changed after it was last listed and
             \* before the watcher watched

watcher   == <<watching, event, timer, changes>>
agent     == <<phase, listed, running>>
watchVars == <<watcher, hangup, unseen>>
vars      == <<dir, cli, agent, watchVars>>

Phases == {"down", "list", "load", "watch", "cycle", "select", "relist", "reload"}

Init ==
  /\ InitDir
  /\ phase = "down"
  /\ listed = {}
  /\ running = None
  /\ watching = FALSE /\ event = FALSE /\ timer = FALSE /\ changes = FALSE
  /\ hangup = FALSE
  /\ unseen = FALSE
-----------------------------------------------------------------------------
(* The directory changes, by a command or by hand *)

Notify ==
  /\ event' = (event \/ (watching /\ dir' # dir))
  /\ unseen' = IF dir' = dir THEN unseen
               ELSE phase \in {"load", "watch"} \/ (unseen /\ ~watching)
  /\ UNCHANGED <<agent, watching, timer, changes, hangup>>

Commands == NextCommand /\ Notify

(* An editor, a script or the discovery writes a file, which need not
   validate.  Assumed not to happen while a command runs. *)
HandEdit ==
  /\ \A p \in Procs : cli[p] = None
  /\ \E f \in Files, c \in Content \union {Absent} :
        c # dir[f] /\ dir' = [dir EXCEPT ![f] = c]
  /\ UNCHANGED cli
  /\ Notify
-----------------------------------------------------------------------------
(* DevicesWatcher.run *)

(* An event starts the timer, or starts it again. *)
TakeEvent ==
  /\ watching /\ event
  /\ event' = FALSE
  /\ timer' = TRUE
  /\ UNCHANGED <<dir, cli, agent, watching, changes, hangup, unseen>>

(* Mutant of TimerFires: the channel has no buffer. *)
TimerFires_Unbuffered ==
  /\ watching /\ timer
  /\ timer' = FALSE
  /\ changes' = (phase = "select")
  /\ UNCHANGED <<dir, cli, agent, watching, event, hangup, unseen>>

TimerFires ==
  /\ watching /\ timer
  /\ timer' = FALSE
  /\ changes' = TRUE
  /\ UNCHANGED <<dir, cli, agent, watching, event, hangup, unseen>>
-----------------------------------------------------------------------------
(* main: start, cycles, reloads *)

Goto(p) == phase' = p

Start ==
  /\ phase = "down"
  /\ Goto("list")
  /\ UNCHANGED <<dir, cli, listed, running, watchVars>>

ListDevices(from, to) ==
  /\ phase = from
  /\ listed' = Present(dir)
  /\ Goto(to)
  /\ unseen' = (unseen /\ from = "relist")
  /\ UNCHANGED <<dir, cli, running, watcher, hangup>>

(* The agent does not start with a configuration that does not validate. *)
Load ==
  /\ phase = "load"
  /\ listed' = {}
  /\ IF Loadable(listed)
       THEN Goto("watch") /\ running' = Read(listed)
       ELSE Goto("down") /\ running' = None
  /\ UNCHANGED <<dir, cli, watchVars>>

(* The watcher starts once the pipeline has been built. *)
StartWatcher ==
  /\ phase = "watch"
  /\ watching' = TRUE
  /\ Goto("cycle")
  /\ UNCHANGED <<dir, cli, listed, running, event, timer, changes, hangup, unseen>>

CycleDone ==
  /\ phase = "cycle"
  /\ Goto("select")
  /\ UNCHANGED <<dir, cli, listed, running, watchVars>>

(* The select statement takes any case that is ready. *)
OnTicker ==
  /\ phase = "select"
  /\ Goto("cycle")
  /\ UNCHANGED <<dir, cli, listed, running, watchVars>>

OnChange ==
  /\ phase = "select" /\ changes
  /\ changes' = FALSE
  /\ Goto("relist")
  /\ UNCHANGED <<dir, cli, listed, running, watching, event, timer, hangup, unseen>>

OnHangup ==
  /\ phase = "select" /\ hangup
  /\ hangup' = FALSE
  /\ Goto("relist")
  /\ UNCHANGED <<dir, cli, listed, running, watcher, unseen>>

(* Mutant of Reload: the signals that came while it loaded are drained. *)
Reload_Drains ==
  /\ phase = "reload"
  /\ listed' = {}
  /\ running' = IF Loadable(listed) THEN Read(listed) ELSE running
  /\ Goto("cycle")
  /\ changes' = FALSE
  /\ UNCHANGED <<dir, cli, watching, event, timer, hangup, unseen>>

(* A load that fails keeps the pipeline that runs.  Either way a cycle is
   next. *)
Reload ==
  /\ phase = "reload"
  /\ listed' = {}
  /\ running' = IF Loadable(listed) THEN Read(listed) ELSE running
  /\ Goto("cycle")
  /\ UNCHANGED <<dir, cli, watchVars>>

(* The process ends, and with it the watcher and all signals. *)
Exited ==
  /\ phase # "down"
  /\ Goto("down")
  /\ listed' = {} /\ running' = None
  /\ watching' = FALSE /\ event' = FALSE /\ timer' = FALSE /\ changes' = FALSE
  /\ hangup' = FALSE
  /\ UNCHANGED <<dir, cli, unseen>>

(* `nms-agentctl reload`, or a SIGHUP from anybody.  The command validates the
   configuration before it sends, but the directory may change in between. *)
SendHangup ==
  /\ phase \in {"cycle", "select", "relist", "reload"}
  /\ hangup' = TRUE
  /\ UNCHANGED <<dir, cli, agent, watcher, unseen>>
-----------------------------------------------------------------------------
Agent ==
  \/ Start \/ ListDevices("list", "load") \/ Load \/ StartWatcher
  \/ CycleDone \/ OnTicker \/ OnChange \/ OnHangup
  \/ ListDevices("relist", "reload") \/ Reload

Watcher == TakeEvent \/ TimerFires

Next == Agent \/ Watcher \/ Commands \/ HandEdit \/ Exited \/ SendHangup

Spec == Init /\ [][Next]_vars

(* The goroutines run, a started command ends, and a select statement does
   not leave out a case that is ready again and again. *)
Fairness ==
  /\ WF_vars(Agent) /\ WF_vars(TakeEvent) /\ WF_vars(TimerFires)
  /\ SF_vars(OnChange)
  /\ \A p \in Procs : WF_vars(CommandStep(p) /\ Notify)

FairSpec == Spec /\ Fairness
-----------------------------------------------------------------------------
(* Properties *)

TypeOK ==
  /\ TypeOKDir
  /\ phase \in Phases
  /\ listed \subseteq Files
  /\ running \in Directory \union {None}
  /\ running = None <=> (phase \in {"down", "list", "load"})
  /\ watching \in BOOLEAN /\ event \in BOOLEAN /\ timer \in BOOLEAN
  /\ changes \in BOOLEAN /\ hangup \in BOOLEAN /\ unseen \in BOOLEAN
  /\ watching <=> (phase \notin {"down", "list", "load", "watch"})

(* A change the watcher could see is on its way to the loop, or the running
   pipeline has the devices of the directory, unless they do not load:
   no signal is lost between the commands, the watcher and the loop. *)
NoChangeIsLost ==
  watching /\ ~unseen /\ Valid(dir) =>
    \/ running = dir
    \/ event \/ timer \/ changes
    \/ phase = "relist"
    \/ phase = "reload" /\ Loadable(listed) /\ Read(listed) = dir

(* "jika file device ditambah/diubah/dihapus dan config valid, runtime akan
   reload otomatis" (docs/CONFIG_SCHEMA.md): once the process and the directory
   are left alone, the agent comes to run the devices of the directory if they
   validate, unless the last change fell between the first load and the start
   of the watcher: main.go:64, 244-258, 338-376. *)
Settled == <>[][dir' = dir /\ ~Exited]_vars

AgentCatchesUp == Settled => <>[](watching /\ ~unseen /\ Valid(dir) => running = dir)
=============================================================================
