------------------------- MODULE AgentReloadProofs --------------------------
(***************************************************************************)
(* The safety properties of AgentReload, for any files, ids and revisions. *)
(* ReloadInv says where a change of the directory is while the agent does  *)
(* not run it yet; CommandInv says what a command knows of the directory at*)
(* each of its steps when it is the only one.                              *)
(***************************************************************************)
EXTENDS AgentReload, TLAPS

Signal == event \/ timer \/ changes

(* The parts of the invariant. *)

(* Between two loads a change leaves a signal behind it. *)
Coming ==
  watching /\ ~unseen /\ Valid(dir) =>
    running = dir \/ Signal \/ phase \in {"relist", "reload"}

(* What the loop has listed is what is there, or a signal says otherwise. *)
Listed == phase = "reload" => listed = Present(dir) \/ Signal

(* Before the watcher watches, unseen says so. *)
Starting ==
  ~unseen => /\ phase = "load" => listed = Present(dir)
             /\ phase = "watch" => running = dir

ReloadInv == TypeOK /\ Coming /\ Listed /\ Starting

(* A load that lists and reads the same directory reads it as it is. *)
LEMMA ReadAll ==
  ASSUME dir \in Directory
  PROVE  /\ Read(Present(dir)) = dir
         /\ Loadable(Present(dir)) <=> Valid(dir)
<1>1. Read(Present(dir)) = dir
  BY DEF Read, Present, Directory
<1> QED
  BY <1>1 DEF Loadable

LEMMA ReadType ==
  ASSUME dir \in Directory, NEW names
  PROVE  Read(names) \in Directory /\ Read(names) # None
<1>1. Read(names) \in Directory
  BY DEF Read, Directory
<1> QED
  BY <1>1, DevicesDirAssumption DEF Directory, Content

LEMMA DirType ==
  ASSUME dir \in Directory
  PROVE  dir # None /\ Present(dir) \subseteq Files
  BY DevicesDirAssumption DEF Directory, Content, Present

(* A command and the directory stay in their domains. *)
LEMMA CommandTypes ==
  ASSUME TypeOKDir, NextCommand
  PROVE  TypeOKDir'
<1> PICK p \in Procs :
      \/ \E op \in Ops, id \in DeviceIds, rev \in Revs : Run(p, op, id, rev)
      \/ CommandStep(p)
      \/ Kill(p)
  BY DEF NextCommand
<1> DEFINE c == cli[p]
<1>1. dir \in [Files -> Content \union {Absent}] /\ cli \in [Procs -> Command \union {None}]
  BY DEF TypeOKDir, Directory
<1>2. ASSUME NEW op \in Ops, NEW id \in DeviceIds, NEW rev \in Revs, Run(p, op, id, rev)
      PROVE  TypeOKDir'
  BY <1>1, <1>2 DEF Run, TypeOKDir, Directory, Command
<1>3. ASSUME NEW pc, NEW next \in {"read", "verify"}, List(p, pc, next)
      PROVE  TypeOKDir'
  <2>1. c \in Command /\ Present(dir) \in SUBSET Files
    BY <1>1, <1>3 DEF List, At, Present
  <2>2. [[c EXCEPT !.pc = next] EXCEPT !.names = Present(dir)] \in Command
    BY <2>1 DEF Command
  <2> QED
    BY <1>1, <1>3, <2>1, <2>2 DEF List, TypeOKDir, Directory, Command
<1>4. CASE Prepare(p)
  <2>1. c \in Command
    BY <1>1, <1>4 DEF Prepare, At
  <2>2. PICK f \in Targets(p) :
          cli' = [cli EXCEPT ![p].pc = "change", ![p].file = f, ![p].old = dir[f]]
    BY <1>4 DEF Prepare
  <2>3. f \in Files /\ dir[f] \in Content \union {Absent}
    BY <1>1, <2>1, <2>2, DevicesDirAssumption DEF Targets, Present, Command
  <2> QED
    <3>1. [[[c EXCEPT !.pc = "change"] EXCEPT !.file = f] EXCEPT !.old = dir[f]] \in Command
      BY <2>1, <2>3 DEF Command
    <3> QED
      BY <1>1, <1>4, <2>1, <2>2, <3>1 DEF Prepare, TypeOKDir, Directory
<1>5. CASE Change(p)
  <2>1. c \in Command
    BY <1>1, <1>5 DEF Change, At
  <2>2. dir' \in [Files -> Content \union {Absent}]
    BY <1>1, <1>5, <2>1 DEF Change, Put, New, Command, Content
  <2>3. cli' \in [Procs -> Command \union {None}]
    BY <1>1, <1>5, <2>1 DEF Change, Command, Directory
  <2> QED
    BY <2>2, <2>3 DEF TypeOKDir, Directory
<1>6. CASE Exit(p) /\ UNCHANGED dir
  BY <1>1, <1>6 DEF Exit, TypeOKDir, Directory
<1>7. ASSUME NEW pc \in {"done", "undo", "restored", "rewrite", "unrestored"},
             c \in Command, Enter(p, pc),
             \/ UNCHANGED dir
             \/ \E x \in Content \union {Absent} : Put(c, x)
      PROVE  TypeOKDir'
  <2>1. [c EXCEPT !.pc = pc] \in Command
    BY <1>7 DEF Command
  <2>2. dir' \in Directory
    BY <1>1, <1>7 DEF Put, Directory
  <2> QED
    BY <1>1, <1>7, <2>1, <2>2 DEF Enter, TypeOKDir
<1>8. CASE Succeed(p) \/ Reject(p)
  BY <1>1, <1>7, <1>8 DEF Succeed, Reject, At
<1>9. CASE Rollback(p) \/ Rewrite(p)
  <2>1. c \in Command /\ c.old \in Content \union {Absent}
    BY <1>1, <1>9 DEF Rollback, Rewrite, At, Command
  <2> QED
    BY <1>7, <1>9, <2>1 DEF Rollback, Rewrite
<1>10. CASE Recreate(p) \/ RollbackFails(p)
  <2>1. c \in Command /\ Torn(c) \subseteq Content
    BY <1>1, <1>10 DEF Recreate, RollbackFails, At, Torn, Content, Command
  <2> QED
    BY <1>7, <1>10, <2>1 DEF Recreate, RollbackFails
<1> QED
  BY <1>2, <1>3, <1>4, <1>5, <1>6, <1>8, <1>9, <1>10
  DEF CommandStep, PrepareFails, ChangeFails, Return, Kill

LEMMA ReloadInit == Init => ReloadInv
  BY DEF Init, InitDir, ReloadInv, TypeOK, TypeOKDir, Phases, Coming, Listed, Starting

(* A change of the directory by anybody. *)
LEMMA ChangeOfDir ==
  ASSUME ReloadInv, TypeOKDir', Notify
  PROVE  ReloadInv'
<1>1. TypeOK'
  BY DEF Notify, ReloadInv, TypeOK, agent
<1>2. CASE dir' = dir
  <2>1. Present(dir)' = Present(dir) /\ Valid(dir)' = Valid(dir)
    BY <1>2 DEF Present, Valid
  <2> QED
    BY <1>1, <1>2, <2>1 DEF Notify, agent, ReloadInv, TypeOK, Coming, Listed, Starting, Signal
<1>3. CASE dir' # dir /\ watching
  BY <1>1, <1>3 DEF Notify, agent, ReloadInv, TypeOK, Coming, Listed, Starting, Signal
<1>4. CASE dir' # dir /\ ~watching
  BY <1>1, <1>4 DEF Notify, agent, ReloadInv, TypeOK, Coming, Listed, Starting, Signal
<1> QED
  BY <1>2, <1>3, <1>4

LEMMA ReloadNext == ReloadInv /\ [Next]_vars => ReloadInv'
<1> SUFFICES ASSUME ReloadInv, [Next]_vars PROVE ReloadInv'
  OBVIOUS
<1>d. dir \in Directory /\ dir # None /\ Present(dir) \subseteq Files
  BY DirType DEF ReloadInv, TypeOK, TypeOKDir
<1> USE DEF ReloadInv, TypeOK, Phases, Goto, agent, watcher, watchVars
<1> DEFINE Parts == Coming' /\ Listed' /\ Starting'
<1>1. CASE Commands
  BY <1>1, CommandTypes, ChangeOfDir DEF Commands
<1>2. CASE HandEdit
  <2>1. TypeOKDir'
    BY <1>2 DEF HandEdit, TypeOKDir, Directory
  <2> QED
    BY <1>2, <2>1, ChangeOfDir DEF HandEdit
<1>3. CASE dir' = dir /\ cli' = cli
  <2>0. TypeOKDir' /\ Present(dir)' = Present(dir) /\ Valid(dir)' = Valid(dir)
    BY <1>3 DEF TypeOKDir, Directory, Command, Content, Present, Valid
  <2> USE DEF Coming, Listed, Starting, Signal
  <2>1. CASE Start
    BY <1>3, <2>0, <2>1 DEF Start
  <2>2. CASE ListDevices("list", "load")
    BY <1>3, <1>d, <2>0, <2>2 DEF ListDevices
  <2>3. CASE Load
    BY <1>3, <1>d, <2>0, <2>3, ReadAll, ReadType DEF Load
  <2>4. CASE StartWatcher
    BY <1>3, <2>0, <2>4 DEF StartWatcher
  <2>5. CASE CycleDone \/ OnTicker
    BY <1>3, <2>0, <2>5 DEF CycleDone, OnTicker
  <2>6. CASE OnChange \/ OnHangup
    BY <1>3, <2>0, <2>6 DEF OnChange, OnHangup
  <2>7. CASE ListDevices("relist", "reload")
    BY <1>3, <1>d, <2>0, <2>7 DEF ListDevices
  <2>8. CASE Reload
    BY <1>3, <1>d, <2>0, <2>8, ReadAll, ReadType DEF Reload
  <2>9. CASE TakeEvent \/ TimerFires
    BY <1>3, <2>0, <2>9 DEF TakeEvent, TimerFires
  <2>10. CASE Exited \/ SendHangup
    BY <1>3, <2>0, <2>10 DEF Exited, SendHangup
  <2>11. CASE UNCHANGED vars
    BY <1>3, <2>0, <2>11 DEF vars
  <2>12. CASE Commands \/ HandEdit
    BY <1>1, <1>2, <2>12
  <2> QED
    BY <2>1, <2>2, <2>3, <2>4, <2>5, <2>6, <2>7, <2>8, <2>9, <2>10, <2>11, <2>12
    DEF Next, Agent, Watcher
<1>4. CASE ~(dir' = dir /\ cli' = cli)
  BY <1>1, <1>2, <1>4 DEF Next, Agent, Watcher, vars, Start, ListDevices, Load, StartWatcher,
     CycleDone, OnTicker, OnChange, OnHangup, Reload, TakeEvent, TimerFires, Exited, SendHangup
<1> QED
  BY <1>3, <1>4

THEOREM ReloadInvariant == Spec => []ReloadInv
  BY ReloadInit, ReloadNext, PTL DEF Spec

(* Every variable stays in its domain; the agent runs devices and watches exactly in
   the phases that say so. *)
THEOREM ReloadTypeCorrect == Spec => []TypeOK
  BY ReloadInvariant, PTL DEF ReloadInv

(* No signal is lost between the commands, the watcher and the loop: the agent runs
   the directory, if it validates, or something is on its way to make it:
   devices_watcher.go:60-110, main.go:338-376. *)
THEOREM ChangesArrive == Spec => []NoChangeIsLost
<1>1. ReloadInv => NoChangeIsLost
  <2> SUFFICES ASSUME ReloadInv, watching, ~unseen, Valid(dir), ~Signal, phase = "reload"
               PROVE  Loadable(listed) /\ Read(listed) = dir
    BY DEF NoChangeIsLost, ReloadInv, Coming, Signal
  <2>1. listed = Present(dir)
    BY DEF ReloadInv, Listed
  <2> QED
    BY <2>1, ReadAll DEF ReloadInv, TypeOK, TypeOKDir
<1> QED
  BY <1>1, ReloadInvariant, PTL
-----------------------------------------------------------------------------
(* A command alone *)

(* No two commands at a time. *)
OneProcess == \A p, q \in Procs : p = q

(* The directory after the change of command c to directory d. *)
Changed(c, d) == [d EXCEPT ![c.file] = New(c)]

(* What command c knows of the directory, which nobody else changes. *)
Knows(c) ==
  /\ c.pc \in {"load", "read", "change"} => c.before = None
  /\ c.pc \in {"read", "verify"} => c.names = Present(dir)
  /\ c.pc \notin {"load", "read"} => c.file \in Files
  /\ c.pc = "change" =>
       Valid(dir) /\ dir[c.file] = (IF c.op = "add" THEN Absent ELSE c.old)
  /\ c.pc \notin {"load", "read", "change"} => c.before \in Directory /\ Valid(c.before)
  /\ c.pc \in {"check", "verify", "undo", "done"} => dir = Changed(c, c.before)
  /\ c.pc \in {"check", "verify", "undo", "rewrite"} =>
       c.before[c.file] = (IF c.op = "add" THEN Absent ELSE c.old)
  /\ c.pc = "done" => Valid(dir)
  /\ c.pc = "rewrite" => c.op = "remove"
  /\ c.pc = "restored" => dir = c.before
  /\ c.pc \in {"rewrite", "unrestored"} =>
       /\ \A f \in Files \ {c.file} : dir[f] = c.before[f]
       /\ c.op = "add" => dir = Changed(c, c.before)

CommandInv == TypeOKDir /\ \A p \in Procs : cli[p] # None => Knows(cli[p])

(* What CommandLeavesValid and CommandIsAtomic say of the end of command p. *)
EndsValid(p) == Over(p) /\ cli[p].pc \in {"done", "restored"} => Valid(dir')

EndsAtomic(p) ==
  Over(p) =>
    LET c   == cli[p]
        was == c.before[c.file]
        is  == dir'[c.file]
    IN  /\ \A f \in Files \ {c.file} : dir'[f] = c.before[f]
        /\ c.pc = "restored" => is = was
        /\ c.pc = "done" => is = New(c)
        /\ \/ is \in {was, New(c)}
           \/ c.op # "add" /\ c.pc \in {"rewrite", "unrestored"}

(* A command ends, at whichever step, and finds what it knows. *)
LEMMA CommandEnds ==
  ASSUME CommandInv, NEW p \in Procs, cli[p] # None, Exit(p), UNCHANGED dir
  PROVE  EndsValid(p) /\ EndsAtomic(p)
<1> DEFINE c == cli[p]
<1> SUFFICES ASSUME c.before # None
             PROVE  EndsValid(p) /\ EndsAtomic(p)
  BY DEF EndsValid, EndsAtomic, Over
<1>1. c \in Command /\ Knows(c) /\ dir' = dir
  BY DEF CommandInv, TypeOKDir
<1>2. c.pc \notin {"load", "read", "change"}
  BY <1>1 DEF Knows
<1>3. c.file \in Files /\ c.before \in Directory /\ Valid(c.before)
  BY <1>1, <1>2 DEF Knows
<1>4. dir = Changed(c, c.before) =>
        dir[c.file] = New(c) /\ \A f \in Files \ {c.file} : dir[f] = c.before[f]
  BY <1>3 DEF Changed, Directory
<1>5. CASE c.pc \in {"check", "verify", "undo", "done"}
  <2>1. dir = Changed(c, c.before) /\ (c.pc = "done" => Valid(dir)) /\ c.pc # "restored"
    BY <1>1, <1>5 DEF Knows
  <2>2. Valid(dir)' = Valid(dir)
    BY <1>1 DEF Valid, Present
  <2> QED
    BY <1>1, <1>4, <2>1, <2>2 DEF EndsValid, EndsAtomic
<1>6. CASE c.pc = "restored"
  <2>1. dir' = c.before
    BY <1>1, <1>6 DEF Knows
  <2> QED
    BY <1>3, <1>6, <2>1 DEF EndsValid, EndsAtomic, Valid, Present
<1>7. CASE c.pc \in {"rewrite", "unrestored"}
  <2>1. /\ \A f \in Files \ {c.file} : dir[f] = c.before[f]
        /\ c.op = "add" => dir[c.file] = New(c)
    BY <1>1, <1>4, <1>7 DEF Knows
  <2> QED
    BY <1>1, <1>7, <2>1 DEF EndsValid, EndsAtomic
<1> QED
  BY <1>1, <1>2, <1>5, <1>6, <1>7 DEF Command

(* A command goes on, and still knows the directory. *)
LEMMA CommandGoesOn ==
  ASSUME OneProcess, CommandInv, NEW p \in Procs,
         \/ \E op \in Ops, id \in DeviceIds, rev \in Revs : Run(p, op, id, rev)
         \/ CommandStep(p)
  PROVE  CommandInv'
<1> DEFINE c == cli[p]
<1>1. /\ dir \in Directory /\ dir \in [Files -> Content \union {Absent}]
      /\ cli \in [Procs -> Command \union {None}] /\ \A q \in Procs : q = p
  BY DEF CommandInv, TypeOKDir, Directory, OneProcess
<1>2. TypeOKDir'
  BY CommandTypes DEF CommandInv, NextCommand
<1>3. SUFFICES (cli[p] # None => Knows(cli[p]))'
  BY <1>1, <1>2 DEF CommandInv
<1>4. c # None => Knows(c)
  BY DEF CommandInv
<1>5. ASSUME NEW op \in Ops, NEW id \in DeviceIds, NEW rev \in Revs, Run(p, op, id, rev)
      PROVE  (cli[p] # None => Knows(cli[p]))'
  BY <1>1, <1>5 DEF Run, Knows
<1>6. CASE List(p, "load", "read")
  BY <1>1, <1>4, <1>6 DEF List, At, Knows, Present, Command
<1>7. CASE List(p, "check", "verify")
  <2>1. /\ c.pc = "check" /\ c \in Command /\ dir' = dir
        /\ cli'[p] = [[c EXCEPT !.pc = "verify"] EXCEPT !.names = Present(dir)]
    BY <1>1, <1>7 DEF List, At
  <2>2. /\ cli'[p].pc = "verify" /\ cli'[p].names = Present(dir)
        /\ cli'[p].file = c.file /\ cli'[p].op = c.op /\ cli'[p].id = c.id /\ cli'[p].rev = c.rev
        /\ cli'[p].old = c.old /\ cli'[p].before = c.before
    BY <2>1 DEF Command
  <2>3. Present(dir)' = Present(dir)
    BY <2>1 DEF Present
  <2> QED
    BY <1>4, <1>7, <2>1, <2>2, <2>3 DEF Knows, Changed, New, List, At
<1>8. CASE Prepare(p)
  <2>1. c.pc = "read" /\ c \in Command /\ c # None /\ dir' = dir /\ c.before = None
    BY <1>1, <1>4, <1>8 DEF Prepare, At, Knows
  <2>2. PICK f \in Targets(p) :
             cli' = [cli EXCEPT ![p].pc = "change", ![p].file = f, ![p].old = dir[f]]
    BY <1>8 DEF Prepare
  <2>3. Valid(dir)
    BY <1>1, <1>4, <1>8, <2>1, ReadAll DEF Knows, Prepare
  <2>4. f \in Files /\ (c.op = "add" => dir[f] = Absent)
    BY <2>1, <2>2, DevicesDirAssumption DEF Targets, Present, Command
  <2>5. /\ cli'[p].pc = "change" /\ cli'[p].file = f /\ cli'[p].old = dir[f]
        /\ cli'[p].op = c.op /\ cli'[p].before = None
    BY <1>1, <2>1, <2>2 DEF Command
  <2>6. Valid(dir)'
    BY <2>1, <2>3 DEF Valid, Present
  <2> QED
    BY <2>1, <2>4, <2>5, <2>6 DEF Knows
<1>9. CASE Change(p)
  <2>1. /\ c.pc = "change" /\ c \in Command /\ c.before = None
        /\ Valid(dir) /\ c.file \in Files /\ dir[c.file] = (IF c.op = "add" THEN Absent ELSE c.old)
        /\ dir' = Changed(c, dir) /\ cli' = [cli EXCEPT ![p].pc = "check", ![p].before = dir]
    BY <1>1, <1>4, <1>9 DEF Change, Put, Changed, At, Knows
  <2>2. /\ cli'[p].pc = "check" /\ cli'[p].before = dir
        /\ cli'[p].file = c.file /\ cli'[p].op = c.op /\ cli'[p].id = c.id /\ cli'[p].rev = c.rev
        /\ cli'[p].old = c.old
    BY <1>1, <2>1 DEF Command
  <2>3. Changed(cli'[p], dir) = Changed(c, dir)
    BY <2>2 DEF Changed, New
  <2>4. Valid(cli'[p].before) /\ cli'[p].before[cli'[p].file] = dir[c.file]
    BY <2>1, <2>2
  <2> QED
    BY <1>1, <2>1, <2>2, <2>3, <2>4 DEF Knows, Changed, New
<1>10. CASE Exit(p)
  BY <1>1, <1>10 DEF Exit
<1>11. ASSUME NEW pc, c # None, Enter(p, pc)
       PROVE  /\ c \in Command /\ cli'[p].pc = pc
              /\ cli'[p].file = c.file /\ cli'[p].op = c.op /\ cli'[p].id = c.id
              /\ cli'[p].rev = c.rev /\ cli'[p].old = c.old /\ cli'[p].before = c.before
  BY <1>1, <1>11 DEF Enter, Command
<1>12. CASE Succeed(p)
  <2>1. c.pc = "verify" /\ c # None /\ Enter(p, "done") /\ dir' = dir
    BY <1>12 DEF Succeed, At
  <2>2. Valid(dir)'
    <3>1. Valid(dir)
      BY <1>1, <1>4, <1>12, <2>1, ReadAll DEF Succeed, Knows
    <3> QED
      BY <2>1, <3>1 DEF Valid, Present
  <2> QED
    BY <1>4, <1>11, <2>1, <2>2 DEF Knows, Changed, New
<1>13. CASE Reject(p)
  <2>1. c.pc = "verify" /\ c # None /\ Enter(p, "undo") /\ dir' = dir
    BY <1>13 DEF Reject, At
  <2> QED
    BY <1>4, <1>11, <2>1 DEF Knows, Changed, New
<1>14. CASE Rollback(p)
  <2>1. /\ c.pc = "undo" /\ c # None /\ Enter(p, "restored") /\ c.op # "remove"
        /\ dir' = [dir EXCEPT ![c.file] = IF c.op = "add" THEN Absent ELSE c.old]
    BY <1>14 DEF Rollback, Put, At
  <2>2. /\ dir = Changed(c, c.before) /\ c.before \in Directory /\ Valid(c.before)
        /\ c.before[c.file] = (IF c.op = "add" THEN Absent ELSE c.old) /\ c.file \in Files
    BY <1>4, <2>1 DEF Knows
  <2>3. dir' = c.before
    BY <2>1, <2>2 DEF Changed, Directory
  <2> QED
    BY <1>11, <2>1, <2>2, <2>3 DEF Knows
<1>15. CASE Recreate(p)
  <2>1. /\ c.pc = "undo" /\ c # None /\ Enter(p, "rewrite") /\ c.op = "remove"
        /\ \E t \in Torn(c) : dir' = [dir EXCEPT ![c.file] = t]
    BY <1>15 DEF Recreate, Put, At
  <2>2. /\ dir = Changed(c, c.before) /\ c.before \in Directory /\ Valid(c.before)
        /\ c.before[c.file] = (IF c.op = "add" THEN Absent ELSE c.old) /\ c.file \in Files
    BY <1>4, <2>1 DEF Knows
  <2>3. \A f \in Files \ {c.file} : dir'[f] = c.before[f]
    BY <1>1, <2>1, <2>2 DEF Changed, Directory
  <2> QED
    BY <1>11, <2>1, <2>2, <2>3 DEF Knows
<1>16. CASE Rewrite(p)
  <2>1. /\ c.pc = "rewrite" /\ c # None /\ Enter(p, "restored")
        /\ dir' = [dir EXCEPT ![c.file] = c.old]
    BY <1>16 DEF Rewrite, Put, At
  <2>2. /\ c.before \in Directory /\ Valid(c.before) /\ c.file \in Files
        /\ c.before[c.file] = (IF c.op = "add" THEN Absent ELSE c.old)
        /\ \A f \in Files \ {c.file} : dir[f] = c.before[f]
        /\ c.op # "add"
    BY <1>4, <2>1 DEF Knows
  <2>3. dir' = c.before
    BY <1>1, <2>1, <2>2 DEF Directory
  <2>4. c.before \in Directory /\ Valid(c.before) /\ c.file \in Files /\ c # None
    BY <2>1, <2>2
  <2>5. /\ cli'[p].pc = "restored" /\ cli'[p].file = c.file /\ cli'[p].before = c.before
    BY <1>11, <2>1
  <2> QED
    BY <2>3, <2>4, <2>5 DEF Knows
<1>17. CASE RollbackFails(p)
  <2>1. /\ c.pc \in {"undo", "rewrite"} /\ c # None /\ Enter(p, "unrestored")
        /\ \/ dir' = dir
           \/ c.op # "add" /\ \E t \in Torn(c) : dir' = [dir EXCEPT ![c.file] = t]
    BY <1>17 DEF RollbackFails, Put, At
  <2>2. /\ c.before \in Directory /\ Valid(c.before) /\ c.file \in Files
        /\ c.op = "add" => dir = Changed(c, c.before)
    BY <1>4, <2>1 DEF Knows
  <2>3. \A f \in Files \ {c.file} : dir[f] = c.before[f]
    BY <1>4, <2>1, <2>2 DEF Knows, Changed, Directory
  <2>4. \A f \in Files \ {c.file} : dir'[f] = c.before[f]
    BY <1>1, <2>1, <2>3 DEF Directory
  <2>5. c.op = "add" => dir' = Changed(c, c.before)
    BY <2>1, <2>2
  <2> QED
    BY <1>11, <2>1, <2>2, <2>4, <2>5 DEF Knows, Changed, New
<1> QED
  BY <1>5, <1>6, <1>7, <1>8, <1>9, <1>10, <1>12, <1>13, <1>14, <1>15, <1>16, <1>17
  DEF CommandStep, PrepareFails, ChangeFails, Return

(* A command that enters its next step is not over. *)
LEMMA EnterGoesOn ==
  ASSUME NEW p \in Procs, cli[p] \in Command, cli \in [Procs -> Command \union {None}],
         NEW pc \in {"done", "undo", "restored", "rewrite", "unrestored"}, Enter(p, pc)
  PROVE  cli'[p] # None
<1>1. [cli[p] EXCEPT !.pc = pc] \in Command
  BY DEF Command
<1> QED
  BY <1>1, CommandAssumption DEF Enter

LEMMA ListGoesOn ==
  ASSUME TypeOKDir, NEW p \in Procs, List(p, "check", "verify")
  PROVE  cli'[p] # None
<1> DEFINE c == cli[p]
<1>1. c \in Command /\ Present(dir) \in SUBSET Files
  BY DEF TypeOKDir, List, At, Present
<1>2. [[c EXCEPT !.pc = "verify"] EXCEPT !.names = Present(dir)] \in Command
  BY <1>1 DEF Command
<1>3. cli'[p] = [[c EXCEPT !.pc = "verify"] EXCEPT !.names = Present(dir)]
  BY DEF TypeOKDir, List
<1> QED
  BY <1>2, <1>3, CommandAssumption

(* A step of the system, of which the only command may be a part. *)
LEMMA CommandsAlone ==
  ASSUME OneProcess, CommandInv, [Next]_vars
  PROVE  CommandInv' /\ \A p \in Procs : EndsValid(p) /\ EndsAtomic(p)
<1>1. CASE Commands
  <2> PICK p \in Procs :
        \/ (\E op \in Ops, id \in DeviceIds, rev \in Revs : Run(p, op, id, rev)) \/ CommandStep(p)
        \/ Kill(p)
    BY <1>1 DEF Commands, NextCommand
  <2>1. \A q \in Procs : q = p
    BY DEF OneProcess
  <2>2. CASE cli[p] # None /\ Exit(p) /\ UNCHANGED dir
    <3>1. CommandInv'
      BY <2>1, <2>2 DEF CommandInv, TypeOKDir, Exit
    <3> QED
      BY <2>1, <2>2, <3>1, CommandEnds
  <2>3. CASE ~(cli[p] # None /\ Exit(p) /\ UNCHANGED dir)
    <3>1. (\E op \in Ops, id \in DeviceIds, rev \in Revs : Run(p, op, id, rev)) \/ CommandStep(p)
      BY <2>3 DEF Kill
    <3>2. CommandInv'
      BY <3>1, CommandGoesOn
    <3>3. Over(p) => FALSE
      <4> SUFFICES ASSUME cli[p] # None, cli[p].before # None, cli'[p] = None
                   PROVE  FALSE
        BY DEF Over
      <4>1. cli[p] \in Command /\ cli \in [Procs -> Command \union {None}] /\ Knows(cli[p])
        BY DEF CommandInv, TypeOKDir
      <4>2. cli[p].pc \notin {"load", "read", "change"}
        BY <4>1 DEF Knows
      <4>3. CASE \/ Succeed(p) \/ Reject(p) \/ Rollback(p)
                 \/ Recreate(p) \/ Rewrite(p) \/ RollbackFails(p)
        BY <4>1, <4>3, EnterGoesOn DEF Succeed, Reject, Rollback, Recreate, Rewrite, RollbackFails
      <4>4. CASE List(p, "check", "verify")
        BY <4>4, ListGoesOn DEF CommandInv
      <4> QED
        BY <2>3, <3>1, <4>2, <4>3, <4>4
        DEF CommandStep, Run, List, Prepare, PrepareFails, Change, ChangeFails, Return, At
    <3> QED
      BY <2>1, <3>2, <3>3 DEF EndsValid, EndsAtomic
  <2> QED
    BY <2>2, <2>3
<1>2. CASE HandEdit
  <2>1. CommandInv'
    BY <1>2 DEF HandEdit, CommandInv, TypeOKDir, Directory
  <2> QED
    BY <1>2, <2>1 DEF HandEdit, EndsValid, EndsAtomic, Over
<1>3. CASE UNCHANGED <<dir, cli>>
  <2>1. CommandInv'
    BY <1>3 DEF CommandInv, TypeOKDir, Directory, Knows, Changed, New, Valid, Present, Content,
       Command
  <2> QED
    BY <1>3, <2>1 DEF EndsValid, EndsAtomic, Over
<1> QED
  BY <1>1, <1>2, <1>3 DEF Next, Agent, Watcher, vars, Start, ListDevices, Load, StartWatcher,
     CycleDone, OnTicker, OnChange, OnHangup, Reload, TakeEvent, TimerFires, Exited, SendHangup

LEMMA CommandInvariant == OneProcess /\ Spec => [](OneProcess /\ CommandInv)
<1>1. OneProcess /\ Init => CommandInv
  BY DEF Init, InitDir, CommandInv, TypeOKDir
<1>2. OneProcess /\ CommandInv /\ [Next]_vars => CommandInv'
  BY CommandsAlone
<1>3. OneProcess => OneProcess'
  BY DEF OneProcess
<1> QED
  BY <1>1, <1>2, <1>3, PTL DEF Spec

(* One command at a time, any operation of which may fail: when it ends with its change
   verified or taken back, the agent can load the directory: device.go:286-303. *)
THEOREM CommandsLeaveValid == OneProcess /\ Spec => CommandLeavesValid
<1>1. OneProcess /\ CommandInv /\ [Next]_vars =>
        [\A p \in Procs : /\ Over(p) /\ cli[p].pc \in {"done", "restored"}
                          /\ \A q \in Procs : cli'[q] = None
                          => Valid(dir')]_<<dir, cli>>
  BY CommandsAlone DEF EndsValid
<1> QED
  BY <1>1, CommandInvariant, PTL DEF Spec, CommandLeavesValid

(* One command at a time, which may be killed at any moment and any operation of which
   may fail: it makes its own change and no other, or none, and its file never holds
   anything else unless a rollback fails or that of a removal is cut short:
   device.go:286-303, 681-700, 750-760. *)
THEOREM CommandsAreAtomic == OneProcess /\ Spec => CommandIsAtomic
<1>1. OneProcess /\ CommandInv /\ [Next]_vars =>
        [\A p \in Procs : EndsAtomic(p)]_<<dir, cli>>
  BY CommandsAlone
<1> QED
  BY <1>1, CommandInvariant, PTL DEF Spec, CommandIsAtomic, EndsAtomic
=============================================================================
