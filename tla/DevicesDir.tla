----------------------------- MODULE DevicesDir -----------------------------
(***************************************************************************)
(* The directory devices.d of an agent and the commands `nms-agentctl      *)
(* device add`, `update` and `remove` of cmd/nms-agentctl/device.go, each a*)
(* process of its own.  A command                                          *)
(*                                                                         *)
(*    loads and validates the whole configuration -> changes one file ->   *)
(*       loads and validates again -> reports success, or rolls back       *)
(*                                                                         *)
(* Any operation on a file may fail, those of a rollback without notice,   *)
(* and the command may be killed at any moment.                            *)
(*                                                                         *)
(* Nothing locks the directory.  Loading it (loadDevicesDir of             *)
(* internal/config/loader.go) lists the names and then opens the files, so *)
(* it fails when a file disappears in between and misses one that appears. *)
(*                                                                         *)
(* A device file is its id and a revision standing for its other fields;   *)
(* the revisions in BadRevs do not validate.                               *)
(***************************************************************************)
EXTENDS FiniteSets

CONSTANTS
  Files,      \* names of the device files
  DeviceIds,
  FileOf,     \* the file `device add` writes for an id: <id>.yml
  Revs, BadRevs,
  Absent, None,
  Procs,      \* commands that may run at the same time
  Faults      \* what may go wrong: "io", operations on files; "kill", the process

ASSUME DevicesDirAssumption ==
  /\ FileOf \in [DeviceIds -> Files]
  /\ BadRevs \subseteq Revs
  /\ Faults \subseteq {"io", "kill"}
  /\ None \notin [Files -> [id : DeviceIds, rev : Revs] \union {Absent}]

VARIABLES
  dir,   \* the content of each file
  cli    \* the commands: where each is, and what it holds

Content    == [id : DeviceIds, rev : Revs]
Directory  == [Files -> Content \union {Absent}]
Ops        == {"add", "update", "remove"}
Present(d) == {f \in Files : d[f] # Absent}

(* Validate: every device is well formed and no id occurs twice. *)
Valid(d) ==
  /\ \A f \in Present(d) : d[f].rev \notin BadRevs
  /\ \A f, g \in Present(d) : d[f].id = d[g].id => f = g

(* The files with these names, read one after another, all still there. *)
Read(names)     == [f \in Files |-> IF f \in names THEN dir[f] ELSE Absent]
Loadable(names) == names \subseteq Present(dir) /\ Valid(Read(names))

Command == [pc : {"load", "read", "change", "check", "verify", "undo", "rewrite",
                  "done", "restored", "unrestored"},
            op : Ops, id : DeviceIds,
            rev : Revs, names : SUBSET Files, file : Files \union {None},
            old : Content \union {Absent}, before : Directory \union {None}]

ASSUME CommandAssumption == None \notin Command

InitDir ==
  /\ dir \in Directory /\ Valid(dir)
  /\ cli = [p \in Procs |-> None]
-----------------------------------------------------------------------------
At(p, pc)       == cli[p] # None /\ cli[p].pc = pc
Enter(p, pc)    == cli' = [cli EXCEPT ![p].pc = pc]
Exit(p)         == cli' = [cli EXCEPT ![p] = None]
Put(c, content) == dir' = [dir EXCEPT ![c.file] = content]
FilesMayFail    == "io" \in Faults

Run(p, op, id, rev) ==
  /\ cli[p] = None
  /\ cli' = [cli EXCEPT ![p] =
       [pc |-> "load", op |-> op, id |-> id, rev |-> rev, names |-> {},
        file |-> None, old |-> Absent, before |-> None]]
  /\ UNCHANGED dir

List(p, pc, next) ==
  /\ At(p, pc)
  /\ cli' = [cli EXCEPT ![p].pc = next, ![p].names = Present(dir)]
  /\ UNCHANGED dir

(* add looks for the id and its file; update and remove find the file of the
   id (findDeviceFileByID) and keep its bytes for a rollback. *)
Targets(p) ==
  LET c == cli[p]
  IN  IF c.op = "add"
        THEN {f \in {FileOf[c.id]} : /\ dir[f] = Absent
                                     /\ \A g \in c.names : dir[g].id # c.id}
        ELSE {f \in Present(dir) : dir[f].id = c.id}

Prepare(p) ==
  /\ At(p, "read") /\ Loadable(cli[p].names) /\ Targets(p) # {}
  /\ LET f == CHOOSE f \in Targets(p) : TRUE
     IN  cli' = [cli EXCEPT ![p].pc = "change", ![p].file = f, ![p].old = dir[f]]
  /\ UNCHANGED dir

PrepareFails(p) ==
  /\ At(p, "read")
  /\ FilesMayFail \/ ~(Loadable(cli[p].names) /\ Targets(p) # {})
  /\ Exit(p)
  /\ UNCHANGED dir

(* The content of the file after the change of command c. *)
New(c) == IF c.op = "remove" THEN Absent ELSE [id |-> c.id, rev |-> c.rev]

(* A rename onto the file, or its removal. *)
Change(p) ==
  /\ At(p, "change")
  /\ cli[p].op = "remove" => dir[cli[p].file] # Absent
  /\ Put(cli[p], New(cli[p]))
  /\ cli' = [cli EXCEPT ![p].pc = "check", ![p].before = dir]

(* The temporary file is not written or not renamed, or the removal fails, as
   that of a file that is gone does. *)
ChangeFails(p) ==
  /\ At(p, "change")
  /\ FilesMayFail \/ (cli[p].op = "remove" /\ dir[cli[p].file] = Absent)
  /\ Exit(p)
  /\ UNCHANGED dir

(* Mutant of Succeed: the command returns before it validates again. *)
Succeed_Unverified(p) == At(p, "check") /\ Enter(p, "done") /\ UNCHANGED dir

Succeed(p) ==
  /\ At(p, "verify") /\ Loadable(cli[p].names)
  /\ Enter(p, "done")
  /\ UNCHANGED dir

Reject(p) ==
  /\ At(p, "verify")
  /\ FilesMayFail \/ ~Loadable(cli[p].names)
  /\ Enter(p, "undo")
  /\ UNCHANGED dir

(* Mutant of Rollback: an update is not undone. *)
Rollback_AddOnly(p) ==
  /\ At(p, "undo") /\ cli[p].op # "remove"
  /\ IF cli[p].op = "add" THEN Put(cli[p], Absent) ELSE UNCHANGED dir
  /\ Enter(p, "restored")

(* add removes its file; update renames a copy of the old bytes onto it. *)
Rollback(p) ==
  /\ At(p, "undo") /\ cli[p].op # "remove"
  /\ Put(cli[p], IF cli[p].op = "add" THEN Absent ELSE cli[p].old)
  /\ Enter(p, "restored")

(* remove writes the old bytes into a new file under the old name: until it has
   done so the file holds the first of them, and may load as another revision. *)
Torn(c) == {[id |-> c.id, rev |-> r] : r \in Revs}

Recreate(p) ==
  /\ At(p, "undo") /\ cli[p].op = "remove"
  /\ \E t \in Torn(cli[p]) : Put(cli[p], t)
  /\ Enter(p, "rewrite")

Rewrite(p) ==
  /\ At(p, "rewrite")
  /\ Put(cli[p], cli[p].old)
  /\ Enter(p, "restored")

(* The errors of a rollback are ignored.  update renames its copy onto the file
   even if only the first of the bytes could be written to it. *)
RollbackFails(p) ==
  /\ At(p, "undo") \/ At(p, "rewrite")
  /\ FilesMayFail
  /\ \/ UNCHANGED dir
     \/ /\ cli[p].op = "update"
        /\ \E t \in Torn(cli[p]) : Put(cli[p], t)
  /\ Enter(p, "unrestored")

Ended == {"done", "restored", "unrestored"}

Return(p) ==
  /\ cli[p] # None /\ cli[p].pc \in Ended
  /\ Exit(p)
  /\ UNCHANGED dir

(* Ctrl-C, or the end of the machine. *)
Kill(p) ==
  /\ "kill" \in Faults
  /\ cli[p] # None
  /\ Exit(p)
  /\ UNCHANGED dir

CommandStep(p) ==
  \/ List(p, "load", "read") \/ Prepare(p) \/ PrepareFails(p)
  \/ Change(p) \/ ChangeFails(p)
  \/ List(p, "check", "verify") \/ Succeed(p) \/ Reject(p)
  \/ Rollback(p) \/ Recreate(p) \/ Rewrite(p) \/ RollbackFails(p)
  \/ Return(p)

NextCommand ==
  \E p \in Procs :
    \/ \E op \in Ops, id \in DeviceIds, rev \in Revs : Run(p, op, id, rev)
    \/ CommandStep(p)
    \/ Kill(p)
-----------------------------------------------------------------------------
TypeOKDir ==
  /\ dir \in Directory
  /\ cli \in [Procs -> Command \union {None}]

(* Command p has changed a file, and is over after this step, killed or not. *)
Over(p) == cli[p] # None /\ cli[p].before # None /\ cli'[p] = None

(* "Re-validate full config after write to ensure loader can read it"
   (device.go:298): when the last command running ends with its change verified
   or taken back, the directory is one the agent can load.  Excepted are the
   commands that are killed and those whose rollback fails. *)
CommandLeavesValid ==
  [][\A p \in Procs : /\ Over(p) /\ cli[p].pc \in {"done", "restored"}
                      /\ \A q \in Procs : cli'[q] = None
                      => Valid(dir')]_<<dir, cli>>

(* "validasi + atomic write/rollback" (docs/KNOWLEDGE.md:45): however a command
   ends, killed at any moment or with any operation failing, the files of other
   devices are as it found them; its own is too after a rollback that worked, is
   the new one after a success, and is one of the two in every other case but
   one: while remove rewrites a file, or if a rollback fails, it may hold a part
   of the old one (device.go:286-303, 681-700, 750-760). *)
CommandIsAtomic ==
  [][\A p \in Procs : Over(p) =>
        LET c   == cli[p]
            was == c.before[c.file]
            is  == dir'[c.file]
        IN  /\ \A f \in Files \ {c.file} : dir'[f] = c.before[f]
            /\ c.pc = "restored" => is = was
            /\ c.pc = "done" => is = New(c)
            /\ \/ is \in {was, New(c)}
               \/ c.op # "add" /\ c.pc \in {"rewrite", "unrestored"}
     ]_<<dir, cli>>
=============================================================================
