------------------------------- MODULE ChatOs -------------------------------
(***************************************************************************)
(* The system of cpu.py around its machine: the persistent disk, boot()    *)
(* and the commands of shell() that change something.                      *)
(*                                                                         *)
(* The disk outlives the Python runtime, which may be reset at any await;  *)
(* the machine does not.  While a program runs nothing else does: run()    *)
(* does not await.                                                         *)
(***************************************************************************)
EXTENDS ChatCpu

CONSTANTS
  DemoPath,  \* "/programs/demo.asm"
  DEMO,      \* the lines of the demo program
  Random,    \* what the random port returns
  Kits       \* what may happen in a session: the paths and texts (sequences of
             \* lines) of the files, the code points of the keys, and bounds on
             \* the commands, on how many of them may have come before a text is
             \* written, and on the resets of the runtime

\* A text is a sequence of lines, a line of tokens.
SourceText == Seq(Seq(STRING))

\* What ports return are bytes.
ASSUME SessionsAssumption ==
  /\ DEMO \in SourceText
  /\ \A k \in DOMAIN Kits : Kits[k].texts \subseteq SourceText /\ Kits[k].keys \subseteq Byte
  /\ Random \subseteq Byte

VARIABLES
  kit,
  disk,      \* path -> lines
  cpu,
  source,    \* the lines the program in ROM was assembled from
  task,      \* what the runtime is doing
  listed,    \* the files that "clear" has still to delete
  commands,
  restarts

osVars == <<kit, disk, cpu, source, task, listed, commands, restarts>>

OsInit ==
  /\ kit \in DOMAIN Kits
  /\ disk = <<>> /\ cpu = PowerOn /\ source = <<>>
  /\ task = "boot" /\ listed = {} /\ commands = 0 /\ restarts = 0

write_file(path, text) == disk' = With(disk, path, text)
delete_file(path) == disk' = [p \in DOMAIN disk \ {path} |-> disk[p]]

-----------------------------------------------------------------------------
(***************************************************************************)
(* boot(): the demo is put on the disk unless a file of that name is       *)
(* there, and is run.                                                      *)
(***************************************************************************)
BootExists ==
  /\ task = "boot"
  /\ task' = IF DemoPath \in DOMAIN disk THEN "demo" ELSE "install"
  /\ UNCHANGED <<kit, disk, cpu, source, listed, commands, restarts>>

BootInstall ==
  /\ task = "install" /\ task' = "demo"
  /\ write_file(DemoPath, DEMO)
  /\ UNCHANGED <<kit, cpu, source, listed, commands, restarts>>

\* Loads a program and starts it; one that is too long ends the command.
Started(loaded) ==
  IF loaded.raised THEN cpu' = loaded /\ task' = "idle"
  ELSE cpu' = [loaded EXCEPT !.running = TRUE] /\ task' = "run"

Start(text, program) ==
  /\ program # Error
  /\ Started(load(cpu, program))
  /\ source' = text

BootDemo ==
  /\ task = "demo" /\ Start(DEMO, assemble(DEMO))
  /\ UNCHANGED <<kit, disk, listed, commands, restarts>>

RunTurn(random) ==
  /\ task = "run"
  /\ cpu' = Turn(cpu, random)
  /\ task' = IF cpu'.running /\ ~cpu'.raised THEN "run" ELSE "idle"
  /\ UNCHANGED <<kit, disk, source, listed, commands, restarts>>

-----------------------------------------------------------------------------
(***************************************************************************)
(* shell().                                                                *)
(***************************************************************************)
Command ==
  /\ task = "idle" /\ commands < Kits[kit].commands
  /\ commands' = commands + 1
  /\ UNCHANGED <<kit, restarts>>

WriteCommand ==
  /\ Command /\ commands <= Kits[kit].before
  /\ \E path \in Kits[kit].paths, text \in Kits[kit].texts : write_file(path, text)
  /\ UNCHANGED <<cpu, source, task, listed>>

TouchCommand ==
  /\ Command
  /\ \E path \in Kits[kit].paths : write_file(path, <<>>)
  /\ UNCHANGED <<cpu, source, task, listed>>

RmCommand ==
  /\ Command
  /\ \E path \in Kits[kit].paths : delete_file(path)
  /\ UNCHANGED <<cpu, source, task, listed>>

\* Without such a file, or if it does not assemble, the machine is not touched.
RunCommand ==
  /\ Command
  /\ \E path \in DOMAIN disk : Start(disk[path], assemble(disk[path]))
  /\ UNCHANGED <<disk, listed>>

ResetCommand ==
  /\ Command
  /\ cpu' = PowerOn /\ source' = <<>>
  /\ UNCHANGED <<disk, task, listed>>

ClsCommand ==
  /\ Command
  /\ cpu' = [cpu EXCEPT !.screen = <<>>]
  /\ UNCHANGED <<disk, source, task, listed>>

KeyCommand ==
  /\ Command
  /\ \E key \in Kits[kit].keys : cpu' = [cpu EXCEPT !.keys = Append(@, key)]
  /\ UNCHANGED <<disk, source, task, listed>>

\* The files are listed once and deleted one by one.
ClearCommand ==
  /\ Command
  /\ task' = "clear" /\ listed' = DOMAIN disk
  /\ UNCHANGED <<disk, cpu, source>>

ClearOne ==
  /\ task = "clear" /\ listed # {}
  /\ \E path \in listed : delete_file(path) /\ listed' = listed \ {path}
  /\ UNCHANGED <<kit, cpu, source, task, commands, restarts>>

ClearEnds ==
  /\ task = "clear" /\ listed = {} /\ task' = "idle"
  /\ UNCHANGED <<kit, disk, cpu, source, listed, commands, restarts>>

\* The runtime is reset: cpu.py is executed again, which boots.
Restart ==
  /\ restarts < Kits[kit].restarts /\ restarts' = restarts + 1
  /\ cpu' = PowerOn /\ source' = <<>> /\ task' = "boot" /\ listed' = {}
  /\ UNCHANGED <<kit, disk, commands>>

\* Everything but the turns of run().
Boots == BootExists \/ BootInstall \/ BootDemo
Commands ==
  \/ WriteCommand \/ TouchCommand \/ RmCommand \/ RunCommand
  \/ ResetCommand \/ ClsCommand \/ KeyCommand
  \/ ClearCommand \/ ClearOne \/ ClearEnds
=============================================================================
