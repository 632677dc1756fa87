------------------------------ MODULE Snapshot ------------------------------
(***************************************************************************)
(* The transcript as a disk, trapcpu/snapshot.py: dump() writes a machine  *)
(* into a conversation as a frame of text lines, the conversation forgets  *)
(* lines and mangles sectors, and mount() rebuilds a machine from what is  *)
(* left of it.                                                             *)
(*                                                                         *)
(* A line is known by its kind and its value.  A prompt is the lines that  *)
(* splitlines() finds in it, and whether newlines alone end them or some   *)
(* line ends in another separator (a form feed, a lone carriage return).   *)
(* A checksum is the text it was computed over, so it detects every        *)
(* change.  Registers, counters, name and latched descriptor are one value *)
(* (used); IRQ stands for the whole interrupt line of the frame.           *)
(***************************************************************************)
EXTENDS Naturals, Sequences, SequencesExt, FiniteSetsExt, Lists

CONSTANTS
  Sector,     \* the addresses of the 32-byte sectors: natural numbers
  Image,      \* memories: [rom, ram : [Sector -> 0 .. 2], exec : BOOLEAN]
  Prompt,     \* prompts: [lines : Seq(Kind), ends : Ends]
  MaxDumps,   \* bound on the frames in the transcript
  MaxDamage,  \* bound on the lines the conversation forgets or mangles
  None        \* no request, no map, nothing mounted

Content == 0 .. 2   \* of a sector; 0 is all zeros
Garbage == 3        \* what mangling leaves of it
\* Lines as the parser tells them apart; TEXT is any other.
Kind == {"BEGIN", "GEN", "STATE", "REGS", "ORACLE", "IRQ", "EXECMAP", "PENDING",
         "PROMPT_OPEN", "PROMPT_CLOSE", "APENDING", "APROMPT_OPEN", "APROMPT_CLOSE",
         "ROMMAP", "RAMMAP", "ROM_OPEN", "ROM_CLOSE", "RAM_OPEN", "RAM_CLOSE",
         "SECTOR", "ROTTED", "SNAPCRC", "END", "TEXT"}
Ends == {"newline", "other"}
Request == [channel : {"SYNC", "ASYNC"}, prompt : Prompt]

ASSUME ImageAssumption ==
  /\ Sector \subseteq Nat \ {0} /\ IsFiniteSet(Sector)
  /\ Image \subseteq [rom : [Sector -> Content], ram : [Sector -> Content], exec : BOOLEAN]

ASSUME PromptAssumption == Prompt \subseteq [lines : Seq(Kind), ends : Ends]

ASSUME BoundsAssumption == MaxDumps \in Nat /\ MaxDamage \in Nat

ASSUME NoneAssumption ==
  /\ None \notin [channel : {"SYNC", "ASYNC"}, prompt : [lines : Seq(Kind), ends : Ends]]
  /\ \A map \in SUBSET Sector : map # None

\* The machine has one request slot, under one name or, when it is parked at
\* WFI, under two; an undelivered interrupt keeps the slot (TrapMachine's
\* SingleChannel).
OneSlot(d) ==
  /\ d.state = "TRAPPED" <=> d.pending # None
  /\ d.async_pending # None =>
       d.async_pending.channel = "ASYNC" /\ d.pending \in {None, d.async_pending}
  /\ d.pending # None /\ d.pending.channel = "ASYNC" => d.async_pending # None
  /\ d.irq = 1 => d.pending = None /\ d.async_pending = None

\* Machines as the host holds them between two calls.
Device ==
  {d \in [state : {"READY", "RUNNING", "TRAPPED", "HALTED", "FAULT"},
          pending : Request \cup {None}, async_pending : Request \cup {None},
          irq : {0, 1}, used : {1}, memory : Image] :
     /\ OneSlot(d)
     /\ d.state = "READY" => d.async_pending = None /\ d.irq = 0}

VARIABLES
  device,      \* the running machine
  generation,  \* Machine.generation
  transcript,  \* the lines of the conversation that belong to frames
  dumps,       \* history: the machines dumped, in order
  damaged,     \* history: the dumps whose frame lost or mangled a line
  losses,      \* history: how many lines were lost or mangled
  mounted      \* what the last step mounted and reported, or None

vars == <<device, generation, transcript, dumps, damaged, losses, mounted>>

-----------------------------------------------------------------------------
(***************************************************************************)
(* dump().                                                                 *)
(***************************************************************************)
If(b, lines) == IF b THEN lines ELSE <<>>

\* Only sectors that are not all zeros are written, and mapped.
Written(memory) == {a \in Sector : memory[a] # 0}

\* The sectors in the order of their addresses.
SectorLines(memory) ==
  LET addresses == Ascending(Written(memory))
  IN [i \in DOMAIN addresses |->
        <<"SECTOR", [address |-> addresses[i], content |-> memory[addresses[i]]]>>]

HeaderLines(d, gen) ==
  <<<<"GEN", gen>>, <<"STATE", d.state>>, <<"REGS", None>>,
    <<"ORACLE", d.used>>, <<"IRQ", d.irq>>>>
  \o If(d.memory.exec, <<<<"EXECMAP", TRUE>>>>)

PromptLines(open, prompt, close) ==
  <<<<open, None>>>> \o [i \in DOMAIN prompt.lines |-> <<prompt.lines[i], None>>]
    \o <<<<close, None>>>>

RequestLines(d) ==
  If(d.pending # None,
     <<<<"PENDING", d.pending>>>>
     \o PromptLines("PROMPT_OPEN", d.pending.prompt, "PROMPT_CLOSE"))
  \o If(d.async_pending # None /\ d.async_pending # d.pending,
        <<<<"APENDING", d.async_pending>>>>
        \o PromptLines("APROMPT_OPEN", d.async_pending.prompt, "APROMPT_CLOSE"))

MemoryLines(open, memory, close) ==
  <<<<open, None>>>> \o SectorLines(memory) \o <<<<close, None>>>>

Body(d, gen) ==
  HeaderLines(d, gen) \o RequestLines(d)
  \o <<<<"ROMMAP", Written(d.memory.rom)>>, <<"RAMMAP", Written(d.memory.ram)>>>>
  \o MemoryLines("ROM_OPEN", d.memory.rom, "ROM_CLOSE")
  \o MemoryLines("RAM_OPEN", d.memory.ram, "RAM_CLOSE")

\* Lines remember which dump wrote them and where: that is their text.
Text(line) == <<line.of, line.at, line.kind>>

\* What ends the lines of a frame: the prompts are copied into it as they are.
LineEnds(d) ==
  {"newline"} \cup {r.prompt.ends : r \in {d.pending, d.async_pending} \ {None}}

Crc(lines, ends) == [lines |-> lines, ends |-> ends]

Frame(d, gen, n) ==
  LET stamp(s) == [i \in DOMAIN s |->
                     [kind |-> s[i][1], value |-> s[i][2], of |-> n, at |-> i]]
      body == stamp(Body(d, gen))
      crc == Crc([i \in DOMAIN body |-> Text(body[i])], LineEnds(d))
      line(kind, value) == [kind |-> kind, value |-> value, of |-> n, at |-> 0]
  IN <<line("BEGIN", None)>> \o body \o <<line("SNAPCRC", crc), line("END", None)>>

-----------------------------------------------------------------------------
(***************************************************************************)
(* find_snapshots() and _parse_snapshot().                                 *)
(***************************************************************************)
Blank == [a \in Sector |-> 0]

ParsedSnapshot ==
  [gen |-> 0, state |-> "READY", regs |-> 0, used |-> 0, irq |-> 0,
   exec |-> FALSE, pending |-> None, prompt |-> <<>>, apending |-> None,
   aprompt |-> <<>>, rom |-> Blank, ram |-> Blank, rommap |-> None,
   rammap |-> None, bad |-> {}, crc |-> {}, canonical |-> <<>>,
   mode |-> "lines", section |-> "none", terminated |-> FALSE]

\* The sector's own checksum verifies.  Seeded fault: nobody looks at it.
VerifiedAnyway(line) == line.kind \in {"SECTOR", "ROTTED"}

Verified(line) == line.kind = "SECTOR"

\* Inside a section every line is a sector; one that is not even that is an
\* unreadable sector at address 0.
ReadSector(snap, line) ==
  LET address == IF line.kind \in {"SECTOR", "ROTTED"} THEN line.value.address ELSE 0
  IN IF Verified(line)
     THEN [snap EXCEPT ![snap.section][address] = line.value.content]
     ELSE [snap EXCEPT !.bad = @ \cup {<<snap.section, address>>}]

ReadHeader(snap, line) ==
  CASE line.kind = "GEN" -> [snap EXCEPT !.gen = line.value]
    [] line.kind = "STATE" -> [snap EXCEPT !.state = line.value]
    [] line.kind = "REGS" -> [snap EXCEPT !.regs = line.of]
    [] line.kind = "ORACLE" -> [snap EXCEPT !.used = line.value]
    [] line.kind = "IRQ" -> [snap EXCEPT !.irq = line.value]
    [] line.kind = "EXECMAP" -> [snap EXCEPT !.exec = line.value]
    [] line.kind = "PENDING" -> [snap EXCEPT !.pending = line.value]
    [] line.kind = "APENDING" -> [snap EXCEPT !.apending = line.value]
    [] line.kind = "ROMMAP" -> [snap EXCEPT !.rommap = line.value]
    [] line.kind = "RAMMAP" -> [snap EXCEPT !.rammap = line.value]
    [] OTHER -> snap

\* mode: inside which prompt; section: inside which memory.
ReadLine(snap, line) ==
  LET read == [snap EXCEPT !.canonical = Append(@, Text(line))]
      closer == IF snap.mode = "prompt" THEN "PROMPT_CLOSE" ELSE "APROMPT_CLOSE"
  IN IF snap.mode # "lines"
     THEN IF line.kind = closer
          THEN [read EXCEPT !.mode = "lines"]
          ELSE [read EXCEPT ![snap.mode] = Append(@, line.kind)]
     ELSE CASE line.kind = "PROMPT_OPEN" ->
                 [read EXCEPT !.mode = "prompt", !.prompt = <<>>]
            [] line.kind = "APROMPT_OPEN" ->
                 [read EXCEPT !.mode = "aprompt", !.aprompt = <<>>]
            [] line.kind = "ROM_OPEN" -> [read EXCEPT !.section = "rom"]
            [] line.kind = "RAM_OPEN" -> [read EXCEPT !.section = "ram"]
            [] line.kind \in {"ROM_CLOSE", "RAM_CLOSE"} ->
                 [read EXCEPT !.section = "none"]
            [] OTHER ->
                 IF snap.section # "none" THEN ReadSector(read, line)
                 ELSE IF line.kind = "SNAPCRC" THEN [snap EXCEPT !.crc = {line.value}]
                 ELSE ReadHeader(read, line)

\* The snapshot after each line of a frame's body.
Parsed(body) ==
  LET parsed[i \in 0 .. Len(body)] ==
        IF i = 0 THEN ParsedSnapshot ELSE ReadLine(parsed[i - 1], body[i])
  IN parsed

\* A frame runs from its BEGIN to the next END or BEGIN, or to the end.
ParseFrom(begin) ==
  LET stops == {i \in begin + 1 .. Len(transcript) :
                  transcript[i].kind \in {"BEGIN", "END"}}
      stop == Min(stops \cup {Len(transcript) + 1})
      body == SubSeq(transcript, begin + 1, stop - 1)
  IN [Parsed(body)[Len(body)] EXCEPT
        !.terminated = stop \in stops /\ transcript[stop].kind = "END"]

-----------------------------------------------------------------------------
(***************************************************************************)
(* select() and mount().                                                   *)
(***************************************************************************)
\* The frames, by the line where they begin.
Frames ==
  [i \in {k \in DOMAIN transcript : transcript[k].kind = "BEGIN"} |-> ParseFrom(i)]

Candidates(frames) ==
  {i \in DOMAIN frames : frames[i].terminated /\ frames[i].regs # 0}

\* The highest generation, the latest on a tie.  Seeded fault: the earliest.
SelectFirst(frames) ==
  CHOOSE i \in Candidates(frames) : \A j \in Candidates(frames) :
    \/ frames[j].gen < frames[i].gen
    \/ frames[j].gen = frames[i].gen /\ j >= i

Select(frames) ==
  CHOOSE i \in Candidates(frames) : \A j \in Candidates(frames) :
    \/ frames[j].gen < frames[i].gen
    \/ frames[j].gen = frames[i].gen /\ j <= i

\* Sectors a map promises that are neither restored nor bad.  Seeded fault:
\* maps are not consulted.
MissingSectorsUnmapped(snap) == {}

MissingSectors(snap) ==
  LET missing(space, map) ==
        IF map = None THEN {}
        ELSE {s \in {space} \X map : snap[space][s[2]] = 0 /\ s \notin snap.bad}
  IN missing("rom", snap.rommap) \cup missing("ram", snap.rammap)

\* The lines of the prompt, joined with newlines whatever ended them.
Asked(request, lines) ==
  [channel |-> request.channel, prompt |-> [lines |-> lines, ends |-> "newline"]]

\* The request in flight; a parked machine has one request under two names.
\* Seeded fault: it comes back under one.
InFlightOneName(snap, pending) ==
  IF snap.apending = None THEN None ELSE Asked(snap.apending, snap.aprompt)

InFlight(snap, pending) ==
  IF snap.apending # None THEN Asked(snap.apending, snap.aprompt)
  ELSE IF pending # None /\ pending.channel = "ASYNC" THEN pending
  ELSE None

\* A snapshot that claims TRAPPED without a request is a faulted machine.
Restore(snap) ==
  LET suspended == snap.state = "TRAPPED" /\ snap.pending # None
      pending == IF suspended THEN Asked(snap.pending, snap.prompt) ELSE None
  IN [state |-> IF snap.state = "TRAPPED" /\ ~suspended THEN "FAULT" ELSE snap.state,
      pending |-> pending,
      async_pending |-> InFlight(snap, pending),
      irq |-> snap.irq, used |-> snap.used,
      memory |-> [rom |-> snap.rom, ram |-> snap.ram, exec |-> snap.exec]]

Report(snap) ==
  LET bad == snap.bad \cup MissingSectors(snap)
  IN [device |-> Restore(snap), of |-> snap.regs, bad |-> bad,
      mapped |-> (IF snap.rommap = None THEN {} ELSE {"rom"})
                 \cup (IF snap.rammap = None THEN {} ELSE {"ram"}),
      clean |-> bad = {} /\ snap.crc = {Crc(snap.canonical, {"newline"})}]

-----------------------------------------------------------------------------
Init ==
  /\ device \in Device
  /\ generation = 0
  /\ transcript = <<>> /\ dumps = <<>> /\ damaged = {}
  /\ losses = 0
  /\ mounted = None

\* The machine runs, or answers its host: it can be any other one.  (Once no
\* frame is left to write, what it becomes is not followed.)
Step ==
  /\ Len(dumps) < MaxDumps
  /\ device' \in Device
  /\ mounted' = None
  /\ UNCHANGED <<generation, transcript, dumps, damaged, losses>>

\* The frame gets the next generation; the machine keeps its own.
Dump ==
  /\ Len(dumps) < MaxDumps
  /\ transcript' = transcript \o Frame(device, generation + 1, Len(dumps) + 1)
  /\ dumps' = Append(dumps, device)
  /\ mounted' = None
  /\ UNCHANGED <<device, generation, damaged, losses>>

\* The conversation loses a line...
Evict(i) ==
  /\ losses < MaxDamage /\ losses' = losses + 1
  /\ transcript' = RemoveAt(transcript, i)
  /\ damaged' = damaged \cup {transcript[i].of}
  /\ mounted' = None
  /\ UNCHANGED <<device, generation, dumps>>

\* ... or mangles a sector.
Rot(i) ==
  /\ losses < MaxDamage /\ losses' = losses + 1
  /\ transcript[i].kind = "SECTOR"
  /\ transcript' = [transcript EXCEPT ![i].kind = "ROTTED",
                                      ![i].value.content = Garbage]
  /\ damaged' = damaged \cup {transcript[i].of}
  /\ mounted' = None
  /\ UNCHANGED <<device, generation, dumps>>

\* The runtime is gone, whatever it was doing; a machine is built from the
\* transcript, if it holds a frame to build one from.
Mount ==
  LET frames == Frames
      snap == frames[Select(frames)]
  IN /\ Candidates(frames) # {}
     /\ mounted' = Report(snap)
     /\ device' = Restore(snap)
     /\ generation' = snap.gen
     /\ UNCHANGED <<transcript, dumps, damaged, losses>>

Next ==
  \/ Step \/ Dump \/ Mount
  \/ \E i \in DOMAIN transcript : Evict(i) \/ Rot(i)

Spec == Init /\ [][Next]_vars

-----------------------------------------------------------------------------
(***************************************************************************)
(* Properties.                                                             *)
(***************************************************************************)
Mounted == mounted # None

\* A mount that reports itself clean restored exactly a machine that was
\* dumped: state, requests with their prompts, interrupt line, counters,
\* execute map and every sector.
CleanMountIsExact ==
  Mounted /\ mounted.clean => mounted.device = dumps[mounted.of]

\* A machine whose prompts have newlines where they had other separators.
Rejoined(d) ==
  LET joined(r) == IF r = None THEN None ELSE Asked(r, r.prompt.lines)
  IN [d EXCEPT !.pending = joined(d.pending), !.async_pending = joined(d.async_pending)]

\* A transcript that forgot nothing mounts its newest frame, also when two
\* frames carry the same generation, and restores everything but separators
\* inside prompts; it calls itself clean exactly when it lost none of these.
IntactTranscriptMountsNewest ==
  Mounted /\ damaged = {} =>
    /\ mounted.of = Len(dumps)
    /\ mounted.bad = {} /\ mounted.device = Rejoined(dumps[mounted.of])
    /\ mounted.clean <=> mounted.device = dumps[mounted.of]

\* A damaged memory is never restored as plausible garbage: every sector that
\* is not zero is one that the mounted frame held at that address.
RestoredSectorsAreTrue ==
  Mounted => \A space \in {"rom", "ram"}, a \in Sector :
    mounted.device.memory[space][a] \in {0, dumps[mounted.of].memory[space][a]}

\* Sectors of the mounted frame that were neither restored nor reported.
Unreported ==
  {s \in {"rom", "ram"} \X Sector :
     /\ dumps[mounted.of].memory[s[1]][s[2]] # 0
     /\ mounted.device.memory[s[1]][s[2]] = 0
     /\ s \notin mounted.bad}

\* A mount that read a memory's allocation map reports every sector of that
\* memory that it could not restore.
LossesAreNamed ==
  Mounted => \A s \in Unreported : s[1] \notin mounted.mapped

\* Whatever the conversation forgot, the mounted machine is one the device
\* protocol allows: it waits for a request exactly when it is suspended, and
\* has one request at most, a parked one under both names.
MountKeepsOneSlot == Mounted => OneSlot(mounted.device)
=============================================================================
