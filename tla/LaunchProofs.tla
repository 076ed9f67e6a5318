------------------------------ MODULE LaunchProofs ------------------------------
(***************************************************************************)
(* Launch: FailClosed, RightWorkspace and, further down, IsolationKept for *)
(* every host, any number of launches and any number of failing calls,     *)
(* kills and changes of the world.  Config, at the end: ChosenByUser,      *)
(* UsersOwn and OnlyApproved for whatever the files declare, any number of *)
(* processes and commands.                                                 *)
(***************************************************************************)
EXTENDS Launch, Config, PickingProofs

\* How far a command is: its mapping decided, the workspace settled, the
\* secrets masked.
Masked == Starting \cup {"isolate", "poll", "heal", "giveup", "restore", "last", "on"}
Laid == Masked \cup {"protect", "mask"}
Mounting == {"convert", "moved", "unmount", "mount"}
Mapped == Laid \cup Mounting
Places == Mapped \cup {"idle", "over", "create", "map", "strip", "remap", "resolve",
                       "recreate", "failed", "enter"}

Cmd == [way : Ways \cup {"none"}, pc : Places, fresh : BOOLEAN, shift : BOOLEAN,
        err : {"none", "mixed", "idmapping", "isolation", "other"}, iso : BOOLEAN,
        was : BOOLEAN, isolated : BOOLEAN, blips : Nat, warned : BOOLEAN, lost : BOOLEAN]

Typed == /\ host \in HostType /\ conf \in BOOLEAN /\ here \in {"A", "B"}
         /\ inst \in InstType /\ cmd \in Cmd

\* Incus starts what is mapped in one way, and can be.
Startable == ~(inst.idmap /\ inst.shift # {}) /\ ~(inst.shift # {} /\ host.shift = "refused")

\* A container prepared for its start has masks and a mapping: raw.idmap, or
\* a host that does without it.
Plain == host.sameUID /\ (host.vm \/ host.shift # "broken")
Prepared == "mask" \in inst.devs /\ (inst.idmap \/ inst.unmapped \/ Plain)

\* A container that a command prepares does not run; one that runs was
\* startable, and prepared unless it was started by hand, and nothing has
\* changed since.
UpInv == /\ cmd.pc \notin {"idle", "on", "poll", "enter"} => inst.st # "running"
         /\ cmd.pc \in {"on", "enter"} => inst.st = "running"
         /\ cmd.way = "enter" => cmd.pc \in {"on", "enter"}
         /\ cmd.pc = "enter" => cmd.way = "enter"
         /\ inst.st = "running" => Startable /\ (inst.byHand \/ Prepared)

\* What the steps before have made sure of, for all but coi container start.
DoneInv ==
  cmd.way # "start" =>
    /\ cmd.pc \in Masked /\ cmd.way # "enter" => "mask" \in inst.devs
    /\ cmd.pc \in Laid => inst.src = here \/ cmd.warned
    /\ cmd.pc \in Mapped /\ cmd.way # "enter" =>
         inst.idmap \/ inst.unmapped \/ Mapping # "idmap"

\* A workspace is mounted in one of the ways, unless the machine maps the IDs
\* itself; there it is never idmapped.
MapInv == /\ cmd.pc = "resolve" => cmd.way = "start"
          /\ cmd.pc = "convert" => inst.idmap
          /\ cmd.pc = "map" => inst.devs = {}
          /\ cmd.pc \in Mounting => inst.idmap \/ inst.unmapped \/ cmd.shift \/ host.vm
          /\ "workspace" \in inst.devs /\ ~inst.idmap /\ ~inst.unmapped
               /\ "workspace" \notin inst.shift => host.vm
          /\ host.vm => inst.shift = {} /\ ~cmd.shift

IInv == Typed /\ UpInv /\ DoneInv /\ MapInv

-----------------------------------------------------------------------------
(* What the steps do to the record of the command and to the container.     *)

Stays == host' = host /\ conf' = conf /\ here' = here

\* The command goes on to pc.
Moves(pc) == /\ cmd' \in Cmd /\ cmd'.pc = pc
             /\ cmd'.way = cmd.way /\ cmd'.shift = cmd.shift /\ cmd'.warned = cmd.warned

LEMMA GotoMoves ==
  ASSUME Typed, NEW pc \in Places, Goto(pc) PROVE Moves(pc)
  BY DEF Typed, Goto, Moves, Cmd

LEMMA MappingValues == Mapping \in {"idmap", "none", "shift"}
  BY DEF Mapping

LEMMA ErrorsNone == Errors = {} => Startable
  BY DEF Errors, Startable

LEMMA ErrorsType == Errors \subseteq {"mixed", "idmapping", "isolation", "other"}
  BY DEF Errors

\* A command that goes on and leaves the container alone.
LEMMA Walks ==
  ASSUME IInv, Stays, inst' = inst, NEW pc \in Places, Moves(pc),
         pc \in Masked => cmd.pc \in Masked \/ cmd.way = "start" \/ "mask" \in inst.devs,
         pc \in Laid => cmd.pc \in Laid \/ cmd.way = "start",
         pc \in Mapped => cmd.pc \in Mapped \/ cmd.way = "start",
         pc \notin Mounting, pc \notin {"map", "resolve"},
         pc # "enter", pc \notin {"idle", "on", "poll"} => inst.st # "running",
         pc = "on" => inst.st = "running", pc # "on" => cmd.way # "enter"
  PROVE  IInv'
<1>1. Typed' /\ Mapping' = Mapping /\ Startable' = Startable /\ Prepared' = Prepared
  BY DEF IInv, Typed, Stays, Moves, Mapping, Off, Startable, Prepared, Plain
<1>2. UpInv' /\ MapInv'
  BY <1>1 DEF IInv, UpInv, MapInv, Stays, Moves, Mounting
<1>3. DoneInv'
  BY <1>1 DEF IInv, DoneInv, Stays, Moves
<1> QED  BY <1>1, <1>2, <1>3 DEF IInv

\* A command that ends.
LEMMA NoRecords ==
  /\ NoCmd \in Cmd /\ NoCmd.pc = "idle" /\ ~NoCmd.shift /\ NoCmd.way = "none"
  /\ NoInst \in InstType /\ NoInst.devs = {} /\ NoInst.shift = {} /\ NoInst.st = "none"
<1>1. "idle" \in Places
  BY DEF Places
<1>2. NoCmd \in Cmd
  BY <1>1 DEF NoCmd, Cmd
<1>3. NoInst \in InstType
  BY DEF NoInst, InstType
<1> QED  BY <1>2, <1>3 DEF NoCmd, NoInst

\* Nothing is asked of a container while no command runs but of its mapping.
LEMMA IdleKeeps ==
  ASSUME IInv, conf' \in BOOLEAN, host' \in HostType, host'.vm = host.vm, here' \in {"A", "B"},
         cmd' \in Cmd, cmd'.pc = "idle", cmd'.way # "enter", host.vm => ~cmd'.shift,
         inst' \in InstType,
         inst'.st = "running" => (Startable /\ (inst.byHand \/ Prepared))',
         \/ inst'.devs = {} /\ inst'.shift = {}
         \/ /\ inst'.devs = inst.devs /\ inst'.shift = inst.shift
            /\ inst'.idmap = inst.idmap /\ inst'.unmapped = inst.unmapped
  PROVE  IInv'
<1>1. Typed' /\ UpInv'
  BY DEF Typed, UpInv
<1>2. DoneInv'
  BY DEF DoneInv, Masked, Laid, Mapped, Mounting, Starting
<1>3. MapInv'
  BY DEF IInv, MapInv, Mounting
<1> QED  BY <1>1, <1>2, <1>3 DEF IInv

LEMMA EndsInv ==
  ASSUME IInv, Stays, cmd' = NoCmd, inst' = inst \/ inst' = NoInst
                        \/ inst' = [inst EXCEPT !.st = "stopped"]
  PROVE  IInv'
<1>1. /\ inst' \in InstType
      /\ \/ inst'.devs = {} /\ inst'.shift = {}
         \/ /\ inst'.devs = inst.devs /\ inst'.shift = inst.shift
            /\ inst'.idmap = inst.idmap /\ inst'.unmapped = inst.unmapped
  <2>1. CASE inst' = [inst EXCEPT !.st = "stopped"]
    BY <2>1 DEF InstType, IInv, Typed
  <2>2. CASE inst' = inst \/ inst' = NoInst
    BY <2>2, NoRecords DEF IInv, Typed
  <2> QED  BY <2>1, <2>2
<1>2. conf' \in BOOLEAN /\ host' \in HostType /\ host'.vm = host.vm /\ here' \in {"A", "B"}
  BY DEF IInv, Typed, Stays
<1>3. inst'.st = "running" => (Startable /\ (inst.byHand \/ Prepared))'
  <2>1. CASE inst' = inst
    BY <2>1 DEF IInv, UpInv, Stays, Startable, Prepared, Plain
  <2>2. CASE inst' = [inst EXCEPT !.st = "stopped"]
    BY <2>2 DEF IInv, Typed, InstType
  <2>3. CASE inst' = NoInst
    BY <2>3, NoRecords
  <2> QED  BY <2>1, <2>2, <2>3
<1> QED  BY <1>1, <1>2, <1>3, IdleKeeps, NoRecords

LEMMA InitInv == Init => IInv
<1> SUFFICES ASSUME Init PROVE IInv
  OBVIOUS
<1>1. /\ cmd \in Cmd /\ cmd.pc = "idle" /\ ~cmd.shift /\ inst \in InstType
      /\ inst.devs = {} /\ inst.shift = {}
  BY NoRecords DEF Init
<1>2. host \in HostType /\ conf \in BOOLEAN /\ here \in {"A", "B"}
  BY LaunchAssumption DEF Init
<1>3. Typed /\ UpInv /\ MapInv
  <2>1. inst.st # "running" /\ cmd.way # "enter"
    BY NoRecords DEF Init
  <2> QED  BY <1>1, <1>2, <2>1 DEF Typed, UpInv, MapInv, Mounting
<1>4. DoneInv
  BY <1>1 DEF DoneInv, Masked, Laid, Mapped, Mounting, Starting
<1> QED  BY <1>3, <1>4 DEF IInv

-----------------------------------------------------------------------------
(* A command begins. *)

LEMMA BeginInv ==
  ASSUME IInv, NEW way \in Ways, NEW pc \in {"create", "strip", "resolve", "over", "enter"},
         NEW fresh \in BOOLEAN, Begin(way, pc, fresh),
         pc = "enter" <=> inst.st = "running", pc = "enter" <=> way = "enter",
         pc = "resolve" => way = "start"
  PROVE  IInv'
<1>1. cmd' \in Cmd /\ cmd'.pc = pc /\ cmd'.way = way /\ ~cmd'.shift
  <2>1. pc \in Places /\ inst.iso \in BOOLEAN
    BY DEF Places, IInv, Typed, InstType
  <2>2. cmd' = [NoCmd EXCEPT !.way = way, !.pc = pc, !.fresh = fresh, !.iso = inst.iso]
    BY DEF Begin
  <2> QED  BY <2>1, <2>2 DEF NoCmd, Cmd
<1>2. Stays /\ inst' = inst
  BY DEF Begin, Stays
<1>3. Typed' /\ UpInv'
  BY <1>1, <1>2 DEF IInv, Typed, UpInv, Stays, Startable, Prepared, Plain
<1>4. DoneInv'
  BY <1>1 DEF DoneInv, Masked, Laid, Mapped, Mounting, Starting
<1>5. MapInv'
  BY <1>1, <1>2 DEF IInv, MapInv, Stays, Mounting
<1> QED  BY <1>3, <1>4, <1>5 DEF IInv

\* A shell enters a container that runs, as it is.
LEMMA EntersInv == ASSUME IInv, Enter \/ EnterUnread \/ EnterOther PROVE IInv'
<1>1. Stays /\ cmd.pc = "enter" /\ cmd.way = "enter" /\ inst' = inst
  BY DEF Enter, EnterUnread, EnterOther, Enters, Going, Stays, IInv, UpInv
<1>2. CASE EnterOther
  BY <1>1, <1>2, EndsInv DEF EnterOther
<1>3. CASE Enter \/ EnterUnread
  <2>1. PICK w \in BOOLEAN :
          cmd' = [cmd EXCEPT !.pc = "on", !.warned = w] /\ (w \/ inst.src = here)
    BY <1>3 DEF Enter, EnterUnread, Enters
  <2>2. /\ cmd' \in Cmd /\ cmd'.pc = "on" /\ cmd'.way = cmd.way /\ cmd'.shift = cmd.shift
        /\ inst.src = here \/ cmd'.warned
    <3>1. "on" \in Places
      BY DEF Places, Mapped, Laid, Masked
    <3> QED  BY <2>1, <3>1 DEF IInv, Typed, Cmd
  <2>3. Typed' /\ UpInv'
    BY <1>1, <2>2 DEF IInv, Typed, UpInv, Stays, Startable, Prepared, Plain
  <2>4. DoneInv' /\ MapInv'
    BY <1>1, <2>2 DEF IInv, DoneInv, MapInv, Stays, Mounting
  <2> QED  BY <2>3, <2>4 DEF IInv
<1> QED  BY <1>2, <1>3

LEMMA BeginsInv == ASSUME IInv, Begins PROVE IInv'
<1>1. ASSUME NEW w \in Ways, BeginFresh(w) \/ BeginReuse(w) PROVE IInv'
  BY <1>1, BeginInv DEF BeginFresh, BeginReuse
<1>2. CASE BeginStart \/ BeginOver \/ BeginEnter
  BY <1>2, BeginInv DEF BeginStart, BeginOver, BeginEnter, Ways
<1>3. CASE DeleteOld
  <2>1. Stays /\ Moves("create") /\ inst' = NoInst /\ cmd.pc = "over"
    BY <1>3, GotoMoves DEF DeleteOld, Going, Stays, IInv, Places
  <2>2. /\ inst' \in InstType /\ inst'.devs = {} /\ inst'.shift = {} /\ inst'.st # "running"
    BY <2>1 DEF NoInst, InstType
  <2> QED  BY <2>1, <2>2, SMT DEF IInv, Typed, UpInv, DoneInv, MapInv, Stays, Moves, Masked, Laid,
              Mapped, Mounting, Starting
<1>4. CASE DeleteOldFails
  BY <1>4, EndsInv DEF DeleteOldFails, Going, Stays
<1> QED  BY <1>1, <1>2, <1>3, <1>4, EntersInv DEF Begins

-----------------------------------------------------------------------------
(* A fresh container. *)

\* A container that has no device yet, for a command that has just made it.
LEMMA BareInv ==
  ASSUME IInv, Stays, NEW pc \in {"map", "failed"}, Moves(pc),
         inst' \in InstType, inst'.devs = {}, inst'.shift = {}, inst'.st # "running",
         cmd.way # "enter"
  PROVE  IInv'
  BY SMT DEF IInv, Typed, UpInv, DoneInv, MapInv, Stays, Moves, Masked, Laid,
      Mapped, Mounting, Starting

LEMMA CreateInv == ASSUME IInv, Create \/ CreateFails PROVE IInv'
<1>1. /\ Stays /\ cmd.pc = "create" /\ (Moves("map") \/ Moves("failed"))
      /\ cmd.way # "enter"
  <2>1. Stays /\ cmd.pc = "create" /\ (Moves("map") \/ Moves("failed"))
    BY GotoMoves DEF Create, CreateFails, Going, Stays, IInv, Places
  <2> QED  BY <2>1 DEF IInv, UpInv
<1>2. CASE inst' = inst /\ Moves("failed")
  BY <1>1, <1>2, Walks DEF IInv, UpInv, Places, Masked, Laid, Mapped, Mounting, Starting
<1>3. CASE inst' = [NoInst EXCEPT !.st = "stopped"]
  <2>1. inst' \in InstType /\ inst'.devs = {} /\ inst'.shift = {} /\ inst'.st # "running"
    BY <1>3 DEF NoInst, InstType
  <2> QED  BY <1>1, <2>1, BareInv
<1>4. CASE Create
  BY <1>3, <1>4 DEF Create
<1>5. CASE CreateFails
  <2>1. Moves("failed")
    BY <1>5, GotoMoves DEF CreateFails, IInv, Places
  <2> QED  BY <1>2, <1>3, <1>5, <2>1 DEF CreateFails
<1> QED  BY <1>4, <1>5

LEMMA MapKeeps == ASSUME IInv, Map \/ MapFails PROVE IInv'
<1>1. /\ Stays /\ cmd.pc = "map" /\ inst.st # "running"
      /\ cmd' \in Cmd /\ cmd'.pc = "mount" /\ cmd'.way = cmd.way /\ cmd'.warned = cmd.warned
      /\ inst' \in InstType /\ inst'.st = inst.st /\ inst'.devs = inst.devs
      /\ inst'.shift = inst.shift /\ Mapping' = Mapping
  <2>1. cmd.pc = "map" /\ Stays
    BY DEF Map, MapFails, Going, Stays
  <2>2. /\ cmd' \in Cmd /\ cmd'.pc = "mount" /\ cmd'.way = cmd.way /\ cmd'.warned = cmd.warned
    BY DEF Map, MapFails, IInv, Typed, Cmd, Places, Mapped, Mounting
  <2>3. inst' \in InstType /\ inst'.st = inst.st /\ inst'.devs = inst.devs /\ inst'.shift = inst.shift
    BY DEF Map, MapFails, IInv, Typed, InstType
  <2>4. inst.st # "running"
    BY <2>1 DEF IInv, UpInv
  <2>5. Mapping' = Mapping
    BY <2>1 DEF Stays, Mapping, Off
  <2> QED  BY <2>1, <2>2, <2>3, <2>4, <2>5
<1>2. \/ /\ inst'.idmap <=> Mapping = "idmap"
         /\ inst'.unmapped = inst.unmapped
         /\ cmd'.shift <=> Mapping = "shift"
      \/ inst'.unmapped /\ inst'.idmap = inst.idmap /\ ~cmd'.shift
  BY DEF Map, MapFails, IInv, Typed, InstType, Cmd
<1>3. Mapping = "shift" => ~host.vm
  BY DEF Mapping, Off
<1>4. Mapping = "none" => host.vm
  BY DEF Mapping, Off
<1>5. Typed' /\ UpInv'
  BY <1>1 DEF IInv, Typed, UpInv, Stays
<1>6. DoneInv'
  BY <1>1, <1>2, <1>4, MappingValues, SMTT(20) DEF DoneInv, IInv, Stays, Masked, Laid, Mapped, Mounting, Starting
<1>7. MapInv'
  BY <1>1, <1>2, <1>3, <1>4, MappingValues, SMTT(20) DEF MapInv, IInv, Stays
<1> QED  BY <1>5, <1>6, <1>7 DEF IInv

\* A device is added for a command whose mapping is decided.
Added(d) == /\ inst' \in InstType /\ inst'.st = inst.st
            /\ inst'.idmap = inst.idmap /\ inst'.unmapped = inst.unmapped
            /\ inst'.devs = inst.devs \cup {d}
            /\ inst'.shift = (IF cmd.shift THEN inst.shift \cup {d} ELSE inst.shift)

LEMMA WithDeviceAdds ==
  ASSUME Typed, NEW d \in Devices, inst' = WithDevice(d) PROVE Added(d) /\ inst'.src = inst.src
<1> DEFINE D == inst.devs \cup {d}
           S == IF cmd.shift THEN inst.shift \cup {d} ELSE inst.shift
<1>1. D \in SUBSET Devices /\ S \in SUBSET Devices
  BY DEF Typed, InstType
<1>2. inst' = [inst EXCEPT !.devs = D, !.shift = S] /\ inst \in InstType
  BY DEF WithDevice, Typed
<1> HIDE DEF D, S
<1>3. /\ inst' \in InstType /\ inst'.devs = D /\ inst'.shift = S /\ inst'.st = inst.st
      /\ inst'.idmap = inst.idmap /\ inst'.unmapped = inst.unmapped /\ inst'.src = inst.src
  BY <1>1, <1>2 DEF InstType
<1> QED  BY <1>3 DEF Added, D, S

LEMMA MountInv == ASSUME IInv, Mount PROVE IInv'
<1>1. Stays /\ Moves("protect") /\ cmd.pc = "mount" /\ inst.st # "running" /\ Mapping' = Mapping
  <2>1. Stays /\ Moves("protect") /\ cmd.pc = "mount"
    BY GotoMoves DEF Mount, Going, Stays, IInv, Places, Mapped, Laid
  <2> QED  BY <2>1 DEF Stays, IInv, UpInv, Mapping, Off
<1>2. Added("workspace") /\ inst'.src = here
  <2> DEFINE D == inst.devs \cup {"workspace"}
             S == IF cmd.shift THEN inst.shift \cup {"workspace"} ELSE inst.shift
  <2>1. D \in SUBSET Devices /\ S \in SUBSET Devices
    BY DEF IInv, Typed, InstType, Devices
  <2>2. inst' = [inst EXCEPT !.devs = D, !.shift = S, !.src = here] /\ inst \in InstType
    BY DEF Mount, WithDevice, IInv, Typed
  <2>3. here \in {"A", "B"}
    BY DEF IInv, Typed
  <2> HIDE DEF D, S
  <2>4. /\ inst' \in InstType /\ inst'.devs = D /\ inst'.shift = S /\ inst'.st = inst.st
        /\ inst'.idmap = inst.idmap /\ inst'.unmapped = inst.unmapped /\ inst'.src = here
    BY <2>1, <2>2, <2>3 DEF InstType
  <2> QED  BY <2>4 DEF Added, D, S
<1>3. Typed' /\ UpInv'
  BY <1>1, <1>2 DEF IInv, Typed, UpInv, Stays, Moves, Added
<1>4. DoneInv'
  BY <1>1, <1>2 DEF IInv, DoneInv, Stays, Moves, Added, Masked, Laid, Mapped, Mounting, Starting
<1>5. MapInv'
  BY <1>1, <1>2 DEF IInv, DoneInv, MapInv, Stays, Moves, Added, Mounting, Mapped
<1> QED  BY <1>3, <1>4, <1>5 DEF IInv

LEMMA ProtectInv == ASSUME IInv, Protect \/ Mask PROVE IInv'
<1>1. PICK d \in Security, pc \in {"mask", "isolate", "first"} :
        /\ Stays /\ Moves(pc) /\ Added(d) /\ inst'.src = inst.src
        /\ pc = "mask" \/ d = "mask"
        /\ cmd.pc \in {"protect", "mask"} /\ inst.st # "running" /\ Mapping' = Mapping
  <2>1. CASE Protect
    <3>1. Stays /\ Moves("mask") /\ cmd.pc = "protect"
      BY <2>1, GotoMoves DEF Protect, Going, Stays, IInv, Places, Mapped, Laid
    <3>2. Added("protect") /\ inst'.src = inst.src
      BY <2>1, WithDeviceAdds DEF Protect, IInv, Devices, Security
    <3> QED  BY <3>1, <3>2 DEF Stays, Mapping, Off, Security, IInv, UpInv
  <2>2. CASE Mask
    <3>1. AfterMask \in {"isolate", "first"}
      BY DEF AfterMask
    <3>2. Stays /\ Moves(AfterMask) /\ cmd.pc = "mask"
      BY <2>2, <3>1, GotoMoves DEF Mask, Going, Stays, IInv, Places, Mapped, Laid, Masked, Starting
    <3>3. Added("mask") /\ inst'.src = inst.src
      BY <2>2, WithDeviceAdds DEF Mask, IInv, Devices, Security
    <3> QED  BY <3>1, <3>2, <3>3 DEF Stays, Mapping, Off, Security, IInv, UpInv
  <2> QED  BY <2>1, <2>2
<1> QED  BY <1>1, SMT DEF IInv, Typed, UpInv, DoneInv, MapInv, Stays, Moves, Added, Security,
            Masked, Laid, Mapped, Mounting, Starting

\* A step that touches nothing of the container but its isolation, or nothing.
LEMMA IsolationInv ==
  ASSUME IInv, Stays, inst' \in InstType, NEW pc \in {"first", "bare", "failed"}, Moves(pc),
         cmd.pc \in Masked \ {"on", "poll"},
         inst'.st = inst.st, inst'.idmap = inst.idmap, inst'.unmapped = inst.unmapped,
         inst'.devs = inst.devs, inst'.shift = inst.shift, inst'.src = inst.src
  PROVE  IInv'
<1>1. Mapping' = Mapping
  BY DEF Stays, Mapping, Off
<1> QED  BY <1>1, SMT DEF IInv, Typed, UpInv, DoneInv, MapInv, Stays, Moves,
            Masked, Laid, Mapped, Mounting, Starting

LEMMA PreparesInv == ASSUME IInv, Prepares PROVE IInv'
<1>1. CASE MountFails \/ MaskExists \/ MaskFails
  <2>1. Stays /\ Moves("failed") /\ inst' = inst /\ cmd.pc \in {"mount", "mask"}
    BY <1>1, GotoMoves DEF MountFails, MaskExists, MaskFails, Going, Stays, IInv, Places
  <2> QED  BY <2>1, Walks DEF IInv, UpInv, Places, Masked, Laid, Mapped, Mounting, Starting
<1>2. CASE ProtectExists \/ ProtectFails
  <2>1. Stays /\ Moves("mask") /\ inst' = inst /\ cmd.pc = "protect"
    BY <1>2, GotoMoves DEF ProtectExists, ProtectFails, Going, Stays, IInv, Places, Mapped, Laid
  <2> QED  BY <2>1, Walks DEF IInv, UpInv, Places, Masked, Laid, Mapped, Mounting, Starting
<1>3. CASE IsolateFails
  <2>1. Stays /\ Moves("first") /\ inst' = inst /\ cmd.pc = "isolate"
    BY <1>3, GotoMoves DEF IsolateFails, Going, Stays, IInv, Places, Mapped, Laid, Masked, Starting
  <2> QED  BY <2>1, Walks DEF IInv, UpInv, Places, Masked, Laid, Mapped, Mounting, Starting
<1>4. CASE Isolate
  <2>1. Stays /\ Moves("first") /\ cmd.pc = "isolate"
    BY <1>4 DEF Isolate, Going, Stays, Moves, IInv, Typed, Cmd, Places, Mapped, Laid, Masked, Starting
  <2>2. /\ inst' \in InstType /\ inst'.st = inst.st /\ inst'.idmap = inst.idmap
        /\ inst'.unmapped = inst.unmapped /\ inst'.devs = inst.devs
        /\ inst'.shift = inst.shift /\ inst'.src = inst.src
    BY <1>4 DEF Isolate, IInv, Typed, InstType
  <2> QED  BY <2>1, <2>2, IsolationInv DEF Masked
<1> QED  BY <1>1, <1>2, <1>3, <1>4, CreateInv, MapKeeps, MountInv, ProtectInv DEF Prepares

-----------------------------------------------------------------------------
(* A container is used again. *)

LEMMA StripsInv == ASSUME IInv, Strip \/ StripFails PROVE IInv'
<1>1. Stays /\ Moves("remap") /\ cmd.pc = "strip" /\ inst.st # "running"
  <2>1. Stays /\ Moves("remap") /\ cmd.pc = "strip"
    BY GotoMoves DEF Strip, StripFails, Going, Stays, IInv, Places
  <2> QED  BY <2>1 DEF IInv, UpInv
<1>2. PICK left \in SUBSET Security :
        inst' = [inst EXCEPT !.devs = (inst.devs \ Security) \cup left,
                             !.shift = inst.shift \ (Security \ left)]
  <2>1. CASE Strip
    <3>1. /\ inst.devs \ Security = (inst.devs \ Security) \cup {}
          /\ inst.shift \ Security = inst.shift \ (Security \ {})
      OBVIOUS
    <3>2. inst' = [inst EXCEPT !.devs = inst.devs \ Security, !.shift = inst.shift \ Security]
      BY <2>1 DEF Strip
    <3>3. inst' = [inst EXCEPT !.devs = (inst.devs \ Security) \cup {},
                               !.shift = inst.shift \ (Security \ {})]
      BY <3>1, <3>2
    <3> QED  BY <3>3
  <2>2. CASE StripFails
    BY <2>2 DEF StripFails
  <2> QED  BY <2>1, <2>2
<1> DEFINE D == (inst.devs \ Security) \cup left
           S == inst.shift \ (Security \ left)
<1>3. /\ D \in SUBSET Devices /\ S \in SUBSET Devices
      /\ "workspace" \in D <=> "workspace" \in inst.devs
      /\ "workspace" \in S <=> "workspace" \in inst.shift
      /\ inst.shift = {} => S = {}
  BY DEF IInv, Typed, InstType, Devices, Security
<1>4. inst' = [inst EXCEPT !.devs = D, !.shift = S] /\ inst \in InstType
  BY <1>2 DEF IInv, Typed
<1> HIDE DEF D, S
<1>5. /\ inst' \in InstType /\ inst'.devs = D /\ inst'.shift = S /\ inst'.st = inst.st
      /\ inst'.idmap = inst.idmap /\ inst'.unmapped = inst.unmapped
  BY <1>3, <1>4 DEF InstType
<1>6. Typed' /\ UpInv'
  BY <1>1, <1>5 DEF IInv, Typed, UpInv, Stays, Moves
<1>7. DoneInv'
  BY <1>1 DEF DoneInv, Moves, Masked, Laid, Mapped, Mounting, Starting
<1>8. MapInv'
  BY <1>1, <1>3, <1>5 DEF IInv, MapInv, Stays, Moves, Mounting
<1> QED  BY <1>6, <1>7, <1>8 DEF IInv

LEMMA RemapsInv == ASSUME IInv, Remap \/ RemapFails PROVE IInv'
<1>1. /\ Stays /\ cmd.pc = "remap" /\ inst.st # "running" /\ Mapping' = Mapping
      /\ Mapping = "shift" => ~host.vm
      /\ Mapping = "none" => host.vm
  <2>1. Stays /\ cmd.pc = "remap"
    BY DEF Remap, RemapFails, Going, Stays
  <2> QED  BY <2>1 DEF Stays, IInv, UpInv, Mapping, Off
<1>2. /\ cmd' \in Cmd /\ cmd'.pc \in {"convert", "moved"}
      /\ cmd'.way = cmd.way
  <2>1. {"convert", "moved"} \subseteq Places
    BY DEF Places, Mapped, Mounting
  <2>2. CASE Remap
    BY <2>1, <2>2 DEF Remap, Remapped, IInv, Typed, Cmd
  <2>3. CASE RemapFails
    BY <2>1, <2>3 DEF RemapFails, IInv, Typed, Cmd
  <2> QED  BY <2>2, <2>3
<1>3. /\ inst' \in InstType /\ inst'.st = inst.st /\ inst'.devs = inst.devs
      /\ inst'.shift = inst.shift
  BY DEF Remap, RemapFails, IInv, Typed, InstType
<1>4. \/ /\ inst'.idmap <=> inst.idmap \/ Mapping = "idmap"
         /\ inst'.unmapped = inst.unmapped
         /\ cmd'.shift <=> Mapping = "shift" /\ ~inst.idmap
         /\ cmd'.pc = "convert" => Mapping = "idmap"
      \/ /\ inst'.unmapped <=> ~inst.idmap
         /\ inst'.idmap = inst.idmap /\ ~cmd'.shift /\ cmd'.pc = "moved"
  <2>1. CASE Remap
    BY <2>1 DEF Remap, Remapped, IInv, Typed, InstType, Cmd
  <2>2. CASE RemapFails
    BY <2>2 DEF RemapFails, IInv, Typed, InstType, Cmd
  <2> QED  BY <2>1, <2>2
<1>5. Typed' /\ UpInv'
  BY <1>1, <1>2, <1>3 DEF IInv, Typed, UpInv, Stays
<1>6. DoneInv'
  BY <1>1, <1>2, <1>4, MappingValues DEF DoneInv, Stays, Masked, Laid, Mapped, Mounting, Starting
<1>7. MapInv'
  BY <1>1, <1>2, <1>3, <1>4, MappingValues DEF IInv, MapInv, Stays, Mounting
<1> QED  BY <1>5, <1>6, <1>7 DEF IInv

LEMMA ConvertsInv == ASSUME IInv, Convert \/ ConvertFails PROVE IInv'
<1>1. PICK pc \in {"first", "moved"} :
        /\ Stays /\ Moves(pc) /\ cmd.pc = "convert" /\ inst.st # "running" /\ inst.idmap
        /\ pc = "first" => cmd.way = "start"
        /\ Mapping' = Mapping
  <2>1. /\ AfterConvert \in {"first", "moved"} /\ AfterConvert \in Places
        /\ AfterConvert = "first" => cmd.way = "start"
    BY DEF AfterConvert, Places, Mapped, Laid, Masked, Starting, Mounting
  <2>2. Stays /\ Moves(AfterConvert) /\ cmd.pc = "convert"
    BY <2>1, GotoMoves DEF Convert, ConvertFails, Going, Stays, IInv
  <2> QED  BY <2>1, <2>2 DEF Stays, IInv, UpInv, MapInv, Mapping, Off
<1>2. PICK left \in SUBSET inst.shift : inst' = [inst EXCEPT !.shift = left]
  BY DEF Convert, ConvertFails
<1>3. /\ inst' \in InstType /\ inst'.st = inst.st /\ inst'.devs = inst.devs
      /\ inst'.shift = left /\ inst'.idmap = inst.idmap /\ inst'.unmapped = inst.unmapped
      /\ inst'.src = inst.src
  BY <1>2 DEF IInv, Typed, InstType
<1>4. Typed' /\ UpInv'
  BY <1>1, <1>3 DEF IInv, Typed, UpInv, Stays, Moves
<1>5. DoneInv'
  BY <1>1, <1>3 DEF DoneInv, Stays, Moves, Masked, Laid, Mapped, Mounting, Starting
<1>6. MapInv'
  BY <1>1, <1>3 DEF IInv, MapInv, Stays, Moves, Mounting
<1> QED  BY <1>4, <1>5, <1>6 DEF IInv

LEMMA MovesInv == ASSUME IInv, Moved \/ MovedUnread PROVE IInv'
<1>1. /\ Stays /\ cmd.pc = "moved" /\ inst.st # "running" /\ Mapping' = Mapping /\ inst' = inst
  <2>1. Stays /\ cmd.pc = "moved" /\ inst' = inst
    BY DEF Moved, MovedUnread, Going, Stays
  <2> QED  BY <2>1 DEF Stays, IInv, UpInv, Mapping, Off
<1>2. /\ cmd' \in Cmd /\ cmd'.pc \in {"protect", "unmount"}
      /\ cmd'.way = cmd.way /\ cmd'.shift = cmd.shift
      /\ cmd'.pc = "protect" => inst.src = here \/ cmd'.warned
  <2>1. {"protect", "unmount"} \subseteq Places
    BY DEF Places, Mapped, Mounting, Laid
  <2> QED  BY <2>1 DEF Moved, MovedUnread, IInv, Typed, Cmd
<1>3. Typed' /\ UpInv'
  BY <1>1, <1>2 DEF IInv, Typed, UpInv, Stays
<1>4. DoneInv'
  BY <1>1, <1>2 DEF IInv, DoneInv, Stays, Masked, Laid, Mapped, Mounting, Starting
<1>5. MapInv'
  BY <1>1, <1>2 DEF IInv, MapInv, Stays, Mounting
<1> QED  BY <1>3, <1>4, <1>5 DEF IInv

LEMMA UnmountInv == ASSUME IInv, Unmount PROVE IInv'
<1>1. Stays /\ Moves("mount") /\ cmd.pc = "unmount" /\ inst.st # "running" /\ Mapping' = Mapping
  <2>1. Stays /\ Moves("mount") /\ cmd.pc = "unmount"
    BY GotoMoves DEF Unmount, Going, Stays, IInv, Places, Mapped, Mounting
  <2> QED  BY <2>1 DEF Stays, IInv, UpInv, Mapping, Off
<1> DEFINE D == inst.devs \ {"workspace"}
           S == inst.shift \ {"workspace"}
<1>2. D \in SUBSET Devices /\ S \in SUBSET Devices /\ "workspace" \notin D /\ (inst.shift = {} => S = {})
  BY DEF IInv, Typed, InstType
<1>3. inst' = [inst EXCEPT !.devs = D, !.shift = S, !.src = "none"] /\ inst \in InstType
  BY DEF Unmount, IInv, Typed
<1> HIDE DEF D, S
<1>4. /\ inst' \in InstType /\ inst'.devs = D /\ inst'.shift = S /\ inst'.st = inst.st
      /\ inst'.idmap = inst.idmap /\ inst'.unmapped = inst.unmapped
  BY <1>2, <1>3 DEF InstType
<1>5. Typed' /\ UpInv'
  BY <1>1, <1>4 DEF IInv, Typed, UpInv, Stays, Moves
<1>6. DoneInv'
  BY <1>1, <1>4 DEF IInv, DoneInv, Stays, Moves, Masked, Laid, Mapped, Mounting, Starting
<1>7. MapInv'
  BY <1>1, <1>2, <1>4 DEF IInv, MapInv, Stays, Moves, Mounting
<1> QED  BY <1>5, <1>6, <1>7 DEF IInv

LEMMA ResolvesInv == ASSUME IInv, Resolve \/ ResolveFails PROVE IInv'
<1>1. /\ Stays /\ cmd.pc = "resolve" /\ inst.st # "running" /\ cmd.way = "start"
  <2>1. Stays /\ cmd.pc = "resolve"
    BY DEF Resolve, ResolveFails, Going, Stays
  <2> QED  BY <2>1 DEF IInv, UpInv, MapInv
<1>2. PICK pc \in {"first", "convert"} :
        /\ Moves(pc)
        /\ \/ inst' = inst /\ pc = "first"
           \/ inst' = [inst EXCEPT !.idmap = TRUE]
  <2>1. {"first", "convert"} \subseteq Places
    BY DEF Places, Mapped, Laid, Masked, Starting, Mounting
  <2>2. \E pc \in {"first", "convert"} :
          /\ Goto(pc)
          /\ \/ inst' = inst /\ pc = "first"
             \/ inst' = [inst EXCEPT !.idmap = TRUE]
    BY DEF Resolve, ResolveFails
  <2> QED  BY <2>1, <2>2, GotoMoves DEF IInv
<1>3. /\ inst' \in InstType /\ inst'.st = inst.st /\ inst'.devs = inst.devs
      /\ inst'.shift = inst.shift /\ inst'.unmapped = inst.unmapped
      /\ (inst'.idmap = inst.idmap /\ pc = "first") \/ inst'.idmap
  <2>1. CASE inst' = inst /\ pc = "first"
    BY <2>1 DEF IInv, Typed
  <2>2. CASE inst' = [inst EXCEPT !.idmap = TRUE]
    BY <2>2 DEF IInv, Typed, InstType
  <2> QED  BY <1>2, <2>1, <2>2
<1>4. Typed' /\ UpInv'
  BY <1>1, <1>2, <1>3 DEF IInv, Typed, UpInv, Stays, Moves
<1>5. DoneInv'
  BY <1>1, <1>2 DEF DoneInv, Moves
<1>6. MapInv'
  BY <1>1, <1>2, <1>3 DEF IInv, MapInv, Stays, Moves, Mounting
<1> QED  BY <1>4, <1>5, <1>6 DEF IInv

LEMMA ReusesInv == ASSUME IInv, Reuses PROVE IInv'
<1>1. CASE UnmountFails
  <2>1. Stays /\ Moves("failed") /\ inst' = inst /\ cmd.pc = "unmount"
    BY <1>1, GotoMoves DEF UnmountFails, Going, Stays, IInv, Places
  <2> QED  BY <2>1, Walks DEF IInv, UpInv, Places, Masked, Laid, Mapped, Mounting, Starting
<1> QED  BY <1>1, StripsInv, RemapsInv, ConvertsInv, MovesInv, UnmountInv, ResolvesInv DEF Reuses

-----------------------------------------------------------------------------
(* The start and its fallbacks. *)

\* A container that comes up under a command that was about to start it.
LEMMA ComesUp ==
  ASSUME IInv, Stays, Startable, Started, NEW pc \in {"on", "poll"}, Moves(pc),
         cmd.pc \in Masked \ {"on"}
  PROVE  IInv'
<1>1. /\ inst' \in InstType /\ inst'.devs = inst.devs /\ inst'.src = inst.src
      /\ inst'.shift = inst.shift /\ inst'.unmapped = inst.unmapped /\ inst'.idmap = inst.idmap
      /\ inst'.st = "running" /\ inst'.byHand = (cmd.way = "start")
  BY DEF Started, IInv, Typed, InstType
<1>2. Mapping' = Mapping /\ Startable'
  BY <1>1 DEF Stays, Mapping, Off, Startable
<1>3. cmd.way # "enter"
  BY DEF IInv, UpInv, Masked, Starting
<1>4. cmd.way # "start" => Prepared'
  <2>1. Mapping # "idmap" => Plain
    BY DEF Mapping, Off, Plain
  <2>2. cmd.way # "start" =>
          "mask" \in inst.devs /\ (inst.idmap \/ inst.unmapped \/ Mapping # "idmap")
    BY <1>3 DEF IInv, DoneInv, Mapped, Laid
  <2> QED  BY <1>1, <2>1, <2>2 DEF Prepared, Plain, Stays
<1>5. Typed' /\ UpInv'
  BY <1>1, <1>2, <1>3, <1>4 DEF IInv, Typed, UpInv, Stays, Moves
<1>6. DoneInv'
  BY <1>1, <1>2, <1>3 DEF IInv, DoneInv, Stays, Moves, Masked, Laid, Mapped, Mounting, Starting
<1>7. MapInv'
  BY <1>1 DEF IInv, MapInv, Stays, Moves, Mounting
<1> QED  BY <1>5, <1>6, <1>7 DEF IInv

\* A command that goes on with a container that is down.
LEMMA GoesOn ==
  ASSUME IInv, Stays, inst' = inst, NEW pc \in (Masked \ {"on"}) \cup {"failed"}, Moves(pc),
         cmd.pc \in Masked \ {"on"}, inst.st # "running"
  PROVE  IInv'
  BY Walks DEF IInv, UpInv, Places, Masked, Laid, Mapped, Mounting, Starting

LEMMA StartsInv ==
  ASSUME IInv, NEW pc \in Starting, Start(pc) \/ Rejected(pc) \/ Blip(pc) \/ SoftError(pc)
  PROVE  IInv'
<1>1. /\ Stays /\ cmd.pc = pc /\ inst.st # "running"
      /\ cmd.pc \in Masked \ {"on", "poll"}
  <2>1. Stays /\ cmd.pc = pc
    BY DEF Start, Rejected, Blip, SoftError, Going, Stays
  <2> QED  BY <2>1 DEF IInv, UpInv, Masked, Starting
<1>2. Failing(pc) \in {"poll", "heal", "giveup", "restore"}
  BY DEF Failing, Starting
<1>3. {"poll", "heal", "giveup", "restore", "on"} \subseteq Places
  BY DEF Places, Mapped, Laid, Masked
<1>4. CASE Start(pc)
  <2>1. Moves("on") /\ Startable
    BY <1>3, <1>4, ErrorsNone, GotoMoves DEF Start, IInv
  <2> QED  BY <1>1, <1>4, <2>1, ComesUp DEF Start
<1>5. CASE Rejected(pc) \/ Blip(pc)
  <2>1. inst' = inst
    BY <1>5 DEF Rejected, Blip
  <2>2. Moves(Failing(pc))
    <3>1. CASE Rejected(pc)
      <4>1. PICK e \in Errors :
              cmd' = [cmd EXCEPT !.pc = Failing(pc), !.err = IF pc = "first" THEN e ELSE cmd.err]
        BY <3>1 DEF Rejected, FailsBy
      <4>2. e \in {"none", "mixed", "idmapping", "isolation", "other"}
        BY ErrorsType
      <4> QED  BY <1>2, <1>3, <4>1, <4>2 DEF IInv, Typed, Moves, Cmd
    <3>2. CASE Blip(pc)
      <4>1. cmd.blips + 1 \in Nat
        BY DEF IInv, Typed, Cmd
      <4> QED  BY <1>2, <1>3, <3>2, <4>1 DEF Blip, IInv, Typed, Moves, Cmd
    <3> QED  BY <1>5, <3>1, <3>2
  <2> QED  BY <1>1, <1>2, <2>1, <2>2, GoesOn DEF Masked
<1>6. CASE SoftError(pc)
  <2>1. PICK q \in {"on", "poll"} : Moves(q)
    <3>1. PICK q \in {"on", "poll"} :
            cmd' = [cmd EXCEPT !.pc = q, !.err = IF pc = "first" THEN "other" ELSE cmd.err]
      BY <1>6 DEF SoftError
    <3> QED  BY <1>3, <3>1 DEF IInv, Typed, Moves, Cmd
  <2>2. Startable
    BY <1>6, ErrorsNone DEF SoftError
  <2> QED  BY <1>1, <1>6, <2>1, <2>2, ComesUp DEF SoftError
<1> QED  BY <1>4, <1>5, <1>6

LEMMA PollsInv == ASSUME IInv, PollUp \/ PollDown \/ LastFails \/ LastBlip PROVE IInv'
<1>1. Stays /\ inst' = inst /\ cmd.pc \in {"poll", "last"}
  BY DEF PollUp, PollDown, LastFails, LastBlip, Going, Stays
<1>2. CASE PollUp
  <2>1. Moves("on") /\ inst.st = "running" /\ cmd.pc = "poll"
    BY <1>2, GotoMoves DEF PollUp, Going, IInv, Places, Masked, Laid, Mapped
  <2> QED  BY <1>1, <2>1, Walks DEF IInv, UpInv, Places, Masked, Laid, Mapped, Mounting, Starting
<1>3. CASE PollDown \/ LastFails \/ LastBlip
  <2>1. PICK pc \in {"again", "heal", "giveup", "failed"} : Goto(pc)
    BY <1>3 DEF PollDown, LastFails, LastBlip
  <2>2. pc \in Places /\ pc \in (Masked \ {"on"}) \cup {"failed"}
    BY DEF Places, Masked, Laid, Mapped, Starting
  <2>3. inst.st # "running"
    BY <1>3 DEF PollDown, LastFails, LastBlip, Going, IInv, UpInv
  <2>4. Moves(pc)
    BY <2>1, <2>2, GotoMoves DEF IInv
  <2> QED  BY <1>1, <2>2, <2>3, <2>4, GoesOn DEF Masked
<1> QED  BY <1>2, <1>3

LEMMA RecreatesInv == ASSUME IInv, PollGone \/ Recreate \/ RecreateFails PROVE IInv'
<1>1. CASE PollGone
  <2>1. Stays /\ Moves("recreate") /\ inst' = NoInst /\ cmd.pc = "poll"
    BY <1>1, GotoMoves DEF PollGone, Going, Stays, IInv, Places
  <2>2. Typed' /\ UpInv'
    BY <2>1, NoRecords DEF IInv, Typed, UpInv, Stays, Moves
  <2>3. DoneInv'
    BY <2>1 DEF DoneInv, Moves, Masked, Laid, Mapped, Mounting, Starting
  <2>4. MapInv'
    BY <2>1, NoRecords DEF IInv, MapInv, Stays, Moves, Mounting
  <2> QED  BY <2>2, <2>3, <2>4 DEF IInv
<1>2. CASE Recreate
  <2>1. Stays /\ Moves("last") /\ inst' = Recreated /\ cmd.pc = "recreate"
    BY <1>2, GotoMoves DEF Recreate, Going, Stays, IInv, Places, Mapped, Laid, Masked
  <2>2. Mapping' = Mapping /\ (Mapping = "shift" => ~host.vm) /\ (Mapping = "none" => host.vm)
    BY <2>1 DEF Stays, Mapping, Off
  <2>3. /\ inst' \in InstType /\ inst'.st = "stopped" /\ inst'.src = here
        /\ inst'.devs = Devices /\ inst'.shift = (IF Mapping = "shift" THEN Devices ELSE {})
        /\ inst'.idmap <=> Mapping = "idmap"
    <3> DEFINE S == IF Mapping = "shift" THEN Devices ELSE {}
               m == Mapping = "idmap"
    <3>1. S \in SUBSET Devices /\ m \in BOOLEAN /\ here \in {"A", "B"}
      BY DEF IInv, Typed
    <3>2. inst' = [NoInst EXCEPT !.st = "stopped", !.idmap = m, !.src = here, !.devs = Devices,
                                 !.shift = S]
      BY <2>1 DEF Recreated
    <3> HIDE DEF S, m
    <3>3. /\ inst' \in InstType /\ inst'.st = "stopped" /\ inst'.src = here
          /\ inst'.devs = Devices /\ inst'.shift = S /\ inst'.idmap = m
      BY <3>1, <3>2 DEF NoInst, InstType
    <3> QED  BY <3>3 DEF S, m
  <2>4. "workspace" \in Devices /\ "mask" \in Devices
    BY DEF Devices, Security
  <2>5. Typed' /\ UpInv'
    BY <2>1, <2>3 DEF IInv, Typed, UpInv, Stays, Moves
  <2>6. DoneInv'
    BY <2>1, <2>2, <2>3, <2>4 DEF DoneInv, Stays, Moves, Masked, Laid, Mapped, Mounting, Starting
  <2>7. MapInv'
    BY <2>1, <2>2, <2>3, <2>4, MappingValues DEF IInv, MapInv, Stays, Moves, Mounting
  <2> QED  BY <2>5, <2>6, <2>7 DEF IInv
<1>3. CASE RecreateFails
  <2>1. /\ Stays /\ Moves("failed") /\ inst' \in {NoInst, [NoInst EXCEPT !.st = "stopped"]}
        /\ cmd.way # "enter"
    <3>1. /\ Stays /\ Moves("failed") /\ inst' \in {NoInst, [NoInst EXCEPT !.st = "stopped"]}
          /\ cmd.pc = "recreate"
      BY <1>3, GotoMoves DEF RecreateFails, Going, Stays, IInv, Places
    <3> QED  BY <3>1 DEF IInv, UpInv
  <2>2. inst' \in InstType /\ inst'.devs = {} /\ inst'.shift = {} /\ inst'.st # "running"
    <3>1. CASE inst' = NoInst
      BY <3>1, NoRecords
    <3>2. CASE inst' = [NoInst EXCEPT !.st = "stopped"]
      BY <3>2 DEF NoInst, InstType
    <3> QED  BY <2>1, <3>1, <3>2
  <2> QED  BY <2>1, <2>2, BareInv
<1> QED  BY <1>1, <1>2, <1>3

LEMMA LastInv == ASSUME IInv, Last PROVE IInv'
<1>1. Stays /\ Moves("on") /\ cmd.pc \in Masked \ {"on"} /\ Started
  BY GotoMoves DEF Last, Going, Stays, IInv, Places, Mapped, Laid, Masked
<1>2. Startable
  BY ErrorsNone DEF Last
<1> QED  BY <1>1, <1>2, ComesUp

LEMMA HealsInv == ASSUME IInv, Heal \/ HealFails PROVE IInv'
<1>1. Stays /\ Moves("healed") /\ cmd.pc = "heal" /\ inst.st # "running" /\ Mapping' = Mapping
  <2>1. Stays /\ Moves("healed") /\ cmd.pc = "heal"
    BY GotoMoves DEF Heal, HealFails, Going, Stays, IInv, Places, Mapped, Laid, Masked, Starting
  <2> QED  BY <2>1 DEF Stays, IInv, UpInv, Mapping, Off
<1>2. /\ inst' \in InstType /\ inst'.st = inst.st /\ inst'.devs = inst.devs /\ inst'.src = inst.src
      /\ inst'.shift \subseteq inst.shift /\ (inst'.idmap \/ inst'.unmapped)
  <2>1. CASE Heal
    BY <2>1 DEF Heal, IInv, Typed, InstType
  <2>2. CASE HealFails
    <3>1. PICK left \in SUBSET inst.shift, set \in BOOLEAN :
            inst' = [inst EXCEPT !.shift = left, !.idmap = inst.idmap \/ set,
                                 !.unmapped = inst.unmapped \/ ~set]
      BY <2>2 DEF HealFails
    <3> DEFINE m == inst.idmap \/ set
               u == inst.unmapped \/ ~set
    <3>2. m \in BOOLEAN /\ u \in BOOLEAN /\ left \in SUBSET Devices /\ (m \/ u)
      BY DEF IInv, Typed, InstType
    <3>3. inst' = [inst EXCEPT !.shift = left, !.idmap = m, !.unmapped = u] /\ inst \in InstType
      BY <3>1 DEF IInv, Typed
    <3> HIDE DEF m, u
    <3> QED  BY <3>2, <3>3 DEF InstType
  <2> QED  BY <2>1, <2>2
<1>3. inst.shift = {} => inst'.shift = {}
  BY <1>2
<1>4. Typed' /\ UpInv'
  BY <1>1, <1>2 DEF IInv, Typed, UpInv, Stays, Moves
<1>5. DoneInv'
  BY <1>1, <1>2 DEF IInv, DoneInv, Stays, Moves, Masked, Laid, Mapped, Mounting, Starting
<1>6. MapInv'
  BY <1>1, <1>2, <1>3 DEF IInv, MapInv, Stays, Moves, Mounting
<1> QED  BY <1>4, <1>5, <1>6 DEF IInv

LEMMA GivesUpInv ==
  ASSUME IInv, GiveUp \/ UnsetIsolation \/ UnsetBlind \/ UnsetFails \/ Restore \/ RestoreFails
  PROVE  IInv'
<1>1. /\ Stays /\ inst.st # "running" /\ cmd.pc \in Masked \ {"on", "poll"}
  <2>1. Stays /\ cmd.pc \in {"giveup", "restore"}
    BY DEF GiveUp, UnsetIsolation, UnsetBlind, UnsetFails, Restore, RestoreFails, Going, Stays
  <2> QED  BY <2>1 DEF IInv, UpInv, Masked
<1>2. PICK pc \in {"bare", "failed"} : Moves(pc)
  <2>1. {"bare", "failed"} \subseteq Places
    BY DEF Places, Mapped, Laid, Masked, Starting
  <2>2. CASE GiveUp \/ Restore
    BY <2>1, <2>2, GotoMoves DEF GiveUp, Restore, IInv
  <2>3. CASE UnsetIsolation \/ UnsetFails
    <3>1. PICK w \in BOOLEAN : cmd' = [cmd EXCEPT !.pc = "bare", !.was = w]
      <4>1. (cmd.way # "task" /\ inst.iso) \in BOOLEAN
        OBVIOUS
      <4> QED  BY <2>3, <4>1 DEF UnsetIsolation, UnsetFails
    <3> QED  BY <2>1, <3>1 DEF IInv, Typed, Moves, Cmd
  <2>4. CASE RestoreFails \/ UnsetBlind
    BY <2>1, <2>4 DEF RestoreFails, UnsetBlind, IInv, Typed, Moves, Cmd
  <2> QED  BY <2>2, <2>3, <2>4
<1>3. CASE GiveUp \/ UnsetFails \/ RestoreFails
  <2>1. inst' = inst
    BY <1>3 DEF GiveUp, UnsetFails, RestoreFails
  <2>2. pc \in (Masked \ {"on"}) \cup {"failed"}
    BY DEF Masked, Starting
  <2> QED  BY <1>1, <1>2, <2>1, <2>2, GoesOn
<1>4. CASE UnsetIsolation \/ UnsetBlind \/ Restore
  <2>1. PICK i \in BOOLEAN : inst' = [inst EXCEPT !.iso = i]
    <3>1. CASE UnsetIsolation \/ UnsetBlind
      BY <3>1 DEF UnsetIsolation, UnsetBlind
    <3>2. CASE Restore
      <4>1. (inst.iso \/ cmd.was) \in BOOLEAN
        OBVIOUS
      <4> QED  BY <3>2, <4>1 DEF Restore
    <3> QED  BY <1>4, <3>1, <3>2
  <2>2. /\ inst' \in InstType /\ inst'.st = inst.st /\ inst'.idmap = inst.idmap
        /\ inst'.unmapped = inst.unmapped /\ inst'.devs = inst.devs
        /\ inst'.shift = inst.shift /\ inst'.src = inst.src
    BY <2>1 DEF IInv, Typed, InstType
  <2> QED  BY <1>1, <1>2, <2>2, IsolationInv
<1> QED  BY <1>3, <1>4

LEMMA AllStartsInv == ASSUME IInv, Starts PROVE IInv'
<1>1. ASSUME NEW pc \in Starting, Start(pc) \/ Rejected(pc) \/ Blip(pc) \/ SoftError(pc)
      PROVE  IInv'
  BY <1>1, StartsInv
<1> QED  BY <1>1, PollsInv, RecreatesInv, LastInv, HealsInv, GivesUpInv DEF Starts

-----------------------------------------------------------------------------
(* The end of a command, and the world around it. *)

LEMMA AllEndsInv == ASSUME IInv, Ends PROVE IInv'
  BY EndsInv DEF Ends, Failed, Kept, Dropped, Left, Killed, Over, Going, Stays

LEMMA WorldInv == ASSUME IInv, World PROVE IInv'
<1>1. /\ cmd' = cmd /\ cmd.pc = "idle" /\ conf' \in BOOLEAN /\ here' \in {"A", "B"}
  BY DEF World, StoppedOutside, StartedOutside, Reconfigured, WorkspaceMoves, HostUpdated, Idle,
         IInv, Typed
<1>2. host' \in HostType /\ host'.vm = host.vm
  <2>1. CASE HostUpdated
    BY <2>1 DEF HostUpdated, IInv, Typed, HostType
  <2>2. CASE ~HostUpdated
    BY <2>2 DEF World, StoppedOutside, StartedOutside, Reconfigured, WorkspaceMoves, IInv, Typed
  <2> QED  BY <2>1, <2>2
<1>3. /\ inst' \in InstType /\ inst'.devs = inst.devs /\ inst'.shift = inst.shift
      /\ inst'.idmap = inst.idmap /\ inst'.unmapped = inst.unmapped
      /\ inst'.st = "running" => (Startable /\ (inst.byHand \/ Prepared))'
  <2>1. CASE StoppedOutside
    BY <2>1 DEF StoppedOutside, IInv, Typed, InstType
  <2>2. CASE HostUpdated
    <3>1. PICK t \in {"none", "stopped"} : inst' = [inst EXCEPT !.st = t]
      <4>1. (IF inst.st = "running" THEN "stopped" ELSE inst.st) \in {"none", "stopped"}
        BY DEF IInv, Typed, InstType
      <4> QED  BY <2>2, <4>1 DEF HostUpdated
    <3> QED  BY <3>1 DEF IInv, Typed, InstType
  <2>3. CASE StartedOutside
    <3>1. /\ inst' \in InstType /\ inst'.devs = inst.devs /\ inst'.shift = inst.shift
          /\ inst'.idmap = inst.idmap /\ inst'.unmapped = inst.unmapped /\ inst'.byHand
      BY <2>3 DEF StartedOutside, IInv, Typed, InstType
    <3>2. Startable /\ host' = host
      BY <2>3, ErrorsNone DEF StartedOutside
    <3>3. Startable'
      BY <3>1, <3>2 DEF Startable
    <3> QED  BY <3>1, <3>3
  <2>4. CASE inst' = inst /\ host' = host
    BY <2>4 DEF IInv, Typed, UpInv, Startable, Prepared, Plain
  <2> QED  BY <2>1, <2>2, <2>3, <2>4 DEF World, Reconfigured, WorkspaceMoves
<1>4. cmd' \in Cmd /\ cmd'.pc = "idle" /\ cmd'.way # "enter" /\ (host.vm => ~cmd'.shift)
  BY <1>1 DEF IInv, Typed, MapInv, UpInv
<1> QED  BY <1>1, <1>2, <1>3, <1>4, IdleKeeps

-----------------------------------------------------------------------------
(* The theorems. *)

LEMMA StepInv == ASSUME IInv, [Next]_vars PROVE IInv'
<1>1. CASE Next
  BY <1>1, BeginsInv, PreparesInv, ReusesInv, AllStartsInv, AllEndsInv, WorldInv DEF Next
<1>2. CASE UNCHANGED vars
  <2>1. Mapping' = Mapping /\ Startable' = Startable /\ Prepared' = Prepared
    BY <1>2 DEF vars, Mapping, Off, Startable, Prepared, Plain
  <2> QED  BY <1>2, <2>1 DEF vars, IInv, Typed, UpInv, DoneInv, MapInv
<1> QED  BY <1>1, <1>2

LEMMA Invariance == Spec => []IInv
  BY InitInv, StepInv, PTL DEF Spec

\* No session runs with a secret exposed, whatever failed in its launch and
\* in the ones before (StripSecurityDevices, applySessionSecurity); a shell that
\* joins a running container neither, unless it was started by hand.
THEOREM SecretsCovered == Spec => []FailClosed
<1>1. IInv => FailClosed
  BY DEF IInv, DoneInv, UpInv, Prepared, FailClosed, Session, Unprepared, Masked
<1> QED  BY <1>1, Invariance, PTL

\* The workspace of a session is the one it was started in, and the user of
\* the container can write it (decideUIDMapping, ResolveReuseUIDMapping,
\* fallbackShiftToRawIdmap, RemountMovedWorkspace).
THEOREM WorkspaceRight == Spec => []RightWorkspace
<1>1. ASSUME IInv, Session PROVE inst.src = here \/ cmd.warned
  BY <1>1 DEF IInv, DoneInv, Session, Masked, Laid
<1>2. ASSUME IInv, Session, ~Unprepared, "workspace" \in inst.devs, ~inst.unmapped PROVE Writable
  <2>1. Startable /\ (inst.idmap \/ Plain)
    <3>1. Mapping # "idmap" => Plain
      BY DEF Mapping, Off, Plain
    <3>2. inst.st = "running"
      BY <1>2 DEF IInv, UpInv, Session
    <3>3. cmd.way # "enter" => inst.idmap \/ Mapping # "idmap"
      BY <1>2 DEF IInv, DoneInv, Session, Masked, Laid, Mapped
    <3>4. cmd.way = "enter" => inst.idmap \/ Plain
      BY <1>2, <3>2 DEF IInv, UpInv, Prepared, Unprepared
    <3> QED  BY <1>2, <3>1, <3>2, <3>3, <3>4 DEF IInv, UpInv
  <2>2. host.shift \in {"ok", "refused", "broken"}
    BY <1>2 DEF IInv, Typed, HostType
  <2>3. "workspace" \in inst.shift => inst.shift # {} /\ ~host.vm
    BY <1>2 DEF IInv, MapInv
  <2>4. ~inst.idmap /\ "workspace" \notin inst.shift => host.vm
    BY <1>2 DEF IInv, MapInv
  <2> QED  BY <2>1, <2>2, <2>3, <2>4 DEF Writable, Startable, Plain
<1>3. IInv => RightWorkspace
  BY <1>1, <1>2 DEF RightWorkspace
<1> QED  BY <1>3, Invariance, PTL

-----------------------------------------------------------------------------
(* IsolationKept: what becomes of the isolation of the container over the   *)
(* starts of a command.                                                     *)

\* A command that prepares the container, up to its first start.
Prep == {"create", "map", "mount", "protect", "mask", "isolate", "strip", "remap",
         "convert", "moved", "unmount", "resolve", "first"}
Tried == {"poll", "again", "heal", "healed", "giveup", "bare", "restore"}

\* What keeps the container from starting, other than its isolation; and the
\* failures after which isolation may be given away.
Fit == Startable /\ host.sound
Count == IF host.shift = "refused" THEN 1 ELSE 2
Spent == ~host.iso \/ ~Fit \/ cmd.blips >= Count

\* Isolation is given away in one place only, and what it was is remembered.
KeptInv ==
  /\ cmd.pc \in Prep \cup {"poll", "again", "heal", "healed", "giveup", "failed"} =>
       (cmd.iso => inst.iso \/ (cmd.pc = "failed" /\ cmd.lost))
  /\ cmd.pc \in {"bare", "restore"} => (cmd.iso => cmd.was \/ cmd.lost)

\* A start that failed did so for a reason that stays, or is counted.
SpentInv ==
  /\ cmd.pc = "again" \/ (cmd.pc = "poll" /\ inst.st # "running") =>
       ~host.iso \/ ~Fit \/ cmd.blips >= 1
  /\ cmd.pc \in {"giveup", "bare"} => Spent
  /\ cmd.pc = "on" => (cmd.iso => inst.iso \/ ~host.iso \/ cmd.blips >= Count)

\* Idmapped mounts are converted only on a host that refuses them.
HealInv ==
  /\ cmd.pc \in {"poll", "again"} /\ cmd.err = "idmapping" => host.shift = "refused"
  /\ cmd.pc \in {"heal", "healed"} => host.shift = "refused"

IsoInv ==
  /\ inst.st = "none" => ~inst.iso
  /\ cmd.pc \in (Prep \ {"create"}) \cup Tried => inst.st # "none"
  /\ cmd.pc \in {"recreate", "last", "over"} => cmd.way = "task"
  /\ cmd.way \notin {"task", "enter"} => /\ cmd.pc = "create" => ~cmd.iso
                                      /\ KeptInv
                                      /\ SpentInv
                                      /\ HealInv

-----------------------------------------------------------------------------
(* Steps up to the first start.                                             *)

\* The command goes on to pc, and remembers what it did.
Same(pc) == /\ cmd'.pc = pc /\ cmd'.way = cmd.way /\ cmd'.iso = cmd.iso
            /\ cmd'.err = cmd.err /\ cmd'.was = cmd.was /\ cmd'.blips = cmd.blips
            /\ cmd'.lost = cmd.lost

LEMMA GotoSame ==
  ASSUME Typed, NEW pc, Goto(pc) PROVE Same(pc)
  BY DEF Typed, Goto, Same, Cmd

LEMMA PrepKeeps ==
  ASSUME IsoInv, cmd.pc \in Prep, cmd'.pc \in Prep \cup {"failed"}, cmd'.pc # "create",
         cmd'.way = cmd.way, inst'.st = "none" => ~inst'.iso /\ cmd'.pc = "failed",
         cmd'.iso /\ cmd.way \notin {"task", "enter"} => inst'.iso
  PROVE  IsoInv'
  BY DEF IsoInv, KeptInv, SpentInv, HealInv, Prep, Tried

\* The command goes on, and isolation is as it was.
LEMMA PrepGoes ==
  ASSUME IsoInv, cmd.pc \in Prep \ {"create"}, NEW pc \in (Prep \cup {"failed"}) \ {"create"},
         cmd'.pc = pc, cmd'.way = cmd.way, cmd'.iso = cmd.iso, inst'.iso = inst.iso,
         inst'.st = inst.st
  PROVE  IsoInv'
<1>1. inst'.st # "none"
  BY DEF IsoInv
<1>2. cmd'.iso /\ cmd.way \notin {"task", "enter"} => inst'.iso
  BY DEF IsoInv, KeptInv, Prep
<1> QED  BY <1>1, <1>2, PrepKeeps

LEMMA IdleIso ==
  ASSUME cmd'.pc = "idle", inst'.st = "none" => ~inst'.iso
  PROVE  IsoInv'
  BY DEF IsoInv, KeptInv, SpentInv, HealInv, Prep, Tried

LEMMA BeginIso ==
  ASSUME IsoInv, IInv, NEW way \in Ways, NEW pc \in {"create", "strip", "resolve", "over", "enter"},
         NEW fresh \in BOOLEAN, Begin(way, pc, fresh),
         pc = "create" <=> inst.st = "none", pc = "over" => way = "task"
  PROVE  IsoInv'
<1>1. cmd'.pc = pc /\ cmd'.way = way /\ cmd'.iso = inst.iso /\ inst' = inst
  BY DEF Begin, NoCmd
<1> QED  BY <1>1 DEF IsoInv, KeptInv, SpentInv, HealInv, Prep, Tried

LEMMA BeginsIso == ASSUME IInv, IsoInv, Begins PROVE IsoInv'
<1>1. ASSUME NEW w \in Ways, BeginFresh(w) \/ BeginReuse(w) PROVE IsoInv'
  BY <1>1, BeginIso DEF BeginFresh, BeginReuse
<1>2. CASE BeginStart \/ BeginOver \/ BeginEnter
  BY <1>2, BeginIso DEF BeginStart, BeginOver, BeginEnter, Ways
<1>3. CASE DeleteOld
  <2>1. cmd'.pc = "create" /\ cmd'.way = "task" /\ ~inst'.iso
    BY <1>3, GotoSame DEF DeleteOld, Going, Same, IInv, IsoInv, NoInst
  <2> QED  BY <2>1 DEF IsoInv, Prep, Tried
<1>4. CASE DeleteOldFails
  BY <1>4, IdleIso, NoRecords DEF DeleteOldFails, IsoInv
<1>5. CASE Enter \/ EnterUnread
  <2>1. cmd'.pc = "on" /\ cmd'.way = "enter" /\ inst' = inst
    BY <1>5 DEF Enter, EnterUnread, Enters, Going, IInv, UpInv, Typed, Cmd
  <2> QED  BY <2>1 DEF IsoInv, Prep, Tried
<1>6. CASE EnterOther
  BY <1>6, IdleIso, NoRecords DEF EnterOther, IsoInv
<1> QED  BY <1>1, <1>2, <1>3, <1>4, <1>5, <1>6 DEF Begins

LEMMA PreparesIso == ASSUME IInv, IsoInv, Prepares PROVE IsoInv'
<1>1. CASE MountFails \/ MaskExists \/ MaskFails \/ ProtectExists \/ ProtectFails \/ IsolateFails
  <2>1. PICK pc \in {"failed", "mask", "first"} : Goto(pc)
    BY <1>1 DEF MountFails, MaskExists, MaskFails, ProtectExists, ProtectFails, IsolateFails
  <2>2. inst' = inst /\ cmd.pc \in Prep \ {"create"}
    BY <1>1 DEF MountFails, MaskExists, MaskFails, ProtectExists, ProtectFails, IsolateFails,
       Going, Prep
  <2>3. pc \in (Prep \cup {"failed"}) \ {"create"}
    BY DEF Prep
  <2>4. Same(pc)
    BY <2>1, GotoSame DEF IInv
  <2> QED  BY <2>2, <2>3, <2>4, PrepGoes DEF Same
<1>2. CASE Protect \/ Mask \/ Mount
  <2>1. PICK pc \in {"mask", "isolate", "first", "protect"} : Goto(pc)
    BY <1>2 DEF Protect, Mask, Mount, AfterMask
  <2>2. cmd.pc \in Prep \ {"create"} /\ inst'.iso = inst.iso /\ inst'.st = inst.st
    BY <1>2 DEF Protect, Mask, Mount, WithDevice, Going, Prep, IInv, Typed, InstType
  <2>3. pc \in (Prep \cup {"failed"}) \ {"create"}
    BY DEF Prep
  <2>4. Same(pc)
    BY <2>1, GotoSame DEF IInv
  <2> QED  BY <2>2, <2>3, <2>4, PrepGoes DEF Same
<1>3. CASE Map \/ MapFails
  <2>1. /\ cmd.pc \in Prep \ {"create"} /\ inst'.iso = inst.iso /\ inst'.st = inst.st
        /\ cmd'.pc = "mount" /\ cmd'.way = cmd.way /\ cmd'.iso = cmd.iso
    BY <1>3 DEF Map, MapFails, Going, Prep, IInv, Typed, InstType, Cmd
  <2> QED  BY <2>1, PrepGoes DEF Prep
<1>4. CASE Create \/ CreateFails
  <2>1. PICK pc \in {"map", "failed"} : Goto(pc) /\ (pc = "map" => Create)
    BY <1>4 DEF Create, CreateFails
  <2>2. cmd.pc = "create" /\ inst' \in {inst, [NoInst EXCEPT !.st = "stopped"]}
    BY <1>4 DEF Create, CreateFails, Going
  <2>3. Same(pc)
    BY <2>1, GotoSame DEF IInv
  <2>4. inst'.st = "none" => ~inst'.iso /\ pc = "failed"
    BY <2>1, <2>2 DEF NoInst, IsoInv, Create
  <2>5. cmd'.iso => cmd.way \in {"task", "enter"}
    BY <2>2, <2>3 DEF IsoInv, Same
  <2> QED  BY <2>2, <2>3, <2>4, <2>5, PrepKeeps DEF Same, Prep
<1>5. CASE Isolate
  <2>1. /\ cmd.pc \in Prep /\ inst'.iso /\ inst'.st = inst.st
        /\ cmd'.pc = "first" /\ cmd'.way = cmd.way
    BY <1>5 DEF Isolate, Going, Prep, IInv, Typed, InstType, Cmd
  <2>2. inst.st # "none"
    BY <1>5 DEF Isolate, Going, IsoInv, Prep
  <2> QED  BY <2>1, <2>2, PrepKeeps DEF Prep
<1> QED  BY <1>1, <1>2, <1>3, <1>4, <1>5 DEF Prepares

LEMMA ReusesIso == ASSUME IInv, IsoInv, Reuses PROVE IsoInv'
<1>1. CASE UnmountFails \/ Unmount \/ Strip \/ StripFails \/ Convert \/ ConvertFails
  <2>1. PICK pc \in {"failed", "mount", "remap", "first", "moved"} : Goto(pc)
    BY <1>1 DEF UnmountFails, Unmount, Strip, StripFails, Convert, ConvertFails, AfterConvert
  <2>2. cmd.pc \in Prep \ {"create"}
    BY <1>1 DEF UnmountFails, Unmount, Strip, StripFails, Convert, ConvertFails, Going, Prep
  <2>3. inst'.iso = inst.iso /\ inst'.st = inst.st
    BY <1>1 DEF UnmountFails, Unmount, Strip, StripFails, Convert, ConvertFails, IInv, Typed, InstType
  <2>4. pc \in (Prep \cup {"failed"}) \ {"create"}
    BY DEF Prep
  <2>5. Same(pc)
    BY <2>1, GotoSame DEF IInv
  <2> QED  BY <2>2, <2>3, <2>4, <2>5, PrepGoes DEF Same
<1>2. CASE Remap \/ RemapFails \/ Moved \/ MovedUnread
  <2>1. cmd.pc \in Prep \ {"create"}
    BY <1>2 DEF Remap, RemapFails, Moved, MovedUnread, Going, Prep
  <2>2. inst'.iso = inst.iso /\ inst'.st = inst.st
    BY <1>2 DEF Remap, RemapFails, Moved, MovedUnread, IInv, Typed, InstType
  <2>3. /\ cmd'.pc \in {"convert", "moved", "protect", "unmount"}
        /\ cmd'.way = cmd.way /\ cmd'.iso = cmd.iso
    BY <1>2 DEF Remap, Remapped, RemapFails, Moved, MovedUnread, IInv, Typed, Cmd
  <2> QED  BY <2>1, <2>2, <2>3, PrepGoes DEF Prep
<1>3. CASE Resolve \/ ResolveFails
  <2>1. PICK pc \in {"first", "convert"} : Goto(pc)
    BY <1>3 DEF Resolve, ResolveFails
  <2>2. cmd.pc \in Prep \ {"create"}
    BY <1>3 DEF Resolve, ResolveFails, Going, Prep
  <2>3. inst'.iso = inst.iso /\ inst'.st = inst.st
    BY <1>3 DEF Resolve, ResolveFails, IInv, Typed, InstType
  <2>4. pc \in (Prep \cup {"failed"}) \ {"create"}
    BY DEF Prep
  <2>5. Same(pc)
    BY <2>1, GotoSame DEF IInv
  <2> QED  BY <2>2, <2>3, <2>4, <2>5, PrepGoes DEF Same
<1> QED  BY <1>1, <1>2, <1>3 DEF Reuses

-----------------------------------------------------------------------------
(* The start and its fallbacks. *)

LEMMA ErrorsFit == /\ Errors = {} => Fit
                   /\ Errors # {} /\ host.iso => ~Fit
  BY DEF Errors, Fit, Startable

LEMMA FitStays ==
  ASSUME host' = host, inst'.idmap = inst.idmap, inst'.shift = inst.shift
  PROVE  Fit' = Fit /\ Count' = Count
  BY DEF Fit, Startable, Count

LEMMA CountValues == Count \in {1, 2} /\ (host.shift = "refused" => Count = 1)
  BY DEF Count

LEMMA StartIso ==
  ASSUME IInv, IsoInv, NEW pc \in Starting, Start(pc) \/ SoftError(pc)
  PROVE  IsoInv'
<1>1. /\ cmd.pc = pc /\ host' = host /\ Fit
  BY ErrorsFit DEF Start, SoftError, Going
<1>2. /\ inst'.st = "running" /\ inst'.iso = inst.iso
  BY DEF Start, SoftError, Started, IInv, Typed, InstType
<1>3. /\ cmd'.pc \in {"on", "poll"} /\ cmd'.way = cmd.way /\ cmd'.iso = cmd.iso
      /\ cmd'.blips = cmd.blips
      /\ cmd'.pc = "poll" => pc = "first" /\ cmd'.err = "other"
  <2>1. CASE Start(pc)
    BY <2>1, GotoSame DEF Start, IInv, Same
  <2>2. CASE SoftError(pc)
    BY <2>2 DEF SoftError, IInv, Typed, Cmd
  <2> QED  BY <2>1, <2>2
<1>4. Count' = Count
  BY <1>1 DEF Count
<1>5. cmd.way \notin {"task", "enter"} => (cmd.iso => inst.iso \/ ~host.iso \/ cmd.blips >= Count)
                          /\ (pc = "first" => (cmd.iso => inst.iso))
  BY <1>1, CountValues DEF IsoInv, KeptInv, SpentInv, Spent, Starting, Prep
<1> QED  BY <1>1, <1>2, <1>3, <1>4, <1>5 DEF IsoInv, KeptInv, SpentInv, HealInv, Prep, Tried

LEMMA FailsIso ==
  ASSUME IInv, IsoInv, NEW pc \in Starting, Rejected(pc) \/ Blip(pc)
  PROVE  IsoInv'
<1>1. /\ cmd.pc = pc /\ host' = host /\ inst' = inst /\ Fit' = Fit /\ Count' = Count
  <2>1. cmd.pc = pc /\ host' = host /\ inst' = inst
    BY DEF Rejected, Blip, Going
  <2> QED  BY <2>1, FitStays
<1>2. /\ cmd'.pc = Failing(pc) /\ cmd'.way = cmd.way /\ cmd'.iso = cmd.iso /\ cmd'.was = cmd.was
      /\ cmd'.lost = cmd.lost
      /\ pc # "first" => cmd'.err = cmd.err
      /\ cmd.blips \in Nat
      /\ \/ ~host.iso /\ cmd'.blips = cmd.blips
         \/ ~Fit /\ cmd'.blips = cmd.blips
         \/ Fit /\ cmd'.blips = cmd.blips + 1
  <2>1. CASE Rejected(pc)
    <3>1. PICK e \in Errors : FailsBy(pc, e)
      BY <2>1 DEF Rejected
    <3>2. ~host.iso \/ ~Fit
      BY <3>1, ErrorsFit
    <3> QED  BY <3>1, <3>2 DEF FailsBy, IInv, Typed, Cmd
  <2>2. CASE Blip(pc)
    <3>1. Fit
      BY <2>2, ErrorsFit DEF Blip
    <3> QED  BY <2>2, <3>1 DEF Blip, IInv, Typed, Cmd
  <2> QED  BY <2>1, <2>2
<1>3. pc = "first" /\ cmd'.err = "idmapping" => host.shift = "refused"
  <2>1. CASE Rejected(pc)
    BY <2>1 DEF Rejected, FailsBy, Errors, IInv, Typed, Cmd
  <2>2. CASE Blip(pc)
    BY <2>2 DEF Blip, IInv, Typed, Cmd
  <2> QED  BY <2>1, <2>2
<1>4. CASE pc = "first"
  <2>1. cmd'.pc = "poll"
    BY <1>2, <1>4 DEF Failing
  <2>2. ~host.iso \/ ~Fit \/ cmd'.blips >= 1
    BY <1>2
  <2> QED  BY <1>1, <1>2, <1>3, <1>4, <2>1, <2>2 DEF IsoInv, KeptInv, SpentInv, HealInv, Prep, Tried
<1>5. CASE pc = "again"
  <2>1. \/ cmd'.pc = "heal" /\ cmd.err = "idmapping"
        \/ cmd'.pc = "giveup"
    BY <1>2, <1>5 DEF Failing, Heals
  <2>2. cmd.way \notin {"task", "enter"} => ~host.iso \/ ~Fit \/ cmd.blips >= 1
    BY <1>1, <1>5 DEF IsoInv, SpentInv
  <2>3. cmd.way \notin {"task", "enter"} => ~host.iso \/ ~Fit \/ cmd'.blips >= Count
    BY <1>2, <2>2, CountValues
  <2> QED  BY <1>1, <1>2, <1>5, <2>1, <2>3 DEF IsoInv, KeptInv, SpentInv, Spent, HealInv, Prep, Tried
<1>6. CASE pc = "healed"
  <2>1. cmd'.pc = "giveup"
    BY <1>2, <1>6 DEF Failing
  <2>2. cmd.way \notin {"task", "enter"} => ~host.iso \/ ~Fit \/ cmd'.blips >= Count
    BY <1>1, <1>2, <1>6, CountValues DEF IsoInv, HealInv
  <2> QED  BY <1>1, <1>2, <1>6, <2>1, <2>2 DEF IsoInv, KeptInv, SpentInv, Spent, HealInv, Prep, Tried
<1>7. CASE pc = "bare"
  <2>1. cmd'.pc = "restore"
    BY <1>2, <1>7 DEF Failing
  <2> QED  BY <1>1, <1>2, <1>7, <2>1 DEF IsoInv, KeptInv, SpentInv, HealInv, Prep, Tried
<1> QED  BY <1>4, <1>5, <1>6, <1>7 DEF Starting

LEMMA PollsIso ==
  ASSUME IInv, IsoInv, PollUp \/ PollDown PROVE IsoInv'
<1>1. PICK pc \in {"on", "again", "heal", "giveup"} :
        /\ Same(pc) /\ cmd.pc = "poll" /\ host' = host /\ inst' = inst
        /\ pc = "on" \/ inst.st = "stopped"
        /\ pc \in {"heal", "giveup"} => cmd.way = "task"
  <2>1. PICK pc \in {"on", "again", "heal", "giveup"} :
          /\ Goto(pc) /\ cmd.pc = "poll" /\ host' = host /\ inst' = inst
          /\ pc = "on" \/ inst.st = "stopped"
          /\ pc \in {"heal", "giveup"} => cmd.way = "task"
    BY DEF PollUp, PollDown, Going
  <2> QED  BY <2>1, GotoSame DEF IInv
<1>2. Fit' = Fit /\ Count' = Count
  BY <1>1, FitStays
<1> QED  BY <1>1, <1>2 DEF Same, IsoInv, KeptInv, SpentInv, HealInv, Prep, Tried

\* Only an ephemeral coi run makes its container again.
LEMMA TasksIso ==
  ASSUME IInv, IsoInv, PollGone \/ Recreate \/ RecreateFails \/ Last \/ LastFails \/ LastBlip
  PROVE  IsoInv'
<1>1. cmd'.way = "task" /\ cmd'.pc \notin Prep \cup Tried
  <2>1. PICK pc \in {"recreate", "last", "failed", "on"} : Goto(pc)
    BY DEF PollGone, Recreate, RecreateFails, Last, LastFails, LastBlip
  <2>2. cmd.way = "task"
    BY DEF PollGone, Recreate, RecreateFails, Last, LastFails, LastBlip, Going, IsoInv
  <2> QED  BY <2>1, <2>2, GotoSame DEF IInv, Same, Prep, Tried
<1>2. inst'.st = "none" => ~inst'.iso
  <2>1. CASE inst' \in {inst, NoInst, [NoInst EXCEPT !.st = "stopped"]}
    BY <2>1 DEF NoInst, IsoInv
  <2>2. CASE Recreate
    BY <2>2 DEF Recreate, Recreated, NoInst
  <2>3. CASE Last
    BY <2>3 DEF Last, Started, IInv, Typed, InstType
  <2> QED  BY <2>1, <2>2, <2>3 DEF PollGone, RecreateFails, LastFails, LastBlip
<1> QED  BY <1>1, <1>2 DEF IsoInv

LEMMA HealsIso == ASSUME IInv, IsoInv, Heal \/ HealFails PROVE IsoInv'
<1>1. Same("healed") /\ cmd.pc = "heal" /\ host' = host
  BY GotoSame DEF Heal, HealFails, Going, IInv
<1>2. inst'.iso = inst.iso /\ inst'.st = inst.st
  BY DEF Heal, HealFails, IInv, Typed, InstType
<1> QED  BY <1>1, <1>2 DEF Same, IsoInv, KeptInv, SpentInv, HealInv, Prep, Tried

LEMMA GivesUpIso ==
  ASSUME IInv, IsoInv,
         GiveUp \/ UnsetIsolation \/ UnsetBlind \/ UnsetFails \/ Restore \/ RestoreFails
  PROVE  IsoInv'
<1>1. CASE GiveUp
  <2>1. Same("failed") /\ cmd.pc = "giveup" /\ inst' = inst
    BY <1>1, GotoSame DEF GiveUp, Going, IInv
  <2> QED  BY <2>1 DEF Same, IsoInv, KeptInv, SpentInv, HealInv, Prep, Tried
<1>2. CASE UnsetIsolation \/ UnsetBlind \/ UnsetFails
  <2>1. cmd.pc = "giveup" /\ host' = host
    BY <1>2 DEF UnsetIsolation, UnsetBlind, UnsetFails, Going
  <2>2. /\ cmd'.pc = "bare" /\ cmd'.way = cmd.way /\ cmd'.iso = cmd.iso /\ cmd'.blips = cmd.blips
        /\ (cmd'.lost \/ (cmd'.was <=> cmd.way # "task" /\ inst.iso))
        /\ cmd.lost => cmd'.lost
    BY <1>2 DEF UnsetIsolation, UnsetBlind, UnsetFails, IInv, Typed, Cmd
  <2>3. /\ inst'.st = inst.st /\ (inst'.iso => inst.iso)
        /\ inst'.idmap = inst.idmap /\ inst'.shift = inst.shift
    BY <1>2 DEF UnsetIsolation, UnsetBlind, UnsetFails, IInv, Typed, InstType
  <2>4. Fit' = Fit /\ Count' = Count
    BY <2>1, <2>3, FitStays
  <2> QED  BY <2>1, <2>2, <2>3, <2>4 DEF IsoInv, KeptInv, SpentInv, Spent, HealInv, Prep, Tried
<1>3. CASE Restore
  <2>1. Same("failed") /\ cmd.pc = "restore"
    BY <1>3, GotoSame DEF Restore, Going, IInv
  <2>2. /\ inst'.st = inst.st
        /\ inst'.iso <=> inst.iso \/ cmd.was
    BY <1>3 DEF Restore, IInv, Typed, InstType
  <2>3. inst.st # "none"
    BY <2>1 DEF IsoInv, Tried
  <2> QED  BY <2>1, <2>2, <2>3 DEF Same, IsoInv, KeptInv, SpentInv, HealInv, Prep, Tried
<1>4. CASE RestoreFails
  <2>1. cmd'.pc = "failed" /\ cmd'.way = cmd.way /\ cmd'.lost /\ inst' = inst
    BY <1>4 DEF RestoreFails, IInv, Typed, Cmd
  <2> QED  BY <2>1 DEF IsoInv, KeptInv, SpentInv, HealInv, Prep, Tried
<1> QED  BY <1>1, <1>2, <1>3, <1>4

LEMMA StartsIso == ASSUME IInv, IsoInv, Starts PROVE IsoInv'
<1>1. ASSUME NEW pc \in Starting, Start(pc) \/ Rejected(pc) \/ Blip(pc) \/ SoftError(pc)
      PROVE  IsoInv'
  BY <1>1, StartIso, FailsIso
<1> QED  BY <1>1, PollsIso, TasksIso, HealsIso, GivesUpIso DEF Starts

-----------------------------------------------------------------------------
(* The end of a command, and the world around it. *)

LEMMA EndsIso == ASSUME IInv, IsoInv, Ends PROVE IsoInv'
<1>1. cmd'.pc = "idle"
  BY NoRecords DEF Ends, Failed, Kept, Dropped, Left, Killed, Over
<1>2. inst'.st = "none" => ~inst'.iso
  <2>1. CASE inst' \in {inst, NoInst}
    BY <2>1 DEF NoInst, IsoInv
  <2>2. CASE inst' = [inst EXCEPT !.st = "stopped"]
    BY <2>2 DEF IInv, Typed, InstType
  <2> QED  BY <2>1, <2>2 DEF Ends, Failed, Kept, Dropped, Left, Killed, Over
<1> QED  BY <1>1, <1>2, IdleIso

LEMMA WorldIso == ASSUME IInv, IsoInv, World PROVE IsoInv'
<1>1. cmd'.pc = "idle"
  BY DEF World, StoppedOutside, StartedOutside, Reconfigured, WorkspaceMoves, HostUpdated, Idle
<1>2. inst'.st = "none" => ~inst'.iso
  BY DEF World, StoppedOutside, StartedOutside, Reconfigured, WorkspaceMoves, HostUpdated, IInv, Typed, InstType,
     IsoInv
<1> QED  BY <1>1, <1>2, IdleIso

-----------------------------------------------------------------------------

LEMMA StepIso == ASSUME IInv, IsoInv, [Next]_vars PROVE IsoInv'
<1>1. CASE Next
  BY <1>1, BeginsIso, PreparesIso, ReusesIso, StartsIso, EndsIso, WorldIso DEF Next
<1>2. CASE UNCHANGED vars
  <2>1. Fit' = Fit /\ Count' = Count
    BY <1>2, FitStays DEF vars
  <2> QED  BY <1>2, <2>1 DEF vars, IsoInv, KeptInv, SpentInv, Spent, HealInv
<1> QED  BY <1>1, <1>2

\* A failed start leaves the isolation of the container as it was, unless
\* it could not be read or set again, and one
\* that came up gave it away only for a host without it, or after as many
\* failures of another kind as the fallbacks repeat (StartWithIsolationFallback).
THEOREM IsolationAlways == Spec => []IsolationKept
<1>1. Init => IsoInv
  BY IdleIso DEF Init, NoCmd, NoInst, IsoInv, KeptInv, SpentInv, HealInv, Prep, Tried
<1>2. IsoInv => IsolationKept
  BY DEF IsoInv, KeptInv, SpentInv, Count, IsolationKept
<1>3. Spec => []IsoInv
  BY <1>1, StepIso, Invariance, PTL DEF Spec
<1> QED  BY <1>2, <1>3, PTL

-----------------------------------------------------------------------------
(* From the files to what passes the gate: Config.                          *)

Origin == Untrusted \cup {None}
MountEntry == [file : Sources, id : Versions \cup {None}, from : Origin]
WebEntry == [file : Sources, from : Origin]
PoolType == [n : Nat, from : Origin, own : Nat]
PortsType == [pool : PoolType, web : Seq(WebEntry)]
ValuesType == [Settings -> Sources \cup {None}]
LayerType == [val : ValuesType, mounts : Seq(MountEntry), ports : PortsType,
              src : Sources \cup {"default"}]
ConfigurationType == [val : ValuesType, mounts : Seq(MountEntry), ports : PortsType,
                      layers : Seq(Sources \cup {"default"}), pools : Seq(PoolType)]

\* A layer whose protected settings are the user's, and whose session name, if
\* it comes with a profile of his, is that profile's own.
OwnName(l) == /\ l.val.name \in Trusted \cup {None}
              /\ l.val.name = "home" => l.src = "home"
GoodLayer(l) == l \in LayerType /\ l.val.guard \in Trusted \cup {None} /\ OwnName(l)

\* The same for what is merged of layers: the profile has been applied.
Applied(c, src) == \E i \in DOMAIN c.layers : c.layers[i] = src
Chosen(c) == /\ c.val.guard \in Trusted \cup {None}
             /\ c.val.name \in Trusted \cup {None}
             /\ c.val.name = "home" => Applied(c, "home")

\* n is the uppermost of the user's own pools.
Uppermost(pools, n) ==
  LET mine == {i \in DOMAIN pools : pools[i].from = None}
  IN  \/ mine = {} /\ n = 0
      \/ \E i \in mine : n = pools[i].n /\ \A j \in mine : j <= i

\* The pool is the uppermost one, and remembers the user's own below it.
Remembers(pools, pool) ==
  /\ pools = <<>> => pool = NoPool
  /\ pools # <<>> => /\ pool.n = pools[Len(pools)].n /\ pool.n > 0
                     /\ pool.from = pools[Len(pools)].from
                     /\ pool.from # None => Uppermost(pools, pool.own)

GoodConfigs == {c \in ConfigurationType : Chosen(c) /\ Remembers(c.pools, c.ports.pool)}
GoodProfiles == {r \in [Profiles -> LayerType] :
                   \A q \in Profiles : GoodLayer(r[q]) /\ r[q].src = q}

\* What a source has, and what a launch takes.
DeclaredType == [mounts : Seq(MountEntry), web : Seq(WebEntry), pool : Nat]
StoreType == [Untrusted -> DeclaredType]
Chosens == Profiles \cup {None}

Preparing == [pc : {"loaded", "overlaid", "chosen", "configured"}, way : LineType,
              profiles : GoodProfiles, profile : Chosens, cfg : GoodConfigs]
Updating == [pc : {"updating"}, way : LineType, cfg : GoodConfigs, store : StoreType]
Launched == [pc : {"launched"}, way : LineType, profile : Chosens, cfg : GoodConfigs,
             profiles : GoodProfiles, kept : DeclaredType, approved : StoreType]
Commands == {NoCommand} \cup Preparing \cup Updating \cup Launched

AliasType == {Unregistered} \cup [at : {"cwd", "there"}, profile : Chosens]

CTyped == /\ files \in [Sources -> FileType] /\ store \in StoreType
          /\ approved \in StoreType /\ aliases \in [Sources -> AliasType]
          /\ sessions \in [{"cwd", "there"} -> Chosens]
          /\ cmds \in [Procs -> Commands]

\* A profile given on the command line has been applied when the command was
\* loaded.
GivenInv == \A p \in Procs : At(p, "loaded") /\ cmds[p].profile # None
                               => Applied(cmds[p].cfg, cmds[p].profile)

\* Until two updates overlap the store is what was approved, and at most one
\* process is about to replace it, by what it is.
StoreInv == ~raced =>
  /\ store = approved
  /\ \A p \in Procs : At(p, "updating") =>
       /\ cmds[p].store = store
       /\ \A q \in Procs : At(q, "updating") => q = p

\* What a launch has taken: its pool, and the entries of untrusted files.
PoolPassed(k, race) ==
  \/ /\ k.kept.pool = k.cfg.ports.pool.n
     /\ \/ k.cfg.ports.pool.from = None
        \/ race \/ k.approved[k.cfg.ports.pool.from] # Nothing
  \/ k.cfg.ports.pool.from # None /\ k.kept.pool = k.cfg.ports.pool.own
Has(entries, s) == \E i \in DOMAIN entries : entries[i].from = s
EntriesPassed(k, race) == \A s \in Untrusted :
  Has(k.kept.mounts, s) \/ Has(k.kept.web, s)
    => race \/ k.approved[s] = Declared(k.cfg, s)
GateInv == \A p \in Procs : At(p, "launched") =>
             PoolPassed(cmds[p], raced) /\ EntriesPassed(cmds[p], raced)

CInv == CTyped /\ GivenInv /\ StoreInv /\ GateInv

-----------------------------------------------------------------------------
(* Layers.                                                                  *)

LEMMA NoConfigGood == NoConfig \in GoodConfigs
<1>1. NoConfig.val \in ValuesType /\ NoConfig.val.guard = None /\ NoConfig.val.name = None
  BY DEF NoConfig, ValuesType, Settings, Container
<1>2. NoPorts \in PortsType
  BY DEF NoPorts, PortsType, NoPool, PoolType, Origin
<1>3. NoConfig \in ConfigurationType
  BY <1>1, <1>2 DEF NoConfig, ConfigurationType
<1>4. Remembers(NoConfig.pools, NoConfig.ports.pool)
  BY DEF NoConfig, Remembers, NoPorts
<1> QED
  BY <1>1, <1>3, <1>4 DEF GoodConfigs, Chosen, None

LEMMA ReadLayerGood ==
  ASSUME files \in [Sources -> FileType], NEW s \in Sources
  PROVE  GoodLayer(ReadLayer(s)) /\ ReadLayer(s).src = s
<1> DEFINE f == files[s]
           l == ReadLayer(s)
<1>1. f \in FileType
  OBVIOUS
<1>2. /\ l.val = [x \in Settings |-> IF x \in Sanitised(s) THEN s ELSE None]
      /\ l.src = s
      /\ l.mounts = (IF f.mount = None THEN <<>>
                     ELSE <<[file |-> s, id |-> f.mount, from |-> Tag(s)]>>)
      /\ l.ports = [pool |-> IF f.pool = 0 THEN NoPool
                             ELSE [n |-> f.pool, from |-> Tag(s), own |-> 0],
                    web |-> IF f.web THEN <<[file |-> s, from |-> Tag(s)]>> ELSE <<>>]
      /\ l = [val |-> l.val, mounts |-> l.mounts, ports |-> l.ports, src |-> l.src]
  BY DEF ReadLayer
<1>3. Tag(s) \in Origin
  BY DEF Tag, Origin, Untrusted, None
<1>4. l.mounts \in Seq(MountEntry)
  <2>1. [file |-> s, id |-> f.mount, from |-> Tag(s)] \in MountEntry
    BY <1>1, <1>3 DEF MountEntry, FileType
  <2>2. <<[file |-> s, id |-> f.mount, from |-> Tag(s)]>> \in Seq(MountEntry)
    BY <2>1
  <2> QED
    BY <1>2, <2>2
<1>5. l.ports \in PortsType
  <2>1. NoPool \in PoolType
    BY DEF NoPool, PoolType, Origin
  <2>2. [n |-> f.pool, from |-> Tag(s), own |-> 0] \in PoolType
    BY <1>1, <1>3 DEF PoolType, FileType
  <2>3. <<[file |-> s, from |-> Tag(s)]>> \in Seq(WebEntry)
    BY <1>3 DEF WebEntry
  <2> QED
    BY <1>2, <2>1, <2>2, <2>3 DEF PortsType
<1>6. l.val \in ValuesType
  BY <1>2 DEF ValuesType
<1>7. \A x \in {"guard", "name"} : l.val[x] \in Trusted \cup {None}
  BY <1>2 DEF Sanitised, Gated, Settings, Container, Untrusted
<1>8. l \in LayerType
  <2> HIDE DEF l
  <2> QED
    BY <1>2, <1>4, <1>5, <1>6 DEF LayerType
<1>9. l.val.name = "home" => l.src = "home"
  BY <1>2 DEF Settings, Container, None
<1> HIDE DEF l
<1> QED
  BY <1>2, <1>7, <1>8, <1>9 DEF GoodLayer, OwnName, l

LEMMA AtopGood ==
  ASSUME NEW b \in ValuesType, NEW t \in ValuesType
  PROVE  /\ Atop(b, t) \in ValuesType
         /\ \A x \in Settings : Atop(b, t)[x] \in {b[x], t[x]}
         /\ Atop(b, t).guard \in {b.guard, t.guard}
         /\ Atop(b, t).name \in {b.name, t.name}
  BY DEF Atop, ValuesType, Settings, Container

LEMMA MergePoolRemembers ==
  ASSUME NEW pools \in Seq(PoolType), NEW b \in PoolType, NEW t \in PoolType,
         Remembers(pools, b)
  PROVE  LET q == IF t.n = 0 THEN pools ELSE Append(pools, t)
         IN  /\ q \in Seq(PoolType) /\ MergePool(b, t) \in PoolType
             /\ Remembers(q, MergePool(b, t))
<1> DEFINE q == IF t.n = 0 THEN pools ELSE Append(pools, t)
           m == MergePool(b, t)
<1>0. /\ t.n \in Nat /\ b.n \in Nat /\ b.own \in Nat /\ t.from \in Origin /\ b.from \in Origin
  BY DEF PoolType
<1>1. CASE t.n = 0
  BY <1>1 DEF MergePool
<1>2. CASE t.n # 0
  <2>1. /\ q \in Seq(PoolType) /\ Len(q) = Len(pools) + 1 /\ Len(pools) \in Nat
        /\ q[Len(q)] = t /\ q # <<>> /\ DOMAIN q = 1..Len(q) /\ DOMAIN pools = 1..Len(pools)
        /\ \A i \in DOMAIN pools : i \in DOMAIN q /\ q[i] = pools[i]
    BY <1>2
  <2> HIDE DEF q
  <2>2. /\ m.n = t.n /\ m.from = t.from /\ m \in PoolType
        /\ m.own = (IF t.from = None THEN 0
                    ELSE IF b.n > 0 /\ b.from = None THEN b.n ELSE b.own)
    BY <1>0, <1>2 DEF MergePool, PoolType
  <2> HIDE DEF m
  <2>3. ASSUME t.from # None PROVE Uppermost(q, m.own)
    <3>1. {i \in DOMAIN q : q[i].from = None} = {i \in DOMAIN pools : pools[i].from = None}
      BY <2>1, <2>3
    <3>2. CASE pools = <<>>
      <4>1. m.own = 0
        BY <2>2, <2>3, <3>2 DEF Remembers, NoPool
      <4>2. {i \in DOMAIN pools : pools[i].from = None} = {}
        BY <3>2
      <4> QED
        BY <3>1, <4>1, <4>2 DEF Uppermost
    <3>3. CASE pools # <<>> /\ b.from = None
      <4>1. m.own = b.n /\ b.n = pools[Len(pools)].n /\ pools[Len(pools)].from = None
        BY <1>0, <2>2, <2>3, <3>3 DEF Remembers
      <4>2. Len(pools) \in {i \in DOMAIN pools : pools[i].from = None}
        BY <2>1, <3>3, <4>1
      <4>3. Len(pools) \in {i \in DOMAIN q : q[i].from = None} /\ q[Len(pools)] = pools[Len(pools)]
        BY <2>1, <3>1, <4>2
      <4>4. \A j \in {i \in DOMAIN q : q[i].from = None} : j <= Len(pools)
        BY <2>1, <3>1
      <4> QED
        BY <4>1, <4>3, <4>4 DEF Uppermost
    <3>4. CASE pools # <<>> /\ b.from # None
      <4>1. m.own = b.own /\ Uppermost(pools, b.own)
        BY <2>2, <2>3, <3>4 DEF Remembers
      <4>2. CASE {i \in DOMAIN pools : pools[i].from = None} = {}
        BY <3>1, <4>1, <4>2 DEF Uppermost
      <4>3. CASE {i \in DOMAIN pools : pools[i].from = None} # {}
        <5>1. PICK i \in {k \in DOMAIN pools : pools[k].from = None} :
                b.own = pools[i].n /\ \A j \in {k \in DOMAIN pools : pools[k].from = None} : j <= i
          BY <4>1, <4>3 DEF Uppermost
        <5>2. q[i] = pools[i] /\ i \in {k \in DOMAIN q : q[k].from = None}
          BY <2>1, <3>1
        <5>3. \A j \in {k \in DOMAIN q : q[k].from = None} : j <= i
          BY <3>1, <5>1
        <5> QED
          BY <4>1, <5>1, <5>2, <5>3 DEF Uppermost
      <4> QED
        BY <4>2, <4>3
    <3> QED
      BY <3>2, <3>3, <3>4
  <2>4. m.n > 0
    BY <1>0, <1>2, <2>2
  <2>5. Remembers(q, m)
    BY <2>1, <2>2, <2>3, <2>4 DEF Remembers
  <2> QED
    BY <2>1, <2>2, <2>5 DEF q, m
<1> QED
  BY <1>1, <1>2

LEMMA MergeGood ==
  ASSUME NEW c \in GoodConfigs, NEW l, GoodLayer(l)
  PROVE  /\ Merge(c, l) \in GoodConfigs /\ Applied(Merge(c, l), l.src)
         /\ \A s : Applied(c, s) => Applied(Merge(c, l), s)
<1> DEFINE m == Merge(c, l)
<1>0. /\ c \in ConfigurationType /\ Chosen(c) /\ Remembers(c.pools, c.ports.pool)
      /\ l \in LayerType /\ l.val.guard \in Trusted \cup {None} /\ OwnName(l)
  BY DEF GoodConfigs, GoodLayer
<1>1. /\ m = [val |-> m.val, mounts |-> m.mounts, ports |-> m.ports, layers |-> m.layers,
              pools |-> m.pools]
      /\ m.val = Atop(c.val, l.val) /\ m.mounts = c.mounts \o l.mounts
      /\ m.ports = MergePorts(c.ports, l.ports) /\ m.layers = Append(c.layers, l.src)
      /\ m.pools = (IF l.ports.pool.n = 0 THEN c.pools ELSE Append(c.pools, l.ports.pool))
  BY DEF Merge
<1>2. /\ c.val \in ValuesType /\ c.mounts \in Seq(MountEntry) /\ c.ports \in PortsType
      /\ c.layers \in Seq(Sources \cup {"default"}) /\ c.pools \in Seq(PoolType)
      /\ l.val \in ValuesType /\ l.mounts \in Seq(MountEntry) /\ l.ports \in PortsType
      /\ l.src \in Sources \cup {"default"}
  BY <1>0 DEF ConfigurationType, LayerType
<1>3. /\ c.ports.pool \in PoolType /\ c.ports.web \in Seq(WebEntry)
      /\ l.ports.pool \in PoolType /\ l.ports.web \in Seq(WebEntry)
  BY <1>2 DEF PortsType
<1>4. /\ m.ports = [pool |-> m.ports.pool, web |-> m.ports.web]
      /\ m.ports.pool = MergePool(c.ports.pool, l.ports.pool)
      /\ m.ports.web \in Seq(WebEntry)
  BY <1>1, <1>3 DEF MergePorts
<1> HIDE DEF m
<1>5. /\ m.pools \in Seq(PoolType) /\ m.ports.pool \in PoolType
      /\ Remembers(m.pools, m.ports.pool)
  BY <1>0, <1>1, <1>2, <1>3, <1>4, MergePoolRemembers
<1>6. m.ports \in PortsType
  BY <1>4, <1>5 DEF PortsType
<1>7. /\ m.layers \in Seq(Sources \cup {"default"}) /\ Applied(m, l.src)
      /\ \A s : Applied(c, s) => Applied(m, s)
  <2>1. /\ m.layers \in Seq(Sources \cup {"default"}) /\ Len(m.layers) = Len(c.layers) + 1
        /\ m.layers[Len(m.layers)] = l.src /\ Len(m.layers) \in DOMAIN m.layers
        /\ \A i \in DOMAIN c.layers : i \in DOMAIN m.layers /\ m.layers[i] = c.layers[i]
    BY <1>1, <1>2
  <2> QED
    BY <2>1 DEF Applied
<1>8. /\ m.val \in ValuesType /\ m.val.guard \in {c.val.guard, l.val.guard}
      /\ m.val.name \in {c.val.name, l.val.name}
  BY <1>1, <1>2, AtopGood
<1>9. m \in ConfigurationType
  <2>1. m.mounts \in Seq(MountEntry)
    BY <1>1, <1>2
  <2> QED
    BY <1>1, <1>5, <1>6, <1>7, <1>8, <2>1 DEF ConfigurationType
<1>10. Chosen(m)
  BY <1>0, <1>7, <1>8 DEF Chosen, OwnName
<1> QED
  BY <1>5, <1>7, <1>9, <1>10 DEF GoodConfigs, m

LEMMA KeepAliasGood ==
  ASSUME NEW c \in GoodConfigs, NEW m \in GoodConfigs
  PROVE  KeepAlias(c, m) \in GoodConfigs /\ KeepAlias(c, m).layers = m.layers
<1>1. CASE c.val.alias = None
  BY <1>1 DEF KeepAlias
<1>2. CASE c.val.alias # None
  <2> DEFINE v == [m.val EXCEPT !.alias = c.val.alias]
             k == [m EXCEPT !.val = v]
  <2>1. KeepAlias(c, m) = k
    BY <1>2 DEF KeepAlias
  <2>2. /\ c.val \in ValuesType /\ m.val \in ValuesType /\ m \in ConfigurationType
        /\ Chosen(m) /\ Remembers(m.pools, m.ports.pool)
    BY DEF GoodConfigs, ConfigurationType
  <2>3. v \in ValuesType /\ v.guard = m.val.guard /\ v.name = m.val.name
    BY <2>2 DEF ValuesType, Settings, Container
  <2> HIDE DEF v
  <2>4. /\ k \in ConfigurationType /\ k.val = v /\ k.layers = m.layers /\ k.pools = m.pools
        /\ k.ports = m.ports
    BY <2>2, <2>3 DEF ConfigurationType
  <2> HIDE DEF k
  <2>5. Chosen(k) /\ Remembers(k.pools, k.ports.pool)
    BY <2>2, <2>3, <2>4 DEF Chosen, Applied
  <2> QED
    BY <2>1, <2>4, <2>5 DEF GoodConfigs
<1> QED
  BY <1>1, <1>2

LEMMA ApplyProfileGood ==
  ASSUME NEW c \in GoodConfigs, NEW l, GoodLayer(l)
  PROVE  ApplyProfile(c, l) \in GoodConfigs /\ Applied(ApplyProfile(c, l), l.src)
<1>1. Merge(c, l) \in GoodConfigs /\ Applied(Merge(c, l), l.src)
  BY MergeGood
<1>2. /\ KeepAlias(c, Merge(c, l)) \in GoodConfigs
      /\ KeepAlias(c, Merge(c, l)).layers = Merge(c, l).layers
  BY <1>1, KeepAliasGood
<1> QED
  BY <1>1, <1>2 DEF ApplyProfile, Applied

LEMMA ReapplyGood ==
  ASSUME NEW c \in GoodConfigs, NEW l, GoodLayer(l), Applied(c, l.src)
  PROVE  ReapplyContainer(c, l) \in GoodConfigs
<1> DEFINE v == [x \in Settings |-> IF x \in Container THEN Atop(c.val, l.val)[x] ELSE c.val[x]]
           k == [c EXCEPT !.val = v]
<1>1. /\ c \in ConfigurationType /\ Chosen(c) /\ Remembers(c.pools, c.ports.pool)
      /\ c.val \in ValuesType /\ l.val \in ValuesType /\ OwnName(l)
  BY DEF GoodConfigs, ConfigurationType, GoodLayer, LayerType
<1>2. /\ Atop(c.val, l.val) \in ValuesType
      /\ Atop(c.val, l.val).name \in {c.val.name, l.val.name}
  BY <1>1, AtopGood
<1>3. v \in ValuesType /\ v.guard = c.val.guard /\ v.name \in {c.val.name, l.val.name}
  BY <1>1, <1>2 DEF ValuesType, Settings, Container
<1>4. ReapplyContainer(c, l) = KeepAlias(c, k)
  BY <1>1 DEF ReapplyContainer, ConfigurationType
<1> HIDE DEF v
<1>5. /\ k \in ConfigurationType /\ k.val = v /\ k.layers = c.layers /\ k.pools = c.pools
      /\ k.ports = c.ports
  BY <1>1, <1>3 DEF ConfigurationType
<1> HIDE DEF k
<1>6. Chosen(k) /\ Remembers(k.pools, k.ports.pool)
  BY <1>1, <1>3, <1>5 DEF Chosen, Applied, OwnName
<1>7. k \in GoodConfigs
  BY <1>5, <1>6 DEF GoodConfigs
<1> QED
  BY <1>4, <1>7, KeepAliasGood

-----------------------------------------------------------------------------
(* Profiles.                                                                *)

\* A profile as it is before the names it inherits are taken away.
FromProfile(l, q) == /\ l \in LayerType /\ l.src = q
                     /\ l.val.guard \in Trusted \cup {None}
                     /\ l.val.name \in Trusted \cup {None}

LEMMA OwnProfileFrom ==
  ASSUME files \in [Sources -> FileType], NEW c \in GoodConfigs, NEW q \in Profiles
  PROVE  FromProfile(OwnProfile(c, q), q)
<1>1. CASE q = "default"
  <2>1. /\ c.val \in ValuesType /\ c.mounts \in Seq(MountEntry) /\ c.ports \in PortsType
        /\ c.val.guard \in Trusted \cup {None} /\ c.val.name \in Trusted \cup {None}
    BY DEF GoodConfigs, ConfigurationType, Chosen
  <2> QED
    BY <1>1, <2>1 DEF OwnProfile, FromProfile, LayerType
<1>2. CASE q # "default"
  <2>1. q \in Sources
    BY <1>2 DEF Profiles, Sources
  <2>2. GoodLayer(ReadLayer(q)) /\ ReadLayer(q).src = q
    BY <2>1, ReadLayerGood
  <2> QED
    BY <1>2, <2>2 DEF OwnProfile, FromProfile, GoodLayer, OwnName
<1> QED
  BY <1>1, <1>2

LEMMA InheritFrom ==
  ASSUME NEW q, NEW t, NEW b, NEW l, FromProfile(b, t), FromProfile(l, q)
  PROVE  FromProfile(Inherit(b, l), q)
<1> DEFINE v == Atop(b.val, l.val)
           ms == IF l.mounts = <<>> THEN b.mounts ELSE l.mounts
           ps == IF l.ports = NoPorts THEN b.ports ELSE l.ports
           k == [l EXCEPT !.val = v, !.mounts = ms, !.ports = ps]
<1>1. /\ b.val \in ValuesType /\ b.mounts \in Seq(MountEntry) /\ b.ports \in PortsType
      /\ l.val \in ValuesType /\ l.mounts \in Seq(MountEntry) /\ l.ports \in PortsType
      /\ l \in LayerType /\ l.src = q
      /\ b.val.guard \in Trusted \cup {None} /\ l.val.guard \in Trusted \cup {None}
      /\ b.val.name \in Trusted \cup {None} /\ l.val.name \in Trusted \cup {None}
  BY DEF FromProfile, LayerType
<1>2. v \in ValuesType /\ v.guard \in Trusted \cup {None} /\ v.name \in Trusted \cup {None}
  <2>1. /\ v \in ValuesType /\ v.guard \in {b.val.guard, l.val.guard}
        /\ v.name \in {b.val.name, l.val.name}
    BY <1>1, AtopGood
  <2> QED
    BY <1>1, <2>1
<1>3. ms \in Seq(MountEntry) /\ ps \in PortsType
  BY <1>1
<1>4. Inherit(b, l) = k
  BY DEF Inherit
<1> HIDE DEF v, ms, ps
<1>5. k \in LayerType /\ k.val = v /\ k.src = q
  BY <1>1, <1>2, <1>3 DEF LayerType
<1> HIDE DEF k
<1> QED
  BY <1>2, <1>4, <1>5 DEF FromProfile

LEMMA OverParentsFrom ==
  ASSUME files \in [Sources -> FileType], NEW c \in GoodConfigs, NEW r,
         \A q \in Profiles : FromProfile(r[q], q)
  PROVE  \A q \in Profiles : FromProfile(OverParents(c, r)[q], q)
<1> SUFFICES ASSUME NEW q \in Profiles PROVE FromProfile(OverParents(c, r)[q], q)
  OBVIOUS
<1>1. FromProfile(OwnProfile(c, q), q)
  BY OwnProfileFrom
<1>2. Parent(q) \in Profiles \cup {None}
  BY DEF Parent, Profiles, Sources, FileType
<1>3. ASSUME Parent(q) # None PROVE FromProfile(Inherit(r[Parent(q)], OwnProfile(c, q)), q)
  <2>1. FromProfile(r[Parent(q)], Parent(q))
    BY <1>2, <1>3
  <2> QED
    BY <1>1, <2>1, InheritFrom
<1> QED
  BY <1>1, <1>3 DEF OverParents

LEMMA ProfilesGood ==
  ASSUME files \in [Sources -> FileType], NEW c \in GoodConfigs
  PROVE  ProfilesOf(c) \in GoodProfiles
<1> DEFINE own == [q \in Profiles |-> OwnProfile(c, q)]
           once == OverParents(c, own)
           r == OverParents(c, once)
<1>1. \A q \in Profiles : FromProfile(own[q], q)
  BY OwnProfileFrom
<1> HIDE DEF own
<1>2. \A q \in Profiles : FromProfile(once[q], q)
  BY <1>1, OverParentsFrom
<1> HIDE DEF once
<1>3. \A q \in Profiles : FromProfile(r[q], q)
  BY <1>2, OverParentsFrom
<1>4. ResolveInheritance(c) = r
  BY DEF ResolveInheritance, r, once, own
<1> HIDE DEF r
<1>5. ASSUME NEW q \in Profiles
      PROVE  /\ GoodLayer(WithoutInheritedName(q, r[q]))
             /\ WithoutInheritedName(q, r[q]).src = q
  <2> DEFINE l == r[q]
  <2>1. /\ l \in LayerType /\ l.val.guard \in Trusted \cup {None} /\ l.src = q
        /\ l.val.name \in Trusted \cup {None}
    BY <1>3, <1>5 DEF FromProfile
  <2> HIDE DEF l
  <2>2. CASE q \in Trusted
    <3>1. q = "home"
      BY <1>5, <2>2 DEF Profiles, Disk, Trusted
    <3>2. WithoutInheritedName(q, r[q]) = l
      BY <2>2 DEF WithoutInheritedName, l
    <3> QED
      BY <2>1, <3>1, <3>2 DEF GoodLayer, OwnName
  <2>3. CASE q \notin Trusted
    <3> DEFINE v == [l.val EXCEPT !.name = None]
               k == [l EXCEPT !.val = v]
    <3>1. WithoutInheritedName(q, r[q]) = k
      BY <2>3 DEF WithoutInheritedName, l
    <3>2. v \in ValuesType /\ v.guard = l.val.guard /\ v.name = None
      BY <2>1 DEF LayerType, ValuesType, Settings, Container
    <3> HIDE DEF v
    <3>3. k \in LayerType /\ k.val = v /\ k.src = q
      BY <2>1, <3>2 DEF LayerType
    <3> HIDE DEF k
    <3> QED
      BY <2>1, <3>1, <3>2, <3>3 DEF GoodLayer, OwnName, None
  <2> QED
    BY <2>2, <2>3
<1>6. ProfilesOf(c) = [q \in Profiles |-> WithoutInheritedName(q, r[q])]
  BY <1>4 DEF ProfilesOf
<1>7. \A q \in Profiles : ProfilesOf(c)[q] \in LayerType
  BY <1>5, <1>6 DEF GoodLayer
<1> QED
  BY <1>5, <1>6, <1>7 DEF GoodProfiles

-----------------------------------------------------------------------------
(* The gate.                                                                *)

LEMMA FromHolds ==
  ASSUME NEW T, NEW entries \in Seq(T), NEW S
  PROVE  /\ From(entries, S) \in Seq(T)
         /\ \A n \in DOMAIN From(entries, S) : From(entries, S)[n].from \in S
<1> DEFINE P == {i \in DOMAIN entries : entries[i].from \in S}
<1>1. P \in SUBSET DOMAIN entries
  OBVIOUS
<1>2. /\ Pick(entries, P) \in Seq(T)
      /\ \A n \in DOMAIN Pick(entries, P) : \E i \in P : Pick(entries, P)[n] = entries[i]
  BY <1>1, PickHolds
<1>3. From(entries, S) = Pick(entries, P)
  BY DEF From
<1> QED
  BY <1>2, <1>3

LEMMA DeclaredTyped ==
  ASSUME NEW c \in GoodConfigs, NEW s
  PROVE  Declared(c, s) \in DeclaredType
<1>1. /\ c.mounts \in Seq(MountEntry) /\ c.ports.web \in Seq(WebEntry)
      /\ c.ports.pool.n \in Nat
  BY DEF GoodConfigs, ConfigurationType, PortsType, PoolType
<1>2. From(c.mounts, {s}) \in Seq(MountEntry) /\ From(c.ports.web, {s}) \in Seq(WebEntry)
  BY <1>1, FromHolds
<1> QED
  BY <1>1, <1>2 DEF Declared, DeclaredType

LEMMA FilterPasses ==
  ASSUME StoreInv, NEW c \in GoodConfigs, NEW k,
         k.kept = FilterTrusted(c), k.cfg = c, k.approved = approved
  PROVE  k.kept \in DeclaredType /\ PoolPassed(k, raced) /\ EntriesPassed(k, raced)
<1> DEFINE passing == {None} \cup {s \in Untrusted : Approves(c, s)}
           f == k.kept
<1>1. /\ c.mounts \in Seq(MountEntry) /\ c.ports.web \in Seq(WebEntry)
      /\ c.ports.pool \in PoolType
  BY DEF GoodConfigs, ConfigurationType, PortsType
<1>2. c.ports.pool.n \in Nat /\ c.ports.pool.own \in Nat /\ c.ports.pool.from \in Origin
  BY <1>1 DEF PoolType
<1>3. /\ f.mounts = From(c.mounts, passing) /\ f.web = From(c.ports.web, passing)
      /\ f.pool = (IF c.ports.pool.from \in passing THEN c.ports.pool.n ELSE c.ports.pool.own)
      /\ f = [mounts |-> f.mounts, web |-> f.web, pool |-> f.pool]
  BY DEF FilterTrusted
<1>4. ASSUME NEW s \in Untrusted, s \in passing
      PROVE  raced \/ (approved[s] = Declared(c, s) /\ approved[s] # Nothing)
  <2>1. s # None
    BY DEF Untrusted, Sources, Files, Disk, None
  <2> QED
    BY <1>4, <2>1 DEF Approves, Fingerprint, StoreInv
<1> HIDE DEF passing, f
<1>5. /\ f.mounts \in Seq(MountEntry) /\ f.web \in Seq(WebEntry)
      /\ \A n \in DOMAIN f.mounts : f.mounts[n].from \in passing
      /\ \A n \in DOMAIN f.web : f.web[n].from \in passing
  BY <1>1, <1>3, FromHolds
<1>6. f \in DeclaredType
  BY <1>2, <1>3, <1>5 DEF DeclaredType
<1>7. EntriesPassed(k, raced)
  <2> SUFFICES ASSUME NEW s \in Untrusted, Has(f.mounts, s) \/ Has(f.web, s)
               PROVE  raced \/ approved[s] = Declared(c, s)
    BY DEF EntriesPassed, f
  <2>1. s \in passing
    BY <1>5 DEF Has
  <2> QED
    BY <1>4, <2>1
<1>8. PoolPassed(k, raced)
  <2>1. CASE c.ports.pool.from \in passing
    <3>1. f.pool = c.ports.pool.n
      BY <1>3, <2>1
    <3>2. c.ports.pool.from = None \/ raced \/ approved[c.ports.pool.from] # Nothing
      BY <1>2, <1>4, <2>1 DEF Origin
    <3> QED
      BY <3>1, <3>2 DEF PoolPassed, f
  <2>2. CASE c.ports.pool.from \notin passing
    <3>1. f.pool = c.ports.pool.own
      BY <1>3, <2>2
    <3>2. c.ports.pool.from # None
      BY <2>2 DEF passing
    <3> QED
      BY <3>1, <3>2 DEF PoolPassed, f
  <2> QED
    BY <2>1, <2>2
<1> QED
  BY <1>6, <1>7, <1>8 DEF f

-----------------------------------------------------------------------------
(* The steps of a command.                                                  *)

\* What a command at pc is made of.
LEMMA CommandAt ==
  ASSUME NEW k \in Commands
  PROVE  /\ k.pc \in {"loaded", "overlaid", "chosen", "configured"} => k \in Preparing
         /\ k.pc = "updating" => k \in Updating
         /\ k.pc = "launched" => k \in Launched
  BY DEF Commands, NoCommand, Preparing, Updating, Launched

\* A command that goes on, to where nothing is said of it, keeps all.
LEMMA Proceeds ==
  ASSUME CInv, NEW p \in Procs, NEW k \in Commands,
         k.pc \notin {"loaded", "updating", "launched"}, To(p, k),
         UNCHANGED <<files, store, approved, raced>>,
         sessions' \in [{"cwd", "there"} -> Chosens], aliases' \in [Sources -> AliasType]
  PROVE  CInv'
<1>1. cmds \in [Procs -> Commands] /\ cmds' = [cmds EXCEPT ![p] = k]
  BY DEF CInv, CTyped, To
<1>2. /\ cmds' \in [Procs -> Commands]
      /\ \A q \in Procs : cmds'[q] = IF q = p THEN k ELSE cmds[q]
  BY <1>1
<1>3. CTyped'
  BY <1>2 DEF CInv, CTyped
<1>4. GivenInv'
  BY <1>2 DEF CInv, GivenInv, At
<1>5. StoreInv'
  BY <1>2 DEF CInv, StoreInv, At
<1>6. GateInv'
  <2> SUFFICES ASSUME NEW q \in Procs, At(q, "launched")'
               PROVE  (PoolPassed(cmds[q], raced) /\ EntriesPassed(cmds[q], raced))'
    BY DEF GateInv
  <2>1. cmds'[q] = cmds[q] /\ At(q, "launched")
    BY <1>2 DEF At
  <2>2. PoolPassed(cmds[q], raced) /\ EntriesPassed(cmds[q], raced)
    BY <2>1 DEF CInv, GateInv
  <2> QED
    BY <2>1, <2>2 DEF PoolPassed, EntriesPassed, Has, Declared, From
<1> QED
  BY <1>3, <1>4, <1>5, <1>6 DEF CInv

LEMMA CInitInv == CInit => CInv
<1> SUFFICES ASSUME CInit PROVE CInv
  OBVIOUS
<1>1. Nothing \in DeclaredType
  BY DEF Nothing, DeclaredType
<1>2. CTyped
  <2>1. files \in [Sources -> FileType]
    BY ConfigAssumption DEF CInit
  <2>2. store \in StoreType /\ approved \in StoreType
    BY <1>1 DEF CInit, StoreType
  <2>3. /\ aliases \in [Sources -> AliasType] /\ cmds \in [Procs -> Commands]
        /\ sessions \in [{"cwd", "there"} -> Chosens]
    BY DEF CInit, AliasType, Commands, Chosens
  <2> QED
    BY <2>1, <2>2, <2>3 DEF CTyped
<1>3. \A p \in Procs : cmds[p].pc = "idle"
  BY DEF CInit, NoCommand
<1> QED
  BY <1>2, <1>3 DEF CInv, GivenInv, StoreInv, GateInv, At, CInit

LEMMA LoadFilesGood == ASSUME files \in [Sources -> FileType] PROVE LoadFiles \in GoodConfigs
<1>1. /\ GoodLayer(ReadLayer("user")) /\ GoodLayer(ReadLayer("cwd")) /\ GoodLayer(ReadLayer("env"))
  BY ReadLayerGood DEF Sources, Files
<1>2. Merge(NoConfig, ReadLayer("user")) \in GoodConfigs
  BY <1>1, NoConfigGood, MergeGood
<1>3. Merge(Merge(NoConfig, ReadLayer("user")), ReadLayer("cwd")) \in GoodConfigs
  BY <1>1, <1>2, MergeGood
<1> QED
  BY <1>1, <1>3, MergeGood DEF LoadFiles

LEMMA PreRunInv ==
  ASSUME CInv, NEW p \in Procs, NEW w \in CommandLines[p], PreRun(p, w)
  PROVE  CInv'
<1> DEFINE c == LoadFiles
           ps == ProfilesOf(c)
           g == IF w.profile = None THEN c ELSE ApplyProfile(c, ps[w.profile])
           k == [pc |-> "loaded", way |-> w, profiles |-> ps, profile |-> w.profile, cfg |-> g]
<1>1. w \in LineType /\ w.profile \in Chosens
  BY ConfigAssumption DEF LineType, Chosens
<1>2. files \in [Sources -> FileType]
  BY DEF CInv, CTyped
<1>3. c \in GoodConfigs
  BY <1>2, LoadFilesGood
<1> HIDE DEF c
<1>4. ps \in GoodProfiles
  BY <1>2, <1>3, ProfilesGood
<1> HIDE DEF ps
<1>5. g \in GoodConfigs /\ (w.profile # None => Applied(g, w.profile))
  <2>1. CASE w.profile = None
    BY <1>3, <2>1
  <2>2. CASE w.profile # None
    <3>1. GoodLayer(ps[w.profile]) /\ ps[w.profile].src = w.profile
      BY <1>1, <1>4, <2>2 DEF GoodProfiles, Chosens
    <3> QED
      BY <1>3, <2>2, <3>1, ApplyProfileGood
  <2> QED
    BY <2>1, <2>2
<1>6. To(p, k) /\ At(p, "idle")
  BY DEF PreRun, k, g, ps, c
<1> HIDE DEF g
<1>7. k \in Preparing /\ k.pc = "loaded" /\ k.cfg = g /\ k.profile = w.profile
  BY <1>1, <1>4, <1>5 DEF Preparing
<1> HIDE DEF k
<1>8. /\ cmds' \in [Procs -> Commands]
      /\ \A q \in Procs : cmds'[q] = IF q = p THEN k ELSE cmds[q]
  BY <1>6, <1>7 DEF CInv, CTyped, To, Commands
<1>9. UNCHANGED <<files, store, aliases, sessions, approved, raced>>
  BY DEF PreRun
<1>10. CTyped'
  BY <1>8, <1>9 DEF CInv, CTyped
<1>11. GivenInv'
  BY <1>5, <1>7, <1>8 DEF CInv, GivenInv, At, Applied
<1>12. StoreInv'
  BY <1>7, <1>8, <1>9 DEF CInv, StoreInv, At
<1>13. GateInv'
  <2> SUFFICES ASSUME NEW q \in Procs, At(q, "launched")'
               PROVE  (PoolPassed(cmds[q], raced) /\ EntriesPassed(cmds[q], raced))'
    BY DEF GateInv
  <2>1. cmds'[q] = cmds[q] /\ At(q, "launched")
    BY <1>7, <1>8 DEF At
  <2>2. PoolPassed(cmds[q], raced) /\ EntriesPassed(cmds[q], raced)
    BY <2>1 DEF CInv, GateInv
  <2> QED
    BY <1>9, <2>1, <2>2 DEF PoolPassed, EntriesPassed, Has, Declared, From
<1> QED
  BY <1>10, <1>11, <1>12, <1>13 DEF CInv

\* The profile a command has, as a layer.
LEMMA ProfileLayer ==
  ASSUME NEW r \in GoodProfiles, NEW q \in Chosens, q # None
  PROVE  GoodLayer(r[q]) /\ r[q].src = q
  BY DEF GoodProfiles, Chosens

LEMMA OverlaidGood ==
  ASSUME files \in [Sources -> FileType], NEW c \in GoodConfigs, NEW w \in LineType
  PROVE  Overlaid(c, w) \in GoodConfigs /\ \A s : Applied(c, s) => Applied(Overlaid(c, w), s)
<1>1. GoodLayer(ReadLayer(w.at))
  BY ReadLayerGood DEF LineType, Sources, Files
<1> QED
  BY <1>1, MergeGood DEF Overlaid

LEMMA OverlayInv ==
  ASSUME CInv, NEW p \in Procs, Overlay(p)
  PROVE  CInv'
<1> DEFINE k == cmds[p]
           o == Overlaid(k.cfg, k.way)
           g == IF k.profile = None \/ k.way.at = "cwd" THEN o
                ELSE ReapplyContainer(o, k.profiles[k.profile])
           n == [k EXCEPT !.pc = "overlaid", !.cfg = g]
<1>1. k \in Preparing /\ files \in [Sources -> FileType] /\ At(p, "loaded")
  BY CommandAt DEF CInv, CTyped, Overlay, At
<1>2. /\ k.cfg \in GoodConfigs /\ k.way \in LineType /\ k.profile \in Chosens
      /\ k.profiles \in GoodProfiles
  BY <1>1 DEF Preparing
<1>3. k.profile # None => Applied(k.cfg, k.profile)
  BY <1>1 DEF CInv, GivenInv
<1>4. /\ To(p, n)
      /\ UNCHANGED <<files, store, aliases, sessions, events, approved, raced>>
  BY DEF Overlay, Quiet
<1> HIDE DEF k
<1>5. o \in GoodConfigs /\ \A s : Applied(k.cfg, s) => Applied(o, s)
  BY <1>1, <1>2, OverlaidGood
<1> HIDE DEF o
<1>6. g \in GoodConfigs
  <2>1. ASSUME k.profile # None PROVE ReapplyContainer(o, k.profiles[k.profile]) \in GoodConfigs
    <3>1. GoodLayer(k.profiles[k.profile]) /\ k.profiles[k.profile].src = k.profile
      BY <1>2, <2>1, ProfileLayer
    <3> QED
      BY <1>3, <1>5, <2>1, <3>1, ReapplyGood
  <2> QED
    BY <1>5, <2>1
<1> HIDE DEF g
<1>7. n \in Preparing /\ n.pc = "overlaid"
  BY <1>1, <1>6 DEF Preparing
<1> HIDE DEF n
<1>8. n \in Commands
  BY <1>7 DEF Commands
<1>9. sessions' \in [{"cwd", "there"} -> Chosens] /\ aliases' \in [Sources -> AliasType]
  BY <1>4 DEF CInv, CTyped
<1> QED
  BY <1>4, <1>7, <1>8, <1>9, Proceeds

LEMMA ResolveWorkspaceInv ==
  ASSUME CInv, NEW p \in Procs, ResolveWorkspace(p)
  PROVE  CInv'
<1> DEFINE k == cmds[p]
           byAlias == k.way.alias # None
           e == IF byAlias THEN Lookup(k.way.alias) ELSE [at |-> k.way.at, profile |-> None]
           o == IF byAlias THEN Merge(k.cfg, ReadLayer(e.at)) ELSE Overlaid(k.cfg, k.way)
           g == ReapplyContainer(o, k.profiles[k.profile])
           h == IF e.profile = None THEN o ELSE ApplyProfile(o, k.profiles[e.profile])
           n == IF e = Unregistered THEN NoCommand
                ELSE IF k.profile # None
                THEN [k EXCEPT !.pc = "overlaid", !.way.at = e.at, !.cfg = g]
                ELSE [k EXCEPT !.pc = "overlaid", !.way.at = e.at, !.profile = e.profile,
                               !.cfg = h]
<1>1. /\ k \in Preparing /\ files \in [Sources -> FileType] /\ At(p, "loaded")
      /\ aliases \in [Sources -> AliasType] /\ sessions \in [{"cwd", "there"} -> Chosens]
  BY CommandAt DEF CInv, CTyped, ResolveWorkspace, At
<1>2. /\ k.cfg \in GoodConfigs /\ k.way \in LineType /\ k.profile \in Chosens
      /\ k.profiles \in GoodProfiles
  BY <1>1 DEF Preparing
<1>3. k.profile # None => Applied(k.cfg, k.profile)
  BY <1>1 DEF CInv, GivenInv
<1>4. /\ To(p, n)
      /\ aliases' = IF e = Unregistered \/ ~byAlias THEN aliases
                    ELSE [aliases EXCEPT ![k.way.alias] = e]
      /\ UNCHANGED <<files, store, sessions, events, approved, raced>>
  BY DEF ResolveWorkspace
<1> HIDE DEF k
<1>5. e \in AliasType
  <2>1. k.way.alias \in Sources \cup {None} /\ k.way.at \in {"cwd", "there"}
    BY <1>2 DEF LineType, Sources, Files
  <2>2. ASSUME byAlias PROVE Lookup(k.way.alias) \in AliasType
    BY <1>1, <2>1, <2>2 DEF Lookup, AliasType, Chosens
  <2>3. [at |-> k.way.at, profile |-> None] \in AliasType
    BY <2>1 DEF AliasType, Chosens
  <2> QED
    BY <2>2, <2>3
<1> HIDE DEF e
<1>6. aliases' \in [Sources -> AliasType] /\ sessions' \in [{"cwd", "there"} -> Chosens]
  BY <1>1, <1>4, <1>5
<1>7. CASE e = Unregistered
  <2>1. To(p, NoCommand) /\ NoCommand \in Commands
    BY <1>4, <1>7 DEF Commands
  <2>2. NoCommand.pc = "idle"
    BY DEF NoCommand
  <2> QED
    BY <1>4, <1>6, <2>1, <2>2, Proceeds
<1>8. CASE e # Unregistered
  <2>1. e.at \in {"cwd", "there"} /\ e.profile \in Chosens
    BY <1>5, <1>8 DEF AliasType
  <2>2. o \in GoodConfigs /\ \A s : Applied(k.cfg, s) => Applied(o, s)
    <3>1. CASE byAlias
      <4>1. GoodLayer(ReadLayer(e.at))
        BY <1>1, <2>1, ReadLayerGood DEF Sources, Files
      <4> QED
        BY <1>2, <3>1, <4>1, MergeGood
    <3>2. CASE ~byAlias
      <4>1. o = Overlaid(k.cfg, k.way)
        BY <3>2
      <4> QED
        BY <1>1, <1>2, <4>1, OverlaidGood
    <3> QED
      BY <3>1, <3>2
  <2> HIDE DEF o
  <2>3. ASSUME k.profile # None PROVE g \in GoodConfigs
    <3>1. GoodLayer(k.profiles[k.profile]) /\ k.profiles[k.profile].src = k.profile
      BY <1>2, <2>3, ProfileLayer
    <3> QED
      BY <1>3, <2>2, <2>3, <3>1, ReapplyGood
  <2>4. h \in GoodConfigs
    <3>1. ASSUME e.profile # None PROVE ApplyProfile(o, k.profiles[e.profile]) \in GoodConfigs
      <4>1. GoodLayer(k.profiles[e.profile])
        BY <1>2, <2>1, <3>1, ProfileLayer
      <4> QED
        BY <2>2, <4>1, ApplyProfileGood
    <3> QED
      BY <2>2, <3>1
  <2> HIDE DEF g, h
  <2> DEFINE w == [k.way EXCEPT !.at = e.at]
  <2>5. w \in LineType
    BY <1>2, <2>1 DEF LineType
  <2>6. n = (IF k.profile # None
             THEN [k EXCEPT !.pc = "overlaid", !.way = w, !.cfg = g]
             ELSE [k EXCEPT !.pc = "overlaid", !.way = w, !.profile = e.profile, !.cfg = h])
    BY <1>1, <1>8 DEF Preparing
  <2> HIDE DEF w, n
  <2>7. n \in Preparing /\ n.pc = "overlaid"
    <3>1. CASE k.profile # None
      <4>1. n = [k EXCEPT !.pc = "overlaid", !.way = w, !.cfg = g] /\ g \in GoodConfigs
        BY <2>3, <2>6, <3>1
      <4> QED
        BY <1>1, <2>5, <4>1 DEF Preparing
    <3>2. CASE k.profile = None
      <4>1. n = [k EXCEPT !.pc = "overlaid", !.way = w, !.profile = e.profile, !.cfg = h]
        BY <2>6, <3>2
      <4> QED
        BY <1>1, <2>1, <2>4, <2>5, <4>1 DEF Preparing
    <3> QED
      BY <3>1, <3>2
  <2>8. n \in Commands
    BY <2>7 DEF Commands
  <2> QED
    BY <1>4, <1>6, <2>7, <2>8, Proceeds
<1> QED
  BY <1>7, <1>8

\* A profile is put on top, or none is.
LEMMA ProfileOnTop ==
  ASSUME CInv, NEW p \in Procs, cmds[p] \in Preparing, NEW q \in Chosens,
         NEW pc \in {"chosen", "configured"},
         To(p, IF q = None THEN [cmds[p] EXCEPT !.pc = pc]
               ELSE [cmds[p] EXCEPT !.pc = pc, !.profile = q,
                       !.cfg = ApplyProfile(cmds[p].cfg, cmds[p].profiles[q])]),
         Quiet
  PROVE  CInv'
<1> DEFINE k == cmds[p]
           g == ApplyProfile(k.cfg, k.profiles[q])
           n == IF q = None THEN [k EXCEPT !.pc = pc]
                ELSE [k EXCEPT !.pc = pc, !.profile = q, !.cfg = g]
<1>1. k \in Preparing /\ k.cfg \in GoodConfigs /\ k.profiles \in GoodProfiles
  BY DEF Preparing
<1>2. To(p, n) /\ UNCHANGED <<files, store, aliases, sessions, events, approved, raced>>
  BY DEF Quiet
<1> HIDE DEF k
<1>3. ASSUME q # None PROVE g \in GoodConfigs
  <2>1. GoodLayer(k.profiles[q])
    BY <1>1, <1>3, ProfileLayer
  <2> QED
    BY <1>1, <2>1, ApplyProfileGood
<1> HIDE DEF g
<1>4. n \in Preparing /\ n.pc = pc
  <2>1. CASE q = None
    BY <1>1, <2>1 DEF Preparing
  <2>2. CASE q # None
    <3>1. n = [k EXCEPT !.pc = pc, !.profile = q, !.cfg = g] /\ g \in GoodConfigs
      BY <1>3, <2>2
    <3> QED
      BY <1>1, <3>1 DEF Preparing
  <2> QED
    BY <2>1, <2>2
<1> HIDE DEF n
<1>5. n \in Commands
  BY <1>4 DEF Commands
<1>6. sessions' \in [{"cwd", "there"} -> Chosens] /\ aliases' \in [Sources -> AliasType]
  BY <1>2 DEF CInv, CTyped
<1> QED
  BY <1>2, <1>4, <1>5, <1>6, Proceeds

LEMMA ApplyFallbackInv ==
  ASSUME CInv, NEW p \in Procs, ApplyFallback(p)
  PROVE  CInv'
<1>1. cmds[p] \in Preparing /\ files \in [Sources -> FileType]
  BY CommandAt DEF CInv, CTyped, ApplyFallback, At
<1>2. Fallback \in Chosens
  <2>1. files["env"] \in FileType /\ files["user"] \in FileType
    BY <1>1 DEF Sources, Files
  <2>2. files["env"].profile \in Disk \cup {None} /\ files["user"].profile \in Disk \cup {None}
    BY <2>1 DEF FileType
  <2> QED
    BY <2>2 DEF Fallback, Chosens, Profiles
<1> DEFINE q == IF cmds[p].profile # None THEN None ELSE Fallback
<1>3. q \in Chosens
  BY <1>2 DEF Chosens
<1>4. /\ To(p, IF q = None THEN [cmds[p] EXCEPT !.pc = "chosen"]
               ELSE [cmds[p] EXCEPT !.pc = "chosen", !.profile = q,
                       !.cfg = ApplyProfile(cmds[p].cfg, cmds[p].profiles[q])])
      /\ Quiet
  BY DEF ApplyFallback
<1> HIDE DEF q
<1> QED
  BY <1>1, <1>3, <1>4, ProfileOnTop

LEMMA ResumeInv ==
  ASSUME CInv, NEW p \in Procs, Resume(p)
  PROVE  CInv'
<1>1. cmds[p] \in Preparing /\ sessions \in [{"cwd", "there"} -> Chosens]
  BY CommandAt DEF CInv, CTyped, Resume, At
<1> DEFINE saved == IF cmds[p].way.cmd = "shell" /\ cmds[p].way.resume
                    THEN sessions[cmds[p].way.at] ELSE None
           q == IF cmds[p].way.profile # None THEN None ELSE saved
<1>2. cmds[p].way.at \in {"cwd", "there"}
  BY <1>1 DEF Preparing, LineType
<1>3. q \in Chosens
  BY <1>1, <1>2 DEF Chosens
<1>4. /\ To(p, IF q = None THEN [cmds[p] EXCEPT !.pc = "configured"]
               ELSE [cmds[p] EXCEPT !.pc = "configured", !.profile = q,
                       !.cfg = ApplyProfile(cmds[p].cfg, cmds[p].profiles[q])])
      /\ Quiet
  BY DEF Resume
<1> HIDE DEF q
<1> QED
  BY <1>1, <1>3, <1>4, ProfileOnTop

LEMMA GateStep ==
  ASSUME CInv, NEW p \in Procs, Gate(p)
  PROVE  CInv'
<1> DEFINE k == cmds[p]
           kept == FilterTrusted(k.cfg)
           checked == IF k.way.cmd = "shell" THEN k.cfg.mounts ELSE kept.mounts
           l == [pc |-> "launched", way |-> k.way, profile |-> k.profile, cfg |-> k.cfg,
                 profiles |-> k.profiles, kept |-> kept, approved |-> approved]
<1>1. k \in Preparing /\ At(p, "configured")
  BY CommandAt DEF CInv, CTyped, Gate, At
<1>2. /\ To(p, IF Collide(checked) THEN NoCommand ELSE l)
      /\ UNCHANGED <<files, store, aliases, sessions, events, approved, raced>>
  BY DEF Gate, Quiet
<1>3. /\ k.cfg \in GoodConfigs /\ k.way \in LineType /\ k.profile \in Chosens
      /\ k.profiles \in GoodProfiles
  BY <1>1 DEF Preparing
<1> HIDE DEF k
<1>4. /\ aliases' \in [Sources -> AliasType] /\ sessions' \in [{"cwd", "there"} -> Chosens]
      /\ approved \in StoreType /\ cmds \in [Procs -> Commands]
  BY <1>2 DEF CInv, CTyped
<1>5. CASE Collide(checked)
  <2>1. To(p, NoCommand) /\ NoCommand \in Commands /\ NoCommand.pc = "idle"
    BY <1>2, <1>5 DEF Commands, NoCommand
  <2> QED
    BY <1>2, <1>4, <2>1, Proceeds
<1>6. CASE ~Collide(checked)
  <2>1. To(p, l)
    BY <1>2, <1>6
  <2>2. /\ l.kept = FilterTrusted(k.cfg) /\ l.cfg = k.cfg /\ l.approved = approved
        /\ l.pc = "launched"
    OBVIOUS
  <2> HIDE DEF kept, checked
  <2>3. l.kept = kept
    OBVIOUS
  <2>4. l.kept \in DeclaredType /\ PoolPassed(l, raced) /\ EntriesPassed(l, raced)
    <3> HIDE DEF l
    <3> QED
      BY <1>3, <2>2, FilterPasses DEF CInv
  <2>5. l \in Launched
    BY <1>3, <1>4, <2>3, <2>4 DEF Launched
  <2> HIDE DEF l
  <2>6. l \in Commands
    BY <2>5 DEF Commands
  <2>7. /\ cmds' \in [Procs -> Commands]
        /\ \A q \in Procs : cmds'[q] = IF q = p THEN l ELSE cmds[q]
    BY <1>4, <2>1, <2>6 DEF To
  <2>8. CTyped'
    BY <1>2, <2>7 DEF CInv, CTyped
  <2>9. GivenInv'
    BY <2>2, <2>7 DEF CInv, GivenInv, At
  <2>10. StoreInv'
    BY <1>2, <2>2, <2>7 DEF CInv, StoreInv, At
  <2>11. GateInv'
    <3> SUFFICES ASSUME NEW q \in Procs, At(q, "launched")'
                 PROVE  (PoolPassed(cmds[q], raced) /\ EntriesPassed(cmds[q], raced))'
      BY DEF GateInv
    <3>1. PoolPassed(cmds'[q], raced) /\ EntriesPassed(cmds'[q], raced)
      <4>1. CASE q = p
        BY <2>4, <2>7, <4>1
      <4>2. CASE q # p
        BY <2>7, <4>2 DEF CInv, GateInv, At
      <4> QED
        BY <4>1, <4>2
    <3> QED
      BY <1>2, <3>1 DEF PoolPassed, EntriesPassed, Has, Declared, From
  <2> QED
    BY <2>8, <2>9, <2>10, <2>11 DEF CInv
<1> QED
  BY <1>5, <1>6

LEMMA RecordInv ==
  ASSUME CInv, NEW p \in Procs, Record(p)
  PROVE  CInv'
<1> DEFINE k == cmds[p]
           a == k.cfg.val.alias
           profile == IF k.way.cmd = "shell" THEN k.profile ELSE None
<1>1. /\ k \in Launched /\ aliases \in [Sources -> AliasType]
      /\ sessions \in [{"cwd", "there"} -> Chosens]
  BY CommandAt DEF CInv, CTyped, Record, At
<1>2. /\ sessions' = (IF k.way.cmd = "shell" THEN [sessions EXCEPT ![k.way.at] = profile]
                      ELSE sessions)
      /\ aliases' = (IF a = None \/ aliases[a].at \notin {None, k.way.at} THEN aliases
                     ELSE [aliases EXCEPT ![a] = [at |-> k.way.at, profile |-> profile]])
      /\ To(p, NoCommand)
      /\ UNCHANGED <<files, store, events, approved, raced>>
  BY DEF Record
<1>3. k.way \in LineType /\ k.profile \in Chosens
  BY <1>1 DEF Launched
<1> HIDE DEF k, a
<1>4. k.way.at \in {"cwd", "there"} /\ profile \in Chosens
  BY <1>3 DEF LineType, Chosens
<1> HIDE DEF profile
<1>5. [at |-> k.way.at, profile |-> profile] \in AliasType
  BY <1>4 DEF AliasType
<1>6. sessions' \in [{"cwd", "there"} -> Chosens] /\ aliases' \in [Sources -> AliasType]
  BY <1>1, <1>2, <1>4, <1>5
<1>7. NoCommand \in Commands /\ NoCommand.pc = "idle"
  BY DEF Commands, NoCommand
<1> QED
  BY <1>2, <1>6, <1>7, Proceeds

LEMMA ReadStoreInv ==
  ASSUME CInv, NEW p \in Procs, ReadStore(p)
  PROVE  CInv'
<1> DEFINE u == [pc |-> "updating", way |-> cmds[p].way, cfg |-> cmds[p].cfg, store |-> store]
<1>1. /\ cmds[p] \in Preparing /\ At(p, "overlaid") /\ store \in StoreType
      /\ cmds \in [Procs -> Commands]
  BY CommandAt DEF CInv, CTyped, ReadStore, At
<1>2. /\ cmds' = [cmds EXCEPT ![p] = u]
      /\ raced' = (raced \/ \E q \in Procs : q # p /\ At(q, "updating"))
      /\ UNCHANGED <<files, store, aliases, sessions, events, approved>>
  BY DEF ReadStore, To
<1>3. u \in Updating /\ u.pc = "updating" /\ u.store = store
  BY <1>1 DEF Preparing, Updating
<1> HIDE DEF u
<1>4. /\ cmds' \in [Procs -> Commands]
      /\ \A q \in Procs : cmds'[q] = IF q = p THEN u ELSE cmds[q]
  BY <1>1, <1>2, <1>3 DEF Commands
<1>5. CTyped'
  BY <1>2, <1>4 DEF CInv, CTyped
<1>6. GivenInv'
  BY <1>3, <1>4 DEF CInv, GivenInv, At
<1>7. StoreInv'
  <2> SUFFICES ASSUME ~raced'
               PROVE  /\ store = approved
                      /\ \A q \in Procs : cmds'[q].pc = "updating" =>
                           /\ cmds'[q].store = store
                           /\ \A r \in Procs : cmds'[r].pc = "updating" => r = q
    BY <1>2 DEF StoreInv, At
  <2>1. ~raced /\ \A q \in Procs : cmds[q].pc = "updating" => q = p
    BY <1>2 DEF At
  <2>2. store = approved
    BY <2>1 DEF CInv, StoreInv
  <2>3. \A q \in Procs : cmds'[q].pc = "updating" => q = p
    BY <1>4, <2>1
  <2> QED
    BY <1>3, <1>4, <2>2, <2>3
<1>8. GateInv'
  <2> SUFFICES ASSUME NEW q \in Procs, At(q, "launched")'
               PROVE  (PoolPassed(cmds[q], raced) /\ EntriesPassed(cmds[q], raced))'
    BY DEF GateInv
  <2>1. cmds'[q] = cmds[q] /\ At(q, "launched")
    BY <1>3, <1>4 DEF At
  <2>2. PoolPassed(cmds[q], raced) /\ EntriesPassed(cmds[q], raced)
    BY <2>1 DEF CInv, GateInv
  <2>3. raced => raced'
    BY <1>2
  <2> QED
    BY <2>1, <2>2, <2>3 DEF PoolPassed, EntriesPassed, Has, Declared, From
<1> QED
  BY <1>5, <1>6, <1>7, <1>8 DEF CInv

\* An update of the store is over: it says what is approved.
LEMMA Updates ==
  ASSUME CInv, NEW p \in Procs, At(p, "updating"), To(p, NoCommand),
         UNCHANGED <<files, aliases, sessions, raced>>,
         store' \in StoreType, approved' \in StoreType, ~raced => store' = approved'
  PROVE  CInv'
<1>1. /\ cmds' \in [Procs -> Commands]
      /\ \A q \in Procs : cmds'[q] = IF q = p THEN NoCommand ELSE cmds[q]
  BY DEF CInv, CTyped, To, Commands
<1>2. NoCommand.pc = "idle"
  BY DEF NoCommand
<1>3. CTyped'
  BY <1>1 DEF CInv, CTyped
<1>4. GivenInv'
  BY <1>1, <1>2 DEF CInv, GivenInv, At
<1>5. StoreInv'
  <2> SUFFICES ASSUME ~raced
               PROVE  \A q \in Procs : cmds'[q].pc # "updating"
    BY DEF StoreInv, At
  <2>1. \A q \in Procs : cmds[q].pc = "updating" => q = p
    BY DEF CInv, StoreInv, At
  <2> QED
    BY <1>1, <1>2, <2>1
<1>6. GateInv'
  <2> SUFFICES ASSUME NEW q \in Procs, At(q, "launched")'
               PROVE  (PoolPassed(cmds[q], raced) /\ EntriesPassed(cmds[q], raced))'
    BY DEF GateInv
  <2>1. cmds'[q] = cmds[q] /\ At(q, "launched")
    BY <1>1, <1>2 DEF At
  <2>2. PoolPassed(cmds[q], raced) /\ EntriesPassed(cmds[q], raced)
    BY <2>1 DEF CInv, GateInv
  <2> QED
    BY <2>1, <2>2 DEF PoolPassed, EntriesPassed, Has, Declared, From
<1> QED
  BY <1>3, <1>4, <1>5, <1>6 DEF CInv

LEMMA TrustInv ==
  ASSUME CInv, NEW p \in Procs, Trust(p)
  PROVE  CInv'
<1> DEFINE k == cmds[p]
           c == k.cfg
           put == [s \in Untrusted |-> IF s \in SourcesOf(c) THEN Fingerprint(c, s)
                                       ELSE k.store[s]]
           agreed == [s \in Untrusted |-> IF Declared(c, s) # Nothing THEN Declared(c, s)
                                          ELSE approved[s]]
<1>1. k \in Updating /\ At(p, "updating") /\ store \in StoreType /\ approved \in StoreType
  BY CommandAt DEF CInv, CTyped, Trust, At
<1>2. /\ store' = (IF SourcesOf(c) = {} THEN store ELSE put) /\ approved' = agreed
      /\ To(p, NoCommand) /\ UNCHANGED <<files, aliases, sessions, events, raced>>
  BY DEF Trust
<1>3. c \in GoodConfigs /\ k.store \in StoreType
  BY <1>1 DEF Updating
<1>4. ~raced => store = approved /\ k.store = store
  BY <1>1 DEF CInv, StoreInv
<1> HIDE DEF k, c
<1>5. \A s : Declared(c, s) \in DeclaredType
  BY <1>3, DeclaredTyped
<1>6. put \in StoreType /\ agreed \in StoreType
  BY <1>1, <1>3, <1>5 DEF StoreType, Fingerprint
<1>7. store' \in StoreType /\ approved' \in StoreType
  BY <1>1, <1>2, <1>6
<1>8. ASSUME ~raced PROVE store' = approved'
  <2>1. CASE SourcesOf(c) = {}
    <3>1. \A s \in Untrusted : Declared(c, s) = Nothing
      BY <2>1 DEF SourcesOf
    <3>2. agreed = [s \in Untrusted |-> approved[s]]
      BY <3>1
    <3>3. agreed = approved
      BY <1>1, <3>2 DEF StoreType
    <3> QED
      BY <1>2, <1>4, <1>8, <2>1, <3>3
  <2>2. CASE SourcesOf(c) # {}
    <3>1. \A s \in Untrusted : put[s] = agreed[s]
      BY <1>4, <1>8 DEF SourcesOf, Fingerprint
    <3>2. put = agreed
      BY <3>1
    <3> QED
      BY <1>2, <2>2, <3>2
  <2> QED
    BY <2>1, <2>2
<1> QED
  BY <1>1, <1>2, <1>7, <1>8, Updates

LEMMA UntrustInv ==
  ASSUME CInv, NEW p \in Procs, Untrust(p)
  PROVE  CInv'
<1> DEFINE k == cmds[p]
           gone == Revoked(k.cfg, k.way)
           view == {s \in Untrusted : Declared(k.cfg, s) # Nothing} \cup {k.way.at}
           put == [s \in Untrusted |-> IF s \in gone THEN Nothing ELSE k.store[s]]
           agreed == [s \in Untrusted |-> IF s \in view THEN Nothing ELSE approved[s]]
<1>1. k \in Updating /\ At(p, "updating") /\ store \in StoreType /\ approved \in StoreType
  BY CommandAt DEF CInv, CTyped, Untrust, At
<1>2. /\ store' = (IF \E s \in gone : k.store[s] # Nothing THEN put ELSE store)
      /\ approved' = agreed
      /\ To(p, NoCommand) /\ UNCHANGED <<files, aliases, sessions, events, raced>>
  BY DEF Untrust
<1>3. k.store \in StoreType
  BY <1>1 DEF Updating
<1>4. ~raced => store = approved /\ k.store = store
  BY <1>1 DEF CInv, StoreInv
<1>5. view = gone
  BY DEF Revoked, SourcesOf
<1> HIDE DEF k, gone, view
<1>6. Nothing \in DeclaredType
  BY DEF Nothing, DeclaredType
<1>7. put \in StoreType /\ agreed \in StoreType
  BY <1>1, <1>3, <1>6 DEF StoreType
<1>8. store' \in StoreType /\ approved' \in StoreType
  BY <1>1, <1>2, <1>7
<1>9. ASSUME ~raced PROVE store' = approved'
  <2>1. CASE \E s \in gone : k.store[s] # Nothing
    BY <1>2, <1>4, <1>5, <1>9, <2>1
  <2>2. CASE \A s \in gone : k.store[s] = Nothing
    <3>1. agreed = [s \in Untrusted |-> approved[s]]
      BY <1>4, <1>5, <1>9, <2>2
    <3>2. agreed = approved
      BY <1>1, <3>1 DEF StoreType
    <3> QED
      BY <1>2, <1>4, <1>9, <2>2, <3>2
  <2> QED
    BY <2>1, <2>2
<1> QED
  BY <1>1, <1>2, <1>8, <1>9, Updates

-----------------------------------------------------------------------------
LEMMA GateStays ==
  ASSUME CInv, cmds' = cmds, raced' = raced
  PROVE  GateInv'
<1> SUFFICES ASSUME NEW q \in Procs, At(q, "launched")'
             PROVE  (PoolPassed(cmds[q], raced) /\ EntriesPassed(cmds[q], raced))'
  BY DEF GateInv
<1>1. cmds'[q] = cmds[q] /\ At(q, "launched")
  BY DEF At
<1>2. PoolPassed(cmds[q], raced) /\ EntriesPassed(cmds[q], raced)
  BY <1>1 DEF CInv, GateInv
<1> QED
  BY <1>1, <1>2 DEF PoolPassed, EntriesPassed, Has, Declared, From

LEMMA EditInv ==
  ASSUME CInv, NEW s \in {"cwd", "repo"}, NEW v \in Versions \cup {None}, Edit(s, v)
  PROVE  CInv'
<1>1. /\ files' = [files EXCEPT ![s].mount = v] /\ files \in [Sources -> FileType]
      /\ UNCHANGED <<store, aliases, sessions, cmds, approved, raced>>
  BY DEF Edit, CInv, CTyped
<1>2. s \in Sources
  BY DEF Sources, Files, Disk
<1>3. [files[s] EXCEPT !.mount = v] \in FileType
  BY <1>1, <1>2 DEF FileType
<1>4. files' \in [Sources -> FileType]
  BY <1>1, <1>2, <1>3
<1>5. CTyped'
  BY <1>1, <1>4 DEF CInv, CTyped
<1>6. GivenInv' /\ StoreInv'
  BY <1>1 DEF CInv, GivenInv, StoreInv, At, Applied
<1>7. GateInv'
  BY <1>1, GateStays
<1> QED
  BY <1>5, <1>6, <1>7 DEF CInv

LEMMA CStutters == ASSUME CInv, UNCHANGED cvars PROVE CInv'
<1>1. UNCHANGED <<files, store, aliases, sessions, cmds, events, approved, raced>>
  BY DEF cvars
<1>2. CTyped' /\ GivenInv' /\ StoreInv'
  BY <1>1 DEF CInv, CTyped, GivenInv, StoreInv, At, Applied
<1>3. GateInv'
  BY <1>1, GateStays
<1> QED
  BY <1>2, <1>3 DEF CInv

LEMMA CStepInv == ASSUME CInv, [CNext]_cvars PROVE CInv'
<1>1. ASSUME NEW p \in Procs, NEW w \in CommandLines[p], PreRun(p, w) PROVE CInv'
  BY <1>1, PreRunInv
<1>2. ASSUME NEW p \in Procs,
             Overlay(p) \/ ResolveWorkspace(p) \/ ApplyFallback(p) \/ Resume(p)
      PROVE  CInv'
  BY <1>2, OverlayInv, ResolveWorkspaceInv, ApplyFallbackInv, ResumeInv
<1>3. ASSUME NEW p \in Procs,
             Gate(p) \/ Record(p) \/ ReadStore(p) \/ Trust(p) \/ Untrust(p)
      PROVE  CInv'
  BY <1>3, GateStep, RecordInv, ReadStoreInv, TrustInv, UntrustInv
<1>4. ASSUME NEW s \in {"cwd", "repo"}, NEW v \in Versions \cup {None}, Edit(s, v)
      PROVE  CInv'
  BY <1>4, EditInv
<1>5. CASE UNCHANGED cvars
  BY <1>5, CStutters
<1> QED
  BY <1>1, <1>2, <1>3, <1>4, <1>5 DEF CNext, Step

LEMMA CInvariance == CSpec => []CInv
BY CInitInv, CStepInv, PTL DEF CSpec

\* The configuration of a launch.
LEMMA LaunchedConfig ==
  ASSUME CInv, NEW p \in Procs, Running(p)
  PROVE  cmds[p].cfg \in GoodConfigs /\ At(p, "launched")
  BY CommandAt DEF CInv, CTyped, Running, At, Launched

\* Whatever the files declare, whichever profiles inherit from each other and
\* in whatever order commands, approvals and edits follow: the protected
\* settings of a launch come from the user's own files, and a session name of
\* one of his profiles from one that he applied (sanitizeUntrusted* and
\* stripUntrustedInheritedSessionNames).
THEOREM SettingsUsersOwn == CSpec => []ChosenByUser
<1>1. ASSUME CInv PROVE ChosenByUser
  BY <1>1, LaunchedConfig DEF ChosenByUser, GoodConfigs, Chosen, Applied
<1> QED
  BY <1>1, CInvariance, PTL

\* A pool of ports that is not approved never takes the user's own away, in
\* any order of the layers (mergePortsInto and FilterTrusted).
THEOREM PoolsUsersOwn == CSpec => []UsersOwn
<1>1. ASSUME CInv PROVE UsersOwn
  <2> SUFFICES ASSUME NEW p \in Procs, Running(p)
      PROVE LET pools == cmds[p].cfg.pools
                last == pools[Len(pools)]
                mine == {i \in DOMAIN pools : pools[i].from = None}
                may == {i \in DOMAIN pools : \/ pools[i].from = None
                                             \/ cmds[p].approved[pools[i].from] # Nothing
                                             \/ raced}
            IN  IF pools = <<>> THEN cmds[p].kept.pool = 0
                ELSE \/ cmds[p].kept.pool = last.n /\ Len(pools) \in may
                     \/ /\ last.from # None
                        /\ \/ mine = {} /\ cmds[p].kept.pool = 0
                           \/ \E i \in mine : cmds[p].kept.pool = pools[i].n
                                              /\ \A j \in mine : j <= i
    BY DEF UsersOwn
  <2> DEFINE c == cmds[p].cfg
             pool == c.ports.pool
             pools == c.pools
             n == cmds[p].kept.pool
  <2>1. /\ c \in GoodConfigs /\ PoolPassed(cmds[p], raced)
    BY <1>1, LaunchedConfig DEF CInv, GateInv
  <2>2. pools \in Seq(PoolType) /\ Remembers(pools, pool)
    BY <2>1 DEF GoodConfigs, ConfigurationType
  <2>3. \/ n = pool.n /\ (pool.from = None \/ raced \/ cmds[p].approved[pool.from] # Nothing)
        \/ pool.from # None /\ n = pool.own
    BY <2>1 DEF PoolPassed
  <2> HIDE DEF n, pool
  <2>4. CASE pools = <<>>
    <3>1. pool.n = 0 /\ pool.from = None
      BY <2>2, <2>4 DEF Remembers, NoPool
    <3> QED
      BY <2>3, <2>4, <3>1 DEF n
  <2>5. CASE pools # <<>>
    <3>1. /\ pool.n = pools[Len(pools)].n /\ pool.from = pools[Len(pools)].from
          /\ pool.from # None => Uppermost(pools, pool.own)
      BY <2>2, <2>5 DEF Remembers
    <3>2. Len(pools) \in DOMAIN pools
      BY <2>2, <2>5
    <3> QED
      BY <2>3, <2>5, <3>1, <3>2 DEF Uppermost, n
  <2> QED
    BY <2>4, <2>5
<1> QED
  BY <1>1, CInvariance, PTL

\* What a launch takes from an untrusted file the user has approved in exactly
\* this form and not revoked, unless two updates of the store overlapped
\* (session/trust.go).
THEOREM TrustHolds == CSpec => []OnlyApproved
<1>1. ASSUME CInv PROVE OnlyApproved
  BY <1>1, LaunchedConfig DEF OnlyApproved, Passed, CInv, GateInv, EntriesPassed, Has
<1> QED
  BY <1>1, CInvariance, PTL
=================================================================================
