------------------------------- MODULE Config -------------------------------
(***************************************************************************)
(* From the configuration files to what a launch applies: the layers that  *)
(* config.Load merges, profiles and their inheritance, the overlays that   *)
(* coi shell and coi run put on top (workspace, alias, --profile,          *)
(* [defaults] profile, --resume), and the trust gate, with coi trust and   *)
(* coi untrust acting on the store between and during the commands.        *)
(*                                                                         *)
(* A setting is abstracted to the file it comes from.  "guard" stands for  *)
(* every setting that is stripped from untrusted files (network            *)
(* downgrades, security, git, prompts, env_commands), a mount for every    *)
(* entry of a list that layers append to (mounts, sockets, credentials),   *)
(* all of them writable and outside the workspace.                         *)
(***************************************************************************)
EXTENDS Naturals, Sequences, FiniteSets, Picking

CONSTANTS
  Worlds,        \* what the files may declare at first: functions on Sources
  Versions,      \* the contents a project may give its list entries
  Procs,         \* processes that run commands
  CommandLines,  \* CommandLines[p]: the command lines p runs
  MaxEvents      \* bound: commands, and edits of project files, in a behaviour

None == "none"
Files == {"user", "cwd", "there", "env"}  \* ~/.coi, two projects, $COI_CONFIG
Disk == {"home", "repo"}                  \* profiles: user's and project's
Sources == Files \cup Disk
Profiles == Disk \cup {"default"}
Trusted == {"user", "env", "home"}        \* what the user controls
Untrusted == Sources \ Trusted

Container == {"image", "name", "alias"}   \* settings of [container]
Settings == Container \cup {"guard"}
Gated == {"guard", "name"}                \* never taken from an untrusted file

\* What a file may declare, and what a command line may say.
FileType == [sets : SUBSET Settings, mount : Versions \cup {None}, pool : Nat,
             web : BOOLEAN, inherits : Profiles \cup {None}, profile : Disk \cup {None}]
LineType == [cmd : {"shell", "run", "trust", "untrust"}, profile : Profiles \cup {None},
             at : {"cwd", "there"}, alias : {None, "cwd", "there"}, resume : BOOLEAN]

ASSUME ConfigAssumption ==
  /\ Worlds \subseteq [Sources -> FileType]
  /\ CommandLines \in [Procs -> SUBSET LineType]
  /\ MaxEvents \in Nat

VARIABLES
  files,     \* what each file declares
  store,     \* ~/.coi/trust.toml: the approved fingerprint of each source
  aliases,   \* ~/.coi/aliases.json: workspace and profile of each alias
  sessions,  \* metadata.json: the profile of each workspace's saved session
  cmds,       \* the command of each process
  events,    \* number of commands started and edits made
  approved,  \* history: what the user approved and has not revoked since
  raced      \* history: two updates of the store overlapped

cvars == <<files, store, aliases, sessions, cmds, events, approved, raced>>

-----------------------------------------------------------------------------
(* Layers *)

NoPool == [n |-> 0, from |-> None, own |-> 0]
NoPorts == [pool |-> NoPool, web |-> <<>>]
NoConfig == [val |-> [f \in Settings |-> None], mounts |-> <<>>,
             ports |-> NoPorts, layers |-> <<>>, pools |-> <<>>]

\* What survives of a file: an untrusted one loses the gated settings.
Sanitised(s) == IF s \in Trusted THEN files[s].sets ELSE files[s].sets \ Gated

\* Every resource of an untrusted file carries the path of that file.
Tag(s) == IF s \in Trusted THEN None ELSE s

\* Reading one file into a layer.
ReadLayer(s) ==
  LET f == files[s]
  IN  [val |-> [x \in Settings |-> IF x \in Sanitised(s) THEN s ELSE None],
       mounts |-> IF f.mount = None THEN <<>>
                  ELSE <<[file |-> s, id |-> f.mount, from |-> Tag(s)]>>,
       ports |-> [pool |-> IF f.pool = 0 THEN NoPool
                           ELSE [n |-> f.pool, from |-> Tag(s), own |-> 0],
                  web |-> IF f.web THEN <<[file |-> s, from |-> Tag(s)]>> ELSE <<>>],
       src |-> s]

\* A set value wins over the one below it (mergeScalar, mergePtr).
Atop(below, top) ==
  [x \in Settings |-> IF top[x] # None THEN top[x] ELSE below[x]]

\* As if the value that loses were forgotten.
MergePoolOver(below, top) ==
  IF top.n = 0 THEN below ELSE [n |-> top.n, from |-> top.from, own |-> 0]

\* The pool of the upper layer wins; a trusted one that loses to an untrusted
\* one is remembered.
MergePool(below, top) ==
  IF top.n = 0 THEN below
  ELSE [n |-> top.n, from |-> top.from,
        own |-> IF top.from = None THEN 0
                ELSE IF below.n > 0 /\ below.from = None THEN below.n
                ELSE below.own]

\* The only entry of the map has the same name in every file: it is replaced.
MergePorts(below, top) ==
  [pool |-> MergePool(below.pool, top.pool),
   web |-> IF top.web = <<>> THEN below.web ELSE top.web]

Merge(c, l) ==
  [val |-> Atop(c.val, l.val), mounts |-> c.mounts \o l.mounts,
   ports |-> MergePorts(c.ports, l.ports), layers |-> Append(c.layers, l.src),
   pools |-> IF l.ports.pool.n = 0 THEN c.pools ELSE Append(c.pools, l.ports.pool)]

-----------------------------------------------------------------------------
(* Profiles *)

\* Child over parent: settings one by one, lists and ports as a whole.
Inherit(parent, child) ==
  [child EXCEPT !.val = Atop(parent.val, child.val),
                !.mounts = IF child.mounts = <<>> THEN parent.mounts ELSE child.mounts,
                !.ports = IF child.ports = NoPorts THEN parent.ports ELSE child.ports]

Parent(p) == IF p = "default" THEN None ELSE files[p].inherits

\* A chain of parents that comes back to itself stops the load.
Cyclic == \/ \E p \in Disk : Parent(p) = p
          \/ \A p \in Disk : Parent(p) \in Disk

\* The built-in "default" profile is a copy of the merged files.
OwnProfile(c, p) ==
  IF p = "default" THEN [val |-> c.val, mounts |-> c.mounts, ports |-> c.ports,
                         src |-> "default"]
  ELSE ReadLayer(p)

\* Every profile over what its parent was found to be.
OverParents(c, r) ==
  [p \in Profiles |-> IF Parent(p) = None THEN OwnProfile(c, p)
                     ELSE Inherit(r[Parent(p)], OwnProfile(c, p))]

\* A chain is no longer than the number of profiles.
ResolveInheritance(c) ==
  OverParents(c, OverParents(c, [p \in Profiles |-> OwnProfile(c, p)]))

\* As if sanitising the files were enough.
WithInheritedName(p, l) == l

\* Inheritance may have copied the session name of a trusted parent; the
\* built-in profile counts as untrusted.
WithoutInheritedName(p, l) ==
  IF p \in Trusted THEN l ELSE [l EXCEPT !.val.name = None]

ProfilesOf(c) ==
  LET r == ResolveInheritance(c) IN [p \in Profiles |-> WithoutInheritedName(p, r[p])]

\* The files in the order of their precedence.
LoadFiles ==
  Merge(Merge(Merge(NoConfig, ReadLayer("user")), ReadLayer("cwd")), ReadLayer("env"))

\* A profile goes on top, except for the alias of the project.
KeepAlias(c, m) ==
  IF c.val.alias = None THEN m ELSE [m EXCEPT !.val.alias = c.val.alias]

ApplyProfile(c, l) == KeepAlias(c, Merge(c, l))

\* Only [container] again, after an overlay.
ReapplyContainer(c, l) ==
  KeepAlias(c, [c EXCEPT !.val = [x \in Settings |->
    IF x \in Container THEN Atop(@, l.val)[x] ELSE @[x]]])

-----------------------------------------------------------------------------
(* The trust gate *)

\* What a source has in a configuration, doubles included.
From(entries, sources) == Pick(entries, {i \in DOMAIN entries : entries[i].from \in sources})
Declared(c, s) ==
  [mounts |-> From(c.mounts, {s}), web |-> From(c.ports.web, {s}),
   pool |-> IF c.ports.pool.from = s THEN c.ports.pool.n ELSE 0]

Nothing == [mounts |-> <<>>, web |-> <<>>, pool |-> 0]

\* As if mounts were approved by their number.
MountCount(c, s) == [Declared(c, s) EXCEPT !.mounts = Len(@)]

\* The hash over it.
Fingerprint(c, s) == Declared(c, s)

SourcesOf(c) == {s \in Untrusted : Declared(c, s) # Nothing}

\* The source is approved for exactly what it has in this configuration.
Approves(c, s) == store[s] # Nothing /\ store[s] = Fingerprint(c, s)

\* What passes: everything of the user's, and of the approved sources; the
\* user's own pool comes back when an unapproved one had overwritten it.
FilterTrusted(c) ==
  LET passing == {None} \cup {s \in Untrusted : Approves(c, s)}
  IN  [mounts |-> From(c.mounts, passing), web |-> From(c.ports.web, passing),
       pool |-> IF c.ports.pool.from \in passing THEN c.ports.pool.n ELSE c.ports.pool.own]

-----------------------------------------------------------------------------
(* Commands *)

NoCommand == [pc |-> "idle"]
Unregistered == [at |-> None, profile |-> None]
Launching(w) == w.cmd \in {"shell", "run"}
At(p, pc) == cmds[p].pc = pc
To(p, k) == cmds' = [cmds EXCEPT ![p] = k]

CInit ==
  /\ files \in Worlds
  /\ store = [s \in Untrusted |-> Nothing]
  /\ aliases = [a \in Sources |-> Unregistered]
  /\ sessions = [w \in {"cwd", "there"} |-> None]
  /\ cmds = [p \in Procs |-> NoCommand]
  /\ events = 0
  /\ approved = [s \in Untrusted |-> Nothing]
  /\ raced = FALSE

\* PersistentPreRunE: load, and apply --profile.
PreRun(p, w) ==
  /\ At(p, "idle")
  /\ events < MaxEvents
  /\ ~Cyclic
  /\ events' = events + 1
  /\ LET c == LoadFiles
         ps == ProfilesOf(c)
     IN  To(p, [pc |-> "loaded", way |-> w, profiles |-> ps, profile |-> w.profile,
                cfg |-> IF w.profile = None THEN c ELSE ApplyProfile(c, ps[w.profile])])
  /\ UNCHANGED <<files, store, aliases, sessions, approved, raced>>

Quiet == UNCHANGED <<files, store, aliases, sessions, events, approved, raced>>

\* The project of the workspace on top, when it is not the one already loaded.
Overlaid(c, w) ==
  IF w.at = "cwd" THEN c ELSE Merge(c, ReadLayer(w.at))

\* coi run, coi trust and coi untrust: overlayWorkspaceConfig.
Overlay(p) ==
  LET k == cmds[p]
      o == Overlaid(k.cfg, k.way)
  IN  /\ At(p, "loaded") /\ k.way.cmd # "shell"
      /\ To(p, [k EXCEPT !.pc = "overlaid", !.cfg =
           IF k.profile = None \/ k.way.at = "cwd" THEN o
           ELSE ReapplyContainer(o, k.profiles[k.profile])])
      /\ Quiet

\* An alias is looked up in the registry, or in the project it is run from.
Lookup(a) ==
  IF aliases[a] = Unregistered /\ a = "cwd" /\ "alias" \in files["cwd"].sets
  THEN [at |-> "cwd", profile |-> None] ELSE aliases[a]

\* coi shell: the same, or the workspace of an alias, whatever is loaded
\* already, and the profile saved with it.
ResolveWorkspace(p) ==
  LET k == cmds[p]
      byAlias == k.way.alias # None
      e == IF byAlias THEN Lookup(k.way.alias)
           ELSE [at |-> k.way.at, profile |-> None]
      o == IF byAlias THEN Merge(k.cfg, ReadLayer(e.at)) ELSE Overlaid(k.cfg, k.way)
  IN  /\ At(p, "loaded") /\ k.way.cmd = "shell"
      /\ To(p,
           IF e = Unregistered THEN NoCommand
           ELSE IF k.profile # None
           THEN [k EXCEPT !.pc = "overlaid", !.way.at = e.at,
                          !.cfg = ReapplyContainer(o, k.profiles[k.profile])]
           ELSE [k EXCEPT !.pc = "overlaid", !.way.at = e.at, !.profile = e.profile,
                          !.cfg = IF e.profile = None THEN o
                                  ELSE ApplyProfile(o, k.profiles[e.profile])])
      /\ aliases' = IF e = Unregistered \/ ~byAlias THEN aliases
                    ELSE [aliases EXCEPT ![k.way.alias] = e]
      /\ UNCHANGED <<files, store, sessions, events, approved, raced>>

\* [defaults] profile, which only the user's files may set.
Fallback == IF files["env"].profile # None THEN files["env"].profile
            ELSE files["user"].profile

ApplyFallback(p) ==
  LET k == cmds[p]
  IN  /\ At(p, "overlaid") /\ Launching(k.way)
      /\ To(p, IF k.profile # None \/ Fallback = None THEN [k EXCEPT !.pc = "chosen"]
               ELSE [k EXCEPT !.pc = "chosen", !.profile = Fallback,
                              !.cfg = ApplyProfile(k.cfg, k.profiles[Fallback])])
      /\ Quiet

\* --resume: the profile of the saved session on top, unless --profile is given.
Resume(p) ==
  LET k == cmds[p]
      saved == IF k.way.cmd = "shell" /\ k.way.resume THEN sessions[k.way.at]
               ELSE None
  IN  /\ At(p, "chosen")
      /\ To(p, IF k.way.profile # None \/ saved = None THEN [k EXCEPT !.pc = "configured"]
               ELSE [k EXCEPT !.pc = "configured", !.profile = saved,
                              !.cfg = ApplyProfile(k.cfg, k.profiles[saved])])
      /\ Quiet

\* Two writable mounts at one place of the container.
Collide(mounts) == \E i, j \in DOMAIN mounts : i < j /\ mounts[i].file = mounts[j].file

\* The shell checks what is configured, coi run what has passed the gate.
Gate(p) ==
  LET k == cmds[p]
      kept == FilterTrusted(k.cfg)
      checked == IF k.way.cmd = "shell" THEN k.cfg.mounts ELSE kept.mounts
  IN  /\ At(p, "configured")
      /\ To(p, IF Collide(checked) THEN NoCommand
               ELSE [pc |-> "launched", way |-> k.way, profile |-> k.profile,
                     cfg |-> k.cfg, profiles |-> k.profiles, kept |-> kept,
                     approved |-> approved])
      /\ Quiet

\* The shell records the profile with the session, and both register the
\* alias, coi run without a profile, unless it is another workspace's.
Record(p) ==
  LET k == cmds[p]
      a == k.cfg.val.alias
      profile == IF k.way.cmd = "shell" THEN k.profile ELSE None
  IN  /\ At(p, "launched")
      /\ sessions' = IF k.way.cmd = "shell"
                     THEN [sessions EXCEPT ![k.way.at] = profile] ELSE sessions
      /\ aliases' = IF a = None \/ aliases[a].at \notin {None, k.way.at} THEN aliases
                    ELSE [aliases EXCEPT ![a] = [at |-> k.way.at, profile |-> profile]]
      /\ To(p, NoCommand)
      /\ UNCHANGED <<files, store, events, approved, raced>>

\* coi trust and coi untrust read the store ...
ReadStore(p) ==
  /\ At(p, "overlaid") /\ ~Launching(cmds[p].way)
  /\ To(p, [pc |-> "updating", way |-> cmds[p].way, cfg |-> cmds[p].cfg, store |-> store])
  /\ raced' = (raced \/ \E q \in Procs : q # p /\ At(q, "updating"))
  /\ UNCHANGED <<files, store, aliases, sessions, events, approved>>

\* ... and replace it by what they have read, with the approvals of every
\* source that declares something,
Trust(p) ==
  LET c == cmds[p].cfg
  IN  /\ At(p, "updating") /\ cmds[p].way.cmd = "trust"
      /\ store' = IF SourcesOf(c) = {} THEN store
           ELSE [s \in Untrusted |-> IF s \in SourcesOf(c) THEN Fingerprint(c, s)
                                     ELSE cmds[p].store[s]]
      /\ approved' = [s \in Untrusted |->
           IF Declared(c, s) # Nothing THEN Declared(c, s) ELSE approved[s]]
      /\ To(p, NoCommand)
      /\ UNCHANGED <<files, aliases, sessions, events, raced>>

\* or without those of the sources in view and of the workspace's project.
Revoked(c, w) == SourcesOf(c) \cup {w.at}

Untrust(p) ==
  LET k == cmds[p]
      view == {s \in Untrusted : Declared(k.cfg, s) # Nothing} \cup {k.way.at}
  IN  /\ At(p, "updating") /\ k.way.cmd = "untrust"
      /\ store' = IF \E s \in Revoked(k.cfg, k.way) : k.store[s] # Nothing
                  THEN [s \in Untrusted |-> IF s \in Revoked(k.cfg, k.way)
                                            THEN Nothing ELSE k.store[s]]
                  ELSE store
      /\ approved' = [s \in Untrusted |-> IF s \in view THEN Nothing ELSE approved[s]]
      /\ To(p, NoCommand)
      /\ UNCHANGED <<files, aliases, sessions, events, raced>>

\* Between the commands a checkout, or an agent in the container, changes what
\* a project declares.
Edit(s, v) ==
  /\ events < MaxEvents
  /\ \A p \in Procs : At(p, "idle")
  /\ files[s].mount # v
  /\ files' = [files EXCEPT ![s].mount = v]
  /\ events' = events + 1
  /\ UNCHANGED <<store, aliases, sessions, cmds, approved, raced>>

Step(p) ==
  \/ \E w \in CommandLines[p] : PreRun(p, w)
  \/ Overlay(p) \/ ResolveWorkspace(p) \/ ApplyFallback(p) \/ Resume(p)
  \/ Gate(p) \/ Record(p) \/ ReadStore(p) \/ Trust(p) \/ Untrust(p)

CNext ==
  \/ \E p \in Procs : Step(p)
  \/ \E s \in {"cwd", "repo"}, v \in Versions \cup {None} : Edit(s, v)

CSpec == CInit /\ [][CNext]_cvars

-----------------------------------------------------------------------------
(* Properties *)

Running(p) == cmds[p].pc = "launched"
Passed(p, s) == \/ \E i \in DOMAIN cmds[p].kept.mounts : cmds[p].kept.mounts[i].from = s
                \/ \E i \in DOMAIN cmds[p].kept.web : cmds[p].kept.web[i].from = s

\* A protected setting, and the session a launch attaches to, are always the
\* user's choice: they come from his own files, and a session name of one of
\* his profiles only when he applied that profile (sanitizeUntrusted* and
\* stripUntrustedInheritedSessionNames in config/loader.go), in whatever order
\* files, profiles and overlays are merged and inherit from each other.
ChosenByUser == \A p \in Procs : Running(p) =>
  LET c == cmds[p].cfg
  IN  /\ c.val.guard \in Trusted \cup {None}
      /\ c.val.name \in Trusted \cup {None}
      /\ c.val.name = "home" => \E i \in DOMAIN c.layers : c.layers[i] = "home"

\* An unapproved pool never takes the user's own away: the launch publishes
\* the pool of the uppermost layer, or, when that layer is neither trusted nor
\* approved, of the uppermost trusted one (mergePortsInto and FilterTrusted).
UsersOwn == \A p \in Procs : Running(p) =>
  LET pools == cmds[p].cfg.pools
      last == pools[Len(pools)]
      mine == {i \in DOMAIN pools : pools[i].from = None}
      may == {i \in DOMAIN pools : \/ pools[i].from = None
                                   \/ cmds[p].approved[pools[i].from] # Nothing
                                   \/ raced}
  IN  IF pools = <<>> THEN cmds[p].kept.pool = 0
      ELSE \/ cmds[p].kept.pool = last.n /\ Len(pools) \in may
           \/ /\ last.from # None
              /\ \/ mine = {} /\ cmds[p].kept.pool = 0
                 \/ \E i \in mine : cmds[p].kept.pool = pools[i].n /\ \A j \in mine : j <= i

\* Whatever a launch takes from an untrusted file, the user has approved with
\* everything that file has in this configuration and exactly in this form,
\* and has not revoked by then (session/trust.go).  Two overlapping updates of
\* the store are excepted: the later save undoes the other one.
OnlyApproved == \A p \in Procs : Running(p) =>
  \A s \in Untrusted :
    Passed(p, s) => raced \/ cmds[p].approved[s] = Declared(cmds[p].cfg, s)

=============================================================================
