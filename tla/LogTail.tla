------------------------------- MODULE LogTail -------------------------------
(***************************************************************************)
(* The log watcher of a session (internal/monitor/logwatcher.go): it       *)
(* follows a log of the container through /proc/<pid>/root, told by        *)
(* inotify when to read, with a backstop and with incus file pull when the *)
(* path cannot be read.  Meanwhile the log is written, rotated, truncated  *)
(* and the container restarted.                                            *)
(*                                                                         *)
(* One file; a line is written in two steps, its text and its newline, so  *)
(* offsets count half-lines and line k ends at position 2k of what was     *)
(* ever written.  Every line matches a pattern.                            *)
(***************************************************************************)
EXTENDS Integers, Sequences, FiniteSetsExt

CONSTANTS MaxLines, MaxInodes, MaxFaults  \* bounds

ASSUME LogTailAssumption == {MaxLines, MaxInodes} \subseteq Nat \ {0} /\ MaxFaults \in Nat

VARIABLES
  written,  \* half-lines ever written
  file,     \* the log: its inode (0: there is none), what it begins after, size
  inodes,   \* the last inode given out
  watcher,  \* "new", "inotify", "polling" (no inotify) or "dead"
  pid,      \* whether the pid the watcher holds is that of the container
  hidden,   \* whether the host's path cannot be read
  watch,    \* the watches: the inode of the log (0: none) and the directory's
  events,   \* inotify events not handled yet
  held,     \* logState, and two histories: where the file it is about began and
            \* the inode of the last read on the host
  reported, \* how often each line was reported
  waived,   \* history: "repeat", "unseen", see the properties
  troubles  \* bound

tvars == <<written, file, inodes, watcher, pid, hidden, watch, events, held,
           reported, waived, troubles>>

world == <<written, file, inodes>>
eyes == <<held, reported, waived>>

TInit ==
  /\ written \in 0..1
  /\ inodes \in 0..1 /\ (written = 1 => inodes = 1)
  /\ file = [inode |-> inodes, start |-> 0, size |-> written]
  /\ watcher = "new" /\ pid = FALSE /\ hidden = FALSE
  /\ watch = [log |-> 0, dir |-> FALSE]
  /\ events = <<>>
  /\ held = [offset |-> 0, inode |-> 0, usingFallback |-> FALSE, from |-> 0, of |-> 0]
  /\ reported = [l \in 1..MaxLines |-> 0]
  /\ waived = {}
  /\ troubles = 0

Trouble == troubles < MaxFaults /\ troubles' = troubles + 1

-----------------------------------------------------------------------------
(* The container's side.  The kernel merges an event with an equal last one *)

Raise(kind, of) ==
  LET event == [kind |-> kind, of |-> of]
      noticed == IF kind = "create" THEN watch.dir ELSE watch.log = of
  IN events' = IF watcher # "inotify" \/ ~noticed \/ (events # <<>> /\ events[Len(events)] = event)
                 THEN events ELSE Append(events, event)

others == <<watcher, pid, hidden, watch, held, reported, waived>>

Write ==
  /\ file.inode # 0 /\ written < 2 * MaxLines
  /\ written' = written + 1 /\ file' = [file EXCEPT !.size = @ + 1]
  /\ Raise("modify", file.inode)
  /\ UNCHANGED <<inodes, troubles>> /\ UNCHANGED others

\* Rotated away by a rename, or deleted; logs are rotated between two lines.
Rotate ==
  /\ file.inode # 0 /\ written % 2 = 0 /\ Trouble
  /\ file' = [inode |-> 0, start |-> written, size |-> 0]
  /\ Raise("self", file.inode)
  /\ UNCHANGED <<written, inodes>> /\ UNCHANGED others

\* The new log; a file system may give a deleted file's inode out again.
Create ==
  /\ file.inode = 0
  /\ \E new \in {inodes, inodes + 1} \ {0} :
       /\ new <= MaxInodes /\ inodes' = new
       /\ file' = [inode |-> new, start |-> written, size |-> 0]
       /\ Raise("create", new)
  /\ UNCHANGED <<written, troubles>> /\ UNCHANGED others

\* copytruncate.
Truncate ==
  /\ file.inode # 0 /\ written % 2 = 0 /\ file.size > 0 /\ Trouble
  /\ file' = [file EXCEPT !.start = written, !.size = 0]
  /\ Raise("modify", file.inode)
  /\ UNCHANGED <<written, inodes>> /\ UNCHANGED others

\* The container restarts, under another pid.
NewPid ==
  /\ pid /\ pid' = FALSE /\ Trouble
  /\ UNCHANGED world /\ UNCHANGED <<watcher, hidden, watch, events>> /\ UNCHANGED eyes

\* The host's path becomes unreadable, or readable again.
Hide ==
  /\ hidden' = ~hidden
  /\ IF hidden THEN UNCHANGED troubles ELSE Trouble
  /\ UNCHANGED world /\ UNCHANGED <<watcher, pid, watch, events>> /\ UNCHANGED eyes

-----------------------------------------------------------------------------
(* pollFile *)

\* readFileChunk: where it reads from.  An inode of 0 is not compared.
HostBase ==
  IF (held.inode # 0 /\ file.inode # held.inode) \/ file.size < held.offset THEN 0
  ELSE held.offset

\* pullFileChunk knows no inode.
PullBase == IF file.size < held.offset THEN 0 ELSE held.offset

\* Mutant: everything that was read counts as done.
AllRead(base) == file.size

\* Mutant: the offset stays where the read began.
NoneRead(base) == base

\* The end of the last complete line after base.
LastNL(base) == Max({base} \union {i \in base..file.size : i % 2 = 0})

\* The lines that are complete in what was read; a newline alone is an empty
\* line.
Complete(base) ==
  {(file.start + i) \div 2 : i \in {j \in (base + 2)..file.size : j % 2 = 0}}

\* A file that took the place of the one held, in a way the code cannot tell:
\* it has grown past the offset under the same inode, or without one to compare.
Disguised(pulled) ==
  /\ held.from # file.start /\ held.offset > 0 /\ file.size >= held.offset
  /\ pulled \/ held.of \in {0, file.inode}

\* "Preserve the last-known inode rather than clobbering it with 0".
PullInode == held.inode

\* What one read makes of the state.
Read(base, inode, pulled) ==
  /\ held' = [offset |-> LastNL(base), inode |-> inode, usingFallback |-> pulled,
              from |-> file.start, of |-> IF pulled THEN held.of ELSE file.inode]
  /\ reported' = [l \in 1..MaxLines |-> reported[l] + (IF l \in Complete(base) THEN 1 ELSE 0)]
  /\ waived' = waived
       \union (IF Disguised(pulled) THEN {"unseen"} ELSE {})
       \union (IF pulled /\ held.inode \notin {0, file.inode} /\ Complete(base) # {}
                 THEN {"repeat"} ELSE {})

\* An unsuccessful pull changes nothing.  known: whether the pid is good.
Poll(known) ==
  \/ /\ known /\ ~hidden /\ file.inode # 0
     /\ Read(HostBase, file.inode, FALSE)
     /\ UNCHANGED troubles
  \/ /\ ~(known /\ ~hidden) /\ file.inode # 0
     /\ Read(PullBase, PullInode, TRUE)
     /\ UNCHANGED troubles
  \/ /\ \/ file.inode = 0 /\ UNCHANGED troubles
        \/ ~(known /\ ~hidden) /\ Trouble
     /\ UNCHANGED eyes

-----------------------------------------------------------------------------
(* Run *)

\* addInotifyWatches; of two watches of one inode the second is the first.
Watches(known) ==
  IF known /\ ~hidden THEN [log |-> file.inode, dir |-> TRUE] ELSE [log |-> 0, dir |-> FALSE]

\* The maps as they are, with what addInotifyWatches finds.
Merged(known) ==
  LET new == Watches(known) IN
  [log |-> IF new.log # 0 THEN new.log ELSE watch.log, dir |-> watch.dir \/ new.dir]

\* GetContainerInitPID may fail now and then.
Begin ==
  /\ watcher = "new"
  /\ \/ watcher' = "inotify" /\ pid' \in BOOLEAN /\ watch' = Watches(pid') /\ Poll(pid')
     \/ watcher' = "polling" /\ UNCHANGED <<pid, watch, troubles>> /\ UNCHANGED eyes
  /\ UNCHANGED world /\ UNCHANGED <<hidden, events>>

Handle(event) ==
  \/ /\ event.kind = "create"
     /\ watch' = Merged(pid) /\ Poll(pid)
  \/ /\ event.kind = "self"
     /\ watch' = IF watch.log = event.of THEN [watch EXCEPT !.log = 0] ELSE watch
     /\ UNCHANGED troubles /\ UNCHANGED eyes
  \/ /\ event.kind = "modify" /\ watch.log = event.of
     /\ UNCHANGED watch /\ Poll(pid)
  \/ /\ event.kind = "modify" /\ watch.log # event.of
     /\ UNCHANGED <<watch, troubles>> /\ UNCHANGED eyes

Event ==
  /\ watcher = "inotify" /\ events # <<>>
  /\ events' = Tail(events)
  /\ Handle(Head(events))
  /\ UNCHANGED world /\ UNCHANGED <<watcher, pid, hidden>>

\* The ticker of three seconds: the pid is asked for again; another one makes
\* all watches anew, the same one those that miss.
Backstop ==
  /\ watcher = "inotify"
  /\ pid' \in BOOLEAN
  /\ watch' = IF pid' # pid THEN Watches(pid')
              ELSE IF watch.log = 0 THEN Merged(pid) ELSE watch
  /\ Poll(pid')
  /\ UNCHANGED world /\ UNCHANGED <<watcher, hidden, events>>

\* runPolling.
Tick ==
  /\ watcher = "polling"
  /\ \E known \in BOOLEAN : Poll(known)
  /\ UNCHANGED world /\ UNCHANGED <<watcher, pid, hidden, watch, events>>

\* An error of poll or read in inotifyReader, a signal for one, closes the
\* channel and Run returns; so does the end of the session.
Die ==
  /\ watcher \in {"inotify", "polling"} /\ Trouble
  /\ watcher' = "dead" /\ watch' = [log |-> 0, dir |-> FALSE] /\ events' = <<>>
  /\ UNCHANGED world /\ UNCHANGED <<pid, hidden>> /\ UNCHANGED eyes

TNext ==
  \/ Write \/ Rotate \/ Create \/ Truncate \/ NewPid \/ Hide
  \/ Begin \/ Event \/ Backstop \/ Tick \/ Die

TSpec == TInit /\ [][TNext]_tvars

-----------------------------------------------------------------------------
(* Properties *)

\* Type invariant of the log and the watcher.
TTypeOK ==
  /\ written \in 0..(2 * MaxLines) /\ inodes \in 0..MaxInodes
  /\ file \in [inode: 0..MaxInodes, start: 0..(2 * MaxLines), size: 0..(2 * MaxLines)]
  /\ watcher \in {"new", "inotify", "polling", "dead"}
  /\ watch \in [log: 0..MaxInodes, dir: BOOLEAN]
  /\ held \in [offset: 0..(2 * MaxLines), inode: 0..MaxInodes, usingFallback: BOOLEAN,
               from: 0..(2 * MaxLines), of: 0..MaxInodes]
  /\ waived \subseteq {"repeat", "unseen"}

\* No line is reported twice, whatever was rotated, truncated or read again on
\* the other path ("only newline-terminated lines are processed"), and none
\* is passed over: whatever of the present file lies before the offset has
\* been reported, a line half-written at a read included.  Waived are repeats
\* once incus file pull has read a file of another inode than the one held,
\* which the next read on the host takes for a rotation, and losses once a
\* file has taken the place of another in disguise.
EachLineOnce ==
  /\ "repeat" \notin waived => \A l \in 1..MaxLines : reported[l] <= 1
  /\ "unseen" \notin waived /\ held.from = file.start =>
       \A i \in 1..Min({held.offset, file.size}) :
         i % 2 = 0 => reported[(file.start + i) \div 2] > 0
=============================================================================
