-------------------------------- MODULE Context --------------------------------
(***************************************************************************)
(* What a session tells the tool about its sandbox                         *)
(* (session/setup_context.go): SANDBOX_CONTEXT.md, its JSON companion, and *)
(* one managed block in the file the tool loads by itself, which is kept   *)
(* beside the user's own lines, in a container that many sessions, two of  *)
(* them at a time, set up, while the user and the agent write to the file. *)
(***************************************************************************)
EXTENDS Naturals, Sequences, FiniteSets, Picking

CONSTANTS Setups,
          Files,        \* the file to begin with and the user's lines in it
          Given, Mine,  \* the user's lines that may be in it, and that he may add
          MaxSetups,
          MaxSlips      \* failing calls

VARIABLES md, json,
          auto,    \* the lines of the tool's file; <<>>: there is none
          kept,    \* the user's lines that have to stay
          whole,   \* the file was written, and nothing broke off since
          level,   \* no two setups overlapped and nothing failed, so far
          setup,   \* the setups
          setups, slips

xvars == <<md, json, auto, kept, whole, level, setup, setups, slips>>

\* A file is its lines that are not blank: the markers, the separator of old
\* versions, the rendered context of a session, custom text, the user's.
BeginMark == <<"begin", 0>>
EndMark == <<"end", 0>>
Separator == <<"separator", 0>>
Rendered(n) == <<"facts", n>>
Custom == <<"custom", 0>>
Headers == {Rendered(n) : n \in 0..MaxSetups}
Special == Headers \cup {BeginMark, EndMark, Separator, Custom}

Line == Special \cup Given \cup Mine
Lines(f) == {f[i] : i \in DOMAIN f}
Block(body) == <<BeginMark>> \o body \o <<EndMark>>

\* What a file may hold to begin with: lines of the user, each once; behind
\* them the copies that old versions appended, a separator before each, but not
\* before the first of a file they made, and anything below a copy; at last a
\* block, or what was written of it.  Only the lines above have to stay.
Unmarked(f) == /\ \A i \in DOMAIN f : f[i] \notin Special
               /\ \A i, j \in DOMAIN f : i < j => f[i] # f[j]
Copies(f) == \A i \in DOMAIN f :
               /\ f[i] \notin {BeginMark, EndMark}
               /\ f[i] = Separator => i + 1 \in DOMAIN f /\ f[i + 1] \in Headers
Begun(f) == \/ f \in {<<>>, <<BeginMark>>}
            \/ \E b \in Headers \cup {Custom} : f \in {<<BeginMark, b>>, Block(<<b>>)}
FileAtFirst(f) ==
  \E i, j \in 0..Len(f.lines) :
    LET mine == SubSeq(f.lines, 1, i)
        old == SubSeq(f.lines, i + 1, j)
    IN  /\ i <= j /\ Unmarked(mine) /\ Copies(old)
        /\ Begun(SubSeq(f.lines, j + 1, Len(f.lines)))
        /\ old # <<>> => old[1] = Separator \/ (i = 0 /\ old[1] \in Headers)
        /\ f.kept \subseteq Lines(mine)

ASSUME ContextAssumption ==
  /\ \A f \in Files : f.lines \in Seq(Line) /\ FileAtFirst(f)
  /\ (Given \cup Mine) \cap Special = {}
  /\ MaxSetups \in Nat

\* body: what resolveContextContent returned, <<>> if nothing; copy: what the
\* setup read of the file; blind: it could not find out whether there is one.
NoSetup == [pc |-> "idle", n |-> 0, body |-> <<>>, copy |-> <<>>, blind |-> FALSE]

XInit ==
  /\ \E f \in Files : auto = f.lines /\ kept = f.kept
  /\ md = <<>> /\ json = "none" /\ whole = FALSE /\ level = TRUE
  /\ setup = [s \in Setups |-> NoSetup] /\ setups = 0 /\ slips = 0

-----------------------------------------------------------------------------
(* The text.                                                                *)

\* lineIndex: where a line first comes at or after i, or 0.
LineIndex(f, i, line) ==
  LET at == {k \in i..Len(f) : f[k] = line}
  IN IF at = {} THEN 0 ELSE CHOOSE k \in at : \A j \in at : k <= j

\* Without its first block; a block that is not closed goes to the end.
StripManaged(f) ==
  LET b == LineIndex(f, 1, BeginMark)
      e == LineIndex(f, b + 1, EndMark)
  IN IF b = 0 THEN f
     ELSE SubSeq(f, 1, b - 1) \o (IF e = 0 THEN <<>> ELSE SubSeq(f, e + 1, Len(f)))

\* The first line of the segment between separators that line i lies in.
SegmentHead(f, i) ==
  CHOOSE h \in 1..i : /\ h = 1 \/ f[h - 1] = Separator
                      /\ \A k \in h..i : f[k] # Separator
StripLegacy(f) ==
  IF \A i \in DOMAIN f : f[i] \notin Headers THEN f
  ELSE Pick(f, {i \in DOMAIN f : f[i] # Separator /\ f[SegmentHead(f, i)] \notin Headers})

\* As before #674: the block is put behind whatever is there.
Appended(f) == f
Preserved(f) == StripLegacy(StripManaged(f))

-----------------------------------------------------------------------------
Now(s, pc) == setup[s].pc = pc /\ UNCHANGED <<kept, setups>>
NoSlip == UNCHANGED <<level, slips>>
Slip == slips < MaxSlips /\ slips' = slips + 1 /\ level' = FALSE
To(s, pc) == setup' = [setup EXCEPT ![s].pc = pc]
Finished(s) == setup' = [setup EXCEPT ![s] = NoSetup]

BeginSetup(s) ==
  /\ setup[s].pc = "idle" /\ setups < MaxSetups /\ setups' = setups + 1
  /\ level' = (level /\ \A t \in Setups : setup[t].pc = "idle")
  /\ setup' = [setup EXCEPT ![s] = [NoSetup EXCEPT !.pc = "md", !.n = setups + 1]]
  /\ UNCHANGED <<md, json, auto, kept, whole, slips>>

\* The context is rendered, or a custom file's text, or nothing when that file
\* can not be read.
Bodies(s) == {<<Rendered(setup[s].n)>>, <<Custom>>, <<>>}
ToJSON(s, body) == setup' = [setup EXCEPT ![s].pc = "json", ![s].n = 0, ![s].body = body]

\* injectContextFile; without its custom file it leaves the old one.
WriteMd(s) ==
  /\ Now(s, "md") /\ NoSlip /\ UNCHANGED <<json, auto, whole>>
  /\ \E body \in Bodies(s) : md' = (IF body = <<>> THEN md ELSE body) /\ ToJSON(s, body)
WriteMdFails(s) == /\ Now(s, "md") /\ Slip /\ UNCHANGED <<md, json, auto, whole>>
                   /\ \E body \in Bodies(s) : ToJSON(s, body)

\* resolveContextJSON: a custom file that is gone or not valid is not passed
\* on.  The third file is left alone when there is nothing to say.
ResolvedJSON(custom) == IF custom = "valid" THEN "valid" ELSE "rendered"
AfterJSON(s) == IF setup[s].body = <<>> THEN Finished(s) ELSE To(s, "check")
WriteJSON(s) == /\ Now(s, "json") /\ NoSlip /\ AfterJSON(s) /\ UNCHANGED <<md, auto, whole>>
                /\ \E custom \in {"none", "valid", "junk", "gone"} : json' = ResolvedJSON(custom)
WriteJSONFails(s) == Now(s, "json") /\ Slip /\ AfterJSON(s) /\ UNCHANGED <<md, json, auto, whole>>

\* injectAutoContextFile: the directory, and whether the file is there.
Check(s) == /\ Now(s, "check") /\ NoSlip /\ UNCHANGED <<md, json, auto, whole>>
            /\ To(s, IF auto = <<>> THEN "write" ELSE "read")
MkdirFails(s) == Now(s, "check") /\ Slip /\ Finished(s) /\ UNCHANGED <<md, json, auto, whole>>
\* A check that fails is taken for a file that is not there.
CheckFails(s) == /\ Now(s, "check") /\ Slip /\ UNCHANGED <<md, json, auto, whole>>
                 /\ setup' = [setup EXCEPT ![s].pc = "write", ![s].blind = TRUE]
Read(s) == /\ Now(s, "read") /\ NoSlip /\ UNCHANGED <<md, json, auto, whole>>
           /\ setup' = [setup EXCEPT ![s].pc = "write", ![s].copy = Preserved(auto)]
ReadFails(s) == Now(s, "read") /\ Slip /\ Finished(s) /\ UNCHANGED <<md, json, auto, whole>>

Written(s) == setup[s].copy \o Block(setup[s].body)
Write(s) ==
  /\ setup[s].pc = "write" /\ NoSlip /\ Finished(s) /\ UNCHANGED <<md, json, setups>>
  /\ auto' = Written(s) /\ whole' = TRUE
  /\ kept' = IF setup[s].blind THEN {} ELSE kept
\* The push fails before, or breaks off within the file.
WriteFails(s) ==
  /\ setup[s].pc = "write" /\ Slip /\ Finished(s) /\ UNCHANGED <<md, json, setups>>
  /\ \/ UNCHANGED <<auto, whole, kept>>
     \/ \E n \in 1..Len(Written(s)) - 1 :
          /\ auto' = SubSeq(Written(s), 1, n) /\ whole' = FALSE
          /\ kept' = kept \cap Lines(auto')

-----------------------------------------------------------------------------
\* The user adds a line above or below, but not right above a copy of an old
\* version, which would be taken for the user's then.  Below a block that is
\* not closed, and while a setup holds a copy of the file, it may be lost.
Safe(l, f) == /\ \A s \in Setups : setup[s].pc # "write"
              /\ f[1] = l \/ whole \/ Lines(f) \cap ({BeginMark} \cup Headers) = {}
Edit(l) ==
  /\ l \notin Lines(auto) /\ UNCHANGED <<md, json, whole, level, setup, setups, slips>>
  /\ \/ auto' = auto \o <<l>>
     \/ auto' = <<l>> \o auto /\ (auto # <<>> => auto[1] \notin Headers)
  /\ kept' = IF Safe(l, auto') THEN kept \cup {l} ELSE kept

XNext == \/ \E s \in Setups : \/ BeginSetup(s) \/ WriteMd(s) \/ WriteMdFails(s) \/ WriteJSON(s)
                              \/ WriteJSONFails(s) \/ Check(s) \/ MkdirFails(s) \/ CheckFails(s)
                              \/ Read(s) \/ ReadFails(s) \/ Write(s) \/ WriteFails(s)
         \/ \E l \in Mine : Edit(l)

XSpec == XInit /\ [][XNext]_xvars

-----------------------------------------------------------------------------
(* However many sessions have set the container up, the tool's file holds   *)
(* one block and no other copy of the context, whatever it held before, and *)
(* no line twice; it holds every line of the user that was not put where a  *)
(* setup was writing, or lost with a check or a push that failed; and       *)
(* unless setups overlapped or a call failed the block says what            *)
(* SANDBOX_CONTEXT.md says (#674, and the comment at                        *)
(* injectAutoContextFile).  The JSON is always valid.                       *)
Reconciled ==
  /\ whole => \E b \in DOMAIN auto :
       /\ auto[b] = BeginMark /\ b + 2 \in DOMAIN auto /\ auto[b + 2] = EndMark
       /\ \A i \in DOMAIN auto \ (b..b + 2) :
            auto[i] \notin Special
       /\ \A i, j \in DOMAIN auto : i < j => auto[i] # auto[j]
       /\ level /\ (\A s \in Setups : setup[s].pc = "idle") => md = <<auto[b + 1]>>
  /\ kept \subseteq Lines(auto)
  /\ json # "junk"

=============================================================================
