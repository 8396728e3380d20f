------------------------------ MODULE TurnEnd ------------------------------
(***************************************************************************)
(* The turns of a coding agent on this repository and the script that runs *)
(* when the agent stops (scripts/sync.cjs): it blocks the end of the turn  *)
(* while files are misplaced, blocks it once when code is newer than the   *)
(* lessons in .ai/memory, and rebuilds the knowledge index.  The agent may *)
(* decline to log a lesson, and may run the script by hand.                *)
(***************************************************************************)
EXTENDS RepoPlacement, FiniteSets, FiniteSetsExt, Integers

CONSTANTS
    Checkouts,   (* the layouts the repository may start with *)
    Authored,    (* bound: the files the agent writes by itself *)
    Drafts(_),   (* bound: where it may put one *)
    Depends(_),  (* bound: what the agent may make it import *)
    MaxClock     (* bound: the writes of the agent *)

ASSUME TurnAssumption ==
    /\ IsFiniteSet(Files)
    /\ Authored \subseteq Files
    /\ \A f \in Files : Drafts(f) \subseteq Homes(f)
    /\ \A f \in Files : Depends(f) \subseteq SUBSET {g \in Files : MayImport(f, g)}
    /\ MaxClock \in Nat

VARIABLES
    base,         (* where each file lives in the last commit *)
    edited,       (* the files whose text is not that of the last commit *)
    moved,        (* how a file got away from its base: with git mv, with mv,
                     or with mv into a folder that git does not know *)
    written,      (* mtime of a file *)
    turn,         (* "working", "stopping" or "ended" *)
    memoryAt,     (* newest mtime of .ai/memory/*.jsonl *)
    indexAt,      (* mtime of .ai/KNOWLEDGE_INDEX.md *)
    guard,        (* content of .ai/.after-task-guard *)
    clock,
    promptedAt,   (* history: the last time a run asked for a lesson *)
    mutedAt,      (* history: the last time a run kept that to itself *)
    buildFailed   (* history: the last run to rebuild the index failed *)

tree == <<home, imports, base, edited, moved, written>>
runs == <<guard, promptedAt, mutedAt, indexAt, buildFailed>>
vars == <<tree, runs, turn, memoryAt, clock>>

NoKey == <<0, 0>>

(* The variables hold values of their types; the guard is a key of the     *)
(* code, newest mtime and number of lines.                                 *)
TypeOK ==
    /\ PlacementTypeOK
    /\ base \in [Files -> UNION {Homes(f) : f \in Files}]
    /\ edited \subseteq Files
    /\ moved \in [Files -> {"git-mv", "mv", "mv-to-new"}]
    /\ written \in [Files -> 0..MaxClock]
    /\ turn \in {"working", "stopping", "ended"}
    /\ {memoryAt, indexAt, clock, promptedAt, mutedAt} \subseteq 0..MaxClock
    /\ guard \in (0..MaxClock) \X (0..2 * Cardinality(Files))
    /\ buildFailed \in BOOLEAN

(* A clean checkout.  The gate need not accept it: the hook calls the gate *)
(* only when files of a domain or an application have changed.             *)
Init ==
    /\ \E c \in Checkouts : home = c[1] /\ imports = c[2]
    /\ PlacementTypeOK
    /\ base = home /\ edited = {}
    /\ moved = [f \in Files |-> "mv"]
    /\ written = [f \in Files |-> 0]
    /\ turn = "working"
    /\ memoryAt = 0 /\ indexAt = 0 /\ clock = 0
    /\ guard = NoKey
    /\ promptedAt = 0 /\ mutedAt = 0
    /\ buildFailed = FALSE

-----------------------------------------------------------------------------
(* The agent at work *)

Tick ==
    /\ turn = "working"
    /\ clock < MaxClock
    /\ clock' = clock + 1

(* How f gets to h: a file that was renamed with git stays with git, and   *)
(* within its folder a file stays as new or as known as the folder is.     *)
Takes(f, h, how) ==
    IF h = base[f] THEN how = "mv"
    ELSE /\ h = home[f] \/ moved[f] = "git-mv" => how = moved[f]
         /\ h.folder = Folder(f) /\ how # "git-mv" => how = moved[f]

Write(f) ==
    /\ Tick
    /\ \E h \in Drafts(f) \cup {home[f]}, how \in {"git-mv", "mv", "mv-to-new"} :
          /\ Takes(f, h, how)
          /\ home' = [home EXCEPT ![f] = h]
          /\ moved' = [moved EXCEPT ![f] = how]
    /\ \E d \in Depends(f) \cup {imports[f]} : imports' = [imports EXCEPT ![f] = d]
    /\ edited' = edited \cup {f}
    /\ written' = [written EXCEPT ![f] = clock']
    /\ UNCHANGED <<base, runs, turn, memoryAt>>

LogLesson ==
    /\ Tick
    /\ memoryAt' = clock'
    /\ UNCHANGED <<tree, runs, turn>>

Commit ==
    /\ turn = "working"
    /\ base' = home /\ edited' = {}
    /\ moved' = [f \in Files |-> "mv"]
    /\ UNCHANGED <<home, imports, written, runs, turn, memoryAt, clock>>

(* The agent does what a message asks for.  Moving a file leaves its mtime *)
(* alone, taking an import out of it does not; at the bound of the clock,  *)
(* time stands still.                                                      *)
Refile(f) ==
    /\ turn = "working"
    /\ PutRight(f)
    /\ \E how \in {"git-mv", "mv", "mv-to-new"} :
          Takes(f, ProperHome(f), how) /\ moved' = [moved EXCEPT ![f] = how]
    /\ IF imports' = imports
       THEN UNCHANGED <<edited, written, clock>>
       ELSE /\ edited' = edited \cup {f}
            /\ clock' = IF clock < MaxClock THEN clock + 1 ELSE clock
            /\ written' = [written EXCEPT ![f] = clock']
    /\ UNCHANGED <<base, runs, turn, memoryAt>>

Stop ==
    /\ turn = "working"
    /\ turn' = "stopping"
    /\ UNCHANGED <<tree, runs, memoryAt, clock>>

NewTurn ==
    /\ turn = "ended"
    /\ turn' = "working"
    /\ UNCHANGED <<tree, runs, memoryAt, clock>>

-----------------------------------------------------------------------------
(* What git status --short lists.  A rename is one line, "old -> new"; a   *)
(* move it does not know is a deletion and, but for a new folder, a new    *)
(* file.                                                                   *)

Renamed == {f \in Files : home[f] # base[f] /\ moved[f] = "git-mv"}
Deleted == {f \in Files : home[f] # base[f]} \ Renamed
Present == {f \in Deleted : moved[f] = "mv"} \cup {f \in edited : home[f] = base[f]}

(* The script.  FORCE_ALL (--all) sees no changed file; DRY_RUN (--check)  *)
(* runs no task.                                                           *)

Modes == {"hook", "--all", "--check"}

Sees(mode) == mode # "--all"

(* changedSourceFiles().length *)
Lines == Cardinality(Renamed) + Cardinality(Deleted) + Cardinality(Present)

(* checkRepoPlacement *)
InModule(h) == h.folder \in DomainFolders \cup ApplicationFolders

TouchesRepos ==
    \/ \E f \in Renamed \cup Present : InModule(home[f])
    \/ \E f \in Renamed \cup Deleted : InModule(base[f])

PlacementBlocks(mode) == Sees(mode) /\ TouchesRepos /\ Named # {}

(* checkDiscipline: the path of any other line cannot be stat'ed, and      *)
(* counts as 0.                                                            *)
NewestCode == Max({0} \cup {written[f] : f \in Present})

Unlogged(mode) == Sees(mode) /\ NewestCode > memoryAt

(* Mutated form: the number of lines alone. *)
KeyOfCount == <<0, Lines>>

Key == <<NewestCode, Lines>>

AfterTaskBlocks(mode) == Unlogged(mode) /\ guard # Key

(* Mutated form: the guard is never written. *)
ForgetGuard == UNCHANGED guard

(* Mutated form: half of the key is written. *)
StoreNewest == guard' = <<NewestCode>> \/ UNCHANGED guard

(* The write may fail, silently. *)
StoreGuard == guard' = Key \/ UNCHANGED guard

(* With a task to list, --check exits before it prints the reason. *)
Prompt(mode) ==
    IF AfterTaskBlocks(mode)
    THEN /\ StoreGuard
         /\ \/ promptedAt' = clock /\ UNCHANGED mutedAt
            \/ mode = "--check" /\ mutedAt' = clock /\ UNCHANGED promptedAt
    ELSE UNCHANGED <<guard, promptedAt, mutedAt>>

(* Mutated form: memory is looked for in git status, which ignores it. *)
MemorySeenByGit == FALSE

MemoryNewerThanIndex == memoryAt > indexAt

(* The task knowledge:build, for memory or for docs that git lists; python *)
(* may be missing, and the task may fail.                                  *)
BuildKnowledge(mode) ==
    \E docsTouched \in BOOLEAN :
        IF mode # "--check" /\ (mode = "--all" \/ docsTouched \/ MemoryNewerThanIndex)
        THEN \/ indexAt' = clock /\ buildFailed' = FALSE
             \/ UNCHANGED indexAt /\ buildFailed' = TRUE
        ELSE UNCHANGED <<indexAt, buildFailed>>

(* Run by hand, as npm run sync or with an option, it only prints. *)
RunByHand(mode) ==
    /\ turn = "working"
    /\ Prompt(mode)
    /\ BuildKnowledge(mode)
    /\ UNCHANGED <<tree, turn, memoryAt, clock>>

(* Run as the hook, its decision ends the turn or gives it back. *)
Hook ==
    /\ turn = "stopping"
    /\ turn' = IF PlacementBlocks("hook") \/ AfterTaskBlocks("hook")
               THEN "working" ELSE "ended"
    /\ Prompt("hook")
    /\ BuildKnowledge("hook")
    /\ UNCHANGED <<tree, memoryAt, clock>>

-----------------------------------------------------------------------------
Next ==
    \/ \E f \in Authored : Write(f)
    \/ \E f \in Files : Refile(f)
    \/ LogLesson \/ Commit \/ Stop \/ NewTurn \/ Hook
    \/ \E mode \in Modes : RunByHand(mode)

(* The script terminates, the agent stops in the end, and puts right what  *)
(* it is told again and again is misplaced.  Nothing makes it log a lesson.*)
UnwritableSpec ==
    /\ Init /\ [][Next]_vars
    /\ WF_vars(Hook) /\ WF_vars(Stop)
    /\ SF_vars(\E f \in Files : Refile(f))

(* The guard file can be written: one of many attempts succeeds. *)
Spec ==
    /\ UnwritableSpec
    /\ SF_vars(Hook /\ (AfterTaskBlocks("hook") => guard' = Key))

-----------------------------------------------------------------------------
Asked(time) == time <= promptedAt

(* No code whose time the script can read slips through: when a turn has   *)
(* ended, it is older than a lesson, or than a run that asked for one or   *)
(* that --check kept from asking.                                          *)
NoneUnprompted ==
    turn = "ended" /\ Unlogged("hook") => Asked(NewestCode) \/ NewestCode <= mutedAt

(* What the warning says (sync.cjs, line 301): a turn that ends on         *)
(* unlogged code was prompted once for this change.                        *)
PromptedForThisChange ==
    turn = "ended" /\ Unlogged("hook") => Asked(NewestCode)

(* What the documentation says (KNOWLEDGE_ARCHITECTURE.md, lines 82-85):   *)
(* the hook blocks the end of the turn when source files changed with no   *)
(* newer entry; and does it wherever the files have been moved.            *)
ChangedFilesAreSeen ==
    \A f \in Renamed \cup Present :
        turn = "ended" /\ f \in edited /\ written[f] > memoryAt =>
            Asked(written[f]) \/ written[f] <= mutedAt

(* A turn does not end with lessons the index lacks, unless its rebuild    *)
(* failed; git cannot tell, the memory is not in it.                       *)
IndexFollowsMemory == turn = "ended" /\ memoryAt > indexAt => buildFailed

(* The messages do not send the agent round in circles: putting one file   *)
(* right where they say leaves it right, and makes no other file wrong.    *)
RefilingHelps ==
    [][\A f \in Files : Refile(f) => ToPutRight' \subseteq ToPutRight \ {f}]_vars

(* A refusal cannot loop for ever: an agent that stops gets out of its     *)
(* turn in the end, whether or not it logs a lesson, and the messages on   *)
(* placement lead somewhere.                                               *)
TurnEnds == turn = "stopping" ~> turn = "ended"

(* What the documentation says of the guard file (lines 91-92) and the     *)
(* script in lines 289-293, of a guard file that cannot be written: the    *)
(* hook does not refuse the end of the turn for ever for want of a lesson. *)
RefusalEnds == ~[]<>(turn = "stopping" /\ AfterTaskBlocks("hook"))
=============================================================================
