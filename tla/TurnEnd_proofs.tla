--------------------------- MODULE TurnEnd_proofs ---------------------------
(***************************************************************************)
(* The placement gate and the turn-end hook, for every set of files, every *)
(* layout, all imports and every length of a turn.  That the messages lead *)
(* somewhere rests on what may import what; the promises on lessons rest   *)
(* on ClockInv: nothing is dated in the future, and the key in the guard   *)
(* file is not newer than the last run that found lessons missing.         *)
(***************************************************************************)
EXTENDS TurnEnd, FiniteSetTheorems, TLAPS

-----------------------------------------------------------------------------
(* The placement gate *)

LEMMA Parts ==
    ASSUME NEW folder, NEW suffix
    PROVE  At(folder, suffix).folder = folder /\ At(folder, suffix).suffix = suffix
BY DEF At

(* What the name of a file says. *)
LEMMA Names ==
    ASSUME PlacementTypeOK, NEW f \in Files
    PROVE  /\ Holds(f) \in Contents
           /\ Holds(f) = "error" => Suffix(f) \in {"error", "errors"}
           /\ ~Moves(f) => Suffix(f) \notin {"query-repository", "error", "errors"}
<1>1. /\ home[f] \in Homes(f) /\ Holds(f) \in Contents
  BY PlacementAssumption DEF PlacementTypeOK
<1>2. Suffix(f) \in Suffixes(Holds(f))
  BY <1>1, Parts DEF Homes, Suffix
<1> QED
  BY <1>1, <1>2 DEF Suffixes, Contents, Ports, Moves

(* Where the messages send a file that has to move. *)
LEMMA HomeOfMover ==
    ASSUME NEW f \in Files, Moves(f)
    PROVE  \/ Holds(f) \in Ports /\ ProperHome(f) = At("domain/repositories", "repository")
           \/ Holds(f) = "error" /\ ProperHome(f) = At("domain", "error")
           \/ /\ Holds(f) \in Ports /\ ~ImportedByDomain(f)
              /\ ProperHome(f) = At("application/repositories", "query-repository")
<1>1. Holds(f) = "writePort" \/ Holds(f) = "readPort" \/ Holds(f) = "error"
  BY DEF Moves, Ports
<1>2. CASE Holds(f) = "writePort"
  BY <1>2 DEF ProperHome, Ports, Moves
<1>3. CASE Holds(f) = "readPort"
  BY <1>3 DEF ProperHome, ReadPortHome, Ports, Moves
<1>4. CASE Holds(f) = "error"
  BY <1>4 DEF ProperHome, Ports, Moves
<1> QED
  BY <1>1, <1>2, <1>3, <1>4

(* Where they send any other file: never into the domain, and outside it   *)
(* only what was outside.                                                  *)
LEMMA HomeOfOther ==
    ASSUME NEW f \in Files, ~Moves(f)
    PROVE  \/ /\ LiveInKernel(f) \/ UnlistedFolder(f)
              /\ ProperHome(f) \in {At("src/infrastructure", Suffix(f)),
                                    At("infrastructure/listed", Suffix(f))}
           \/ /\ NoPortThere(f) \/ StrayInQueryFolder(f)
              /\ ProperHome(f) = At("application/queries", Suffix(f))
           \/ /\ ~LiveInKernel(f) /\ ~UnlistedFolder(f)
              /\ ~NoPortThere(f) /\ ~StrayInQueryFolder(f)
              /\ ProperHome(f) = home[f]
<1>1. Holds(f) \notin {"writePort", "readPort", "error"}
  BY DEF Moves, Ports
<1>2. CASE LiveInKernel(f) \/ UnlistedFolder(f)
  <2>1. ~NoPortThere(f) /\ ~StrayInQueryFolder(f)
    BY <1>2 DEF LiveInKernel, UnlistedFolder, NoPortThere, StrayInQueryFolder
  <2>2. ProperHome(f) = InfrastructureHome(f)
    BY <1>1, <1>2, <2>1 DEF ProperHome
  <2> QED
    BY <1>2, <2>2 DEF InfrastructureHome
<1>3. CASE NoPortThere(f) \/ StrayInQueryFolder(f)
  <2>1. ~LiveInKernel(f) /\ ~UnlistedFolder(f)
    BY <1>3 DEF LiveInKernel, UnlistedFolder, NoPortThere, StrayInQueryFolder
  <2> QED
    BY <1>1, <1>3, <2>1 DEF ProperHome
<1>4. CASE /\ ~LiveInKernel(f) /\ ~UnlistedFolder(f)
           /\ ~NoPortThere(f) /\ ~StrayInQueryFolder(f)
  BY <1>1, <1>4 DEF ProperHome
<1> QED
  BY <1>2, <1>3, <1>4

(* Where they send a file is a place there is, for a file of its kind. *)
LEMMA ProperHomeIsAHome ==
    ASSUME PlacementTypeOK, NEW f \in Files
    PROVE  ProperHome(f) \in Homes(f)
<1>1. home[f] \in Homes(f) /\ Suffix(f) \in Suffixes(Holds(f))
  BY Parts DEF PlacementTypeOK, Homes, Suffix
<1>2. \A folder \in Folders, suffix \in Suffixes(Holds(f)) : At(folder, suffix) \in Homes(f)
  BY DEF Homes
<1>3. {"domain", "domain/repositories", "application/repositories",
       "application/queries", "src/infrastructure",
       "infrastructure/listed"} \subseteq Folders
  BY DEF Folders, DomainFolders, ApplicationFolders, InfrastructureFolders
<1>4. CASE Moves(f)
  <2>1. Holds(f) \in Ports => {"repository", "query-repository"} \subseteq Suffixes(Holds(f))
    BY DEF Suffixes, Ports
  <2>2. Holds(f) = "error" => "error" \in Suffixes(Holds(f))
    BY DEF Suffixes, Ports
  <2> QED
    BY <1>2, <1>3, <1>4, <2>1, <2>2, HomeOfMover
<1>5. CASE ~Moves(f)
  BY <1>1, <1>2, <1>3, <1>5, HomeOfOther
<1> QED
  BY <1>4, <1>5

(* The file that is put right, and the others. *)
LEMMA PutRightEffect ==
    ASSUME PlacementTypeOK, NEW f \in Files, PutRight(f)
    PROVE  /\ PlacementTypeOK'
           /\ home'[f] = ProperHome(f)
           /\ imports'[f] = ProperImports(f, ProperHome(f))
           /\ \A g \in Files \ {f} : home'[g] = home[g] /\ imports'[g] = imports[g]
           /\ \A g \in Files : imports'[g] \subseteq imports[g]
<1>1. /\ home' \in [Files -> UNION {Homes(g) : g \in Files}]
      /\ home'[f] = ProperHome(f)
      /\ \A g \in Files \ {f} : home'[g] = home[g]
  BY ProperHomeIsAHome DEF PutRight, PlacementTypeOK
<1>2. ProperImports(f, ProperHome(f)) \subseteq imports[f]
  BY DEF ProperImports
<1>3. /\ imports' \in [Files -> SUBSET Files]
      /\ imports'[f] = ProperImports(f, ProperHome(f))
      /\ \A g \in Files \ {f} : imports'[g] = imports[g]
  BY <1>2 DEF PutRight, PlacementTypeOK
<1>4. \A g \in Files : imports'[g] \subseteq imports[g]
  BY <1>2, <1>3
<1>5. \A g \in Files : home'[g] \in Homes(g)
  BY <1>1, ProperHomeIsAHome DEF PlacementTypeOK
<1>6. PlacementTypeOK'
  BY <1>1, <1>3, <1>4, <1>5 DEF PlacementTypeOK
<1> QED
  BY <1>1, <1>3, <1>4, <1>6

(* A file lies right where the messages send it. *)
LEMMA NotMisplacedThere ==
    ASSUME PlacementTypeOK, NEW f \in Files, home'[f] = ProperHome(f)
    PROVE  ~Misplaced(f)'
<1>1. /\ Folder(f)' = ProperHome(f).folder /\ Suffix(f)' = ProperHome(f).suffix
  BY DEF Folder, Suffix
<1>2. CASE Moves(f)
  <2>1. \/ /\ Folder(f)' = "domain/repositories" /\ Suffix(f)' = "repository"
        \/ /\ Folder(f)' = "domain" /\ Suffix(f)' = "error"
        \/ /\ Folder(f)' = "application/repositories" /\ Suffix(f)' = "query-repository"
    BY <1>1, <1>2, HomeOfMover, Parts
  <2> QED
    BY <2>1
    DEF Misplaced, LiveInKernel, UnlistedFolder, QueryPortElsewhere, NoPortThere,
        PortInInfrastructure, StrayError, StrayInQueryFolder,
        InfrastructureFolders
<1>3. CASE ~Moves(f)
  <2>1. /\ Suffix(f)' = Suffix(f)
        /\ \/ Folder(f)' \in {"src/infrastructure", "infrastructure/listed",
                              "application/queries"}
           \/ /\ ~LiveInKernel(f) /\ ~UnlistedFolder(f)
              /\ ~NoPortThere(f) /\ ~StrayInQueryFolder(f)
              /\ Folder(f)' = Folder(f)
    <3>1. CASE ProperHome(f) \in {At("src/infrastructure", Suffix(f)),
                                  At("infrastructure/listed", Suffix(f)),
                                  At("application/queries", Suffix(f))}
      BY <1>1, <3>1, Parts
    <3>2. CASE /\ ~LiveInKernel(f) /\ ~UnlistedFolder(f)
               /\ ~NoPortThere(f) /\ ~StrayInQueryFolder(f)
               /\ ProperHome(f) = home[f]
      BY <1>1, <3>2 DEF Folder, Suffix
    <3> QED
      BY <1>3, <3>1, <3>2, HomeOfOther
  <2>2. Suffix(f) \notin {"query-repository", "error", "errors"} /\ Holds(f) \notin Ports
    BY <1>3, Names DEF Moves
  <2> QED
    BY <2>1, <2>2
    DEF Misplaced, LiveInKernel, UnlistedFolder, QueryPortElsewhere, NoPortThere,
        PortInInfrastructure, StrayError, StrayInQueryFolder
<1> QED
  BY <1>2, <1>3

(* Putting a file right brings nothing under the domain's imports: what    *)
(* comes into the domain is a port or an error, and they import types.     *)
LEMMA NoNewImports ==
    ASSUME PlacementTypeOK, NEW f \in Files, PutRight(f),
           NEW g \in Files, Moves(g), ImportedByDomain(g)'
    PROVE  ImportedByDomain(g)
<1>1. PICK x \in Files : Folder(x)' \in DomainFolders /\ g \in imports'[x]
  BY DEF ImportedByDomain
<1>2. g \in imports[x]
  BY <1>1, PutRightEffect
<1>3. CASE x # f
  BY <1>1, <1>2, <1>3, PutRightEffect DEF ImportedByDomain, Folder
<1>4. CASE x = f
  <2>1. ~Moves(f)
    BY <1>2, <1>4 DEF PlacementTypeOK, MayImport, Moves, Ports
  <2>2. Folder(f)' = ProperHome(f).folder
    BY PutRightEffect DEF Folder
  <2>3. Folder(f)' = Folder(f)
    <3>1. CASE ProperHome(f) \in {At("src/infrastructure", Suffix(f)),
                                  At("infrastructure/listed", Suffix(f)),
                                  At("application/queries", Suffix(f))}
      BY <1>1, <1>4, <2>2, <3>1, Parts DEF DomainFolders
    <3>2. CASE ProperHome(f) = home[f]
      BY <2>2, <3>2 DEF Folder
    <3> QED
      BY <2>1, <3>1, <3>2, HomeOfOther
  <2> QED
    BY <1>1, <1>2, <1>4, <2>3 DEF ImportedByDomain
<1> QED
  BY <1>3, <1>4

(* No file comes to lie outside the domain that did not, but for ports the *)
(* domain does not import.                                                 *)
LEMMA NoNewOutsiders ==
    ASSUME PlacementTypeOK, NEW f \in Files, PutRight(f),
           NEW g \in Files, OutsideTheDomain(g)'
    PROVE  OutsideTheDomain(g) \/ (g = f /\ Moves(g) /\ ~ImportedByDomain(g))
<1>1. CASE g # f
  BY <1>1, PutRightEffect DEF OutsideTheDomain, Folder
<1>2. CASE g = f /\ Moves(f)
  <2>1. Folder(f)' = ProperHome(f).folder
    BY PutRightEffect DEF Folder
  <2> QED
    BY <1>2, <2>1, HomeOfMover, Parts DEF OutsideTheDomain, ApplicationFolders
<1>3. CASE g = f /\ ~Moves(f)
  <2>1. Folder(f)' = ProperHome(f).folder
    BY PutRightEffect DEF Folder
  <2>2. \/ Folder(f)' \in {"src/infrastructure", "infrastructure/listed"}
        \/ NoPortThere(f) \/ StrayInQueryFolder(f)
        \/ Folder(f)' = Folder(f)
    <3>1. CASE ProperHome(f) \in {At("src/infrastructure", Suffix(f)),
                                  At("infrastructure/listed", Suffix(f))}
      BY <2>1, <3>1, Parts
    <3>2. CASE ProperHome(f) = home[f]
      BY <2>1, <3>2 DEF Folder
    <3> QED
      BY <1>3, <3>1, <3>2, HomeOfOther
  <2> QED
    BY <1>3, <2>2
    DEF OutsideTheDomain, ApplicationFolders, NoPortThere, StrayInQueryFolder
<1> QED
  BY <1>1, <1>2, <1>3

(* Putting a file right leaves it right, and makes no other file wrong. *)
LEMMA PutRightHelps ==
    ASSUME PlacementTypeOK, NEW f \in Files, PutRight(f)
    PROVE  ToPutRight' \subseteq ToPutRight \ {f}
<1> SUFFICES ASSUME NEW g \in ToPutRight'
             PROVE  g \in ToPutRight /\ g # f
  OBVIOUS
<1>1. g \in Files
  BY DEF ToPutRight
<1>2. CASE Misplaced(g)'
  <2>1. g # f
    BY <1>2, PutRightEffect, NotMisplacedThere
  <2>2. home'[g] = home[g]
    BY <1>1, <2>1, PutRightEffect
  <2>3. Folder(g)' = Folder(g) /\ Suffix(g)' = Suffix(g)
    BY <2>2 DEF Folder, Suffix
  <2>4. Misplaced(g)
    BY <1>2, <2>3
    DEF Misplaced, LiveInKernel, UnlistedFolder, QueryPortElsewhere, NoPortThere,
        PortInInfrastructure, StrayError, StrayInQueryFolder
  <2> QED
    BY <1>1, <2>1, <2>4 DEF ToPutRight
<1>3. CASE Moves(g) /\ OutsideTheDomain(g)' /\ ImportedByDomain(g)'
  <2>1. ImportedByDomain(g)
    BY <1>1, <1>3, NoNewImports
  <2>2. OutsideTheDomain(g)
    BY <1>1, <1>3, <2>1, NoNewOutsiders
  <2>3. g # f
    <3> SUFFICES ASSUME g = f
                 PROVE  FALSE
      OBVIOUS
    <3>1. Folder(f)' = ProperHome(f).folder
      BY PutRightEffect DEF Folder
    <3>2. Folder(f)' \in {"domain/repositories", "domain"}
      BY <1>3, <2>1, <3>1, HomeOfMover, Parts
    <3> QED
      BY <1>3, <3>2 DEF OutsideTheDomain, ApplicationFolders
  <2> QED
    BY <1>1, <1>3, <2>1, <2>2, <2>3 DEF ToPutRight
<1>4. CASE /\ Folder(g)' \in DomainFolders
           /\ \E x \in imports'[g] : OutsideTheDomain(x)' /\ ~Moves(x)
  <2>1. PICK x \in imports'[g] : OutsideTheDomain(x)' /\ ~Moves(x)
    BY <1>4
  <2>2. x \in Files /\ x \in imports[g]
    BY <1>1, <2>1, PutRightEffect DEF PlacementTypeOK
  <2>3. OutsideTheDomain(x)
    BY <2>1, <2>2, NoNewOutsiders
  <2>4. g # f
    <3> SUFFICES ASSUME g = f
                 PROVE  FALSE
      OBVIOUS
    <3>1. ProperHome(f).folder \in DomainFolders
      BY <1>4, PutRightEffect DEF Folder
    <3>2. OutsideTheDomain(x) => Moves(x)
      BY <2>1, <3>1, PutRightEffect DEF ProperImports
    <3> QED
      BY <2>1, <2>3, <3>2
  <2>5. Folder(g) \in DomainFolders
    BY <1>1, <1>4, <2>4, PutRightEffect DEF Folder
  <2> QED
    BY <1>1, <2>1, <2>2, <2>3, <2>4, <2>5 DEF ToPutRight
<1> QED
  BY <1>2, <1>3, <1>4 DEF ToPutRight, Moves

(* The gate asks for nothing it gives no advice on, and the other way      *)
(* round.                                                                  *)
LEMMA AdviceForEveryViolation ==
    ASSUME PlacementTypeOK
    PROVE  Named = {} <=> ToPutRight = {}
<1>1. ASSUME NEW f \in Named
      PROVE  ToPutRight # {}
  <2>1. CASE Misplaced(f)
    BY <1>1, <2>1 DEF Named, ToPutRight
  <2>2. CASE ImportsOutward(f)
    <3>1. PICK g \in imports[f] : OutsideTheDomain(g) /\ Folder(f) \in DomainFolders
      BY <2>2 DEF ImportsOutward
    <3>2. f \in Files /\ g \in Files
      BY <1>1, <3>1 DEF Named, PlacementTypeOK
    <3>3. CASE Moves(g)
      BY <3>1, <3>2, <3>3 DEF ToPutRight, ImportedByDomain
    <3>4. CASE ~Moves(g)
      BY <3>1, <3>2, <3>4 DEF ToPutRight
    <3> QED
      BY <3>3, <3>4
  <2> QED
    BY <1>1, <2>1, <2>2 DEF Named
<1>2. ASSUME NEW f \in ToPutRight
      PROVE  Named # {}
  BY <1>2 DEF ToPutRight, ImportedByDomain, Named, ImportsOutward
<1> QED
  BY <1>1, <1>2

-----------------------------------------------------------------------------
(* The times of the files *)

(* The greatest of some times is one of them and bounds them: the distance *)
(* to the bound has a least value.                                         *)
LEMMA MaxOfTimes ==
    ASSUME NEW n \in Nat, NEW S \in SUBSET (0..n), S # {}
    PROVE  Max(S) \in S /\ \A t \in S : Max(S) >= t
<1> DEFINE Distances == {d \in Nat : n - d \in S}
<1>1. PICK s \in S : TRUE
  OBVIOUS
<1>2. n - s \in Distances
  <2>1. s \in 0..n
    BY <1>1
  <2> QED
    BY <1>1, <2>1
<1>3. Distances \subseteq Nat /\ Distances # {}
  BY <1>2
<1> HIDE DEF Distances
<1>4. PICK d \in Distances : \A e \in Distances : ~ <<e, d>> \in OpToRel(<, Nat)
  BY ONLY NatLessThanWellFounded, WFMin, <1>3, Zenon
<1> USE DEF Distances
<1>5. d \in Nat /\ n - d \in S
  BY <1>4
<1>6. ASSUME NEW t \in S PROVE n - d >= t
  <2>1. t \in 0..n
    BY <1>6
  <2>2. n - t \in Nat /\ n - (n - t) = t
    BY <2>1
  <2>3. n - t \in Distances
    BY <1>6, <2>2
  <2>4. ~(n - t < d)
    BY <1>4, <1>5, <2>2, <2>3 DEF OpToRel
  <2> QED
    BY <1>5, <2>1, <2>2, <2>4
<1>7. \E m \in S : \A t \in S : m >= t
  BY <1>5, <1>6
<1> QED
  BY <1>7 DEF Max

(* The newest of the lines is as old as one of the files, or 0. *)
LEMMA NewestIsATime ==
    ASSUME TypeOK
    PROVE  /\ NewestCode \in 0..MaxClock
           /\ NewestCode = 0 \/ \E f \in Files : NewestCode = written[f]
<1> DEFINE S == {0} \cup {written[f] : f \in Present}
<1>1. Present \subseteq Files
  BY DEF Present, Deleted, TypeOK
<1>2. S \in SUBSET (0..MaxClock) /\ S # {}
  BY <1>1, TurnAssumption DEF TypeOK
<1> HIDE DEF S
<1>3. Max(S) \in S
  BY <1>2, MaxOfTimes, TurnAssumption
<1> QED
  BY <1>1, <1>2, <1>3 DEF NewestCode, S

(* The key the guard file gets is of its type: a file makes two lines at   *)
(* the most.                                                               *)
LEMMA KeyType ==
    ASSUME TypeOK
    PROVE  Key \in (0..MaxClock) \X (0..2 * Cardinality(Files))
<1>1. /\ Renamed \subseteq Files /\ Deleted \subseteq Files
      /\ Present \subseteq Files /\ Renamed \cap Deleted = {}
      /\ Renamed \cup Deleted \subseteq Files
  BY DEF Renamed, Deleted, Present, TypeOK
<1>2. /\ IsFiniteSet(Files) /\ IsFiniteSet(Renamed) /\ IsFiniteSet(Deleted)
      /\ Cardinality(Files) \in Nat
      /\ Cardinality(Renamed) \in Nat /\ Cardinality(Deleted) \in Nat
      /\ Cardinality(Present) \in Nat
      /\ Cardinality(Present) <= Cardinality(Files)
      /\ Cardinality(Renamed \cup Deleted) <= Cardinality(Files)
  BY <1>1, TurnAssumption, FS_Subset, FS_CardinalityType
<1>3. Cardinality(Renamed \cup Deleted) =
        Cardinality(Renamed) + Cardinality(Deleted) - Cardinality(Renamed \cap Deleted)
  BY <1>2, FS_Union
<1>4. Cardinality(Renamed \cap Deleted) = 0
  BY <1>1, FS_EmptySet
<1>5. Lines \in 0..2 * Cardinality(Files)
  BY <1>2, <1>3, <1>4 DEF Lines
<1> QED
  BY <1>5, NewestIsATime DEF Key

(* Nothing is dated in the future.  The key in the guard file is that of a *)
(* run that found lessons missing.                                         *)
ClockInv ==
    /\ memoryAt <= clock /\ promptedAt <= clock /\ mutedAt <= clock
    /\ \A f \in Files : written[f] <= clock
    /\ guard[1] <= promptedAt \/ guard[1] <= mutedAt

TurnInv == TypeOK /\ ClockInv /\ NoneUnprompted /\ IndexFollowsMemory

(* A run of the script, by hand or as the hook, changes these alone. *)
LEMMA PromptEffect ==
    ASSUME TypeOK, ClockInv, NEW mode, Prompt(mode)
    PROVE  /\ guard' \in (0..MaxClock) \X (0..2 * Cardinality(Files))
           /\ promptedAt' \in {promptedAt, clock} /\ promptedAt <= promptedAt'
           /\ mutedAt' \in {mutedAt, clock} /\ mutedAt <= mutedAt'
           /\ guard'[1] <= promptedAt' \/ guard'[1] <= mutedAt'
<1>0. /\ clock \in Nat /\ promptedAt \in Nat /\ promptedAt <= clock
      /\ mutedAt \in Nat /\ mutedAt <= clock
      /\ guard \in (0..MaxClock) \X (0..2 * Cardinality(Files))
      /\ guard[1] \in Nat /\ (guard[1] <= promptedAt \/ guard[1] <= mutedAt)
  BY TurnAssumption DEF TypeOK, ClockInv
<1>1. CASE ~AfterTaskBlocks(mode)
  BY <1>0, <1>1 DEF Prompt
<1>2. CASE AfterTaskBlocks(mode)
  <2>1. \/ promptedAt' = clock /\ mutedAt' = mutedAt
        \/ mutedAt' = clock /\ promptedAt' = promptedAt
    BY <1>2 DEF Prompt
  <2>2. guard' = Key \/ guard' = guard
    BY <1>2 DEF Prompt, StoreGuard
  <2>3. Key[1] <= clock /\ Key[1] \in Nat
    BY <1>0, NewestIsATime DEF Key, ClockInv
  <2>4. guard' \in (0..MaxClock) \X (0..2 * Cardinality(Files))
    BY <1>0, <2>2, KeyType
  <2>5. guard'[1] <= promptedAt' \/ guard'[1] <= mutedAt'
    <3>1. guard'[1] <= clock
      BY <1>0, <2>2, <2>3
    <3> QED
      BY <2>1, <3>1
  <2> QED
    BY <1>0, <2>1, <2>4, <2>5
<1> QED
  BY <1>1, <1>2

LEMMA BuildEffect ==
    ASSUME TypeOK, NEW mode, BuildKnowledge(mode)
    PROVE  indexAt' \in {indexAt, clock} /\ buildFailed' \in BOOLEAN
BY DEF TypeOK, BuildKnowledge

-----------------------------------------------------------------------------
(* A clean checkout: nobody was asked, nothing is to be logged. *)
LEMMA InitEstablishesInv == Init => TurnInv
<1> SUFFICES ASSUME Init PROVE TurnInv
  OBVIOUS
<1>1. Cardinality(Files) \in Nat /\ MaxClock \in Nat
  BY TurnAssumption, FS_CardinalityType
<1>2. guard \in (0..MaxClock) \X (0..2 * Cardinality(Files))
  BY <1>1 DEF Init, NoKey
<1>3. PlacementTypeOK /\ base = home
  BY DEF Init
<1>4. {memoryAt, indexAt, clock, promptedAt, mutedAt} \subseteq 0..MaxClock
  BY <1>1 DEF Init
<1>5. /\ edited \subseteq Files
      /\ moved \in [Files -> {"git-mv", "mv", "mv-to-new"}]
      /\ written \in [Files -> 0..MaxClock]
  BY <1>1 DEF Init
<1>6. turn = "working" /\ buildFailed \in BOOLEAN
  BY DEF Init
<1>7. base \in [Files -> UNION {Homes(f) : f \in Files}]
  BY <1>3 DEF PlacementTypeOK
<1>8. TypeOK
  BY <1>2, <1>3, <1>4, <1>5, <1>6, <1>7 DEF TypeOK
<1> QED
  BY <1>8 DEF Init, TurnInv, ClockInv, NoneUnprompted, IndexFollowsMemory, NoKey

(* What the agent does to a file leaves the clock ahead of everything. *)
LEMMA FilePreservesInv ==
    ASSUME TurnInv, NEW f \in Files, Write(f) \/ Refile(f)
    PROVE  TurnInv'
<1>0. TypeOK /\ ClockInv /\ clock \in 0..MaxClock /\ MaxClock \in Nat
  BY TurnAssumption DEF TurnInv, TypeOK
<1>1. /\ turn' = "working" /\ UNCHANGED <<base, runs, memoryAt>>
      /\ edited' \subseteq Files
      /\ moved' \in [Files -> {"git-mv", "mv", "mv-to-new"}]
  BY <1>0 DEF Write, Refile, Tick, TypeOK
<1>2. PlacementTypeOK'
  <2>1. CASE Refile(f)
    BY <1>0, <2>1, PutRightEffect DEF Refile, TypeOK
  <2>2. CASE Write(f)
    <3>1. PICK h \in Drafts(f) \cup {home[f]} : home' = [home EXCEPT ![f] = h]
      BY <2>2 DEF Write
    <3>2. PICK d \in Depends(f) \cup {imports[f]} : imports' = [imports EXCEPT ![f] = d]
      BY <2>2 DEF Write
    <3>3. h \in Homes(f) /\ d \subseteq Files /\ \A g \in d : MayImport(f, g)
      BY <1>0, TurnAssumption DEF TypeOK, PlacementTypeOK
    <3> QED
      BY <1>0, <3>1, <3>2, <3>3 DEF TypeOK, PlacementTypeOK
  <2> QED
    BY <2>1, <2>2
<1>3. /\ clock' \in 0..MaxClock /\ clock <= clock'
      /\ written' \in [Files -> 0..MaxClock]
      /\ written' = written \/ written' = [written EXCEPT ![f] = clock']
  <2>1. clock' \in {clock, clock + 1} /\ clock' \in 0..MaxClock
    BY <1>0 DEF Write, Refile, Tick
  <2>2. written' = written \/ written' = [written EXCEPT ![f] = clock']
    BY DEF Write, Refile
  <2> QED
    BY <1>0, <2>1, <2>2 DEF TypeOK
<1>4. TypeOK'
  BY <1>0, <1>1, <1>2, <1>3 DEF TypeOK, runs
<1>5. ClockInv'
  <2>1. \A g \in Files : written[g] \in Nat /\ written[g] <= clock
    BY <1>0 DEF TypeOK, ClockInv
  <2>2. \A g \in Files : written'[g] <= clock'
    BY <1>0, <1>3, <2>1 DEF TypeOK
  <2> QED
    BY <1>0, <1>1, <1>3, <2>2 DEF ClockInv, TypeOK, runs
<1> QED
  BY <1>1, <1>4, <1>5 DEF TurnInv, NoneUnprompted, IndexFollowsMemory

(* The rest of what the agent does. *)
LEMMA AgentPreservesInv ==
    ASSUME TurnInv, LogLesson \/ Commit \/ Stop \/ NewTurn
    PROVE  TurnInv'
<1>0. /\ TypeOK /\ ClockInv /\ clock \in Nat /\ MaxClock \in Nat
      /\ home \in [Files -> UNION {Homes(f) : f \in Files}]
  BY TurnAssumption DEF TurnInv, TypeOK, PlacementTypeOK
<1>1. turn' # "ended"
  BY DEF LogLesson, Tick, Commit, Stop, NewTurn
<1>2. CASE LogLesson
  <2>1. /\ clock' = clock + 1 /\ clock' \in 0..MaxClock /\ memoryAt' = clock'
        /\ UNCHANGED <<tree, runs, turn>> /\ turn = "working"
    BY <1>0, <1>2 DEF LogLesson, Tick
  <2>2. TypeOK' /\ ClockInv'
    BY <1>0, <2>1 DEF tree, runs, TypeOK, ClockInv, PlacementTypeOK
  <2> QED
    BY <1>1, <2>2 DEF TurnInv, NoneUnprompted, IndexFollowsMemory
<1>3. CASE Commit \/ Stop \/ NewTurn
  <2>1. TypeOK' /\ ClockInv'
    BY <1>0, <1>3
    DEF Commit, Stop, NewTurn, tree, runs, TypeOK, ClockInv, PlacementTypeOK
  <2> QED
    BY <1>1, <2>1 DEF TurnInv, NoneUnprompted, IndexFollowsMemory
<1> QED
  BY <1>2, <1>3

(* A run of the script leaves the tree alone, and with it the key. *)
LEMMA SameTreeSameKey ==
    ASSUME UNCHANGED <<tree, memoryAt>>, PlacementTypeOK
    PROVE  /\ PlacementTypeOK' /\ NewestCode' = NewestCode
           /\ \A mode : Unlogged(mode)' <=> Unlogged(mode)
BY DEF tree, PlacementTypeOK, NewestCode, Present, Deleted, Renamed, Unlogged

(* A run of the script by hand. *)
LEMMA RunByHandPreservesInv ==
    ASSUME TurnInv, NEW mode \in Modes, RunByHand(mode)
    PROVE  TurnInv'
<1>0. TypeOK /\ ClockInv /\ PlacementTypeOK
  BY DEF TurnInv, TypeOK
<1>1. /\ Prompt(mode) /\ BuildKnowledge(mode) /\ turn' = "working"
      /\ UNCHANGED <<tree, memoryAt, clock>>
  BY DEF RunByHand
<1>2. PlacementTypeOK'
  BY <1>0, <1>1, SameTreeSameKey
<1>3. TypeOK' /\ ClockInv'
  BY <1>0, <1>1, <1>2, PromptEffect, BuildEffect DEF TypeOK, ClockInv, tree
<1> QED
  BY <1>1, <1>3 DEF TurnInv, NoneUnprompted, IndexFollowsMemory

(* The hook lets a turn end only when the guard file says that a run found *)
(* the lessons missing, and has tried to build what the memory has over    *)
(* the index.                                                              *)
LEMMA HookPreservesInv ==
    ASSUME TurnInv, Hook
    PROVE  TurnInv'
<1>0. TypeOK /\ ClockInv /\ clock \in Nat /\ memoryAt \in Nat /\ PlacementTypeOK
  BY TurnAssumption DEF TurnInv, TypeOK
<1>1. /\ Prompt("hook") /\ BuildKnowledge("hook")
      /\ UNCHANGED <<tree, memoryAt, clock>>
      /\ turn' \in {"working", "ended"}
      /\ turn' = "ended" => ~AfterTaskBlocks("hook")
  BY DEF Hook
<1>2. PlacementTypeOK'
  BY <1>0, <1>1, SameTreeSameKey
<1>3. TypeOK' /\ ClockInv'
  BY <1>0, <1>1, <1>2, PromptEffect, BuildEffect DEF TypeOK, ClockInv, tree
<1>4. NoneUnprompted'
  <2> SUFFICES ASSUME turn' = "ended", Unlogged("hook")'
               PROVE  Asked(NewestCode)' \/ NewestCode' <= mutedAt'
    BY DEF NoneUnprompted
  <2>1. NewestCode' = NewestCode /\ Unlogged("hook")
    BY <1>0, <1>1, SameTreeSameKey
  <2>2. guard = Key /\ promptedAt' = promptedAt /\ mutedAt' = mutedAt
    BY <1>1, <2>1 DEF AfterTaskBlocks, Prompt
  <2>3. guard[1] = NewestCode
    BY <2>2 DEF Key
  <2> QED
    BY <1>0, <2>1, <2>2, <2>3 DEF ClockInv, Asked
<1>5. IndexFollowsMemory'
  <2>1. CASE memoryAt > indexAt
    <3>1. \/ indexAt' = clock /\ memoryAt' <= clock
          \/ buildFailed' = TRUE
      BY <1>0, <1>1, <2>1
      DEF BuildKnowledge, MemoryNewerThanIndex, ClockInv
    <3> QED
      BY <1>0, <1>1, <3>1 DEF IndexFollowsMemory
  <2>2. CASE ~(memoryAt > indexAt)
    <3>1. \/ indexAt' = indexAt
          \/ indexAt' = clock
      BY <1>0, <1>1, BuildEffect
    <3>2. ~(memoryAt' > indexAt')
      BY <1>0, <1>1, <2>2, <3>1 DEF ClockInv
    <3> QED
      BY <3>2 DEF IndexFollowsMemory
  <2> QED
    BY <2>1, <2>2
<1> QED
  BY <1>3, <1>4, <1>5 DEF TurnInv

(* The invariant is inductive. *)
LEMMA StepPreservesInv == TurnInv /\ [Next]_vars => TurnInv'
<1> SUFFICES ASSUME TurnInv, [Next]_vars
             PROVE  TurnInv'
  OBVIOUS
<1>1. CASE UNCHANGED vars
  <2>1. /\ UNCHANGED <<tree, runs, turn, memoryAt, clock>> /\ PlacementTypeOK
    BY <1>1 DEF vars, TurnInv, TypeOK
  <2>2. /\ PlacementTypeOK' /\ NewestCode' = NewestCode
        /\ Unlogged("hook")' <=> Unlogged("hook")
    BY <2>1, SameTreeSameKey
  <2>3. TypeOK' /\ ClockInv'
    BY <2>1, <2>2 DEF TurnInv, TypeOK, ClockInv, tree, runs
  <2> QED
    BY <2>1, <2>2, <2>3
    DEF TurnInv, NoneUnprompted, IndexFollowsMemory, Asked, runs
<1> QED
  BY <1>1, TurnAssumption, FilePreservesInv, AgentPreservesInv,
     RunByHandPreservesInv, HookPreservesInv DEF Next

(* The inductive invariant holds in every behaviour. *)
LEMMA InvHolds == Spec => []TurnInv
<1>1. Init => TurnInv
  BY InitEstablishesInv
<1>2. TurnInv /\ [Next]_vars => TurnInv'
  BY StepPreservesInv
<1> QED
  BY <1>1, <1>2, PTL DEF Spec, UnwritableSpec

(* The variables keep their types; the guard file holds a key of the code. *)
THEOREM TypeCorrect == Spec => []TypeOK
<1>1. TurnInv => TypeOK
  BY DEF TurnInv
<1> QED
  BY <1>1, InvHolds, PTL

(* No turn ends on code, of the lines whose time the script can read, that *)
(* is newer than the lessons and than the last run that asked for one or   *)
(* that --check kept from asking, whatever the agent writes, moves,        *)
(* commits or runs by hand, and however often the guard file cannot be     *)
(* written.                                                                *)
THEOREM NobodyEndsUnprompted == Spec => []NoneUnprompted
<1>1. TurnInv => NoneUnprompted
  BY DEF TurnInv
<1> QED
  BY <1>1, InvHolds, PTL

(* A turn that has ended left no lesson out of the index, unless the last  *)
(* rebuild failed.                                                         *)
THEOREM IndexIsBuilt == Spec => []IndexFollowsMemory
<1>1. TurnInv => IndexFollowsMemory
  BY DEF TurnInv
<1> QED
  BY <1>1, InvHolds, PTL

(* The messages of the gate do not send the agent round in circles: in     *)
(* every layout, with any imports a class may have, a file that is put     *)
(* right stays right and makes no other file wrong.                        *)
THEOREM MessagesLeadSomewhere == Spec => RefilingHelps
<1>1. TurnInv /\ [Next]_vars =>
        [\A f \in Files : Refile(f) => ToPutRight' \subseteq ToPutRight \ {f}]_vars
  BY PutRightHelps DEF Refile, TurnInv, TypeOK
<1> QED
  BY <1>1, InvHolds, PTL DEF Spec, UnwritableSpec, RefilingHelps

(* Together they say when the gate is satisfied: when nothing is left of   *)
(* what its messages ask for.                                              *)
THEOREM NothingLeftMeansAccepted == Spec => [](Named = {} <=> ToPutRight = {})
<1>1. TurnInv => (Named = {} <=> ToPutRight = {})
  BY AdviceForEveryViolation DEF TurnInv, TypeOK
<1> QED
  BY <1>1, InvHolds, PTL
=============================================================================
