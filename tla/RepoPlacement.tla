---------------------------- MODULE RepoPlacement ----------------------------
(***************************************************************************)
(* The gate on where files live (scripts/check-repo-placement.cjs) and the *)
(* advice its messages and the decision procedure of the turn-end hook     *)
(* (scripts/sync.cjs) give.  A file is what it holds, the folder it lies   *)
(* in, the suffix of its name and the files it imports; the regular        *)
(* expressions that read these off a path or a source are abstracted.      *)
(***************************************************************************)
CONSTANTS
    Files,
    Holds(_),    (* what a file holds *)
    BansCommon   (* domainBansCommon of the service *)

Ports == {"writePort", "readPort"}

Contents == Ports \cup {"dto", "error", "class", "adapter"}

DomainFolders == {"domain", "domain/repositories"}

ApplicationFolders == {"application", "application/repositories",
                       "application/queries", "application/queries/<name>"}

(* modules/<x>/infrastructure with a folder of the list or another one, or *)
(* src/infrastructure of the service                                       *)
InfrastructureFolders == {"infrastructure/listed", "infrastructure/other",
                          "src/infrastructure"}

Folders == DomainFolders \cup ApplicationFolders \cup InfrastructureFolders
               \cup {"common", "shared-kernel"}

(* A file is called after what it holds; "ts" is any other name, and an    *)
(* "error" has the name of its module.                                     *)
Suffixes(content) ==
    CASE content \in Ports -> {"query-repository", "repository"}
      [] content = "dto" -> {"dto"}
      [] content = "error" -> {"error", "errors"}
      [] content \in {"class", "adapter"} -> {"query", "handler", "ts"}

At(folder, suffix) == [folder |-> folder, suffix |-> suffix]

Homes(f) == {At(folder, suffix) : folder \in Folders, suffix \in Suffixes(Holds(f))}

ASSUME PlacementAssumption ==
    /\ \A f \in Files : Holds(f) \in Contents
    /\ BansCommon \in BOOLEAN

VARIABLES
    home,      (* where each file lives *)
    imports    (* the files each file imports *)

(* A port imports the types of its results at most, types and errors       *)
(* nothing; a class or an adapter may import anything.                     *)
MayImport(f, g) ==
    /\ Holds(f) \notin {"dto", "error"}
    /\ Holds(f) \in Ports => Holds(g) = "dto"

PlacementTypeOK ==
    /\ home \in [Files -> UNION {Homes(f) : f \in Files}]
    /\ \A f \in Files : home[f] \in Homes(f)
    /\ imports \in [Files -> SUBSET Files]
    /\ \A f \in Files : \A g \in imports[f] : MayImport(f, g)

Folder(f) == home[f].folder
Suffix(f) == home[f].suffix

-----------------------------------------------------------------------------
(* The checks, by the letters of the script.                               *)

(* H: the shared kernel owns no live connection. *)
LiveInKernel(f) == Folder(f) = "shared-kernel" /\ Holds(f) = "adapter"

(* G: the folders of a module's infrastructure are a closed list. *)
UnlistedFolder(f) == Folder(f) = "infrastructure/other"

(* A, B: a query-repository lives in application/repositories. *)
QueryPortElsewhere(f) ==
    /\ Suffix(f) = "query-repository"
    /\ Folder(f) \notin InfrastructureFolders
                        \cup {"application/repositories", "shared-kernel"}

(* C: application/repositories holds nothing else. *)
NoPortThere(f) ==
    Folder(f) = "application/repositories" /\ Suffix(f) # "query-repository"

(* F: no port is declared inside infrastructure. *)
PortInInfrastructure(f) ==
    Folder(f) \in InfrastructureFolders /\ Holds(f) \in Ports

(* I: the errors of a module are in one file, in its domain folder. *)
StrayError(f) ==
    /\ Suffix(f) \in {"error", "errors"} /\ Folder(f) # "shared-kernel"
    /\ Suffix(f) = "errors" \/ Folder(f) # "domain"

(* E: a folder of a query holds the query and its handler. *)
StrayInQueryFolder(f) ==
    /\ Folder(f) = "application/queries/<name>"
    /\ Suffix(f) \notin {"query", "handler"}

Misplaced(f) ==
    \/ LiveInKernel(f) \/ UnlistedFolder(f) \/ QueryPortElsewhere(f)
    \/ NoPortThere(f) \/ PortInInfrastructure(f) \/ StrayError(f)
    \/ StrayInQueryFolder(f)

(* D: the domain imports neither application nor, where it says so, common.*)
OutsideTheDomain(f) ==
    \/ Folder(f) \in ApplicationFolders
    \/ BansCommon /\ Folder(f) = "common"

ImportsOutward(f) ==
    /\ Folder(f) \in DomainFolders
    /\ \E g \in imports[f] : OutsideTheDomain(g)

(* The files the messages name; the script exits 1 if there are any. *)
Named == {f \in Files : Misplaced(f) \/ ImportsOutward(f)}

-----------------------------------------------------------------------------
(* What the messages ask for.  D names the importer, and sends a port or   *)
(* an error it imports to the domain; any other import has to go: the      *)
(* types of a port in the domain are inline (cqrs_pattern.md).             *)

ImportedByDomain(f) ==
    \E g \in Files : Folder(g) \in DomainFolders /\ f \in imports[g]

Moves(f) == Holds(f) \in Ports \cup {"error"}

ToPutRight ==
    {f \in Files :
        \/ Misplaced(f)
        \/ Moves(f) /\ OutsideTheDomain(f) /\ ImportedByDomain(f)
        \/ /\ Folder(f) \in DomainFolders
           /\ \E g \in imports[f] : OutsideTheDomain(g) /\ ~Moves(g)}

(* Mutated form: check A's own advice, without asking who imports the port.*)
ReadPortHomeUnasked(f) == At("application/repositories", "query-repository")

(* Step 2 of the decision procedure. *)
ReadPortHome(f) ==
    IF ImportedByDomain(f)
    THEN At("domain/repositories", "repository")
    ELSE At("application/repositories", "query-repository")

InfrastructureHome(f) ==
    At(IF Holds(f) = "adapter" THEN "src/infrastructure" ELSE "infrastructure/listed",
       Suffix(f))

ProperHome(f) ==
    CASE Holds(f) = "writePort" -> At("domain/repositories", "repository")
      [] Holds(f) = "readPort" -> ReadPortHome(f)
      [] Holds(f) = "error" -> At("domain", "error")
      [] ~Moves(f) /\ (LiveInKernel(f) \/ UnlistedFolder(f)) -> InfrastructureHome(f)
      [] ~Moves(f) /\ (NoPortThere(f) \/ StrayInQueryFolder(f)) ->
             At("application/queries", Suffix(f))
      [] OTHER -> home[f]

(* Its imports once it lies at home h. *)
ProperImports(f, h) ==
    IF h.folder \in DomainFolders
    THEN {g \in imports[f] : OutsideTheDomain(g) => Moves(g)}
    ELSE imports[f]

PutRight(f) ==
    /\ f \in ToPutRight
    /\ home' = [home EXCEPT ![f] = ProperHome(f)]
    /\ imports' = [imports EXCEPT ![f] = ProperImports(f, ProperHome(f))]
=============================================================================
