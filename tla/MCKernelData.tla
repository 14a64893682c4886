---------------------------- MODULE MCKernelData ----------------------------
(***************************************************************************)
(* Three parts of the kernel that turn data into other data and share no   *)
(* state: the projection of merge conflicts, the Ontology planner and the  *)
(* data side of a patch.  One run explores each from its own initial       *)
(* states while the others rest.                                           *)
(***************************************************************************)
EXTENDS Naturals

CONSTANTS
    Chained,
    Names, Base, Aliases, NoName, MaxEntries, MaxRefs

\* Names, aliases and "none" are told apart; baseState has names.
ASSUME NamesAssumption ==
    /\ Base \subseteq Names /\ Names \cap Aliases = {}
    /\ NoName \notin Names \cup Aliases
    /\ MaxEntries \in Nat /\ MaxRefs \in Nat \ {0}

VARIABLES
    slot, objects, native, resolution, asked,
    family, base, plan, entries, target, staged, refs, moves, stage,
    patch, left, used, planned, made, renamed, referrer, resolved, todo, pc,
    part

M == INSTANCE MergeConflicts
K == INSTANCE KnowledgePatch
R == INSTANCE RenamePlan WITH objects <- planned, refs <- resolved, None <- NoName

conflictVars == <<slot, objects, native, resolution, asked>>
patchVars == <<family, base, plan, entries, target, staged, refs, moves, stage>>
renameVars == <<patch, left, used, planned, made, renamed, referrer, resolved, todo, pc>>

PatchRests ==
    /\ family = 0 /\ base = 0 /\ plan = 0 /\ entries = 0 /\ target = 0
    /\ staged = 0 /\ refs = 0 /\ moves = 0 /\ stage = 0
ConflictRests == slot = 0 /\ objects = 0 /\ native = 0 /\ resolution = 0 /\ asked = 0
RenameRests ==
    /\ patch = 0 /\ left = 0 /\ used = 0 /\ planned = 0 /\ made = 0
    /\ renamed = 0 /\ referrer = 0 /\ resolved = 0 /\ todo = 0 /\ pc = 0

Init ==
    \/ part = "conflict" /\ M!Init /\ PatchRests /\ RenameRests
    \/ part = "patch" /\ K!Init /\ ConflictRests /\ RenameRests
    \/ part = "rename" /\ R!Init /\ ConflictRests /\ PatchRests

Next ==
    \/ part = "conflict" /\ M!Next /\ UNCHANGED <<patchVars, renameVars, part>>
    \/ part = "patch" /\ K!Next /\ UNCHANGED <<conflictVars, renameVars, part>>
    \/ part = "rename" /\ R!Next /\ UNCHANGED <<conflictVars, patchVars, part>>

Spec == Init /\ [][Next]_<<conflictVars, patchVars, renameVars, part>>



\* Data follows the Definitions a patch renames (applyKnowledgeRenameMaintenance).
FollowsDefinitions == part = "patch" => K!FollowsDefinitions

\* The self-check of a patch never refuses what it planned
\* (validateStagedKnowledge).
ChecksNeverFire == part = "patch" => K!ChecksNeverFire

\* An edited relationship that got a new id is reported (Transitions).
MovesAreReported == part = "patch" => K!MovesAreReported

\* References follow renamed Definitions when the names given are fresh
\* (resolveDerivedReferences).
FollowsWhenFresh == part = "rename" => R!FollowsWhenFresh

\* Places without a base follow chains of renames too (endpointRefs).
LookupFollows == part = "rename" => R!LookupFollows

\* No explicit edit undoes a rename unseen (resolveDerivedReferences).
RenamedStayReferenced == part = "rename" => R!RenamedStayReferenced

\* No entry overwrites a Definition of baseState (applyEntry).
KeepsBaseObjects == part = "rename" => R!KeepsBaseObjects

=============================================================================
