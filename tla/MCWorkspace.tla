---------------------------- MODULE MCWorkspace ----------------------------
EXTENDS Workspace

CONSTANTS wa, wb, oa, root, da, db, do, dr

Spec1(d, r) == [dir |-> d, runtime |-> r]

(* One workspace that may move and change runtime, one managed orchestrator   *)
(* and the root, every target with directories of its own.                    *)
OwnDirs ==
    (wa :> {Spec1(da, "claude"), Spec1(db, "codex")})
    @@ (oa :> {Spec1(do, "claude")}) @@ (root :> {Spec1(dr, "claude")})

StartsConfigured ==
    (wa :> Spec1(db, "codex")) @@ (oa :> Spec1(do, "claude")) @@ (root :> Absent)

(* Two workspaces that share one directory.                                   *)
SharedDir ==
    (wa :> {Spec1(da, "claude")}) @@ (wb :> {Spec1(da, "claude")})
    @@ (root :> {Spec1(dr, "claude")})
SharedOrder == <<wa, wb, root>>
InOrder == <<wa, oa, root>>

Symmetry == Permutations(Procs) \cup Permutations(Sockets)
=============================================================================
