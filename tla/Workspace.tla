------------------------------ MODULE Workspace ------------------------------
(***************************************************************************)
(* The workspace (internal/workspace/workspace.go): a git worktree and a   *)
(* branch per agent, merged into the main repository at the end.  What     *)
(* matters of git: changes lie uncommitted in a worktree, on its branch,   *)
(* or in the main directory; a merge that conflicts is never aborted, so   *)
(* that git refuses every merge after it; and any git command may fail.    *)
(***************************************************************************)
EXTENDS FiniteSets

CONSTANTS Agents, Work   \* the agents, and the pieces of work they may leave

VARIABLES trees,     \* Workspace.worktrees
          changed,   \* uncommitted changes in each worktree
          branch,    \* changes committed on each branch
          main,      \* changes in the main directory, merged or made there
          merging,   \* a conflicting merge was left unfinished
          reported   \* agents for whom a failed commit or merge was logged

workspaceVars == <<trees, changed, branch, main, merging, reported>>

WorkspaceInit ==
    /\ trees = {}
    /\ changed = [a \in Agents |-> {}]
    /\ branch = [a \in Agents |-> {}]
    /\ main = {}
    /\ merging = FALSE
    /\ reported = {}

\* The worktrees of these agents go, with what is in them, and their branches.
RemoveWorktreeDir(agents) ==
    /\ changed' = [a \in Agents |-> IF a \in agents THEN {} ELSE changed[a]]
    /\ branch' = [a \in Agents |-> IF a \in agents THEN {} ELSE branch[a]]

\* What an earlier run has left of the worktree and its branch is removed, and
\* both are made anew, unless this workspace made them.
CreateWorktree(a) ==
    /\ trees' = trees \cup {a}
    /\ RemoveWorktreeDir({a} \ trees)
    /\ UNCHANGED <<main, merging, reported>>

\* A piece of work is left in an agent's worktree, if it is still there.
LeaveWork(a, w) ==
    /\ changed' = IF a \in trees THEN [changed EXCEPT ![a] = @ \cup {w}] ELSE changed
    /\ UNCHANGED <<trees, branch, main, merging, reported>>

LeaveWorkInMain(w) ==
    /\ main' = main \cup {w}
    /\ UNCHANGED <<trees, changed, branch, merging, reported>>

\* (Variant) The branch is merged without the changes being committed.
MergeWorktreeUncommitted(a) ==
    \E conflict \in BOOLEAN :
        LET fails == merging \/ conflict IN
        /\ main' = IF fails THEN main ELSE main \cup branch[a]
        /\ merging' = fails
        /\ reported' = IF fails THEN reported \cup {a} ELSE reported
        /\ UNCHANGED <<trees, changed, branch>>

\* commitChanges: all that lies in the worktree, or nothing if git fails.
CommitChanges(a, commits) ==
    /\ branch' = [branch EXCEPT ![a] = IF commits THEN @ \cup changed[a] ELSE @]
    /\ changed' = [changed EXCEPT ![a] = IF commits THEN {} ELSE @]

\* Commit, which may fail, then merge, which fails if there is a conflict, if an
\* earlier one was left, or for reasons of git's own.
MergeWorktree(a) ==
    \E commits, merges, conflict \in BOOLEAN :
        LET merged == merges /\ ~merging /\ ~conflict IN
        /\ CommitChanges(a, commits)
        /\ conflict => branch'[a] # {}
        /\ main' = IF merged THEN main \cup branch'[a] ELSE main
        /\ merging' = (merging \/ conflict)
        /\ reported' = IF commits /\ merged THEN reported ELSE reported \cup {a}
        /\ UNCHANGED trees

\* Worktrees and branches go, merged or not.
Cleanup ==
    /\ trees' = {}
    /\ RemoveWorktreeDir(trees)
    /\ UNCHANGED <<main, merging, reported>>

=============================================================================
