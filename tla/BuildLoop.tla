----------------------------- MODULE BuildLoop ------------------------------
(***************************************************************************)
(* The build loop, scripts/loop.py: it runs a maker and a checker in turn, *)
(* both agents that may do anything to the roadmap, the worktree and the   *)
(* repository, and looks at what they left before it goes on.              *)
(*                                                                         *)
(* The history is the sequence of roadmaps committed; a branch is clean if *)
(* nothing is changed since the last one.                                  *)
(***************************************************************************)
EXTENDS Integers, Sequences, FiniteSetsExt

CONSTANTS
  Roadmaps,     (* what the active work may look like: tasks [state, name]  *)
  MaxIters,     (* --max-iters                                              *)
  MaxCommits    (* bound: commits one agent pass makes                      *)

(* The marks [ ], [~] and [x] of the roadmap.                              *)
Task == [name : STRING, state : {"todo", "doing", "done"}]

ASSUME LoopAssumption ==
  Roadmaps \subseteq Seq(Task) /\ MaxIters \in Nat /\ MaxCommits \in Nat

VARIABLES
  roadmap,     \* docs/ROADMAP.md
  changed,     \* the worktree differs from the last commit otherwise
  commits,     \* the history of the branch
  diverged,    \* the history no longer contains the commit it started from
  branch,      \* "feature", "other", "main" or "detached"
  upstream,    \* what the matching upstream branch was last pushed
  phase, code, \* what the loop does next; its exit status
  iteration, unchanged_cycles,
  text, starting_commits, starting_branch,   \* as the iteration found them
  accepted, idle  \* observed: was the last cycle accepted, cycles since one was

repoVars  == <<roadmap, changed, commits, diverged, branch, upstream>>
startVars == <<text, starting_commits, starting_branch>>
loopVars  == <<iteration, unchanged_cycles>>
seenVars  == <<accepted, idle>>
vars == <<repoVars, phase, code, loopVars, startVars, seenVars>>

None == <<>>        \* no upstream branch

IsOpen(task) == task.state # "done"

open_task_count(tasks) == Cardinality({i \in DOMAIN tasks : IsOpen(tasks[i])})

OpenTasks(tasks) == {i \in DOMAIN tasks : IsOpen(tasks[i])}

first_open_task_index(tasks) == IF OpenTasks(tasks) = {} THEN 0 ELSE Min(OpenTasks(tasks))

(* With a bug: only the task itself is compared.                           *)
completed_that_one(before, after, index) ==
  index \in DOMAIN before \cap DOMAIN after /\ IsOpen(before[index]) /\ ~IsOpen(after[index])

completed_exactly_one(before, after, index) ==
  /\ Len(before) = Len(after) /\ index \in DOMAIN before
  /\ \A i \in DOMAIN before :
       /\ before[i].name = after[i].name
       /\ IF i = index THEN IsOpen(before[i]) /\ ~IsOpen(after[i])
          ELSE before[i].state = after[i].state

Dirty == changed \/ roadmap # commits[Len(commits)]

Init ==
  /\ roadmap \in Roadmaps /\ changed \in BOOLEAN /\ commits \in {<<r>> : r \in Roadmaps}
  /\ diverged = FALSE /\ branch \in {"feature", "main", "detached"}
  /\ upstream \in {None, commits}
  /\ phase = "starting" /\ code = 0 /\ iteration = 1 /\ unchanged_cycles = 0
  /\ text = <<>> /\ starting_commits = <<>> /\ starting_branch = "none" /\ accepted = FALSE /\ idle = 0

Exits(status) == phase' = "exited" /\ code' = status

Keeps(next) == phase' = next /\ UNCHANGED code

-----------------------------------------------------------------------------
(* workspace_error, before the first iteration; git may fail here too.     *)
Starts ==
  /\ phase = "starting"
  /\ \/ Exits(2)
     \/ branch = "feature" /\ ~Dirty /\ Keeps("iteration")
  /\ UNCHANGED <<repoVars, loopVars, startVars, seenVars>>

(* The top of the loop.                                                    *)
IterationStarts ==
  /\ phase = "iteration"
  /\ IF iteration > MaxIters THEN Exits(1) /\ UNCHANGED startVars
     ELSE IF open_task_count(roadmap) = 0 THEN Exits(0) /\ UNCHANGED startVars
     ELSE /\ Keeps("maker")
          /\ text' = roadmap /\ starting_commits' = commits /\ starting_branch' = branch
  /\ UNCHANGED <<repoVars, loopVars, seenVars>>

(* codex exec: an agent edits the roadmap and the worktree, commits any    *)
(* number of times (the worktree of the moment or not), pushes or not; or  *)
(* changes branches, or rewrites the history.                              *)
Works ==
  /\ roadmap' \in Roadmaps /\ changed' \in BOOLEAN
  /\ \E n \in 0..MaxCommits, committed \in Roadmaps :
       commits' = commits \o [i \in 1..n |-> committed]
  /\ upstream' \in {upstream, commits'}
  /\ UNCHANGED <<diverged, branch>>

Strays ==
  /\ diverged' \in BOOLEAN /\ branch' \in {branch, "other"}
  /\ UNCHANGED <<roadmap, changed, commits, upstream>>

Runs(next) == (Works \/ Strays) /\ Keeps(next)

MakerRuns ==
  /\ phase = "maker" /\ Runs("after maker")
  /\ UNCHANGED <<loopVars, startVars, seenVars>>

CheckerRuns ==
  /\ phase = "checker" /\ Runs("after checker")
  /\ UNCHANGED <<loopVars, startVars, seenVars>>

(* An agent exits with an error: its code is the loop's.                   *)
AgentFails ==
  /\ phase \in {"maker", "checker"}
  /\ \E status \in {1, 3} : Exits(status)
  /\ Works \/ Strays
  /\ UNCHANGED <<loopVars, startVars, seenVars>>

(* git itself fails: RuntimeError, not caught.                             *)
GitFails ==
  /\ phase \in {"iteration", "after maker", "after checker"}
  /\ phase = "iteration" => iteration <= MaxIters /\ open_task_count(roadmap) > 0
  /\ Exits(1)
  /\ UNCHANGED <<repoVars, loopVars, startVars, seenVars>>

current_task_index == first_open_task_index(text)

SameBranch == branch = starting_branch

HeadMoved == diverged \/ commits # starting_commits

(* After the maker: the same branch and commit, the same task first.       *)
MakerReviewed ==
  /\ phase = "after maker"
  /\ IF SameBranch /\ ~HeadMoved /\ first_open_task_index(roadmap) = current_task_index
     THEN Keeps("checker") ELSE Exits(1)
  /\ UNCHANGED <<repoVars, loopVars, startVars, seenVars>>

(* With bugs: any number of commits is taken for one; nothing is compared  *)
(* with the upstream branch.                                               *)
OneCommitOrMore == Len(commits) > Len(starting_commits)
PushedAnywhere == TRUE

OneCommit == Len(commits) = Len(starting_commits) + 1

Pushed == upstream = commits

CommitAccepted ==
  /\ ~diverged /\ OneCommit
  /\ completed_exactly_one(text, roadmap, current_task_index)
  /\ ~Dirty
  /\ Pushed

(* With a bug: the guard stops at the fourth cycle.                        *)
StalledLate(cycles) == cycles > 3

Stalled(cycles) == cycles >= 3

after_task_index == first_open_task_index(roadmap)

(* After the checker: a commit that holds up to every rule, or none and    *)
(* the same task still first.  Then the next iteration, or a stall.        *)
CheckerReviewed ==
  /\ phase = "after checker"
  /\ IF ~SameBranch
        \/ (HeadMoved /\ ~CommitAccepted)
        \/ (~HeadMoved /\ after_task_index # current_task_index)
     THEN Exits(1) /\ UNCHANGED <<loopVars, seenVars>>
     ELSE /\ unchanged_cycles' = IF after_task_index = current_task_index
                                 THEN unchanged_cycles + 1 ELSE 0
          /\ IF Stalled(unchanged_cycles') THEN Exits(1) /\ UNCHANGED iteration
             ELSE Keeps("iteration") /\ iteration' = iteration + 1
          /\ accepted' = HeadMoved
          /\ idle' = IF HeadMoved THEN 0 ELSE idle + 1
  /\ UNCHANGED <<repoVars, startVars>>

Next ==
  \/ Starts \/ IterationStarts \/ MakerRuns \/ CheckerRuns
  \/ AgentFails \/ GitFails \/ MakerReviewed \/ CheckerReviewed

Spec == Init /\ [][Next]_vars
-----------------------------------------------------------------------------
(* Properties.                                                             *)

(* Whatever the agents did, an iteration that the loop goes on from with a *)
(* new commit has added exactly one, on the branch it started from, which  *)
(* holds the whole worktree, is published, and completes the first task    *)
(* that was open and touches no other mark of the roadmap it began with.   *)
(* That roadmap is the file, not the last commit (loop.py:264): a mark an  *)
(* earlier cycle left in the worktree goes into the commit as well.        *)
AcceptedIsWhole ==
  (phase = "iteration" /\ accepted) =>
    /\ ~diverged /\ branch = starting_branch
    /\ Len(commits) = Len(starting_commits) + 1 /\ upstream = commits
    /\ ~changed /\ commits[Len(commits)] = roadmap
    /\ {i \in DOMAIN roadmap : roadmap[i] # text[i]} = {current_task_index}
    /\ OpenTasks(text) = OpenTasks(roadmap) \cup {current_task_index}

(* Exit status 0: nothing is open, the worktree is what was committed, and *)
(* if an iteration ran, the last one was accepted and all of the branch is *)
(* published.  An iteration without a commit, or one that left something   *)
(* behind, is never the last before such an exit.                          *)
SuccessMeansDone ==
  (phase = "exited" /\ code = 0) =>
    /\ open_task_count(roadmap) = 0 /\ ~Dirty
    /\ iteration > 1 => upstream = commits /\ accepted

(* The stall guard: at most three cycles in a row end without a completed  *)
(* task, and after the third the loop does not go on.                      *)
StallGuard == idle <= 3 /\ (idle = 3 => phase = "exited")
=============================================================================
