---------------------------- MODULE ToolsProofs -----------------------------
(***************************************************************************)
(* The two tools that watch over the SDKs, which share nothing.  What the  *)
(* build loop accepts and when it stops, for any roadmaps, any number of   *)
(* iterations and of commits, and whatever the agents do; and what the     *)
(* cross-decode gate has shown when it passes, for any cases, containers   *)
(* and SDKs.                                                               *)
(***************************************************************************)
EXTENDS Tools, FiniteSetTheorems, SequenceTheorems, WellFoundedInduction, TLAPS

(* The least of some natural numbers is one of them.                       *)
LEMMA LeastIsIn ==
  ASSUME NEW S \in SUBSET Nat, S # {}
  PROVE  Min(S) \in S
  <1>. DEFINE R == {p \in Nat \X Nat : p[1] < p[2]}
  <1>1. IsWellFoundedOn(R, Nat)
    BY NatLessThanWellFounded DEF OpToRel
  <1>2. \E x \in S : \A y \in S : ~(<<y, x>> \in R)
    <2>. HIDE DEF R
    <2>. QED
      BY <1>1, WFMin
  <1>3. PICK x \in S : \A y \in S : ~(<<y, x>> \in R)
    BY <1>2
  <1>4. ASSUME NEW y \in S
        PROVE  x <= y
    <2>1. x \in Nat /\ y \in Nat /\ <<y, x>> \in Nat \X Nat
      OBVIOUS
    <2>2. ~(y < x)
      BY <1>3, <2>1
    <2>. QED
      BY <2>1, <2>2
  <1>. QED
    BY <1>4 DEF Min

(* A roadmap with an open task has a first one; one with none has index 0. *)
LEMMA FirstOpen ==
  ASSUME NEW tasks \in Seq(Task)
  PROVE  /\ open_task_count(tasks) = 0 <=> OpenTasks(tasks) = {}
         /\ OpenTasks(tasks) # {} => first_open_task_index(tasks) \in OpenTasks(tasks)
         /\ OpenTasks(tasks) = {} => first_open_task_index(tasks) = 0
  <1>1. DOMAIN tasks = 1..Len(tasks) /\ Len(tasks) \in Nat
    OBVIOUS
  <1>2. OpenTasks(tasks) \in SUBSET (1..Len(tasks)) /\ OpenTasks(tasks) \in SUBSET Nat
    BY <1>1 DEF OpenTasks
  <1>3. IsFiniteSet(1..Len(tasks))
    BY <1>1, FS_Interval
  <1>4. IsFiniteSet(OpenTasks(tasks))
    BY <1>2, <1>3, FS_Subset
  <1>5. open_task_count(tasks) = Cardinality(OpenTasks(tasks))
    BY DEF open_task_count, OpenTasks
  <1>. QED
    BY <1>2, <1>5, <1>4, FS_EmptySet, LeastIsIn DEF first_open_task_index
-----------------------------------------------------------------------------
(* The inductive invariant.                                                *)

Busy == phase \in {"maker", "after maker", "checker", "after checker"}

LoopTypes ==
  /\ roadmap \in Seq(Task) /\ text \in Seq(Task)
  /\ phase \in {"starting", "iteration", "maker", "after maker", "checker", "after checker", "exited"}
  /\ iteration \in Nat \ {0}

(* An iteration is only run with a task open; before one, if the last was  *)
(* not accepted, either none has run or a task is still open.              *)
OpenInv ==
  /\ phase = "starting" => ~accepted /\ iteration = 1
  /\ Busy => OpenTasks(text) # {}
  /\ phase = "iteration" =>
       accepted \/ (iteration = 1 /\ ~Dirty) \/ OpenTasks(roadmap) # {}

(* The cycles that completed nothing are counted, and not to four.         *)
StallInv ==
  /\ unchanged_cycles \in Nat /\ idle \in Nat /\ idle <= unchanged_cycles
  /\ unchanged_cycles <= 3 /\ (phase # "exited" => unchanged_cycles < 3)

LoopInv == LoopTypes /\ OpenInv /\ AcceptedIsWhole /\ SuccessMeansDone /\ StallInv

LEMMA InitLoop == Init => LoopInv
  <1>. HAVE Init
  <1>1. roadmap \in Seq(Task)
    BY LoopAssumption DEF Init
  <1>2. text \in Seq(Task)
    BY EmptySeq DEF Init
  <1>3. LoopTypes /\ OpenInv
    BY <1>1, <1>2 DEF Init, LoopTypes, OpenInv, Busy
  <1>4. AcceptedIsWhole /\ SuccessMeansDone
    BY DEF Init, AcceptedIsWhole, SuccessMeansDone
  <1>5. StallInv
    BY DEF Init, StallInv
  <1>. QED
    BY <1>3, <1>4, <1>5 DEF LoopInv

(* What an accepted commit makes of the roadmap.                           *)
LEMMA Completion ==
  ASSUME NEW before \in Seq(Task), NEW after \in Seq(Task), NEW index,
         completed_exactly_one(before, after, index)
  PROVE  /\ {i \in DOMAIN after : after[i] # before[i]} = {index}
         /\ OpenTasks(before) = OpenTasks(after) \cup {index}
  <1>1. DOMAIN before = DOMAIN after /\ index \in DOMAIN before
    BY DEF completed_exactly_one
  <1>2. \A i \in DOMAIN before : before[i] \in Task /\ after[i] \in Task
    BY <1>1
  <1>3. IsOpen(before[index]) /\ ~IsOpen(after[index])
    BY <1>1 DEF completed_exactly_one
  <1>4. \A i \in DOMAIN before \ {index} :
          before[i].name = after[i].name /\ before[i].state = after[i].state
    BY DEF completed_exactly_one
  <1>5. \A s, t \in Task : s.name = t.name /\ s.state = t.state => s = t
    <2>1. \A s \in Task : s = [name |-> s.name, state |-> s.state]
      BY DEF Task
    <2>. QED
      BY <2>1
  <1>6. \A i \in DOMAIN before \ {index} : before[i] = after[i]
    BY <1>2, <1>4, <1>5
  <1>7. before[index] # after[index]
    BY <1>3
  <1>. QED
    BY <1>1, <1>3, <1>6, <1>7 DEF OpenTasks

(* An agent leaves some roadmap behind, and nothing of the loop's own.     *)
LEMMA AgentSteps ==
  ASSUME LoopTypes, Works \/ Strays
  PROVE  roadmap' \in Seq(Task)
  <1>1. CASE Works
    BY <1>1, LoopAssumption DEF Works
  <1>2. CASE Strays
    BY <1>2 DEF Strays, LoopTypes
  <1>. QED
    BY <1>1, <1>2

LEMMA TypesStep == LoopTypes /\ [Next]_vars => LoopTypes'
  <1>. HAVE LoopTypes /\ [Next]_vars
  <1>1. CASE Starts
    BY <1>1 DEF Starts, Exits, Keeps, LoopTypes, repoVars, startVars, loopVars
  <1>2. CASE IterationStarts
    BY <1>2 DEF IterationStarts, Exits, Keeps, LoopTypes, repoVars, startVars, loopVars
  <1>3. CASE MakerRuns
    BY <1>3, AgentSteps DEF MakerRuns, Runs, Keeps, LoopTypes, startVars, loopVars
  <1>4. CASE CheckerRuns
    BY <1>4, AgentSteps DEF CheckerRuns, Runs, Keeps, LoopTypes, startVars, loopVars
  <1>5. CASE AgentFails
    BY <1>5, AgentSteps DEF AgentFails, Exits, LoopTypes, startVars, loopVars
  <1>6. CASE GitFails
    BY <1>6 DEF GitFails, Exits, LoopTypes, repoVars, startVars, loopVars
  <1>7. CASE MakerReviewed
    BY <1>7 DEF MakerReviewed, Exits, Keeps, LoopTypes, repoVars, startVars, loopVars
  <1>8. CASE CheckerReviewed
    <2>1. roadmap' = roadmap /\ text' = text
      BY <1>8 DEF CheckerReviewed, repoVars, startVars
    <2>2. phase' \in {"exited", "iteration"} /\ iteration' \in {iteration, iteration + 1}
      BY <1>8, Zenon DEF CheckerReviewed, Exits, Keeps, loopVars
    <2>3. iteration \in Nat \ {0}
      BY Zenon DEF LoopTypes
    <2>4. \A n : n \in {iteration, iteration + 1} => n \in Nat \ {0}
      BY <2>3
    <2>5. iteration' \in Nat \ {0}
      BY <2>2, <2>4, Zenon
    <2>. QED
      BY <2>1, <2>2, <2>5 DEF LoopTypes
  <1>9. CASE UNCHANGED vars
    BY <1>9 DEF LoopTypes, vars, repoVars, startVars, loopVars
  <1>. QED
    BY <1>1, <1>2, <1>3, <1>4, <1>5, <1>6, <1>7, <1>8, <1>9 DEF Next

(* The cycles are counted on while nothing is committed, and an accepted   *)
(* commit sets the observed count back, not less than the code does.       *)
LEMMA StallStep == StallInv /\ [Next]_vars => StallInv'
  <1>. HAVE StallInv /\ [Next]_vars
  <1>1. CASE CheckerReviewed
    <2>1. CASE UNCHANGED <<loopVars, seenVars>> /\ Exits(1)
      BY <2>1 DEF StallInv, loopVars, seenVars, Exits
    <2>2. CASE ~(UNCHANGED <<loopVars, seenVars>> /\ Exits(1))
      <3>1. /\ unchanged_cycles' = IF after_task_index = current_task_index
                                   THEN unchanged_cycles + 1 ELSE 0
            /\ idle' = IF HeadMoved THEN 0 ELSE idle + 1
            /\ ~HeadMoved => after_task_index = current_task_index
            /\ phase = "after checker"
        BY <1>1, <2>2 DEF CheckerReviewed
      <3>2. Stalled(unchanged_cycles') => phase' = "exited"
        BY <1>1, <2>2 DEF CheckerReviewed, Exits
      <3>3. unchanged_cycles < 3
        BY <3>1 DEF StallInv
      <3>4. CASE HeadMoved
        <4>1. idle' = 0 /\ unchanged_cycles' \in {0, unchanged_cycles + 1}
          BY <3>1, <3>4, Zenon
        <4>. QED
          BY <3>2, <3>3, <4>1 DEF StallInv, Stalled
      <3>5. CASE ~HeadMoved
        <4>1. idle' = idle + 1 /\ unchanged_cycles' = unchanged_cycles + 1
          BY <3>1, <3>5, Zenon
        <4>. QED
          BY <3>2, <3>3, <4>1 DEF StallInv, Stalled
      <3>. QED
        BY <3>4, <3>5
    <2>. QED
      BY <2>1, <2>2
  <1>2. CASE UNCHANGED <<loopVars, seenVars>> /\ phase # "exited"
    BY <1>2 DEF StallInv, loopVars, seenVars
  <1>3. CASE UNCHANGED vars
    BY <1>3 DEF StallInv, vars, loopVars, seenVars
  <1>4. Next => CheckerReviewed \/ (UNCHANGED <<loopVars, seenVars>> /\ phase # "exited")
    BY DEF Next, Starts, IterationStarts, MakerRuns, CheckerRuns, AgentFails, GitFails, MakerReviewed
  <1>. QED
    BY <1>1, <1>2, <1>3, <1>4

(* An exit with an error promises nothing, nor does a phase within a cycle. *)
LEMMA ExitStep ==
  ASSUME phase' = "exited", code' # 0
  PROVE  (OpenInv /\ AcceptedIsWhole /\ SuccessMeansDone)'
  <1>1. OpenInv'
    BY DEF OpenInv, Busy
  <1>2. AcceptedIsWhole'
    BY DEF AcceptedIsWhole
  <1>3. SuccessMeansDone'
    BY DEF SuccessMeansDone
  <1>. QED
    BY <1>1, <1>2, <1>3

LEMMA CycleStep ==
  ASSUME phase' \in {"maker", "after maker", "checker", "after checker"},
         OpenTasks(text') # {}
  PROVE  (OpenInv /\ AcceptedIsWhole /\ SuccessMeansDone)'
  <1>1. OpenInv'
    BY DEF OpenInv, Busy, OpenTasks
  <1>2. AcceptedIsWhole'
    BY DEF AcceptedIsWhole
  <1>3. SuccessMeansDone'
    BY DEF SuccessMeansDone
  <1>. QED
    BY <1>1, <1>2, <1>3

(* Between two iterations: what CheckerReviewed leaves.                    *)
LEMMA ReviewStep ==
  LoopTypes /\ OpenInv /\ CheckerReviewed => (OpenInv /\ AcceptedIsWhole /\ SuccessMeansDone)'
  <1>. HAVE LoopTypes /\ OpenInv /\ CheckerReviewed
  <1>1. UNCHANGED <<repoVars, startVars>> /\ Busy
    BY DEF CheckerReviewed, Busy
  <1>2. roadmap \in Seq(Task) /\ text \in Seq(Task) /\ OpenTasks(text) # {}
    BY <1>1 DEF LoopTypes, OpenInv
  <1>3. CASE phase' = "exited" /\ code' = 1
    BY <1>3, ExitStep
  <1>4. CASE ~(phase' = "exited" /\ code' = 1)
    <2>1. /\ SameBranch /\ (HeadMoved => CommitAccepted)
          /\ ~HeadMoved => after_task_index = current_task_index
          /\ phase' = "iteration" /\ accepted' = HeadMoved
      BY <1>4, Zenon DEF CheckerReviewed, Exits, Keeps
    <2>2. SuccessMeansDone'
      BY <2>1 DEF SuccessMeansDone
    <2>3. HeadMoved => AcceptedIsWhole'
      <3>. HAVE HeadMoved
      <3>1. /\ ~diverged /\ OneCommit /\ ~Dirty /\ Pushed
            /\ completed_exactly_one(text, roadmap, current_task_index)
        BY <2>1 DEF CommitAccepted
      <3>2. /\ {i \in DOMAIN roadmap : roadmap[i] # text[i]} = {current_task_index}
            /\ OpenTasks(text) = OpenTasks(roadmap) \cup {current_task_index}
        BY <1>2, <3>1, Completion
      <3>3. /\ ~diverged /\ branch = starting_branch
            /\ Len(commits) = Len(starting_commits) + 1 /\ upstream = commits
            /\ ~changed /\ commits[Len(commits)] = roadmap
        BY <2>1, <3>1 DEF OneCommit, Dirty, Pushed, SameBranch
      <3>. QED
        BY <1>1, <3>2, <3>3, Zenon
        DEF AcceptedIsWhole, repoVars, startVars, current_task_index, first_open_task_index, OpenTasks
    <2>4. ~HeadMoved => OpenTasks(roadmap) # {}
      <3>. HAVE ~HeadMoved
      <3>1. first_open_task_index(roadmap) = first_open_task_index(text)
        BY <2>1 DEF after_task_index, current_task_index
      <3>2. first_open_task_index(text) \in DOMAIN text
        BY <1>2, FirstOpen DEF OpenTasks
      <3>3. 0 \notin DOMAIN text
        BY <1>2
      <3>. QED
        BY <1>2, <3>1, <3>2, <3>3, FirstOpen
    <2>5. AcceptedIsWhole'
      BY <2>1, <2>3 DEF AcceptedIsWhole
    <2>6. OpenInv'
      <3>1. accepted' \/ OpenTasks(roadmap') # {}
        BY <1>1, <2>1, <2>4 DEF repoVars
      <3>. QED
        BY <2>1, <3>1 DEF OpenInv, Busy, OpenTasks
    <2>. QED
      BY <2>2, <2>5, <2>6
  <1>. QED
    BY <1>3, <1>4

(* Where an iteration begins: with nothing left open the loop ends, and    *)
(* then the last iteration was accepted or there was none.                 *)
LEMMA StartStep ==
  LoopTypes /\ OpenInv /\ AcceptedIsWhole /\ IterationStarts =>
    (OpenInv /\ AcceptedIsWhole /\ SuccessMeansDone)'
  <1>. HAVE LoopTypes /\ OpenInv /\ AcceptedIsWhole /\ IterationStarts
  <1>1. phase = "iteration" /\ UNCHANGED <<repoVars, loopVars, seenVars>> /\ roadmap \in Seq(Task)
    BY DEF IterationStarts, LoopTypes
  <1>2. CASE phase' = "exited" /\ code' = 1
    BY <1>2, ExitStep
  <1>3. CASE phase' = "maker" /\ text' = roadmap /\ open_task_count(roadmap) # 0
    <2>1. OpenTasks(roadmap) # {}
      BY <1>1, <1>3, FirstOpen
    <2>2. OpenTasks(text') # {}
      BY <1>3, <2>1
    <2>. QED
      BY <1>3, <2>2, CycleStep
  <1>4. CASE phase' = "exited" /\ code' = 0 /\ open_task_count(roadmap) = 0
    <2>1. OpenTasks(roadmap) = {}
      BY <1>1, <1>4, FirstOpen
    <2>2. ~Dirty /\ (iteration > 1 => upstream = commits /\ accepted)
      <3>1. accepted \/ (iteration = 1 /\ ~Dirty)
        BY <1>1, <2>1 DEF OpenInv
      <3>2. accepted => ~Dirty /\ upstream = commits
        BY <1>1 DEF AcceptedIsWhole, Dirty
      <3>. QED
        BY <3>1, <3>2
    <2>3. ~Dirty' /\ open_task_count(roadmap)' = 0 /\ (iteration > 1 => upstream = commits /\ accepted)'
      BY <1>1, <1>4, <2>2 DEF Dirty, repoVars, loopVars, seenVars, open_task_count
    <2>4. SuccessMeansDone'
      BY <1>1, <2>3 DEF SuccessMeansDone, loopVars
    <2>5. OpenInv'
      BY <1>4 DEF OpenInv, Busy
    <2>6. AcceptedIsWhole'
      BY <1>4 DEF AcceptedIsWhole
    <2>. QED
      BY <2>4, <2>5, <2>6
  <1>5. \/ phase' = "exited" /\ code' = 1
        \/ phase' = "maker" /\ text' = roadmap /\ open_task_count(roadmap) # 0
        \/ phase' = "exited" /\ code' = 0 /\ open_task_count(roadmap) = 0
    BY Zenon DEF IterationStarts, Exits, Keeps
  <1>. QED
    BY <1>2, <1>3, <1>4, <1>5

LEMMA FirstStep ==
  OpenInv /\ Starts => (OpenInv /\ AcceptedIsWhole /\ SuccessMeansDone)'
  <1>. HAVE OpenInv /\ Starts
  <1>1. phase = "starting" /\ UNCHANGED <<repoVars, loopVars, startVars, seenVars>>
    BY DEF Starts
  <1>2. CASE phase' = "exited" /\ code' = 2
    BY <1>2, ExitStep
  <1>3. CASE phase' = "iteration" /\ ~Dirty
    <2>1. ~accepted' /\ iteration' = 1
      BY <1>1 DEF OpenInv, loopVars, seenVars
    <2>2. ~Dirty'
      BY <1>1, <1>3 DEF repoVars, Dirty
    <2>3. OpenInv'
      BY <1>3, <2>1, <2>2 DEF OpenInv, Busy
    <2>4. AcceptedIsWhole'
      BY <2>1 DEF AcceptedIsWhole
    <2>5. SuccessMeansDone'
      BY <1>3 DEF SuccessMeansDone
    <2>. QED
      BY <2>3, <2>4, <2>5
  <1>4. \/ phase' = "exited" /\ code' = 2
        \/ phase' = "iteration" /\ ~Dirty
    BY Zenon DEF Starts, Exits, Keeps
  <1>. QED
    BY <1>2, <1>3, <1>4

(* Within a cycle: the task it began with stays the one it is about.       *)
LEMMA AgentStep ==
  ASSUME OpenInv, MakerRuns \/ CheckerRuns \/ MakerReviewed
  PROVE  (OpenInv /\ AcceptedIsWhole /\ SuccessMeansDone)'
  <1>1. Busy /\ text' = text
    BY DEF MakerRuns, CheckerRuns, MakerReviewed, Busy, startVars
  <1>2. OpenTasks(text') # {}
    BY <1>1 DEF OpenInv
  <1>3. \/ phase' = "exited" /\ code' = 1
        \/ phase' \in {"after maker", "checker", "after checker"}
    <2>1. CASE MakerRuns
      BY <2>1 DEF MakerRuns, Runs, Keeps
    <2>2. CASE CheckerRuns
      BY <2>2 DEF CheckerRuns, Runs, Keeps
    <2>3. CASE MakerReviewed
      BY <2>3 DEF MakerReviewed, Exits, Keeps
    <2>. QED
      BY <2>1, <2>2, <2>3
  <1>4. CASE phase' = "exited" /\ code' = 1
    BY <1>4, ExitStep
  <1>5. CASE phase' \in {"after maker", "checker", "after checker"}
    <2>1. phase' \in {"maker", "after maker", "checker", "after checker"}
      BY <1>5
    <2>. QED
      BY <1>2, <2>1, CycleStep
  <1>. QED
    BY <1>3, <1>4, <1>5

LEMMA FailStep ==
  ASSUME AgentFails \/ GitFails
  PROVE  (OpenInv /\ AcceptedIsWhole /\ SuccessMeansDone)'
  <1>1. CASE AgentFails
    <2>1. PICK outcome \in {1, 3} : Exits(outcome)
      BY <1>1 DEF AgentFails
    <2>. QED
      BY <2>1, ExitStep DEF Exits
  <1>2. CASE GitFails
    <2>1. phase' = "exited" /\ code' = 1
      BY <1>2, Zenon DEF GitFails, Exits
    <2>. QED
      BY <2>1, ExitStep
  <1>. QED
    BY <1>1, <1>2

LEMMA StutterStep ==
  ASSUME OpenInv, AcceptedIsWhole, SuccessMeansDone, UNCHANGED vars
  PROVE  (OpenInv /\ AcceptedIsWhole /\ SuccessMeansDone)'
  <1>1. UNCHANGED <<roadmap, changed, commits, diverged, branch, upstream, phase, code, iteration,
                    text, starting_commits, starting_branch, accepted>>
    BY DEF vars, repoVars, startVars, loopVars, seenVars
  <1>2. OpenInv'
    BY <1>1 DEF OpenInv, Busy, Dirty, OpenTasks
  <1>3. AcceptedIsWhole'
    BY <1>1, Zenon DEF AcceptedIsWhole, OpenTasks, current_task_index, first_open_task_index
  <1>4. SuccessMeansDone'
    BY <1>1, Zenon DEF SuccessMeansDone, Dirty, open_task_count
  <1>. QED
    BY <1>2, <1>3, <1>4

LEMMA LoopStep == LoopInv /\ [Next]_vars => LoopInv'
  <1>. HAVE LoopInv /\ [Next]_vars
  <1>1. LoopTypes' /\ StallInv' /\ LoopTypes /\ OpenInv /\ AcceptedIsWhole /\ SuccessMeansDone
    BY TypesStep, StallStep, Zenon DEF LoopInv
  <1>2. (OpenInv /\ AcceptedIsWhole /\ SuccessMeansDone)'
    BY <1>1, FirstStep, StartStep, AgentStep, ReviewStep, FailStep, StutterStep, Zenon DEF Next
  <1>. QED
    BY <1>1, <1>2 DEF LoopInv

-----------------------------------------------------------------------------
LEMMA LoopInvariant == Spec => []LoopInv
  BY InitLoop, LoopStep, PTL DEF Spec

(* Whatever the agents leave, an iteration that counts as done was one     *)
(* whole, published commit that completed the task it was about and        *)
(* changed no other mark.                                                  *)
THEOREM LoopAccepts == Spec => []AcceptedIsWhole
  <1>1. LoopInv => AcceptedIsWhole
    BY DEF LoopInv
  <1>. QED
    BY <1>1, LoopInvariant, PTL

(* The loop reports success only when all is done and published.           *)
THEOREM LoopSucceeds == Spec => []SuccessMeansDone
  <1>1. LoopInv => SuccessMeansDone
    BY DEF LoopInv
  <1>. QED
    BY <1>1, LoopInvariant, PTL

(* It never starts a fourth cycle after three that completed nothing.      *)
THEOREM LoopStalls == Spec => []StallGuard
  <1>1. StallInv => StallGuard
    BY DEF StallInv, StallGuard
  <1>2. LoopInv => StallGuard
    BY <1>1 DEF LoopInv
  <1>. QED
    BY <1>2, LoopInvariant, PTL

-----------------------------------------------------------------------------
(* The cross-decode gate, which shares nothing with the loop: the stages   *)
(* it goes through, and the cases that a stage is done with.               *)

Stages == {"node writes", "python writes", "go starts", "go checks", "node reads",
           "python verifies", "passed"}

Rank(s) == IF s = "node writes" THEN 1 ELSE IF s = "python writes" THEN 2
           ELSE IF s = "go starts" THEN 3 ELSE IF s = "go checks" THEN 4
           ELSE IF s = "node reads" THEN 5 ELSE IF s = "python verifies" THEN 6 ELSE 7

Finished == {list[i] : i \in 1..done}

Past(n) == IF Rank(stage) > n THEN Range(list) ELSE IF Rank(stage) = n THEN Finished ELSE {}

GateTypes ==
  /\ manifest \in [Gate!Ids -> Gate!Faults] /\ alone \in BOOLEAN /\ python \in BOOLEAN
  /\ list \in Seq(STRING) /\ done \in Nat /\ stage \in Stages
  /\ status \in {"running", "passed", "failed"}
  /\ files \in [{"node", "python"} -> [Gate!Ids -> Containers \cup {Gate!Absent}]]
  /\ encodes \in [Gate!SDKs -> [Gate!Ids -> Containers \cup {Gate!Throws, Gate!Unseen}]]
  /\ decodes \in [Gate!SDKs -> [Gate!Ids -> [Containers -> Gate!Decodings \cup {Gate!Unseen}]]]

(* What each stage has shown of a case.                                    *)
Wrote(s, c) == encodes[s][c] \in Containers /\ files[s][c] = encodes[s][c]

Checked(c) ==
  /\ manifest[c] = "none" /\ encodes["go"][c] \in Containers
  /\ \A s \in Gate!GoReads : files[s][c] = encodes["go"][c]
  /\ decodes["go"][c][encodes["go"][c]] = "right"

TakenBy(s, c) == decodes[s][c][encodes["go"][c]] = "right"

StageInv ==
  /\ status = "running" /\ Rank(stage) # 3 => done < Len(list)
  /\ status = "running" => Rank(stage) # 7
  /\ status = "passed" => Rank(stage) = 7
  /\ Rank(stage) = 3 => done = 0
  /\ alone => Rank(stage) \in {3, 4, 7}
  /\ ~alone => list = Cases /\ python

ShownInv ==
  /\ ~alone => /\ \A c \in Past(1) : Wrote("node", c)
               /\ \A c \in Past(2) : Wrote("python", c)
  /\ Rank(stage) > 3 => Gate!parseCaseIDs(list) /\ Gate!readManifest
  /\ \A c \in Past(4) : Checked(c)
  /\ ~alone => /\ \A c \in Past(5) : TakenBy("node", c)
               /\ \A c \in Past(6) : TakenBy("python", c)

GateInv == GateTypes /\ StageInv /\ (status # "failed" => ShownInv)

LEMMA Ranked == \A s \in Stages : Rank(s) \in Nat
  BY DEF Rank, Stages

LEMMA RankOfLast == \A s \in Stages : s = "passed" <=> Rank(s) = 7
  <1>1. Rank("passed") = 7
    BY DEF Rank
  <1>2. ASSUME NEW s \in Stages, s # "passed"
        PROVE  Rank(s) # 7
    <2>1. Rank("node writes") # 7
      BY DEF Rank
    <2>2. Rank("python writes") # 7
      BY DEF Rank
    <2>3. Rank("go starts") # 7
      BY DEF Rank
    <2>4. Rank("go checks") # 7
      BY DEF Rank
    <2>5. Rank("node reads") # 7
      BY DEF Rank
    <2>6. Rank("python verifies") # 7
      BY DEF Rank
    <2>. QED
      BY <1>2, <2>1, <2>2, <2>3, <2>4, <2>5, <2>6, Zenon DEF Stages
  <1>. QED
    BY <1>1, <1>2, Zenon

(* Stage n goes on, perhaps to stage m: it may be done with one more case, *)
(* the stages before it stay done, and those from m on have not begun.     *)
Goes(n, m) ==
  /\ Rank(stage') \in {n, m} /\ stage' \in Stages /\ done' \in Nat /\ status' \in {"running", "passed", "failed"}
  /\ Past(n)' \subseteq Past(n) \cup {Gate!Case}
  /\ \A k \in 1..6 : k < n => Past(k)' \subseteq Range(list) /\ Past(k) = Range(list)
  /\ \A k \in 1..6 : k >= m => Past(k)' = {}
  /\ Gate!Case \in Range(list)

LEMMA ContinueGoes ==
  ASSUME GateTypes, status = "running", done < Len(list), NEW next \in Stages,
         NEW n \in 1..6, Rank(stage) = n, Rank(next) > n, list' = list, Gate!Continue(next)
  PROVE  /\ Goes(n, Rank(next))
         /\ status' = IF Rank(stage') = 7 THEN "passed" ELSE "running"
         /\ 0 < Len(list) /\ done' < Len(list)
         /\ stage' = stage \/ done' = 0
  <1>1. Len(list) \in Nat /\ DOMAIN list = 1..Len(list) /\ done \in Nat /\ done + 1 \in 1..Len(list)
    BY DEF GateTypes
  <1>2. done \in Nat /\ done + 1 \in Nat /\ done + 1 <= Len(list)
    BY DEF GateTypes
  <1>3. 0 < Len(list)
    BY <1>2
  <1>4. Gate!Case \in Range(list) /\ Gate!Case = list[done + 1]
    BY <1>1 DEF Gate!Case, Range
  <1>5. status' = IF next = "passed" /\ done + 1 = Len(list) THEN "passed" ELSE "running"
    BY DEF Gate!Continue
  <1>6. \A k \in 1..6 : /\ k < n => Past(k) = Range(list)
                        /\ k > n => Past(k) = {}
                        /\ k = n => Past(k) = Finished
    BY Ranked DEF Past
  <1>7. CASE done + 1 < Len(list)
    <2>1. done' = done + 1 /\ stage' = stage
      BY <1>7 DEF Gate!Continue
    <2>2. \A k \in 1..6 : /\ k < n => Past(k)' = Range(list)
                          /\ k > n => Past(k)' = {}
                          /\ k = n => Past(k)' = Finished'
      BY <2>1, Ranked DEF Past
    <2>3. Finished' \subseteq Finished \cup {list[done + 1]}
      BY <1>1, <2>1 DEF Finished
    <2>4. Past(n)' \subseteq Past(n) \cup {Gate!Case}
      BY <1>4, <1>6, <2>2, <2>3
    <2>5. stage' \in Stages /\ done' \in Nat /\ status' \in {"running", "passed", "failed"}
      BY <1>5, <1>2, <2>1 DEF GateTypes
    <2>6. Goes(n, Rank(next))
      <3>. DEFINE m == Rank(next)
      <3>1. m \in Nat /\ n < m
        BY Ranked
      <3>. HIDE DEF m
      <3>2. Rank(stage') = n
        BY <2>1
      <3>3. \A k \in 1..6 : k >= m => k > n
        BY <3>1
      <3>4. Goes(n, m)
        BY <1>1, <1>4, <1>6, <2>2, <2>4, <2>5, <3>2, <3>3 DEF Goes
      <3>. QED
        BY <3>4 DEF m
    <2>7. done + 1 # Len(list)
      BY <1>7, <1>2
    <2>8. status' = "running"
      BY <1>5, <2>7, Zenon
    <2>9. done' < Len(list) /\ Rank(stage') # 7
      BY <1>7, <2>1
    <2>. QED
      BY <1>3, <2>1, <2>8, <2>6, <2>9, Zenon
  <1>8. CASE ~(done + 1 < Len(list))
    <2>1. done' = 0 /\ stage' = next
      BY <1>8 DEF Gate!Continue
    <2>. DEFINE m == Rank(next)
    <2>2. m \in Nat /\ Rank(stage') = m /\ n < m
      BY <2>1, Ranked
    <2>. HIDE DEF m
    <2>3. Finished' = {}
      BY <2>1 DEF Finished
    <2>4. \A k \in 1..6 : /\ k < m => Past(k)' = Range(list)
                          /\ k >= m => Past(k)' = {}
      BY <2>2, <2>3 DEF Past
    <2>5. done + 1 = Len(list)
      BY <1>8, <1>2
    <2>6. Range(list) \subseteq Finished \cup {list[done + 1]}
      BY <1>1, <2>5 DEF Range, Finished
    <2>7. Past(n)' \subseteq Past(n) \cup {Gate!Case}
      BY <1>4, <1>6, <2>4, <2>6, <2>2
    <2>8. \A k \in 1..6 : k < n => Past(k)' \subseteq Range(list)
      BY <2>4, <2>2
    <2>9. Goes(n, m)
      BY <1>1, <1>4, <1>5, <1>6, <2>1, <2>4, <2>7, <2>8, <2>2 DEF Goes
    <2>10. next = "passed" <=> Rank(stage') = 7
      BY <2>1, RankOfLast, Zenon
    <2>11. status' = IF Rank(stage') = 7 THEN "passed" ELSE "running"
      BY <1>5, <2>5, <2>10, Zenon
    <2>12. done' < Len(list)
      BY <1>3, <2>1
    <2>. QED
      BY <1>3, <2>1, <2>9, <2>11, <2>12, Zenon DEF m
  <1>. QED
    BY <1>7, <1>8

(* What the SDKs may still do is of the right kind.                        *)
LEMMA StillPossible ==
  ASSUME GateTypes, Gate!GateAssumption, NEW s \in Gate!SDKs, NEW c \in Gate!Ids
  PROVE  /\ Gate!Encodings(s, c) \subseteq Containers \cup {Gate!Throws}
         /\ \A x \in Containers : Gate!Readings(s, c, x) \subseteq Gate!Decodings
  <1>1. encodes[s][c] \in Containers \cup {Gate!Throws, Gate!Unseen}
    BY DEF GateTypes
  <1>2. \A x \in Containers : decodes[s][c][x] \in Gate!Decodings \cup {Gate!Unseen}
    BY DEF GateTypes
  <1>. QED
    BY <1>1, <1>2 DEF Gate!Encodings, Gate!Readings

(* A step that fails leaves only the types to show.                        *)
LEMMA FailGate ==
  ASSUME GateTypes, StageInv, Gate!Fail, UNCHANGED <<alone, list, python>>
  PROVE  StageInv' /\ status' = "failed" /\ stage' = stage /\ done' = done
  BY DEF StageInv, Gate!Fail

(* What a stage needs to go on, and what becomes of it.                    *)
LEMMA StageGoes ==
  ASSUME GateTypes, StageInv, NEW n \in 1..6, NEW next \in Stages, status = "running",
         n # 3, Rank(stage) = n, Rank(next) > n, alone => Rank(next) = 7,
         UNCHANGED <<alone, list, python>>, Gate!Continue(next)
  PROVE  Goes(n, Rank(next)) /\ StageInv' /\ status' # "failed"
  <1>1. done < Len(list) /\ list' = list
    BY DEF StageInv
  <1>2. /\ Goes(n, Rank(next))
        /\ status' = IF Rank(stage') = 7 THEN "passed" ELSE "running"
        /\ 0 < Len(list) /\ done' < Len(list)
        /\ stage' = stage \/ done' = 0
    BY <1>1, ContinueGoes, Zenon
  <1>3. Rank(next) \in Nat /\ Rank(stage') \in {n, Rank(next)}
    BY <1>2, Ranked DEF Goes
  <1>4. alone => Rank(stage') \in {3, 4, 7}
    BY <1>3 DEF StageInv
  <1>5. Rank(stage') = 3 => done' = 0
    BY <1>2
  <1>. QED
    BY <1>1, <1>2, <1>4, <1>5 DEF StageInv

(* The cases of the gate are those of the list it goes through.            *)
LEMMA CaseKnown ==
  ASSUME Gate!GateAssumption, GateInv, status = "running", NEW n \in 1..6, n # 3,
         Rank(stage) = n
  PROVE  Gate!Case \in Gate!Ids /\ Gate!Case \in Range(list) /\ Range(list) \subseteq Gate!Ids
  <1>1. done < Len(list) /\ done \in Nat /\ list \in Seq(STRING)
    BY DEF GateInv, GateTypes, StageInv
  <1>2. done + 1 \in DOMAIN list
    <2>1. Len(list) \in Nat /\ DOMAIN list = 1..Len(list)
      BY <1>1
    <2>. QED
      BY <1>1, <2>1
  <1>3. Gate!Case \in Range(list)
    BY <1>2 DEF Gate!Case, Range
  <1>4. CASE ~alone
    <2>1. list = Cases
      BY <1>4 DEF GateInv, StageInv
    <2>. QED
      BY <1>3, <2>1 DEF Gate!Ids, Gate!Range, Range
  <1>5. CASE alone
    <2>1. n > 3
      BY <1>5 DEF GateInv, StageInv
    <2>2. Gate!parseCaseIDs(list)
      BY <2>1 DEF GateInv, ShownInv
    <2>3. \A i \in DOMAIN list : list[i] \in Gate!Ids
      BY <2>2 DEF Gate!parseCaseIDs
    <2>. QED
      BY <1>3, <2>3 DEF Range
  <1>. QED
    BY <1>4, <1>5

LEMMA WritesTypes ==
  ASSUME Gate!GateAssumption, GateInv, status = "running", NEW s \in {"node", "python"},
         NEW refused, NEW next \in Stages, Gate!Case \in Gate!Ids, Gate!Writes(s, refused, next)
  PROVE  /\ UNCHANGED <<manifest, alone, list, python, decodes>>
         /\ files' \in [{"node", "python"} -> [Gate!Ids -> Containers \cup {Gate!Absent}]]
         /\ encodes' \in [Gate!SDKs -> [Gate!Ids -> Containers \cup {Gate!Throws, Gate!Unseen}]]
         /\ Gate!Fail \/ Gate!Continue(next)
         /\ \A c \in Gate!Ids : Gate!Continue(next) /\ ~Gate!Fail =>
              /\ c = Gate!Case \/ Wrote(s, c) => Wrote(s, c)'
              /\ \A r \in {"node", "python"} : r # s /\ Wrote(r, c) => Wrote(r, c)'
  <1>1. s \in Gate!SDKs
    BY DEF Gate!SDKs
  <1>2. GateTypes
    BY DEF GateInv
  <1>3. PICK container \in Gate!Encodings(s, Gate!Case) :
          IF manifest[Gate!Case] \in refused
          THEN Gate!Fail /\ UNCHANGED <<Gate!inputVars, files, encodes, decodes>>
          ELSE /\ encodes' = [encodes EXCEPT ![s][Gate!Case] = container]
               /\ files' = IF container = Gate!Throws THEN files
                           ELSE [files EXCEPT ![s][Gate!Case] = container]
               /\ IF container = Gate!Throws THEN Gate!Fail ELSE Gate!Continue(next)
               /\ UNCHANGED <<Gate!inputVars, decodes>>
    BY Zenon DEF Gate!Writes
  <1>4. container \in Containers \cup {Gate!Throws}
    BY <1>1, <1>2, StillPossible
  <1>5. UNCHANGED <<manifest, alone, list, python, decodes>>
    BY <1>3 DEF Gate!inputVars
  <1>6. files \in [{"node", "python"} -> [Gate!Ids -> Containers \cup {Gate!Absent}]]
    BY <1>2, Zenon DEF GateTypes
  <1>7. encodes \in [Gate!SDKs -> [Gate!Ids -> Containers \cup {Gate!Throws, Gate!Unseen}]]
    BY <1>2, Zenon DEF GateTypes
  <1>8. files' \in [{"node", "python"} -> [Gate!Ids -> Containers \cup {Gate!Absent}]]
    BY <1>3, <1>4, <1>6
  <1>9. encodes' \in [Gate!SDKs -> [Gate!Ids -> Containers \cup {Gate!Throws, Gate!Unseen}]]
    BY <1>1, <1>3, <1>4, <1>7
  <1>10. Gate!Fail \/ Gate!Continue(next)
    BY <1>3
  <1>11. ASSUME NEW c \in Gate!Ids, Gate!Continue(next), ~Gate!Fail
         PROVE  /\ c = Gate!Case \/ Wrote(s, c) => Wrote(s, c)'
                /\ \A r \in {"node", "python"} : r # s /\ Wrote(r, c) => Wrote(r, c)'
    <2>1. /\ container \in Containers
          /\ encodes' = [encodes EXCEPT ![s][Gate!Case] = container]
          /\ files' = [files EXCEPT ![s][Gate!Case] = container]
      BY <1>3, <1>4, <1>11
    <2>2. encodes'[s][c] = (IF c = Gate!Case THEN container ELSE encodes[s][c])
      BY <1>1, <1>7, <2>1
    <2>3. files'[s][c] = (IF c = Gate!Case THEN container ELSE files[s][c])
      BY <1>6, <2>1
    <2>4. ASSUME NEW r \in {"node", "python"}, r # s
          PROVE  encodes'[r] = encodes[r] /\ files'[r] = files[r]
      BY <1>6, <1>7, <2>1, <2>4 DEF Gate!SDKs
    <2>. QED
      BY <2>1, <2>2, <2>3, <2>4 DEF Wrote
  <1>. QED
    BY <1>5, <1>8, <1>9, <1>10, <1>11

LEMMA WritesStep ==
  ASSUME Gate!GateAssumption, GateInv, status = "running", NEW s \in {"node", "python"},
         NEW refused, NEW next \in Stages, NEW n \in {1, 2}, n = 1 <=> s = "node",
         Rank(stage) = n, Rank(next) = n + 1, Gate!Writes(s, refused, next)
  PROVE  GateInv'
  <1>1. Gate!Case \in Gate!Ids /\ Gate!Case \in Range(list) /\ Range(list) \subseteq Gate!Ids
    BY CaseKnown
  <1>2. GateTypes /\ StageInv /\ ShownInv /\ ~alone
    BY DEF GateInv, StageInv
  <1>3. /\ UNCHANGED <<manifest, alone, list, python, decodes>>
        /\ files' \in [{"node", "python"} -> [Gate!Ids -> Containers \cup {Gate!Absent}]]
        /\ encodes' \in [Gate!SDKs -> [Gate!Ids -> Containers \cup {Gate!Throws, Gate!Unseen}]]
        /\ Gate!Fail \/ Gate!Continue(next)
        /\ \A c \in Gate!Ids : Gate!Continue(next) /\ ~Gate!Fail =>
             /\ c = Gate!Case \/ Wrote(s, c) => Wrote(s, c)'
             /\ \A r \in {"node", "python"} : r # s /\ Wrote(r, c) => Wrote(r, c)'
    BY <1>1, WritesTypes
  <1>4. CASE Gate!Fail
    <2>1. StageInv' /\ status' = "failed" /\ stage' = stage /\ done' = done
      BY <1>2, <1>3, <1>4, FailGate
    <2>2. GateTypes'
      BY <1>2, <1>3, <2>1 DEF GateTypes
    <2>. QED
      BY <2>1, <2>2 DEF GateInv
  <1>5. CASE Gate!Continue(next) /\ ~Gate!Fail
    <2>1. Goes(n, Rank(next)) /\ StageInv' /\ status' # "failed"
      BY <1>2, <1>3, <1>5, StageGoes
    <2>2. GateTypes'
      BY <1>2, <1>3, <2>1 DEF GateTypes, Goes
    <2>3. /\ \A k \in 1..6 : k > n => Past(k)' = {}
          /\ ~(Rank(stage') > 3)
      BY <2>1 DEF Goes
    <2>4. /\ Past(n)' \subseteq Past(n) \cup {Gate!Case}
          /\ \A k \in 1..6 : k < n => Past(k)' \subseteq Range(list) /\ Past(k) = Range(list)
      BY <2>1 DEF Goes
    <2>5. Past(n) \subseteq Gate!Ids
      BY <1>1 DEF Past, Finished, Range, GateTypes, GateInv, StageInv
    <2>6. ASSUME NEW c \in Past(1)'
          PROVE  Wrote("node", c)'
      <3>1. CASE n = 1
        BY <1>1, <1>2, <1>3, <1>5, <2>4, <2>5, <2>6, <3>1 DEF ShownInv
      <3>2. CASE n = 2
        BY <1>1, <1>2, <1>3, <1>5, <2>4, <2>6, <3>2 DEF ShownInv
      <3>. QED
        BY <3>1, <3>2
    <2>7. ASSUME NEW c \in Past(2)'
          PROVE  Wrote("python", c)'
      <3>1. n = 2 /\ s = "python"
        BY <2>3, <2>7
      <3>. QED
        BY <1>1, <1>2, <1>3, <1>5, <2>4, <2>5, <2>7, <3>1 DEF ShownInv
    <2>8. ShownInv'
      BY <2>3, <2>6, <2>7 DEF ShownInv
    <2>. QED
      BY <2>1, <2>2, <2>8 DEF GateInv
  <1>. QED
    BY <1>3, <1>4, <1>5

LEMMA RankOfChecks == Rank("go starts") = 3
  BY DEF Rank

LEMMA GoStartsStep ==
  ASSUME Gate!GateAssumption, GateInv, Gate!GoStarts
  PROVE  GateInv'
  <1>1. /\ status = "running" /\ stage = "go starts"
        /\ UNCHANGED <<manifest, alone, list, python, files, encodes, decodes>>
    BY DEF Gate!GoStarts, Gate!At, Gate!inputVars
  <1>2. GateTypes /\ StageInv /\ ShownInv
    BY <1>1 DEF GateInv
  <1>3. Rank(stage) = 3
    BY <1>1, RankOfChecks, Zenon
  <1>4. CASE Gate!parseCaseIDs(list) /\ Gate!readManifest
    <2>1. stage' = "go checks" /\ done' = done /\ status' = status
      BY <1>4 DEF Gate!GoStarts
    <2>2. Rank("go checks") = 4
      BY DEF Rank
    <2>3. Rank(stage') = 4
      BY <2>1, <2>2, Zenon
    <2>4. stage' \in Stages
      BY <2>1, Zenon DEF Stages
    <2>5. GateTypes'
      BY <1>1, <1>2, <2>1, <2>4, Zenon DEF GateTypes
    <2>6. done = 0 /\ list # <<>> /\ list \in Seq(STRING)
      BY <1>2, <1>3, <1>4 DEF StageInv, GateTypes, Gate!parseCaseIDs
    <2>7. Len(list) > 0
      BY <2>6
    <2>8. /\ UNCHANGED <<alone, list, python, done, status>>
           /\ status = "running" /\ done = 0
      BY <1>1, <2>1, <2>6, Zenon
    <2>9. StageInv'
      BY <1>2, <1>3, <2>3, <2>7, <2>8 DEF StageInv
    <2>10. /\ Past(1)' = Past(1) /\ Past(2)' = Past(2)
          /\ Past(4)' = {} /\ Past(5)' = {} /\ Past(6)' = {}
      <3>1. Finished' = {}
        BY <2>8 DEF Finished
      <3>2. list' = list
        BY <1>1
      <3>. QED
        BY <1>3, <2>3, <3>1, <3>2 DEF Past
    <2>11. ShownInv'
      <3>1. Gate!parseCaseIDs(list)' /\ Gate!readManifest'
        BY <1>1, <1>4 DEF Gate!parseCaseIDs, Gate!readManifest
      <3>2. \A s, c : Wrote(s, c)' <=> Wrote(s, c)
        BY <1>1 DEF Wrote
      <3>3. alone' = alone
        BY <1>1
      <3>. QED
        BY <1>2, <2>10, <3>1, <3>2, <3>3, Zenon DEF ShownInv
    <2>. QED
      BY <2>5, <2>9, <2>11 DEF GateInv
  <1>5. CASE ~(Gate!parseCaseIDs(list) /\ Gate!readManifest)
    <2>1. Gate!Fail
      BY <1>5 DEF Gate!GoStarts
    <2>2. StageInv' /\ status' = "failed" /\ stage' = stage /\ done' = done
      BY <1>1, <1>2, <2>1, FailGate
    <2>3. GateTypes'
      BY <1>1, <1>2, <2>2, Zenon DEF GateTypes
    <2>. QED
      BY <2>2, <2>3 DEF GateInv
  <1>. QED
    BY <1>4, <1>5

(* What an SDK that looks at some containers of a case is seen to make of  *)
(* them: the same of the same container.                                   *)
Looked(seen, container, reading, before) ==
  [x \in Containers |-> IF \E p \in seen : container[p] = x
                        THEN reading[CHOOSE p \in seen : container[p] = x] ELSE before[x]]

LEMMA LookedIs ==
  ASSUME NEW seen, NEW container, NEW reading, NEW before \in [Containers -> Gate!Decodings \cup {Gate!Unseen}],
         \A p \in seen : reading[p] \in Gate!Decodings,
         \A p, q \in seen : container[p] = container[q] => reading[p] = reading[q]
  PROVE  /\ Looked(seen, container, reading, before) \in [Containers -> Gate!Decodings \cup {Gate!Unseen}]
         /\ \A p \in seen : container[p] \in Containers =>
              Looked(seen, container, reading, before)[container[p]] = reading[p]
  <1>1. ASSUME NEW x \in Containers, \E p \in seen : container[p] = x
        PROVE  /\ (CHOOSE p \in seen : container[p] = x) \in seen
               /\ container[CHOOSE p \in seen : container[p] = x] = x
    BY <1>1
  <1>2. ASSUME NEW x \in Containers
        PROVE  (IF \E p \in seen : container[p] = x
                THEN reading[CHOOSE p \in seen : container[p] = x] ELSE before[x])
                 \in Gate!Decodings \cup {Gate!Unseen}
    BY <1>1
  <1>3. ASSUME NEW p \in seen, container[p] \in Containers
        PROVE  Looked(seen, container, reading, before)[container[p]] = reading[p]
    <2>1. Looked(seen, container, reading, before)[container[p]]
            = reading[CHOOSE q \in seen : container[q] = container[p]]
      BY <1>3 DEF Looked
    <2>2. /\ (CHOOSE q \in seen : container[q] = container[p]) \in seen
          /\ container[CHOOSE q \in seen : container[q] = container[p]] = container[p]
      BY <1>1, <1>3
    <2>. QED
      BY <2>1, <2>2
  <1>. QED
    BY <1>2, <1>3 DEF Looked

(* What Go's check of a case does, and what it shows if Go goes on.        *)
ChecksMove(next) ==
  /\ UNCHANGED <<manifest, alone, list, python, files>>
  /\ \E fresh : encodes' = encodes \/ encodes' = [encodes EXCEPT !["go"][Gate!Case] = fresh]
  /\ \E made : decodes' = decodes \/ decodes' = [decodes EXCEPT !["go"][Gate!Case] = made]
  /\ encodes' \in [Gate!SDKs -> [Gate!Ids -> Containers \cup {Gate!Throws, Gate!Unseen}]]
  /\ decodes' \in [Gate!SDKs -> [Gate!Ids -> [Containers -> Gate!Decodings \cup {Gate!Unseen}]]]
  /\ \/ Gate!Fail
     \/ /\ Gate!Continue(next)
        /\ Gate!readManifest => \A c \in Gate!Ids : c = Gate!Case => Checked(c)'

LEMMA ChecksParts ==
  ASSUME Gate!GateAssumption, GateInv, Gate!GoChecks, Gate!Case \in Gate!Ids
  PROVE  ChecksMove(IF alone THEN "passed" ELSE "node reads")
  <1>1. "go" \in Gate!SDKs /\ "node" \in Gate!GoReads /\ Gate!GoReads \subseteq {"node", "python"}
    BY DEF Gate!SDKs, Gate!GoReads
  <1>2. GateTypes
    BY DEF GateInv
  <1>3. UNCHANGED <<manifest, alone, list, python, files>>
    BY Zenon DEF Gate!GoChecks, Gate!inputVars
  <1>4. encodes \in [Gate!SDKs -> [Gate!Ids -> Containers \cup {Gate!Throws, Gate!Unseen}]]
    BY <1>2, Zenon DEF GateTypes
  <1>5. decodes \in [Gate!SDKs -> [Gate!Ids -> [Containers -> Gate!Decodings \cup {Gate!Unseen}]]]
    BY <1>2, Zenon DEF GateTypes
  <1>6. CASE manifest[Gate!Case] \in Gate!GoRefuses
    <2>1. Gate!Fail /\ UNCHANGED <<encodes, decodes>>
      BY <1>6, Zenon DEF Gate!GoChecks
    <2>. QED
      BY <1>3, <1>4, <1>5, <2>1 DEF ChecksMove
  <1>7. CASE manifest[Gate!Case] \notin Gate!GoRefuses
    <2>. DEFINE seen(fresh, reading) == {p \in {"node", "python"} : Gate!GoLooksAt(fresh, reading, p)}
                container == [p \in {"node", "python"} |-> files[p][Gate!Case]]
                before == decodes["go"][Gate!Case]
    <2>1. PICK fresh \in Gate!Encodings("go", Gate!Case), reading \in [{"node", "python"} -> Gate!Decodings] :
            /\ \A p \in seen(fresh, reading) : reading[p] \in Gate!Readings("go", Gate!Case, files[p][Gate!Case])
            /\ \A p, q \in seen(fresh, reading) : files[p][Gate!Case] = files[q][Gate!Case] => reading[p] = reading[q]
            /\ \A p \in {"node", "python"} \ seen(fresh, reading) : reading[p] = Gate!Throws
            /\ encodes' = [encodes EXCEPT !["go"][Gate!Case] = fresh]
            /\ decodes' = [decodes EXCEPT !["go"][Gate!Case] =
                 [x \in Containers |->
                    IF \E p \in seen(fresh, reading) : files[p][Gate!Case] = x
                    THEN reading[CHOOSE p \in seen(fresh, reading) : files[p][Gate!Case] = x] ELSE @[x]]]
            /\ IF fresh # Gate!Throws /\ \A p \in Gate!GoReads : Gate!Accepts(p, fresh, reading)
               THEN Gate!Continue(IF alone THEN "passed" ELSE "node reads") ELSE Gate!Fail
      BY <1>7, Zenon DEF Gate!GoChecks
    <2>. DEFINE looks == seen(fresh, reading)
                made == Looked(looks, container, reading, before)
    <2>2. looks \subseteq {"node", "python"}
      OBVIOUS
    <2>3. \A p, q \in looks : container[p] = container[q] => reading[p] = reading[q]
      BY <2>1, <2>2
    <2>4. \A p \in looks : reading[p] \in Gate!Decodings
      BY <2>1, <2>2
    <2>5. before \in [Containers -> Gate!Decodings \cup {Gate!Unseen}]
      BY <1>1, <1>5
    <2>6. decodes' = [decodes EXCEPT !["go"][Gate!Case] = made]
      <3>1. \A x : \A p \in looks : container[p] = x <=> files[p][Gate!Case] = x
        BY <2>2
      <3>2. ASSUME NEW x
            PROVE  /\ (\E p \in looks : files[p][Gate!Case] = x) <=> \E p \in looks : container[p] = x
                   /\ (CHOOSE p \in looks : files[p][Gate!Case] = x) = (CHOOSE p \in looks : container[p] = x)
        BY <3>1
      <3>. DEFINE found == [x \in Containers |->
                              IF \E p \in looks : files[p][Gate!Case] = x
                              THEN reading[CHOOSE p \in looks : files[p][Gate!Case] = x]
                              ELSE decodes["go"][Gate!Case][x]]
      <3>3. decodes' = [decodes EXCEPT !["go"][Gate!Case] = found]
        BY <2>1, Zenon
      <3>4. found = made
        <4>. HIDE DEF looks, container
        <4>. QED
          BY <3>2, Zenon DEF Looked
      <3>. QED
        BY <3>3, <3>4, Zenon
    <2>7. /\ made \in [Containers -> Gate!Decodings \cup {Gate!Unseen}]
          /\ \A p \in looks : container[p] \in Containers => made[container[p]] = reading[p]
      <3>. HIDE DEF looks, container, before
      <3>. QED
        BY <2>3, <2>4, <2>5, LookedIs
    <2>8. encodes' = [encodes EXCEPT !["go"][Gate!Case] = fresh]
      BY <2>1
    <2>9. fresh \in Containers \cup {Gate!Throws}
      BY <1>1, <1>2, <2>1, StillPossible
    <2>10. encodes' \in [Gate!SDKs -> [Gate!Ids -> Containers \cup {Gate!Throws, Gate!Unseen}]]
      BY <1>4, <2>8, <2>9
    <2>11. decodes' \in [Gate!SDKs -> [Gate!Ids -> [Containers -> Gate!Decodings \cup {Gate!Unseen}]]]
      <3>. HIDE DEF made
      <3>. QED
        BY <1>5, <2>6, <2>7
    <2>12. ASSUME ~Gate!Fail
           PROVE  /\ Gate!Continue(IF alone THEN "passed" ELSE "node reads")
                  /\ Gate!readManifest => \A c \in Gate!Ids : c = Gate!Case => Checked(c)'
      <3>1. /\ fresh # Gate!Throws
            /\ \A p \in Gate!GoReads : Gate!Accepts(p, fresh, reading)
            /\ Gate!Continue(IF alone THEN "passed" ELSE "node reads")
        BY <2>1, <2>12
      <3>2. /\ \A p \in Gate!GoReads : files[p][Gate!Case] = fresh
            /\ files["node"][Gate!Case] # Gate!Absent /\ reading["node"] = "right"
        BY <1>1, <3>1 DEF Gate!Accepts
      <3>3. "node" \in looks
        BY <3>1, <3>2 DEF Gate!GoLooksAt
      <3>4. fresh \in Containers
        BY <2>9, <3>1
      <3>5. container["node"] = fresh
        BY <1>1, <3>2
      <3>6. made[fresh] = "right"
        <4>. HIDE DEF made, container, looks
        <4>. QED
          BY <2>7, <3>2, <3>3, <3>4, <3>5
      <3>7. encodes'["go"][Gate!Case] = fresh /\ decodes'["go"][Gate!Case] = made
        <4>. HIDE DEF made
        <4>. QED
          BY <1>1, <1>4, <1>5, <2>6, <2>8
      <3>8. Gate!readManifest => manifest[Gate!Case] = "none"
        BY <1>2, <1>7 DEF GateTypes, Gate!readManifest, Gate!GoRefuses
      <3>9. Gate!GoReads' = Gate!GoReads /\ files' = files /\ manifest' = manifest
        BY <1>3 DEF Gate!GoReads
      <3>10. Gate!readManifest => \A c \in Gate!Ids : c = Gate!Case => Checked(c)'
        <4>. HIDE DEF made
        <4>. QED
          BY <3>2, <3>4, <3>6, <3>7, <3>8, <3>9 DEF Checked
      <3>. QED
        BY <3>1, <3>10
    <2>. QED
      <3>. HIDE DEF made
      <3>. QED
        BY <1>3, <2>6, <2>8, <2>10, <2>11, <2>12 DEF ChecksMove
  <1>. QED
    BY <1>6, <1>7

(* What has been shown of a case stays, whatever is seen of another one.   *)
LEMMA StillShown ==
  ASSUME GateTypes, NEW c \in Gate!Ids, NEW x \in Gate!Ids, NEW s \in Gate!SDKs, c # x,
         UNCHANGED <<manifest, python, files>>,
         \E fresh : encodes' = encodes \/ encodes' = [encodes EXCEPT !["go"][x] = fresh],
         \E made : decodes' = decodes \/ decodes' = [decodes EXCEPT ![s][x] = made]
  PROVE  /\ Checked(c) => Checked(c)'
         /\ \A r \in {"node", "python"} : TakenBy(r, c) => TakenBy(r, c)'
  <1>1. encodes \in [Gate!SDKs -> [Gate!Ids -> Containers \cup {Gate!Throws, Gate!Unseen}]]
    BY Zenon DEF GateTypes
  <1>2. decodes \in [Gate!SDKs -> [Gate!Ids -> [Containers -> Gate!Decodings \cup {Gate!Unseen}]]]
    BY Zenon DEF GateTypes
  <1>3. encodes'["go"][c] = encodes["go"][c]
    BY <1>1 DEF Gate!SDKs
  <1>4. \A r \in Gate!SDKs : decodes'[r][c] = decodes[r][c]
    <2>1. PICK made : decodes' = decodes \/ decodes' = [decodes EXCEPT ![s][x] = made]
      OBVIOUS
    <2>2. CASE decodes' = [decodes EXCEPT ![s][x] = made]
      <3>1. decodes[s] \in [Gate!Ids -> [Containers -> Gate!Decodings \cup {Gate!Unseen}]]
        BY <1>2
      <3>2. decodes'[s] = [decodes[s] EXCEPT ![x] = made]
        BY <1>2, <2>2
      <3>3. \A r \in Gate!SDKs : r # s => decodes'[r] = decodes[r]
        BY <1>2, <2>2
      <3>4. decodes'[s][c] = decodes[s][c]
        BY <3>1, <3>2
      <3>. QED
        BY <3>3, <3>4, Zenon
    <2>. QED
      BY <2>1, <2>2
  <1>5. Gate!GoReads' = Gate!GoReads /\ files' = files /\ manifest' = manifest
    BY DEF Gate!GoReads
  <1>6. "go" \in Gate!SDKs /\ {"node", "python"} \subseteq Gate!SDKs
    BY DEF Gate!SDKs
  <1>7. Checked(c) => Checked(c)'
    BY <1>3, <1>4, <1>5, <1>6 DEF Checked
  <1>8. \A r \in {"node", "python"} : TakenBy(r, c) => TakenBy(r, c)'
    BY <1>3, <1>4, <1>6 DEF TakenBy
  <1>. QED
    BY <1>7, <1>8

(* What Node and Python wrote is not touched by what is seen of Go.        *)
LEMMA StillWritten ==
  ASSUME GateTypes, NEW x, UNCHANGED files, NEW r \in {"node", "python"}, NEW c,
         \E fresh : encodes' = encodes \/ encodes' = [encodes EXCEPT !["go"][x] = fresh]
  PROVE  Wrote(r, c) => Wrote(r, c)'
  <1>1. encodes \in [Gate!SDKs -> [Gate!Ids -> Containers \cup {Gate!Throws, Gate!Unseen}]]
    BY Zenon DEF GateTypes
  <1>2. encodes'[r] = encodes[r]
    BY <1>1 DEF Gate!SDKs
  <1>. QED
    BY <1>2 DEF Wrote

LEMMA ChecksStep ==
  ASSUME Gate!GateAssumption, GateInv, status = "running", Rank(stage) = 4, NEW next \in Stages,
         Rank(next) = (IF alone THEN 7 ELSE 5), Gate!Case \in Gate!Ids => ChecksMove(next)
  PROVE  GateInv'
  <1>1. GateTypes /\ StageInv /\ ShownInv
    BY DEF GateInv
  <1>2. Gate!Case \in Gate!Ids /\ Gate!Case \in Range(list) /\ Range(list) \subseteq Gate!Ids
    <2>1. 4 \in 1..6 /\ 4 # 3
      OBVIOUS
    <2>. QED
      BY <2>1, CaseKnown, Zenon
  <1>3. /\ UNCHANGED <<manifest, alone, list, python, files>>
        /\ \E fresh : encodes' = encodes \/ encodes' = [encodes EXCEPT !["go"][Gate!Case] = fresh]
        /\ \E made : decodes' = decodes \/ decodes' = [decodes EXCEPT !["go"][Gate!Case] = made]
        /\ encodes' \in [Gate!SDKs -> [Gate!Ids -> Containers \cup {Gate!Throws, Gate!Unseen}]]
        /\ decodes' \in [Gate!SDKs -> [Gate!Ids -> [Containers -> Gate!Decodings \cup {Gate!Unseen}]]]
        /\ \/ Gate!Fail
           \/ /\ Gate!Continue(next)
              /\ Gate!readManifest => \A c \in Gate!Ids : c = Gate!Case => Checked(c)'
    BY <1>2, Zenon DEF ChecksMove
  <1>4. CASE Gate!Fail
    <2>1. StageInv' /\ status' = "failed" /\ stage' = stage /\ done' = done
      BY <1>1, <1>3, <1>4, FailGate
    <2>2. GateTypes'
      BY <1>1, <1>3, <2>1, Zenon DEF GateTypes
    <2>. QED
      BY <2>1, <2>2 DEF GateInv
  <1>5. CASE ~Gate!Fail
    <2>1. Goes(4, Rank(next)) /\ StageInv' /\ status' # "failed"
      <3>1. 4 \in 1..6 /\ 4 # 3
        OBVIOUS
      <3>. QED
        BY <1>1, <1>3, <1>5, <3>1, StageGoes
    <2>2. GateTypes'
      <3>1. stage' \in Stages /\ done' \in Nat /\ status' \in {"running", "passed", "failed"}
        BY <2>1 DEF Goes
      <3>. QED
        BY <1>1, <1>3, <3>1, Zenon DEF GateTypes
    <2>3. Gate!parseCaseIDs(list) /\ Gate!readManifest
      BY <1>1 DEF ShownInv
    <2>4. /\ Past(4)' \subseteq Past(4) \cup {Gate!Case}
          /\ Past(1)' \subseteq Past(1) /\ Past(2)' \subseteq Past(2)
          /\ ~alone => Past(5)' = {} /\ Past(6)' = {}
      BY <2>1 DEF Goes
    <2>5. Past(4) \subseteq Gate!Ids
      BY <1>1, <1>2 DEF Past, Finished, Range, GateTypes, StageInv
    <2>6. ASSUME NEW c \in Past(4)'
          PROVE  Checked(c)'
      <3>1. CASE c = Gate!Case
        BY <1>2, <1>3, <1>5, <2>3, <3>1
      <3>2. CASE c # Gate!Case
        <4>1. c \in Gate!Ids /\ Checked(c)
          BY <1>1, <2>4, <2>5, <2>6, <3>2 DEF ShownInv
        <4>2. "go" \in Gate!SDKs /\ UNCHANGED <<manifest, python, files>>
          BY <1>3 DEF Gate!SDKs
        <4>. QED
          <5>. DEFINE x == Gate!Case
          <5>0. /\ GateTypes /\ c \in Gate!Ids /\ x \in Gate!Ids /\ c # x
                /\ \E fresh : encodes' = encodes \/ encodes' = [encodes EXCEPT !["go"][x] = fresh]
                /\ \E made : decodes' = decodes \/ decodes' = [decodes EXCEPT !["go"][x] = made]
            BY <1>1, <1>2, <1>3, <3>2, <4>1, Zenon
          <5>. HIDE DEF x
          <5>1. Checked(c) => Checked(c)'
            BY <4>2, <5>0, StillShown
          <5>. QED
            BY <4>1, <5>1
      <3>. QED
        BY <3>1, <3>2
    <2>7. ASSUME NEW c, ~alone
          PROVE  /\ c \in Past(1)' => Wrote("node", c)'
                 /\ c \in Past(2)' => Wrote("python", c)'
      <3>1. \A r \in {"node", "python"} : Wrote(r, c) => Wrote(r, c)'
        BY <1>1, <1>3, StillWritten
      <3>. QED
        BY <1>1, <2>4, <2>7, <3>1 DEF ShownInv
    <2>8. (Rank(stage) > 3 => Gate!parseCaseIDs(list) /\ Gate!readManifest)'
      BY <1>3, <2>3 DEF Gate!parseCaseIDs, Gate!readManifest
    <2>9. alone' = alone
      BY <1>3
    <2>10. ShownInv'
      BY <2>4, <2>6, <2>7, <2>8, <2>9, Zenon DEF ShownInv
    <2>. QED
      BY <2>1, <2>2, <2>10 DEF GateInv
  <1>. QED
    BY <1>4, <1>5

(* What a decoder that comes after Go does with the case it looks at: only *)
(* what is seen of it is new, and if it goes on it took Go's container.    *)
TakesMove(s, next) ==
  /\ UNCHANGED <<manifest, alone, list, python, files, encodes>>
  /\ \E made : decodes' = [decodes EXCEPT ![s][Gate!Case] = made]
  /\ decodes' \in [Gate!SDKs -> [Gate!Ids -> [Containers -> Gate!Decodings \cup {Gate!Unseen}]]]
  /\ \/ Gate!Fail
     \/ Gate!Continue(next) /\ \A c \in Gate!Ids : c = Gate!Case => TakenBy(s, c)'

LEMMA NodeParts ==
  ASSUME Gate!GateAssumption, GateInv, Gate!NodeReads, Gate!Case \in Gate!Ids,
         Checked(Gate!Case), python
  PROVE  TakesMove("node", "python verifies")
  <1>. DEFINE own    == encodes["go"][Gate!Case]
              before == decodes["node"][Gate!Case]
  <1>1. decodes \in [Gate!SDKs -> [Gate!Ids -> [Containers -> Gate!Decodings \cup {Gate!Unseen}]]]
    BY DEF GateInv, GateTypes
  <1>2. "node" \in Gate!SDKs
    BY DEF Gate!SDKs
  <1>3. own \in Containers /\ Gate!GoFile(Gate!Case) = own
    BY DEF Checked, Gate!GoFile
  <1>4. Gate!FileOf("python", Gate!Case) = own
    BY DEF Checked, Gate!GoReads, Gate!FileOf
  <1>5. before \in [Containers -> Gate!Decodings \cup {Gate!Unseen}]
    BY <1>1, <1>2
  <1>6. UNCHANGED <<manifest, alone, list, python, files, encodes>>
    BY DEF Gate!NodeReads, Gate!inputVars
  <1>. HIDE DEF own
  <1>7. PICK go \in Gate!Readings("node", Gate!Case, own), py \in Gate!Readings("node", Gate!Case, own) :
          /\ go = py
          /\ decodes' = [decodes EXCEPT !["node"][Gate!Case] = [@ EXCEPT ![own] = go, ![own] = py]]
          /\ \/ Gate!Fail
             \/ go = "right" /\ Gate!Continue("python verifies")
    BY <1>3, <1>4, Zenon DEF Gate!NodeReads
  <1>8. go \in Gate!Decodings
    BY <1>2, <1>3, <1>7, StillPossible DEF GateInv
  <1>. DEFINE made == [before EXCEPT ![own] = go]
  <1>9. decodes' = [decodes EXCEPT !["node"][Gate!Case] = made]
    <2>1. [before EXCEPT ![own] = go, ![own] = py] = made
      BY <1>5, <1>7
    <2>. QED
      BY <1>7, <2>1, Zenon
  <1>10. made \in [Containers -> Gate!Decodings \cup {Gate!Unseen}] /\ made[own] = go
    BY <1>3, <1>5, <1>8
  <1>. HIDE DEF made
  <1>11. decodes' \in [Gate!SDKs -> [Gate!Ids -> [Containers -> Gate!Decodings \cup {Gate!Unseen}]]]
    BY <1>1, <1>9, <1>10
  <1>12. decodes'["node"][Gate!Case] = made
    BY <1>1, <1>2, <1>9
  <1>13. ASSUME go = "right", NEW c \in Gate!Ids, c = Gate!Case
         PROVE  TakenBy("node", c)'
    BY <1>6, <1>10, <1>12, <1>13 DEF TakenBy, own
  <1>. QED
    BY <1>6, <1>7, <1>9, <1>11, <1>13 DEF TakesMove

LEMMA PythonParts ==
  ASSUME Gate!GateAssumption, GateInv, Gate!PythonVerifies, Gate!Case \in Gate!Ids,
         Checked(Gate!Case)
  PROVE  TakesMove("python", "passed")
  <1>. DEFINE container == [s \in Gate!SDKs |-> Gate!FileOf(s, Gate!Case)]
              before == decodes["python"][Gate!Case]
  <1>1. decodes \in [Gate!SDKs -> [Gate!Ids -> [Containers -> Gate!Decodings \cup {Gate!Unseen}]]]
    BY DEF GateInv, GateTypes
  <1>2. "python" \in Gate!SDKs /\ "go" \in Gate!SDKs
    BY DEF Gate!SDKs
  <1>3. before \in [Containers -> Gate!Decodings \cup {Gate!Unseen}]
    BY <1>1, <1>2
  <1>4. UNCHANGED <<manifest, alone, list, python, files, encodes>>
    BY DEF Gate!PythonVerifies, Gate!inputVars
  <1>5. PICK readings \in [Gate!SDKs -> Gate!Decodings] :
          /\ \A s, r \in Gate!SDKs : Gate!FileOf(s, Gate!Case) = Gate!FileOf(r, Gate!Case) => readings[s] = readings[r]
          /\ decodes' = [decodes EXCEPT !["python"][Gate!Case] =
               [x \in Containers |->
                  IF \E s \in Gate!SDKs : Gate!FileOf(s, Gate!Case) = x
                  THEN readings[CHOOSE s \in Gate!SDKs : Gate!FileOf(s, Gate!Case) = x] ELSE @[x]]]
          /\ IF /\ Gate!PythonTakes(readings)
                /\ \A s \in Gate!SDKs : Gate!FileOf(s, Gate!Case) = encodes["python"][Gate!Case]
             THEN Gate!Continue("passed") ELSE Gate!Fail
    BY Zenon DEF Gate!PythonVerifies
  <1>. DEFINE made  == Looked(Gate!SDKs, container, readings, before)
              found == [x \in Containers |->
                          IF \E s \in Gate!SDKs : Gate!FileOf(s, Gate!Case) = x
                          THEN readings[CHOOSE s \in Gate!SDKs : Gate!FileOf(s, Gate!Case) = x]
                          ELSE decodes["python"][Gate!Case][x]]
  <1>6. \A s \in Gate!SDKs : container[s] = Gate!FileOf(s, Gate!Case)
    OBVIOUS
  <1>7. decodes' = [decodes EXCEPT !["python"][Gate!Case] = found]
    BY <1>5, Zenon
  <1>8. found = made
    <2>. HIDE DEF container
    <2>1. ASSUME NEW x
          PROVE  /\ (\E s \in Gate!SDKs : Gate!FileOf(s, Gate!Case) = x) <=> \E s \in Gate!SDKs : container[s] = x
                 /\ (CHOOSE s \in Gate!SDKs : Gate!FileOf(s, Gate!Case) = x)
                      = (CHOOSE s \in Gate!SDKs : container[s] = x)
      BY <1>6
    <2>. QED
      BY <2>1, Zenon DEF Looked
  <1>9. decodes' = [decodes EXCEPT !["python"][Gate!Case] = made]
    BY <1>7, <1>8, Zenon
  <1>. HIDE DEF found, container
  <1>10. /\ made \in [Containers -> Gate!Decodings \cup {Gate!Unseen}]
         /\ \A s \in Gate!SDKs : container[s] \in Containers => made[container[s]] = readings[s]
    <2>1. \A s \in Gate!SDKs : readings[s] \in Gate!Decodings
      OBVIOUS
    <2>2. \A s, r \in Gate!SDKs : container[s] = container[r] => readings[s] = readings[r]
      BY <1>5, <1>6
    <2>. HIDE DEF before
    <2>. QED
      BY <1>3, <2>1, <2>2, LookedIs
  <1>. HIDE DEF made
  <1>11. decodes' \in [Gate!SDKs -> [Gate!Ids -> [Containers -> Gate!Decodings \cup {Gate!Unseen}]]]
    BY <1>1, <1>9, <1>10
  <1>12. decodes'["python"][Gate!Case] = made
    BY <1>1, <1>2, <1>9
  <1>13. ASSUME ~Gate!Fail, NEW c \in Gate!Ids, c = Gate!Case, encodes["go"][c] \in Containers
         PROVE  TakenBy("python", c)'
    <2>1. Gate!PythonTakes(readings)
      BY <1>5, <1>13
    <2>2. readings["go"] = "right" /\ container["go"] = encodes["go"][c]
      BY <1>2, <1>6, <1>13, <2>1 DEF Gate!PythonTakes, Gate!FileOf, Gate!GoFile
    <2>3. made[encodes["go"][c]] = "right"
      BY <1>2, <1>10, <1>13, <2>2
    <2>. QED
      BY <1>4, <1>12, <1>13, <2>3 DEF TakenBy
  <1>14. encodes["go"][Gate!Case] \in Containers
    BY DEF Checked
  <1>. QED
    BY <1>4, <1>5, <1>9, <1>11, <1>13, <1>14 DEF TakesMove

LEMMA TakesStep ==
  ASSUME Gate!GateAssumption, GateInv, status = "running", NEW s \in {"node", "python"},
         NEW next \in Stages, NEW n \in {5, 6}, n = 5 <=> s = "node",
         Rank(stage) = n, Rank(next) = n + 1,
         Gate!Case \in Gate!Ids /\ Checked(Gate!Case) /\ python => TakesMove(s, next)
  PROVE  GateInv'
  <1>1. GateTypes /\ StageInv /\ ShownInv
    BY DEF GateInv
  <1>2. Gate!Case \in Gate!Ids /\ Gate!Case \in Range(list) /\ Range(list) \subseteq Gate!Ids
    <2>1. n \in 1..6 /\ n # 3
      OBVIOUS
    <2>. QED
      BY <2>1, CaseKnown, Zenon
  <1>3. ~alone /\ python
    BY <1>1 DEF StageInv
  <1>4. Past(4) = Range(list) /\ Past(n) \subseteq Range(list)
    BY <1>1 DEF Past, Finished, Range, GateTypes, StageInv
  <1>5. TakesMove(s, next)
    BY <1>1, <1>2, <1>3, <1>4, Zenon DEF ShownInv
  <1>6. /\ UNCHANGED <<manifest, alone, list, python, files, encodes>>
        /\ \E made : decodes' = [decodes EXCEPT ![s][Gate!Case] = made]
        /\ decodes' \in [Gate!SDKs -> [Gate!Ids -> [Containers -> Gate!Decodings \cup {Gate!Unseen}]]]
        /\ \/ Gate!Fail
           \/ Gate!Continue(next) /\ \A c \in Gate!Ids : c = Gate!Case => TakenBy(s, c)'
    BY <1>5, Zenon DEF TakesMove
  <1>7. CASE Gate!Fail
    <2>1. StageInv' /\ status' = "failed" /\ stage' = stage /\ done' = done
      BY <1>1, <1>6, <1>7, FailGate
    <2>2. GateTypes'
      BY <1>1, <1>6, <2>1, Zenon DEF GateTypes
    <2>. QED
      BY <2>1, <2>2 DEF GateInv
  <1>8. CASE ~Gate!Fail
    <2>1. Goes(n, Rank(next)) /\ StageInv' /\ status' # "failed"
      BY <1>1, <1>3, <1>6, <1>8, StageGoes
    <2>2. GateTypes'
      <3>1. stage' \in Stages /\ done' \in Nat /\ status' \in {"running", "passed", "failed"}
        BY <2>1 DEF Goes
      <3>. QED
        BY <1>1, <1>6, <3>1, Zenon DEF GateTypes
    <2>3. /\ Past(n)' \subseteq Past(n) \cup {Gate!Case}
          /\ Past(1)' \subseteq Past(1) /\ Past(2)' \subseteq Past(2) /\ Past(4)' \subseteq Past(4)
          /\ n = 6 => Past(5)' \subseteq Past(5)
          /\ n = 5 => Past(6)' = {}
      BY <2>1 DEF Goes
    <2>4. ASSUME NEW c \in Gate!Ids
          PROVE  /\ Wrote("node", c) => Wrote("node", c)'
                 /\ Wrote("python", c) => Wrote("python", c)'
      BY <1>6 DEF Wrote
    <2>5. ASSUME NEW c \in Gate!Ids, Checked(c)
          PROVE  Checked(c)'
      <3>1. decodes'["go"] = decodes["go"]
        BY <1>1, <1>6 DEF GateTypes, Gate!SDKs
      <3>. QED
        BY <1>6, <2>5, <3>1 DEF Checked, Gate!GoReads
    <2>6. ASSUME NEW c \in Gate!Ids
          PROVE  /\ c = Gate!Case => TakenBy(s, c)'
                 /\ c # Gate!Case => \A r \in {"node", "python"} : TakenBy(r, c) => TakenBy(r, c)'
                 /\ \A r \in {"node", "python"} : r # s /\ TakenBy(r, c) => TakenBy(r, c)'
      <3>1. c = Gate!Case => TakenBy(s, c)'
        BY <1>6, <1>8
      <3>2. \A r \in {"node", "python"} : c # Gate!Case \/ r # s => decodes'[r][c] = decodes[r][c]
        BY <1>1, <1>6 DEF GateTypes, Gate!SDKs
      <3>. QED
        BY <1>6, <3>1, <3>2 DEF TakenBy
    <2>7. \A k \in {1, 2, 4, 5, 6} : Past(k) \subseteq Gate!Ids
      BY <1>1, <1>2 DEF Past, Finished, Range, GateTypes, StageInv
    <2>8. \A c \in Past(1)' : Wrote("node", c)'
      BY <1>1, <1>3, <2>3, <2>4, <2>7 DEF ShownInv
    <2>9. \A c \in Past(2)' : Wrote("python", c)'
      BY <1>1, <1>3, <2>3, <2>4, <2>7 DEF ShownInv
    <2>10. \A c \in Past(4)' : Checked(c)'
      BY <1>1, <2>3, <2>5, <2>7 DEF ShownInv
    <2>11. \A c \in Past(5)' : TakenBy("node", c)'
      BY <1>1, <1>2, <1>3, <2>3, <2>6, <2>7 DEF ShownInv
    <2>12. \A c \in Past(6)' : TakenBy("python", c)'
      BY <1>1, <1>2, <1>3, <2>3, <2>6, <2>7 DEF ShownInv
    <2>13. Gate!parseCaseIDs(list)' /\ Gate!readManifest'
      <3>1. Gate!parseCaseIDs(list) /\ Gate!readManifest
        BY <1>1 DEF ShownInv
      <3>. QED
        BY <1>6, <3>1 DEF Gate!parseCaseIDs, Gate!readManifest
    <2>14. ShownInv'
      BY <2>8, <2>9, <2>10, <2>11, <2>12, <2>13, Zenon DEF ShownInv
    <2>. QED
      BY <2>1, <2>2, <2>14 DEF GateInv
  <1>. QED
    BY <1>7, <1>8

LEMMA GateInit == Gate!GateAssumption /\ Gate!Init => GateInv
  <1>. SUFFICES ASSUME Gate!GateAssumption, Gate!Init PROVE GateInv
    OBVIOUS
  <1>1. Cases \in Seq(STRING) /\ Cases # <<>> /\ CaseLists \subseteq Seq(STRING)
    BY DEF Gate!GateAssumption
  <1>2. /\ manifest \in [Gate!Ids -> Gate!Faults] /\ alone \in BOOLEAN /\ done = 0 /\ status = "running"
        /\ encodes = [s \in Gate!SDKs |-> [c \in Gate!Ids |-> Gate!Unseen]]
        /\ decodes = [s \in Gate!SDKs |-> [c \in Gate!Ids |-> [x \in Containers |-> Gate!Unseen]]]
    BY Zenon DEF Gate!Init
  <1>3. list \in Seq(STRING) /\ python \in BOOLEAN
    BY <1>1 DEF Gate!Init
  <1>4. files \in [{"node", "python"} -> [Gate!Ids -> Containers \cup {Gate!Absent}]]
    <2>1. Gate!SDKs \ {"go"} = {"node", "python"}
      BY DEF Gate!SDKs
    <2>2. CASE alone
      BY <2>1, <2>2 DEF Gate!Init
    <2>3. CASE ~alone
      <3>1. files = [s \in {"node", "python"} |-> [c \in Gate!Ids |-> Gate!Absent]]
        BY <2>1, <2>3 DEF Gate!Init
      <3>. QED
        BY <3>1
    <2>. QED
      BY <2>2, <2>3
  <1>5. stage \in Stages /\ (alone => Rank(stage) = 3) /\ (~alone => Rank(stage) = 1)
    <2>1. stage = IF alone THEN "go starts" ELSE "node writes"
      BY DEF Gate!Init
    <2>2. Rank("node writes") = 1
      BY DEF Rank
    <2>. QED
      BY <2>1, <2>2, RankOfChecks, Zenon DEF Stages
  <1>6. ~alone => list = Cases /\ python
    BY DEF Gate!Init
  <1>7. GateTypes
    <2>1. encodes \in [Gate!SDKs -> [Gate!Ids -> Containers \cup {Gate!Throws, Gate!Unseen}]]
      BY <1>2
    <2>2. decodes \in [Gate!SDKs -> [Gate!Ids -> [Containers -> Gate!Decodings \cup {Gate!Unseen}]]]
      BY <1>2
    <2>3. done \in Nat /\ status \in {"running", "passed", "failed"}
      BY <1>2
    <2>. QED
      BY <1>2, <1>3, <1>4, <1>5, <2>1, <2>2, <2>3, Zenon DEF GateTypes
  <1>8. StageInv
    <2>1. Len(Cases) > 0
      BY <1>1
    <2>2. Rank(stage) # 3 => done < Len(list)
      BY <1>2, <1>5, <1>6, <2>1
    <2>. QED
      BY <1>2, <1>5, <1>6, <2>2 DEF StageInv
  <1>9. ShownInv
    <2>1. Finished = {}
      BY <1>2 DEF Finished
    <2>2. /\ ~alone => Past(1) = {} /\ Past(2) = {} /\ Past(5) = {} /\ Past(6) = {}
          /\ Past(4) = {} /\ ~(Rank(stage) > 3)
      BY <1>2, <1>5, <2>1 DEF Past
    <2>. QED
      BY <2>2 DEF ShownInv
  <1>. QED
    BY <1>7, <1>8, <1>9 DEF GateInv

LEMMA GateStep ==
  ASSUME Gate!GateAssumption, GateInv, Gate!Next
  PROVE  GateInv'
  <1>1. CASE Gate!NodeWrites
    <2>1. /\ status = "running" /\ stage = "node writes"
          /\ Gate!Writes("node", Gate!NodeRefuses, "python writes")
      BY <1>1, Zenon DEF Gate!NodeWrites, Gate!At
    <2>2. Rank("node writes") = 1
      BY DEF Rank
    <2>3. Rank("python writes") = 1 + 1
      BY DEF Rank
    <2>4. Rank(stage) = 1 /\ "python writes" \in Stages
      BY <2>1, <2>2, Zenon DEF Stages
    <2>5. 1 \in {1, 2} /\ (1 = 1 <=> "node" = "node") /\ "node" \in {"node", "python"}
      OBVIOUS
    <2>. QED
      BY <2>1, <2>3, <2>4, <2>5, WritesStep, Zenon
  <1>2. CASE Gate!PythonWrites
    <2>. DEFINE refused == IF Gate!PythonManifest THEN Gate!PythonRefuses ELSE Gate!Faults
    <2>1. /\ status = "running" /\ stage = "python writes"
          /\ Gate!Writes("python", refused, "go starts")
      BY <1>2, Zenon DEF Gate!PythonWrites, Gate!At
    <2>2. Rank("python writes") = 2
      BY DEF Rank
    <2>3. Rank("go starts") = 2 + 1
      BY DEF Rank
    <2>4. Rank(stage) = 2 /\ "go starts" \in Stages
      BY <2>1, <2>2, Zenon DEF Stages
    <2>5. 2 \in {1, 2} /\ (2 = 1 <=> "python" = "node") /\ "python" \in {"node", "python"}
      OBVIOUS
    <2>. QED
      BY <2>1, <2>3, <2>4, <2>5, WritesStep, Zenon
  <1>3. CASE Gate!GoStarts
    BY <1>3, GoStartsStep
  <1>4. CASE Gate!GoChecks
    <2>1. status = "running" /\ stage = "go checks"
      BY <1>4, Zenon DEF Gate!GoChecks, Gate!At
    <2>2. Rank("go checks") = 4
      BY DEF Rank
    <2>3. Rank(stage) = 4
      BY <2>1, <2>2, Zenon
    <2>4. Gate!Case \in Gate!Ids => ChecksMove(IF alone THEN "passed" ELSE "node reads")
      BY <1>4, ChecksParts, Zenon
    <2>5. Rank("passed") = 7
      BY DEF Rank
    <2>6. Rank("node reads") = 5
      BY DEF Rank
    <2>7. Rank("node reads") > 4
      BY DEF Rank
    <2>8. CASE alone
      <3>1. Rank("passed") = (IF alone THEN 7 ELSE 5) /\ Rank("passed") > 4
        BY <2>5, <2>8
      <3>2. Gate!Case \in Gate!Ids => ChecksMove("passed")
        BY <2>4, <2>8, Zenon
      <3>3. "passed" \in Stages
        BY Zenon DEF Stages
      <3>. QED
        BY <2>1, <2>3, <3>1, <3>2, <3>3, ChecksStep, Zenon
    <2>9. CASE ~alone
      <3>1. Rank("node reads") = (IF alone THEN 7 ELSE 5)
        BY <2>6, <2>9, Zenon
      <3>2. Gate!Case \in Gate!Ids => ChecksMove("node reads")
        BY <2>4, <2>9, Zenon
      <3>3. "node reads" \in Stages
        BY Zenon DEF Stages
      <3>. QED
        BY <2>1, <2>3, <3>1, <3>2, <3>3, <2>7, ChecksStep, Zenon
    <2>. QED
      BY <2>8, <2>9
  <1>5. CASE Gate!NodeReads
    <2>1. status = "running" /\ stage = "node reads"
      BY <1>5, Zenon DEF Gate!NodeReads, Gate!At
    <2>2. Rank("node reads") = 5
      BY DEF Rank
    <2>3. Rank("python verifies") = 5 + 1
      BY DEF Rank
    <2>4. Rank(stage) = 5 /\ "python verifies" \in Stages
      BY <2>1, <2>2, Zenon DEF Stages
    <2>5. 5 \in {5, 6} /\ (5 = 5 <=> "node" = "node") /\ "node" \in {"node", "python"}
      OBVIOUS
    <2>6. Gate!Case \in Gate!Ids /\ Checked(Gate!Case) /\ python => TakesMove("node", "python verifies")
      BY <1>5, NodeParts, Zenon
    <2>. QED
      BY <2>1, <2>3, <2>4, <2>5, <2>6, TakesStep, Zenon
  <1>6. CASE Gate!PythonVerifies
    <2>1. status = "running" /\ stage = "python verifies"
      BY <1>6, Zenon DEF Gate!PythonVerifies, Gate!At
    <2>2. Rank("python verifies") = 6
      BY DEF Rank
    <2>3. Rank("passed") = 6 + 1
      BY DEF Rank
    <2>4. Rank(stage) = 6 /\ "passed" \in Stages
      BY <2>1, <2>2, Zenon DEF Stages
    <2>5. 6 \in {5, 6} /\ (6 = 5 <=> "python" = "node") /\ "python" \in {"node", "python"}
      OBVIOUS
    <2>6. Gate!Case \in Gate!Ids /\ Checked(Gate!Case) /\ python => TakesMove("python", "passed")
      BY <1>6, PythonParts, Zenon
    <2>. QED
      BY <2>1, <2>3, <2>4, <2>5, <2>6, TakesStep, Zenon
  <1>. QED
    BY <1>1, <1>2, <1>3, <1>4, <1>5, <1>6 DEF Gate!Next

LEMMA GateStutter ==
  ASSUME GateInv, UNCHANGED Gate!vars
  PROVE  GateInv'
  <1>1. UNCHANGED <<manifest, alone, list, python, files, encodes, decodes, stage, done, status>>
    BY DEF Gate!vars, Gate!inputVars
  <1>2. GateTypes' /\ StageInv'
    BY <1>1 DEF GateInv, GateTypes, StageInv
  <1>3. \A k : Past(k)' = Past(k)
    BY <1>1, Zenon DEF Past, Finished
  <1>4. (status # "failed" => ShownInv)'
    <2>1. \A s, c : /\ Wrote(s, c)' <=> Wrote(s, c)
                    /\ TakenBy(s, c)' <=> TakenBy(s, c)
      BY <1>1, Zenon DEF Wrote, TakenBy
    <2>2. \A c : Checked(c)' <=> Checked(c)
      BY <1>1, Zenon DEF Checked, Gate!GoReads
    <2>3. /\ Gate!parseCaseIDs(list)' <=> Gate!parseCaseIDs(list)
          /\ Gate!readManifest' <=> Gate!readManifest
      BY <1>1, Zenon DEF Gate!parseCaseIDs, Gate!readManifest
    <2>. QED
      BY <1>1, <1>3, <2>1, <2>2, <2>3, Zenon DEF GateInv, ShownInv
  <1>. QED
    BY <1>2, <1>4 DEF GateInv

(* A list without repetitions has as many members as entries.              *)
LEMMA DistinctCounted ==
  ASSUME NEW ids \in Seq(STRING), \A i, j \in DOMAIN ids : ids[i] = ids[j] => i = j
  PROVE  Cardinality(Range(ids)) = Len(ids)
  <1>1. Len(ids) \in Nat /\ DOMAIN ids = 1..Len(ids)
    OBVIOUS
  <1>2. IsFiniteSet(1..Len(ids)) /\ Cardinality(1..Len(ids)) = Len(ids)
    BY <1>1, FS_Interval
  <1>3. ids \in Bijection(1..Len(ids), Range(ids))
    BY <1>1 DEF Bijection, Injection, Surjection, IsInjective, Range
  <1>4. ExistsBijection(1..Len(ids), Range(ids))
    BY <1>3 DEF ExistsBijection
  <1>. QED
    BY <1>2, <1>4, FS_Bijection

LEMMA GateShows ==
  ASSUME GateInv
  PROVE  Gate!PassIsEarned
  <1>1. ASSUME status = "passed"
        PROVE  /\ GateTypes /\ StageInv /\ ShownInv
               /\ Past(1) = Range(list) /\ Past(2) = Range(list) /\ Past(4) = Range(list)
               /\ Past(5) = Range(list) /\ Past(6) = Range(list)
               /\ Gate!parseCaseIDs(list)
    BY <1>1 DEF GateInv, StageInv, ShownInv, Past
  <1>2. Gate!PassMeansInterchangeable
    <2>. SUFFICES ASSUME status = "passed", ~alone, NEW c \in Gate!Ids
                  PROVE  /\ \A s \in Gate!SDKs : encodes[s][c] = encodes["go"][c]
                         /\ \A s \in Gate!SDKs : decodes[s][c][encodes["go"][c]] = "right"
      BY Zenon DEF Gate!PassMeansInterchangeable
    <2>1. c \in Range(list) /\ python
      BY <1>1 DEF StageInv, Gate!Ids, Gate!Range, Range
    <2>2. Wrote("node", c) /\ Wrote("python", c) /\ Checked(c) /\ TakenBy("node", c) /\ TakenBy("python", c)
      BY <1>1, <2>1, Zenon DEF ShownInv
    <2>. QED
      BY <2>1, <2>2 DEF Wrote, Checked, TakenBy, Gate!GoReads, Gate!SDKs
  <1>3. Gate!ToolPassIsEarned
    <2>1. ASSUME NEW c, Checked(c)
          PROVE  /\ manifest[c] = "none"
                 /\ \A s \in IF python THEN {"node", "python"} ELSE {"node"} :
                      /\ files[s][c] = encodes["go"][c]
                      /\ decodes["go"][c][files[s][c]] = "right"
      BY <2>1 DEF Checked, Gate!GoReads
    <2>2. Gate!Range(list) = Range(list)
      BY DEF Gate!Range, Range
    <2>3. Gate!Cardinality(Range(list)) = Cardinality(Range(list))
      BY Zenon DEF Gate!Cardinality, Cardinality
    <2>. SUFFICES ASSUME status = "passed", alone
                  PROVE  /\ list # <<>> /\ Cardinality(Range(list)) = Len(list)
                         /\ \A c \in Range(list) :
                              /\ manifest[c] = "none"
                              /\ \A s \in IF python THEN {"node", "python"} ELSE {"node"} :
                                   /\ files[s][c] = encodes["go"][c]
                                   /\ decodes["go"][c][files[s][c]] = "right"
      BY <2>2, <2>3 DEF Gate!ToolPassIsEarned
    <2>4. list # <<>> /\ \A i, j \in DOMAIN list : list[i] = list[j] => i = j
      BY <1>1 DEF Gate!parseCaseIDs
    <2>5. Cardinality(Range(list)) = Len(list)
      BY <1>1, <2>4, DistinctCounted DEF GateTypes
    <2>6. \A c \in Range(list) : Checked(c)
      BY <1>1 DEF ShownInv
    <2>. QED
      BY <2>4, <2>5, <2>1, <2>6, Zenon
  <1>. QED
    BY <1>2, <1>3 DEF Gate!PassIsEarned

(* For any cases, containers and SDKs: a gate that passes has shown every  *)
(* SDK to make the same container of each case and to read it right, and   *)
(* the Go tool by itself passes only a list of distinct, positive cases    *)
(* whose containers it decodes to the input and would have written itself. *)
THEOREM GatePasses == Gate!Spec => []PassIsEarned
  <1>1. Gate!Init => GateInv
    BY GateInit, ToolsAssumption
  <1>2. GateInv /\ [Gate!Next]_(Gate!vars) => GateInv'
    BY GateStep, GateStutter, ToolsAssumption
  <1>3. GateInv => PassIsEarned
    BY GateShows, ToolsAssumption DEF PassIsEarned
  <1>. QED
    BY <1>1, <1>2, <1>3, PTL DEF Gate!Spec
=============================================================================
