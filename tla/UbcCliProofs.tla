---------------------------- MODULE UbcCliProofs ----------------------------
(***************************************************************************)
(* What the command line tool promises, for any number of processes over   *)
(* any file system, whatever fails and whenever a process is killed.       *)
(***************************************************************************)
EXTENDS UbcCli, SequenceTheorems, TLAPS

Fields == {"pc", "args", "key", "input", "seen", "staged", "spool", "err", "status", "stdout",
           "unseen", "renamed", "stuck"}

-----------------------------------------------------------------------------
(* The inductive invariant.                                                *)

(* The options stay as they were given.                                    *)
Options(args) ==
  /\ {args.in, args.out} \subseteq Names \cup {Dash}
  /\ args.keyFile \in Names \cup {Unset} /\ args.stdin \in Files

ShapeInv ==
  /\ DOMAIN links = Names /\ DOMAIN data = Files \cup Procs /\ DOMAIN proc = Procs
  /\ \A p \in Procs : DOMAIN proc[p] = Fields /\ Options(proc[p].args)

(* A file that nobody writes to any more.                                  *)
Published(f, procs) == f \in Files \/ (f \in Procs /\ procs[f].renamed)

(* A staged file has a name only when its process has renamed it.          *)
NamesInv == \A n \in Names : links[n] # NoFile => Published(links[n], proc)

Reading == {"report", "alias", "stage", "begin", "copy", "stdin", "close", "publish"}
Working == Reading \cup {"parse", "key", "plan", "open"}
Staged  == {"begin", "copy", "stdin", "close", "publish", "abort", "discard", "killed"}
Spooled == {"copy", "stdin", "close", "abort", "killed"}

(* How far a process has come, by itself: in particular that an error is   *)
(* never forgotten and excludes a result.                                  *)
PhaseInv(s) ==
  /\ s.pc \in Working \cup {"abort", "discard", "exit", "killed"}
  /\ s.pc \in Working => s.err = Unset /\ s.stdout = <<>>
  /\ s.pc \notin {"exit", "killed"} => s.status = "running" /\ ~s.renamed
  /\ s.pc = "abort" => s.err # Unset
  /\ s.err # Unset => ~s.renamed /\ s.stdout \in {<<>>, Staging}
  /\ s.status = "0" => s.pc = "exit" /\ s.err = Unset
  /\ s.status \in {"1", "2"} => s.pc = "exit" /\ s.err # Unset
  /\ s.pc = "killed" => s.status = "killed"

(* What it has to remove, it still comes to or could not remove.           *)
RemovalInv(s) ==
  /\ s.staged => s.pc \in Staged \/ "staged" \in s.stuck
  /\ s.spool => s.pc \in Spooled \/ ("spool" \in s.stuck /\ s.err # Unset)

(* Which command comes where.                                              *)
CommandInv(s) ==
  /\ s.pc = "report" => s.args.command \in {"verify", "inspect"}
  /\ s.pc \in Reading \ {"report"} => s.args.command \notin {"verify", "inspect"}
  /\ s.pc = "close" \/ (s.pc \in {"copy", "stdin"} /\ s.spool) => s.args.command = "encode"
  /\ s.pc \in {"report", "alias", "stage", "begin"} => s.seen = <<>>
  /\ s.pc \in Working \ Reading => s.seen = <<>>
  /\ s.pc \in {"stdin", "close"} => Len(s.seen) = Reads

(* The input is a file that nobody writes to, and what was read of it is   *)
(* what it holds.                                                          *)
InputInv(p) ==
  LET s == proc[p]
  IN  /\ s.pc \in Reading => Published(s.input, proc)
      /\ s.pc \in {"copy", "stdin", "close"} => s.seen \in Seq({data[s.input]})

(* It has not failed, and was to write something.                          *)
Delivers(s) == s.err = Unset /\ ~s.args.help /\ s.args.command \in {"encode", "decode"}

(* The staged file, when it is complete, and what was made of it.          *)
OutputInv(p) ==
  LET s == proc[p]
  IN  /\ s.pc = "publish" \/ (s.pc = "stdin" /\ s.args.command # "encode") =>
           data[p] = Output(s, data[s.input])
      /\ s.pc \in {"discard", "exit"} /\ Delivers(s) =>
           /\ Published(s.input, proc)
           /\ IF ToPath(s) THEN s.renamed ELSE s.stdout = Output(s, data[s.input])

(* decode only writes what its decoder accepted.                           *)
DecodeInv(p) ==
  LET s == proc[p]
  IN  s.args.command = "decode" =>
        /\ s.pc = "copy" => IsContainer(data[s.input])
        /\ s.pc \in {"stdin", "publish"} \/ s.renamed \/ s.stdout # <<>> =>
             /\ Published(s.input, proc)
             /\ IsContainer(data[s.input]) /\ Copied(data[s.input], s.key)

(* The names of the sources stand for files, and once they were compared,  *)
(* if they were, not for the one the output's name stands for.             *)
SourceInv(p) ==
  LET s == proc[p]
  IN  /\ s.pc \in {"plan", "open", "alias"} /\ s.args.command # "inspect" /\ Path(s.args.keyFile) =>
           links[s.args.keyFile] # NoFile
      /\ s.pc = "alias" /\ Path(s.args.in) => links[s.args.in] # NoFile
      /\ s.pc \in Reading \ {"report", "alias"} /\ ToPath(s) =>
           \A source \in Sources : Compared(s, source) => links[s.args[source]] # links[s.args.out]

ProcInv(p) ==
  /\ PhaseInv(proc[p]) /\ RemovalInv(proc[p]) /\ CommandInv(proc[p])
  /\ InputInv(p) /\ OutputInv(p) /\ DecodeInv(p) /\ SourceInv(p)

CliInv == ShapeInv /\ NamesInv /\ \A p \in Procs : ProcInv(p)
-----------------------------------------------------------------------------
(* What a step of p leaves to the others: its own record is replaced, the  *)
(* only file it writes to is its unpublished one, and the only name it     *)
(* changes is that of its output, to stand for that file, when it publishes. *)
Effect(p) ==
  /\ DOMAIN links' = DOMAIN links /\ DOMAIN data' = DOMAIN data /\ DOMAIN proc' = DOMAIN proc
  /\ \A q \in Procs \ {p} : proc'[q] = proc[q]
  /\ DOMAIN proc'[p] = Fields /\ proc'[p].args = proc[p].args
  /\ proc'[p].renamed = proc[p].renamed \/ (proc'[p].renamed /\ Publishes(p))
  /\ \A f \in Files \cup Procs : data'[f] = data[f] \/ (f = p /\ ~proc[p].renamed)
  /\ \A n \in Names :
       \/ links'[n] = links[n]
       \/ n = proc[p].args.out /\ links'[n] = p /\ proc'[p].renamed /\ ~proc[p].renamed

(* A step that replaces the record of p by s and touches no file.          *)
LEMMA RecordOnly ==
  ASSUME ShapeInv, NEW p \in Procs, NEW s, Becomes(p, s), UNCHANGED <<links, data>>,
         DOMAIN s = Fields, s.args = proc[p].args, s.renamed = proc[p].renamed
  PROVE  Effect(p) /\ proc'[p] = s
  <1>1. proc'[p] = s /\ DOMAIN proc' = DOMAIN proc /\ \A q \in Procs \ {p} : proc'[q] = proc[q]
    BY DEF Becomes, ShapeInv
  <1>. QED
    BY <1>1 DEF Effect

(* And one that writes to its file.                                        *)
LEMMA RecordAndData ==
  ASSUME ShapeInv, NEW p \in Procs, NEW s, NEW content, Becomes(p, s), UNCHANGED links,
         data' = [data EXCEPT ![p] = content], ~proc[p].renamed,
         DOMAIN s = Fields, s.args = proc[p].args, s.renamed = proc[p].renamed
  PROVE  Effect(p) /\ proc'[p] = s /\ data'[p] = content
  <1>1. proc'[p] = s /\ DOMAIN proc' = DOMAIN proc /\ \A q \in Procs \ {p} : proc'[q] = proc[q]
    BY DEF Becomes, ShapeInv
  <1>2. /\ data'[p] = content /\ DOMAIN data' = DOMAIN data
        /\ \A f \in Files \cup Procs : data'[f] = data[f] \/ f = p
    BY DEF ShapeInv
  <1>. QED
    BY <1>1, <1>2 DEF Effect

(* What the helpers do to a record.                                        *)
LEMMA FailedFields ==
  ASSUME NEW s, DOMAIN s = Fields, NEW kind
  PROVE  /\ DOMAIN Failed(s, kind) = Fields
         /\ Failed(s, kind).err = kind
         /\ Failed(s, kind).pc = (IF s.staged THEN "discard" ELSE "exit")
         /\ \A f \in Fields \ {"err", "pc"} : Failed(s, kind)[f] = s[f]
  BY DEF Failed, Fields

LEMMA ToFields ==
  ASSUME NEW s, DOMAIN s = Fields, NEW pc
  PROVE  /\ DOMAIN To(s, pc) = Fields /\ To(s, pc).pc = pc
         /\ \A f \in Fields \ {"pc"} : To(s, pc)[f] = s[f]
  BY DEF To, Fields

(* What is published stays so, and is not written to.                      *)
LEMMA PublishedStays ==
  ASSUME ShapeInv, NEW p \in Procs, Effect(p), NEW f, Published(f, proc)
  PROVE  Published(f, proc') /\ data'[f] = data[f]
  <1>1. f \in Files \/ (f \in Procs /\ proc[f].renamed)
    BY DEF Published
  <1>2. f \in Procs /\ proc[f].renamed => proc'[f].renamed
    BY DEF Effect
  <1>3. ~(f = p /\ ~proc[p].renamed)
    BY <1>1, CliAssumption DEF Published
  <1>. QED
    BY <1>1, <1>2, <1>3 DEF Effect, Published

(* The names of the others: what stands for a file still does, for one     *)
(* that is published, and two names never become links to one file.        *)
LEMMA NamesStay ==
  ASSUME ShapeInv, NamesInv, NEW p \in Procs, Effect(p)
  PROVE  /\ NamesInv'
         /\ \A n \in Names : links[n] # NoFile => links'[n] # NoFile
         /\ \A n, m \in Names : links[n] # links[m] => links'[n] # links'[m]
  <1>1. ASSUME NEW n \in Names, links'[n] # NoFile
        PROVE  Published(links'[n], proc')
    <2>1. CASE links'[n] = links[n]
      BY <1>1, <2>1, PublishedStays DEF NamesInv
    <2>2. CASE links'[n] = p /\ proc'[p].renamed
      BY <2>2 DEF Published
    <2>. QED
      BY <2>1, <2>2 DEF Effect
  <1>2. ASSUME NEW n \in Names, links[n] # NoFile
        PROVE  links'[n] # NoFile
    BY <1>2, CliAssumption DEF Effect
  <1>3. ASSUME NEW n \in Names, NEW m \in Names, links[n] # links[m]
        PROVE  links'[n] # links'[m]
    <2>1. ASSUME NEW l \in Names, ~proc[p].renamed
          PROVE  links[l] # p
      BY <2>1, CliAssumption DEF NamesInv, Published
    <2>. QED
      BY <1>3, <2>1 DEF Effect
  <1>. QED
    BY <1>1, <1>2, <1>3 DEF NamesInv

(* What holds of another process still does.                               *)
LEMMA OthersStay ==
  ASSUME CliInv, NEW p \in Procs, Effect(p), NEW q \in Procs, q # p
  PROVE  ProcInv(q)'
  <1>. DEFINE s == proc[q]
  <1>1. proc'[q] = s /\ ProcInv(q) /\ ShapeInv /\ NamesInv
    BY DEF Effect, CliInv
  <1>2. PhaseInv(proc[q])' /\ RemovalInv(proc[q])' /\ CommandInv(proc[q])'
    BY <1>1 DEF ProcInv, PhaseInv, RemovalInv, CommandInv
  <1>3. Published(s.input, proc) => Published(s.input, proc') /\ data'[s.input] = data[s.input]
    BY <1>1, PublishedStays
  <1>4. InputInv(q)'
    BY <1>1, <1>3 DEF ProcInv, InputInv, Published, Reading
  <1>5. data'[q] = data[q]
    BY DEF Effect
  <1>6. OutputInv(q)'
    BY <1>1, <1>3, <1>5 DEF ProcInv, InputInv, OutputInv, Published, Reading, Delivers
  <1>7. DecodeInv(q)'
    BY <1>1, <1>3 DEF ProcInv, InputInv, DecodeInv, Published, Reading
  <1>8. s.args.in \in Names \cup {Dash} /\ s.args.out \in Names \cup {Dash} /\ s.args.keyFile \in Names \cup {Unset}
    BY <1>1 DEF ShapeInv, Options
  <1>9. SourceInv(q)'
    BY <1>1, <1>8, NamesStay DEF ProcInv, SourceInv, Path, ToPath, Sources, Compared, Reading
  <1>. QED
    BY <1>2, <1>4, <1>6, <1>7, <1>9 DEF ProcInv

-----------------------------------------------------------------------------
(* A failure, wherever it happens.                                         *)
LEMMA FailureInv ==
  ASSUME NEW p \in Procs, NEW s, NEW kind \in {"usage", "error"},
         DOMAIN s = Fields, proc'[p] = Failed(s, kind),
         s.status = "running", ~s.renamed, s.stdout = <<>>, s.spool => "spool" \in s.stuck
  PROVE  ProcInv(p)'
  <1>1. /\ proc'[p].err = kind /\ kind # Unset
        /\ proc'[p].pc = (IF s.staged THEN "discard" ELSE "exit")
        /\ proc'[p].status = "running" /\ ~proc'[p].renamed /\ proc'[p].stdout = <<>>
        /\ proc'[p].spool = s.spool /\ proc'[p].stuck = s.stuck /\ proc'[p].staged = s.staged
    BY FailedFields DEF Fields, Unset
  <1>2. PhaseInv(proc[p])'
    BY <1>1 DEF PhaseInv, Working, Reading
  <1>3. RemovalInv(proc[p])'
    BY <1>1 DEF RemovalInv, Staged
  <1>4. CommandInv(proc[p])' /\ InputInv(p)'
    BY <1>1 DEF CommandInv, InputInv, Working, Reading
  <1>5. OutputInv(p)' /\ DecodeInv(p)'
    BY <1>1 DEF OutputInv, DecodeInv, Delivers
  <1>6. SourceInv(p)'
    BY <1>1 DEF SourceInv, Reading
  <1>. QED
    BY <1>2, <1>3, <1>4, <1>5, <1>6 DEF ProcInv
(* The rest of the record of p is as it was.                               *)
Keeps(p, changed) == \A f \in Fields \ changed : proc'[p][f] = proc[p][f]

LEMMA FailureStep ==
  ASSUME CliInv, NEW p \in Procs, NEW kind \in {"usage", "error"}, proc[p].pc \in Working,
         ~proc[p].spool, Becomes(p, Failed(proc[p], kind)), UNCHANGED <<links, data>>
  PROVE  Effect(p) /\ ProcInv(p)'
  <1>. DEFINE s == proc[p]
  <1>1. ShapeInv /\ DOMAIN s = Fields /\ PhaseInv(s)
    BY DEF CliInv, ShapeInv, ProcInv
  <1>2. s.status = "running" /\ ~s.renamed /\ s.stdout = <<>>
    BY <1>1 DEF PhaseInv, Working, Reading
  <1>3. /\ Failed(s, kind).args = s.args /\ Failed(s, kind).renamed = s.renamed
        /\ DOMAIN Failed(s, kind) = Fields
    BY <1>1, FailedFields DEF Fields
  <1>4. Effect(p) /\ proc'[p] = Failed(s, kind)
    <2>. HIDE DEF s
    <2>1. s = proc[p]
      BY DEF s
    <2>. QED
      BY <1>1, <1>2, <1>3, <2>1, RecordOnly
  <1>. QED
    BY <1>1, <1>2, <1>4, FailureInv

LEMMA AbandonedStep ==
  ASSUME CliInv, NEW p \in Procs, proc[p].pc \in {"copy", "stdin"},
         Becomes(p, Abandoned(proc[p])), UNCHANGED <<links, data>>
  PROVE  Effect(p) /\ ProcInv(p)'
  <1>. DEFINE s == proc[p]
  <1>1. ShapeInv /\ DOMAIN s = Fields /\ PhaseInv(s) /\ RemovalInv(s)
    BY DEF CliInv, ShapeInv, ProcInv
  <1>2. s.status = "running" /\ ~s.renamed /\ s.stdout = <<>>
    BY <1>1 DEF PhaseInv, Working, Reading
  <1>3. CASE ~s.spool
    BY <1>3, FailureStep DEF Abandoned, Working, Reading
  <1>4. CASE s.spool
    <2>. DEFINE r == To([s EXCEPT !.err = "error"], "abort")
    <2>1. DOMAIN r = Fields /\ r.pc = "abort" /\ r.err = "error" /\ r.args = s.args
          /\ r.status = "running" /\ r.renamed = s.renamed /\ r.stdout = <<>>
      BY <1>1, <1>2 DEF To, Fields
    <2>2. Becomes(p, r)
      BY <1>4 DEF Abandoned
    <2>3. Effect(p) /\ proc'[p] = r
      <3>. HIDE DEF r
      <3>. QED
        BY <1>1, <1>2, <2>1, <2>2, RecordOnly
    <2>. HIDE DEF r
    <2>4. PhaseInv(proc[p])' /\ RemovalInv(proc[p])'
      BY <1>2, <2>1, <2>3 DEF PhaseInv, RemovalInv, Working, Reading, Staged, Spooled, Unset
    <2>5. CommandInv(proc[p])' /\ InputInv(p)' /\ OutputInv(p)' /\ DecodeInv(p)' /\ SourceInv(p)'
      BY <1>2, <2>1, <2>3 DEF CommandInv, InputInv, OutputInv, DecodeInv, SourceInv, Working, Reading
    <2>. QED
      BY <2>3, <2>4, <2>5 DEF ProcInv
  <1>. QED
    BY <1>3, <1>4

(* A step that only moves on.                                              *)
LEMMA Moves ==
  ASSUME CliInv, NEW p \in Procs, NEW pc, Becomes(p, To(proc[p], pc)), UNCHANGED <<links, data>>
  PROVE  Effect(p) /\ proc'[p].pc = pc /\ Keeps(p, {"pc"})
  <1>. DEFINE s == proc[p]
  <1>1. ShapeInv /\ DOMAIN s = Fields
    BY DEF CliInv, ShapeInv
  <1>2. DOMAIN To(s, pc) = Fields /\ To(s, pc).pc = pc /\ \A f \in Fields \ {"pc"} : To(s, pc)[f] = s[f]
    BY <1>1, ToFields
  <1>3. To(s, pc).args = s.args /\ To(s, pc).renamed = s.renamed
    BY <1>2 DEF Fields
  <1>4. Effect(p) /\ proc'[p] = To(s, pc)
    <2>. HIDE DEF s
    <2>1. s = proc[p]
      BY DEF s
    <2>. QED
      BY <1>1, <1>3, <1>2, <2>1, RecordOnly
  <1>. QED
    BY <1>2, <1>4 DEF Keeps
-----------------------------------------------------------------------------
(* One lemma per action: what it leaves to the others, and what holds of   *)
(* its own process after it.                                               *)

(* What the invariant says of p, for the lemmas that follow.               *)
LEMMA Before ==
  ASSUME CliInv, NEW p \in Procs
  PROVE  /\ ShapeInv /\ DOMAIN proc[p] = Fields /\ Options(proc[p].args)
         /\ PhaseInv(proc[p]) /\ RemovalInv(proc[p]) /\ CommandInv(proc[p])
         /\ InputInv(p) /\ OutputInv(p) /\ DecodeInv(p) /\ SourceInv(p)
  BY DEF CliInv, ShapeInv, ProcInv

LEMMA ParsesStep ==
  ASSUME CliInv, NEW p \in Procs, Parses(p)
  PROVE  Effect(p) /\ ProcInv(p)'
  <1>. DEFINE s == proc[p]
  <1>1. s.pc = "parse" /\ UNCHANGED <<links, data>>
    BY DEF Parses, At
  <1>2. s.err = Unset /\ s.stdout = <<>> /\ s.status = "running" /\ ~s.renamed /\ s.seen = <<>>
    BY <1>1, Before DEF PhaseInv, CommandInv, Working, Reading
  <1>3. ~s.spool /\ (s.staged => "staged" \in s.stuck)
    BY <1>1, <1>2, Before DEF RemovalInv, Staged, Spooled
  <1>4. ASSUME NEW pc,
               \/ pc = "exit" /\ s.args.help
               \/ pc = "open" /\ s.args.command = "inspect"
               \/ pc = "key",
               Becomes(p, To(s, pc))
        PROVE  Effect(p) /\ ProcInv(p)'
    <2>1. Effect(p) /\ proc'[p].pc = pc /\ Keeps(p, {"pc"})
      BY <1>1, <1>4, Moves
    <2>2. PhaseInv(proc[p])' /\ RemovalInv(proc[p])' /\ CommandInv(proc[p])'
      BY <1>2, <1>3, <1>4, <2>1
      DEF Keeps, Fields, PhaseInv, RemovalInv, CommandInv, Working, Reading, Unset
    <2>3. InputInv(p)' /\ OutputInv(p)' /\ DecodeInv(p)'
      BY <1>2, <1>4, <2>1 DEF Keeps, Fields, InputInv, OutputInv, DecodeInv, Delivers, Reading
    <2>4. SourceInv(p)'
      BY <1>4, <2>1 DEF Keeps, Fields, SourceInv, Reading
    <2>. QED
      BY <2>1, <2>2, <2>3, <2>4 DEF ProcInv
  <1>. QED
    BY <1>1, <1>3, <1>4, FailureStep DEF Parses, Working, Reading
LEMMA LoadsKeyStep ==
  ASSUME CliInv, NEW p \in Procs, LoadsKey(p)
  PROVE  Effect(p) /\ ProcInv(p)'
  <1>. DEFINE s == proc[p]
              next == IF s.args.command = "encode" THEN "plan" ELSE "open"
              file == s.args.keyFile
  <1>1. s.pc = "key" /\ UNCHANGED <<links, data>>
    BY DEF LoadsKey, At
  <1>2. s.err = Unset /\ s.stdout = <<>> /\ s.status = "running" /\ ~s.renamed /\ s.seen = <<>>
    BY <1>1, Before DEF PhaseInv, CommandInv, Working, Reading
  <1>3. ~s.spool /\ (s.staged => "staged" \in s.stuck)
    BY <1>1, <1>2, Before DEF RemovalInv, Staged, Spooled
  <1>4. ASSUME NEW key, Path(file) => links[file] # NoFile,
               Becomes(p, [s EXCEPT !.key = key, !.pc = next])
        PROVE  Effect(p) /\ ProcInv(p)'
    <2>. DEFINE r == [s EXCEPT !.key = key, !.pc = next]
    <2>1. /\ DOMAIN r = Fields /\ r.pc = next
          /\ \A f \in Fields \ {"key", "pc"} : r[f] = s[f]
      BY Before DEF Fields
    <2>2. Effect(p) /\ proc'[p] = r
      <3>1. r.args = s.args /\ r.renamed = s.renamed
        BY <2>1 DEF Fields
      <3>2. Becomes(p, r)
        BY <1>4
      <3>. HIDE DEF r
      <3>. QED
        BY <1>1, <2>1, <3>1, <3>2, Before, RecordOnly
    <2>3. /\ proc'[p].pc = next /\ Keeps(p, {"key", "pc"})
          /\ next \in {"plan", "open"}
      BY <2>1, <2>2 DEF Keeps
    <2>. HIDE DEF r, next
    <2>4. PhaseInv(proc[p])' /\ RemovalInv(proc[p])' /\ CommandInv(proc[p])'
      BY <1>2, <1>3, <2>3
      DEF Keeps, Fields, PhaseInv, RemovalInv, CommandInv, Working, Reading
    <2>5. InputInv(p)' /\ OutputInv(p)' /\ DecodeInv(p)'
      BY <1>2, <2>3 DEF Keeps, Fields, InputInv, OutputInv, DecodeInv, Reading
    <2>6. SourceInv(p)'
      BY <1>1, <1>4, <2>3 DEF Keeps, Fields, SourceInv, Reading
    <2>. QED
      BY <2>2, <2>4, <2>5, <2>6 DEF ProcInv
  <1>5. ASSUME NEW kind \in {"usage", "error"}, Becomes(p, Failed(s, kind))
        PROVE  Effect(p) /\ ProcInv(p)'
    BY <1>1, <1>3, <1>5, FailureStep DEF Working, Reading
  <1>6. ASSUME NEW content, Path(file) => links[file] # NoFile, Becomes(p, decodeKey(s, content))
        PROVE  Effect(p) /\ ProcInv(p)'
    BY <1>4, <1>5, <1>6 DEF decodeKey
  <1>7. CASE Path(file)
    BY <1>5, <1>6, <1>7 DEF LoadsKey
  <1>8. CASE ~Path(file) /\ s.args.env # Unset
    BY <1>6, <1>8 DEF LoadsKey
  <1>9. CASE ~Path(file) /\ s.args.env = Unset
    <2>1. Becomes(p, To(s, next))
      BY <1>9 DEF LoadsKey
    <2>2. To(s, next) = [s EXCEPT !.key = s.key, !.pc = next]
      BY Before DEF To, Fields
    <2>. QED
      BY <1>4, <1>9, <2>1, <2>2
  <1>. QED
    BY <1>7, <1>8, <1>9

LEMMA PlansStep ==
  ASSUME CliInv, NEW p \in Procs, Plans(p)
  PROVE  Effect(p) /\ ProcInv(p)'
  <1>. DEFINE s == proc[p]
  <1>1. s.pc = "plan" /\ UNCHANGED <<links, data>>
    BY DEF Plans, At
  <1>2. s.err = Unset /\ s.stdout = <<>> /\ s.status = "running" /\ ~s.renamed /\ s.seen = <<>>
    BY <1>1, Before DEF PhaseInv, CommandInv, Working, Reading
  <1>3. ~s.spool /\ (s.staged => "staged" \in s.stuck)
    BY <1>1, <1>2, Before DEF RemovalInv, Staged, Spooled
  <1>4. CASE Becomes(p, To(s, "open"))
    <2>1. Effect(p) /\ proc'[p].pc = "open" /\ Keeps(p, {"pc"})
      BY <1>1, <1>4, Moves
    <2>2. PhaseInv(proc[p])' /\ RemovalInv(proc[p])' /\ CommandInv(proc[p])'
      BY <1>2, <1>3, <2>1
      DEF Keeps, Fields, PhaseInv, RemovalInv, CommandInv, Working, Reading
    <2>3. InputInv(p)' /\ OutputInv(p)' /\ DecodeInv(p)'
      BY <1>2, <2>1 DEF Keeps, Fields, InputInv, OutputInv, DecodeInv, Reading
    <2>4. SourceInv(p)'
      BY <1>1, <2>1, Before DEF Keeps, Fields, SourceInv, Reading
    <2>. QED
      BY <2>1, <2>2, <2>3, <2>4 DEF ProcInv
  <1>. QED
    BY <1>1, <1>3, <1>4, FailureStep DEF Plans, Working, Reading

LEMMA OpensInputStep ==
  ASSUME CliInv, NEW p \in Procs, OpensInput(p)
  PROVE  Effect(p) /\ ProcInv(p)'
  <1>. DEFINE s    == proc[p]
              next == IF s.args.command \in {"verify", "inspect"} THEN "report" ELSE "alias"
              file == IF s.args.in = Dash THEN s.args.stdin ELSE links[s.args.in]
              r    == [s EXCEPT !.pc = next, !.input = file]
  <1>1. s.pc = "open" /\ UNCHANGED <<links, data>>
    BY DEF OpensInput, At
  <1>2. s.err = Unset /\ s.stdout = <<>> /\ s.status = "running" /\ ~s.renamed /\ s.seen = <<>>
    BY <1>1, Before DEF PhaseInv, CommandInv, Working, Reading
  <1>3. ~s.spool /\ (s.staged => "staged" \in s.stuck)
    BY <1>1, <1>2, Before DEF RemovalInv, Staged, Spooled
  <1>4. CASE Readable(s) /\ Becomes(p, r)
    <2>1. /\ DOMAIN r = Fields /\ r.pc = next /\ r.input = file
          /\ \A f \in Fields \ {"input", "pc"} : r[f] = s[f]
      BY Before DEF Fields
    <2>2. Effect(p) /\ proc'[p] = r
      <3>1. r.args = s.args /\ r.renamed = s.renamed
        BY <2>1 DEF Fields
      <3>2. Becomes(p, r)
        BY <1>4
      <3>. HIDE DEF r
      <3>. QED
        BY <1>1, <2>1, <3>1, <3>2, Before, RecordOnly
    <2>3. Published(file, proc)
      <3>1. CASE s.args.in = Dash
        BY <3>1, Before DEF Options, Published
      <3>2. CASE s.args.in # Dash
        BY <1>4, <3>2, Before DEF Readable, CliInv, NamesInv, Options
      <3>. QED
        BY <3>1, <3>2
    <2>4. Published(file, proc')
      <3>. HIDE DEF file
      <3>. QED
        BY <2>2, <2>3, Before, PublishedStays
    <2>5. /\ proc'[p].pc = next /\ proc'[p].input = file /\ Keeps(p, {"input", "pc"})
          /\ \/ next = "report" /\ s.args.command \in {"verify", "inspect"}
             \/ next = "alias" /\ s.args.command \notin {"verify", "inspect"}
      BY <2>1, <2>2 DEF Keeps
    <2>. HIDE DEF r, next, file
    <2>6. PhaseInv(proc[p])' /\ RemovalInv(proc[p])' /\ CommandInv(proc[p])'
      BY <1>2, <1>3, <2>5
      DEF Keeps, Fields, PhaseInv, RemovalInv, CommandInv, Working, Reading
    <2>7. InputInv(p)' /\ OutputInv(p)' /\ DecodeInv(p)'
      BY <1>2, <2>4, <2>5 DEF Keeps, Fields, InputInv, OutputInv, DecodeInv, Reading
    <2>8. SourceInv(p)'
      BY <1>1, <1>4, <2>5, Before DEF Keeps, Fields, SourceInv, Reading, Readable, Path
    <2>. QED
      BY <2>2, <2>6, <2>7, <2>8 DEF ProcInv
  <1>. QED
    BY <1>1, <1>3, <1>4, FailureStep DEF OpensInput, Working, Reading

(* The comparison: an output that is not found, and a source that is not   *)
(* found or is another file, lets the process go on.                       *)
LEMMA GoesOn ==
  ASSUME CliInv, NEW p \in Procs, At(p, "alias"), UNCHANGED <<links, data>>,
         NEW r, DOMAIN r = Fields, \A f \in Fields \ {"unseen"} : r[f] = proc[p][f],
         Becomes(p, To(r, "stage")),
         ToPath(proc[p]) =>
           \A source \in Sources : Path(proc[p].args[source]) /\ source \notin r.unseen =>
             links[proc[p].args[source]] # links[proc[p].args.out]
  PROVE  Effect(p) /\ ProcInv(p)'
  <1>. DEFINE s == proc[p]
  <1>1. s.pc = "alias" /\ ShapeInv /\ DOMAIN s = Fields
    BY DEF At, CliInv, ShapeInv
  <1>2. /\ s.err = Unset /\ s.stdout = <<>> /\ s.status = "running" /\ ~s.renamed /\ s.seen = <<>>
        /\ s.args.command \notin {"verify", "inspect"}
    BY <1>1, Before DEF PhaseInv, CommandInv, Working, Reading
  <1>3. ~s.spool /\ (s.staged => "staged" \in s.stuck)
    BY <1>1, <1>2, Before DEF RemovalInv, Staged, Spooled
  <1>4. DOMAIN r = Fields /\ \A f \in Fields \ {"unseen"} : r[f] = s[f]
    OBVIOUS
  <1>5. /\ DOMAIN To(r, "stage") = Fields /\ To(r, "stage").pc = "stage"
        /\ To(r, "stage").unseen = r.unseen
        /\ \A f \in Fields \ {"pc", "unseen"} : To(r, "stage")[f] = s[f]
    BY <1>4, ToFields DEF Fields
  <1>6. To(r, "stage").args = s.args /\ To(r, "stage").renamed = s.renamed
    BY <1>5 DEF Fields
  <1>7. Effect(p) /\ proc'[p] = To(r, "stage")
    <2>. DEFINE after == To(r, "stage")
    <2>. HIDE DEF after
    <2>1. Becomes(p, after)
      BY DEF after
    <2>. QED
      BY <1>1, <1>5, <1>6, <2>1, RecordOnly DEF after
  <1>8. proc'[p].pc = "stage" /\ proc'[p].unseen = r.unseen /\ Keeps(p, {"pc", "unseen"})
    BY <1>5, <1>7 DEF Keeps
  <1>9. PhaseInv(proc[p])' /\ RemovalInv(proc[p])' /\ CommandInv(proc[p])'
    BY <1>2, <1>3, <1>8
    DEF Keeps, Fields, PhaseInv, RemovalInv, CommandInv, Working, Reading
  <1>10. Published(s.input, proc')
    BY <1>1, <1>7, Before, PublishedStays DEF InputInv, Reading
  <1>11. InputInv(p)' /\ OutputInv(p)' /\ DecodeInv(p)'
    BY <1>2, <1>8, <1>10 DEF Keeps, Fields, InputInv, OutputInv, DecodeInv, Reading
  <1>12. SourceInv(p)'
    BY <1>1, <1>8 DEF Keeps, Fields, SourceInv, ToPath, Compared
  <1>. QED
    BY <1>7, <1>9, <1>11, <1>12 DEF ProcInv

LEMMA RejectsAliasesStep ==
  ASSUME CliInv, NEW p \in Procs, RejectsAliases(p)
  PROVE  Effect(p) /\ ProcInv(p)'
  <1>. DEFINE s == proc[p]
  <1>1. s.pc = "alias" /\ At(p, "alias") /\ UNCHANGED <<links, data>>
    BY DEF RejectsAliases, At
  <1>2. s.err = Unset /\ s.args.command \notin {"verify", "inspect"} /\ ~s.spool /\ ShapeInv
        /\ DOMAIN s = Fields
    <2>1. s.err = Unset /\ s.args.command \notin {"verify", "inspect"}
      BY <1>1, Before DEF PhaseInv, CommandInv, Working, Reading
    <2>. QED
      BY <1>1, <2>1, Before DEF RemovalInv, Spooled, CliInv, ShapeInv
  <1>3. ASSUME NEW source \in Sources, Path(s.args[source])
        PROVE  links[s.args[source]] # NoFile
    BY <1>1, <1>2, <1>3, Before DEF Sources, SourceInv
  <1>4. CASE ~ToPath(s) /\ Becomes(p, To(s, "stage"))
    BY <1>1, <1>2, <1>4, GoesOn
  <1>5. ASSUME NEW failing \in SUBSET Statted(s), ToPath(s), ~Aliased(s, failing),
               Becomes(p, To([s EXCEPT !.unseen = Unseen(s, failing)], "stage"))
        PROVE  Effect(p) /\ ProcInv(p)'
    <2>1. ASSUME NEW source \in Sources, Path(s.args[source]), source \notin Unseen(s, failing)
          PROVE  links[s.args[source]] # links[s.args.out]
      <3>1. CASE links[s.args.out] = NoFile
        BY <1>3, <2>1, <3>1
      <3>2. CASE links[s.args.out] # NoFile
        <4>1. "out" \notin failing /\ source \notin failing
          BY <2>1, <3>2 DEF Unseen
        <4>2. "out" \in Statted(s) /\ source \in Statted(s)
          <5>1. s.args.out \in Names \cup {Dash} /\ Unset \notin Names
            BY <1>2, CliAssumption DEF ShapeInv, Options
          <5>2. Path(s.args.out)
            BY <1>5, <5>1 DEF Path, ToPath, Dash, Unset
          <5>3. s.args["out"] = s.args.out
            OBVIOUS
          <5>. QED
            BY <2>1, <5>2, <5>3 DEF Statted
        <4>3. Found(s, "out", failing) /\ Found(s, source, failing)
          BY <1>3, <2>1, <3>2, <4>1, <4>2 DEF Found
        <4>. QED
          BY <1>5, <4>3 DEF Aliased
      <3>. QED
        BY <3>1, <3>2
    <2>. DEFINE r == [s EXCEPT !.unseen = Unseen(s, failing)]
    <2>2. DOMAIN r = Fields /\ r.unseen = Unseen(s, failing)
          /\ \A f \in Fields \ {"unseen"} : r[f] = s[f]
      BY <1>2 DEF Fields
    <2>3. Becomes(p, To(r, "stage"))
      BY <1>5
    <2>. HIDE DEF r
    <2>. QED
      BY <1>1, <2>1, <2>2, <2>3, GoesOn
  <1>6. CASE Becomes(p, Failed(s, "usage"))
    BY <1>1, <1>2, <1>6, FailureStep DEF Working, Reading
  <1>. QED
    BY <1>4, <1>5, <1>6 DEF RejectsAliases

LEMMA StagesStep ==
  ASSUME CliInv, NEW p \in Procs, Stages(p)
  PROVE  Effect(p) /\ ProcInv(p)'
  <1>. DEFINE s == proc[p]
              r == [s EXCEPT !.staged = TRUE, !.pc = "begin"]
  <1>1. s.pc = "stage" /\ UNCHANGED links
    BY DEF Stages, At
  <1>2. /\ s.err = Unset /\ s.stdout = <<>> /\ s.status = "running" /\ ~s.renamed /\ s.seen = <<>>
        /\ s.args.command \notin {"verify", "inspect"}
    BY <1>1, Before DEF PhaseInv, CommandInv, Working, Reading
  <1>3. ~s.spool
    BY <1>1, <1>2, Before DEF RemovalInv, Spooled
  <1>4. CASE Becomes(p, r) /\ data' = [data EXCEPT ![p] = Staging]
    <2>1. /\ DOMAIN r = Fields /\ r.pc = "begin" /\ r.args = s.args /\ r.renamed = s.renamed
          /\ \A f \in Fields \ {"staged", "pc"} : r[f] = s[f]
      BY Before DEF Fields
    <2>2. Becomes(p, r)
      BY <1>4
    <2>. HIDE DEF r
    <2>3. Effect(p) /\ proc'[p] = r
      BY <1>1, <1>2, <1>4, <2>1, <2>2, Before, RecordAndData
    <2>4. proc'[p].pc = "begin" /\ Keeps(p, {"staged", "pc"})
      BY <2>1, <2>3 DEF Keeps
    <2>5. PhaseInv(proc[p])' /\ RemovalInv(proc[p])' /\ CommandInv(proc[p])'
      BY <1>2, <1>3, <2>4
      DEF Keeps, Fields, PhaseInv, RemovalInv, CommandInv, Working, Reading, Staged
    <2>6. Published(s.input, proc')
      BY <1>1, <2>3, Before, PublishedStays DEF InputInv, Reading
    <2>7. InputInv(p)' /\ OutputInv(p)' /\ DecodeInv(p)'
      BY <1>2, <2>4, <2>6 DEF Keeps, Fields, InputInv, OutputInv, DecodeInv, Reading
    <2>8. SourceInv(p)'
      BY <1>1, <2>4, Before DEF Keeps, Fields, SourceInv, ToPath, Compared, Reading
    <2>. QED
      BY <2>3, <2>5, <2>7, <2>8 DEF ProcInv
  <1>. QED
    BY <1>1, <1>3, <1>4, FailureStep DEF Stages, Working, Reading

LEMMA BeginsStep ==
  ASSUME CliInv, NEW p \in Procs, Begins(p)
  PROVE  Effect(p) /\ ProcInv(p)'
  <1>. DEFINE s == proc[p]
              now == data[s.input]
  <1>1. s.pc = "begin" /\ UNCHANGED <<links, data>>
    BY DEF Begins, At
  <1>2. /\ s.err = Unset /\ s.stdout = <<>> /\ s.status = "running" /\ ~s.renamed /\ s.seen = <<>>
        /\ s.args.command \notin {"verify", "inspect"}
    BY <1>1, Before DEF PhaseInv, CommandInv, Working, Reading
  <1>3. ~s.spool
    BY <1>1, <1>2, Before DEF RemovalInv, Spooled
  <1>4. ASSUME NEW spool, spool => s.args.command = "encode",
               NEW seen \in Seq({now}), s.args.command = "decode" => IsContainer(now),
               Becomes(p, [s EXCEPT !.spool = spool, !.seen = seen, !.pc = "copy"])
        PROVE  Effect(p) /\ ProcInv(p)'
    <2>. DEFINE r == [s EXCEPT !.spool = spool, !.seen = seen, !.pc = "copy"]
    <2>1. /\ DOMAIN r = Fields /\ r.pc = "copy" /\ r.seen = seen /\ r.args = s.args
          /\ r.renamed = s.renamed /\ r.spool = spool
          /\ \A f \in Fields \ {"spool", "seen", "pc"} : r[f] = s[f]
      BY Before DEF Fields
    <2>2. Becomes(p, r)
      BY <1>4
    <2>. HIDE DEF r
    <2>3. Effect(p) /\ proc'[p] = r
      BY <1>1, <2>1, <2>2, Before, RecordOnly
    <2>4. /\ proc'[p].pc = "copy" /\ proc'[p].seen = seen /\ proc'[p].spool = spool
          /\ Keeps(p, {"spool", "seen", "pc"})
      BY <2>1, <2>3 DEF Keeps
    <2>5. PhaseInv(proc[p])' /\ RemovalInv(proc[p])' /\ CommandInv(proc[p])'
      BY <1>2, <1>4, <2>4
      DEF Keeps, Fields, PhaseInv, RemovalInv, CommandInv, Working, Reading, Staged, Spooled
    <2>6. Published(s.input, proc')
      BY <1>1, <2>3, Before, PublishedStays DEF InputInv, Reading
    <2>7. InputInv(p)' /\ OutputInv(p)' /\ DecodeInv(p)'
      BY <1>1, <1>2, <1>4, <2>4, <2>6 DEF Keeps, Fields, InputInv, OutputInv, DecodeInv, Reading
    <2>8. SourceInv(p)'
      BY <1>1, <2>4, Before DEF Keeps, Fields, SourceInv, ToPath, Compared, Reading
    <2>. QED
      BY <2>3, <2>5, <2>7, <2>8 DEF ProcInv
  <1>5. CASE s.args.command = "encode" /\ Becomes(p, [s EXCEPT !.spool = TRUE, !.pc = "copy"])
    <2>1. [s EXCEPT !.spool = TRUE, !.pc = "copy"] = [s EXCEPT !.spool = TRUE, !.seen = <<>>, !.pc = "copy"]
      BY <1>2, Before DEF Fields
    <2>2. <<>> \in Seq({now})
      OBVIOUS
    <2>. QED
      BY <1>4, <1>5, <2>1, <2>2
  <1>6. CASE /\ s.args.command = "decode" /\ Opened(now, s.key)
             /\ Becomes(p, [s EXCEPT !.seen = <<now>>, !.pc = "copy"])
    <2>1. [s EXCEPT !.seen = <<now>>, !.pc = "copy"] = [s EXCEPT !.spool = s.spool, !.seen = <<now>>, !.pc = "copy"]
      BY Before DEF Fields
    <2>2. <<now>> \in Seq({now}) /\ IsContainer(now) /\ ~s.spool
      BY <1>3, <1>6 DEF Opened
    <2>. QED
      BY <1>4, <1>6, <2>1, <2>2
  <1>. QED
    BY <1>1, <1>3, <1>5, <1>6, FailureStep DEF Begins, Working, Reading

(* What was read of one content is that content.                           *)
LEMMA ReadWhole ==
  ASSUME NEW content, NEW seen \in Seq({content}), Len(seen) = Reads
  PROVE  Input(seen) = content
  <1>1. /\ Len(seen) >= 1 /\ DOMAIN seen = 1..Len(seen)
        /\ \A i \in 1..Len(seen) : seen[i] \in {content}
    BY CliAssumption
  <1>2. 1 \in DOMAIN seen /\ \A i \in DOMAIN seen : seen[i] = content
    BY <1>1
  <1>. QED
    BY <1>2 DEF Input

LEMMA CopyReadsStep ==
  ASSUME CliInv, NEW p \in Procs, CopyReads(p)
  PROVE  Effect(p) /\ ProcInv(p)'
  <1>. DEFINE s   == proc[p]
              now == data[s.input]
              r   == [s EXCEPT !.seen = Append(s.seen, now)]
  <1>1. s.pc = "copy" /\ UNCHANGED <<links, data>> /\ Becomes(p, r)
    BY DEF CopyReads, At
  <1>2. /\ s.err = Unset /\ s.stdout = <<>> /\ s.status = "running" /\ ~s.renamed
        /\ s.args.command \notin {"verify", "inspect"} /\ s.seen \in Seq({now})
    BY <1>1, Before DEF PhaseInv, CommandInv, InputInv, Working, Reading
  <1>3. Append(s.seen, now) \in Seq({now})
    BY <1>2
  <1>4. /\ DOMAIN r = Fields /\ r.seen = Append(s.seen, now) /\ r.args = s.args
        /\ r.renamed = s.renamed
        /\ \A f \in Fields \ {"seen"} : r[f] = s[f]
    BY Before DEF Fields
  <1>. HIDE DEF r
  <1>5. Effect(p) /\ proc'[p] = r
    BY <1>1, <1>4, Before, RecordOnly
  <1>6. proc'[p].seen = Append(s.seen, now) /\ Keeps(p, {"seen"}) /\ proc'[p].pc = "copy"
    BY <1>1, <1>4, <1>5 DEF Keeps, Fields
  <1>7. PhaseInv(proc[p])' /\ RemovalInv(proc[p])' /\ CommandInv(proc[p])'
    BY <1>2, <1>6, Before
    DEF Keeps, Fields, PhaseInv, RemovalInv, CommandInv, Working, Reading, Staged, Spooled
  <1>8. Published(s.input, proc')
    BY <1>1, <1>5, Before, PublishedStays DEF InputInv, Reading
  <1>9. InputInv(p)' /\ OutputInv(p)' /\ DecodeInv(p)'
    BY <1>1, <1>2, <1>3, <1>6, <1>8, Before
    DEF Keeps, Fields, InputInv, OutputInv, DecodeInv, Reading
  <1>10. SourceInv(p)'
    BY <1>1, <1>6, Before DEF Keeps, Fields, SourceInv, ToPath, Compared, Reading
  <1>. QED
    BY <1>5, <1>7, <1>9, <1>10 DEF ProcInv

LEMMA CopyEndsStep ==
  ASSUME CliInv, NEW p \in Procs, CopyEnds(p)
  PROVE  Effect(p) /\ ProcInv(p)'
  <1>. DEFINE s   == proc[p]
              now == data[s.input]
              r   == To(s, "stdin")
  <1>1. s.pc = "copy" /\ UNCHANGED links /\ Becomes(p, r) /\ Len(s.seen) = Reads /\ Sound(s)
    BY DEF CopyEnds, At, AllRead
  <1>2. /\ s.err = Unset /\ s.stdout = <<>> /\ s.status = "running" /\ ~s.renamed
        /\ s.args.command \notin {"verify", "inspect"} /\ s.seen \in Seq({now})
        /\ Published(s.input, proc)
    BY <1>1, Before DEF PhaseInv, CommandInv, InputInv, Working, Reading
  <1>3. Input(s.seen) = now
    BY <1>1, <1>2, ReadWhole
  <1>4. /\ DOMAIN r = Fields /\ r.pc = "stdin" /\ r.args = s.args /\ r.renamed = s.renamed
        /\ \A f \in Fields \ {"pc"} : r[f] = s[f]
    BY Before, ToFields DEF Fields
  <1>. HIDE DEF r
  <1>5. /\ Effect(p) /\ proc'[p] = r
        /\ s.args.command # "encode" => data'[p] = Output(s, now)
    <2>1. CASE s.args.command = "encode"
      <3>1. UNCHANGED data
        BY <2>1 DEF CopyEnds
      <3>. QED
        BY <1>1, <1>4, <2>1, <3>1, Before, RecordOnly
    <2>2. CASE s.args.command # "encode"
      <3>1. data' = [data EXCEPT ![p] = Output(s, now)]
        BY <1>3, <2>2 DEF CopyEnds
      <3>. QED
        BY <1>1, <1>2, <1>4, <3>1, Before, RecordAndData
    <2>. QED
      BY <2>1, <2>2
  <1>6. Keeps(p, {"pc"}) /\ proc'[p].pc = "stdin"
    BY <1>4, <1>5 DEF Keeps
  <1>7. PhaseInv(proc[p])' /\ RemovalInv(proc[p])' /\ CommandInv(proc[p])'
    BY <1>1, <1>2, <1>6, Before
    DEF Keeps, Fields, PhaseInv, RemovalInv, CommandInv, Working, Reading, Staged, Spooled
  <1>8. Published(s.input, proc') /\ data'[s.input] = now
    BY <1>2, <1>5, Before, PublishedStays
  <1>9. InputInv(p)'
    BY <1>2, <1>6, <1>8 DEF Keeps, Fields, InputInv, Reading
  <1>10. OutputInv(p)'
    BY <1>5, <1>6, <1>8 DEF Keeps, Fields, OutputInv, Output
  <1>11. s.args.command = "decode" => IsContainer(now) /\ Copied(now, s.key)
    BY <1>1, <1>3, Before DEF DecodeInv, Sound
  <1>12. DecodeInv(p)'
    BY <1>6, <1>8, <1>11 DEF Keeps, Fields, DecodeInv
  <1>13. SourceInv(p)'
    BY <1>1, <1>6, Before DEF Keeps, Fields, SourceInv, ToPath, Compared, Reading
  <1>. QED
    BY <1>5, <1>7, <1>9, <1>10, <1>12, <1>13 DEF ProcInv

LEMMA AbortsStep ==
  ASSUME CliInv, NEW p \in Procs, Aborts(p)
  PROVE  Effect(p) /\ ProcInv(p)'
  <1>. DEFINE s == proc[p]
  <1>1. PICK gone \in BOOLEAN : Becomes(p, To(Closed(s, gone), "discard"))
    BY DEF Aborts
  <1>2. s.pc = "abort" /\ UNCHANGED <<links, data>>
    BY DEF Aborts, At
  <1>. DEFINE r == To(Closed(s, gone), "discard")
  <1>3. s.err # Unset /\ s.stdout \in {<<>>, Staging} /\ s.status = "running" /\ ~s.renamed
    BY <1>2, Before DEF PhaseInv
  <1>4. /\ DOMAIN r = Fields /\ r.pc = "discard" /\ r.args = s.args /\ r.renamed = s.renamed
        /\ r.spool => "spool" \in r.stuck
        /\ \A f \in Fields \ {"pc", "spool", "stuck"} : r[f] = s[f]
    BY Before DEF Fields, To, Closed
  <1>. HIDE DEF r
  <1>5. Effect(p) /\ proc'[p] = r
    <2>1. Becomes(p, r)
      BY <1>1 DEF r
    <2>. QED
      BY <1>2, <1>4, <2>1, Before, RecordOnly
  <1>6. /\ Keeps(p, {"pc", "spool", "stuck"}) /\ proc'[p].pc = "discard"
        /\ proc'[p].spool => "spool" \in proc'[p].stuck
    BY <1>4, <1>5 DEF Keeps
  <1>7. PhaseInv(proc[p])' /\ RemovalInv(proc[p])' /\ CommandInv(proc[p])'
    BY <1>3, <1>6
    DEF Keeps, Fields, PhaseInv, RemovalInv, CommandInv, Working, Reading, Staged
  <1>8. InputInv(p)' /\ OutputInv(p)' /\ SourceInv(p)'
    BY <1>3, <1>6 DEF Keeps, Fields, InputInv, OutputInv, SourceInv, Delivers, Reading
  <1>9. Published(s.input, proc) => Published(s.input, proc') /\ data'[s.input] = data[s.input]
    BY <1>5, Before, PublishedStays
  <1>10. DecodeInv(p)'
    BY <1>6, <1>9, Before DEF Keeps, Fields, DecodeInv
  <1>. QED
    BY <1>5, <1>7, <1>8, <1>10 DEF ProcInv

LEMMA ClosesStdinStep ==
  ASSUME CliInv, NEW p \in Procs, ClosesStdin(p)
  PROVE  Effect(p) /\ ProcInv(p)'
  <1>. DEFINE s    == proc[p]
              now  == data[s.input]
              next == IF s.args.command = "encode" THEN "close" ELSE "publish"
  <1>1. s.pc = "stdin" /\ UNCHANGED <<links, data>>
    BY DEF ClosesStdin, At
  <1>2. /\ s.err = Unset /\ s.stdout = <<>> /\ s.status = "running" /\ ~s.renamed
        /\ s.args.command \notin {"verify", "inspect"} /\ s.seen \in Seq({now})
        /\ Len(s.seen) = Reads /\ Published(s.input, proc)
    BY <1>1, Before DEF PhaseInv, CommandInv, InputInv, Working, Reading
  <1>3. CASE Becomes(p, To(s, next))
    <2>1. Effect(p) /\ proc'[p].pc = next /\ Keeps(p, {"pc"})
      BY <1>1, <1>3, Moves
    <2>2. \/ next = "close" /\ s.args.command = "encode"
          \/ next = "publish" /\ s.args.command # "encode" /\ ~s.spool
      BY <1>1, <1>2, Before DEF CommandInv
    <2>. HIDE DEF next
    <2>3. PhaseInv(proc[p])' /\ RemovalInv(proc[p])' /\ CommandInv(proc[p])'
      BY <1>1, <1>2, <2>1, <2>2, Before
      DEF Keeps, Fields, PhaseInv, RemovalInv, CommandInv, Working, Reading, Staged, Spooled
    <2>4. Published(s.input, proc') /\ data'[s.input] = now /\ data'[p] = data[p]
      BY <1>1, <1>2, <2>1, Before, PublishedStays
    <2>5. InputInv(p)'
      BY <1>2, <2>1, <2>4 DEF Keeps, Fields, InputInv, Reading
    <2>6. OutputInv(p)'
      BY <1>1, <2>1, <2>2, <2>4, Before DEF Keeps, Fields, OutputInv, Output
    <2>7. DecodeInv(p)'
      BY <1>1, <1>2, <2>1, <2>2, <2>4, Before DEF Keeps, Fields, DecodeInv
    <2>8. SourceInv(p)'
      BY <1>1, <2>1, <2>2, Before DEF Keeps, Fields, SourceInv, ToPath, Compared, Reading
    <2>. QED
      BY <2>1, <2>3, <2>5, <2>6, <2>7, <2>8 DEF ProcInv
  <1>. QED
    BY <1>1, <1>3, AbandonedStep DEF ClosesStdin

LEMMA ClosesEncoderStep ==
  ASSUME CliInv, NEW p \in Procs, ClosesEncoder(p)
  PROVE  Effect(p) /\ ProcInv(p)'
  <1>. DEFINE s   == proc[p]
              now == data[s.input]
  <1>1. s.pc = "close" /\ UNCHANGED links
    BY DEF ClosesEncoder, At
  <1>2. /\ s.err = Unset /\ s.stdout = <<>> /\ s.status = "running" /\ ~s.renamed
        /\ s.args.command = "encode" /\ s.seen \in Seq({now}) /\ Len(s.seen) = Reads
        /\ Published(s.input, proc) /\ Input(s.seen) = now
    BY <1>1, Before, ReadWhole DEF PhaseInv, CommandInv, InputInv, Working, Reading
  <1>3. PICK ok \in BOOLEAN, gone \in BOOLEAN :
          /\ Becomes(p, IF Succeeds(ok, gone) THEN To(Closed(s, gone), "publish")
                        ELSE Failed(Closed(s, gone), "error"))
          /\ data' = IF ok THEN [data EXCEPT ![p] = Output(s, now)] ELSE data
    BY <1>2 DEF ClosesEncoder
  <1>. DEFINE c == Closed(s, gone)
  <1>4. /\ DOMAIN c = Fields /\ c.args = s.args /\ c.spool = ~gone
        /\ c.spool => "spool" \in c.stuck
        /\ \A f \in Fields \ {"spool", "stuck"} : c[f] = s[f]
    BY Before DEF Fields, Closed
  <1>. HIDE DEF c
  <1>5. ASSUME NEW r, Becomes(p, r), DOMAIN r = Fields, r.args = s.args, r.renamed = s.renamed
        PROVE  Effect(p) /\ proc'[p] = r /\ (ok => data'[p] = Output(s, now))
    <2>1. CASE ok
      BY <1>1, <1>2, <1>3, <1>5, <2>1, Before, RecordAndData
    <2>2. CASE ~ok
      BY <1>1, <1>3, <1>5, <2>2, Before, RecordOnly
    <2>. QED
      BY <2>1, <2>2
  <1>6. CASE ok /\ gone
    <2>. DEFINE r == To(c, "publish")
    <2>1. /\ DOMAIN r = Fields /\ r.pc = "publish"
          /\ \A f \in Fields \ {"pc"} : r[f] = c[f]
      BY <1>4, ToFields
    <2>2. \A f \in Fields \ {"pc", "spool", "stuck"} : r[f] = s[f]
      BY <1>4, <2>1
    <2>3. r.spool = c.spool /\ r.args = s.args /\ r.renamed = s.renamed
      BY <2>1, <2>2 DEF Fields
    <2>4. ~r.spool
      BY <1>4, <1>6, <2>3
    <2>5. Becomes(p, r)
      BY <1>3, <1>6 DEF Succeeds, c
    <2>. HIDE DEF r
    <2>6. Effect(p) /\ proc'[p] = r /\ data'[p] = Output(s, now)
      BY <1>5, <1>6, <2>1, <2>5, <2>3
    <2>7. Keeps(p, {"pc", "spool", "stuck"}) /\ proc'[p].pc = "publish" /\ ~proc'[p].spool
      BY <2>1, <2>6, <2>2, <2>4 DEF Keeps
    <2>8. PhaseInv(proc[p])' /\ RemovalInv(proc[p])' /\ CommandInv(proc[p])'
      BY <1>2, <2>7
      DEF Keeps, Fields, PhaseInv, RemovalInv, CommandInv, Working, Reading, Staged
    <2>9. Published(s.input, proc') /\ data'[s.input] = now
      BY <1>2, <2>6, Before, PublishedStays
    <2>10. InputInv(p)' /\ OutputInv(p)' /\ DecodeInv(p)'
      BY <1>2, <2>6, <2>7, <2>9
      DEF Keeps, Fields, InputInv, OutputInv, DecodeInv, Output, Reading
    <2>11. SourceInv(p)'
      BY <1>1, <2>7, Before DEF Keeps, Fields, SourceInv, ToPath, Compared, Reading
    <2>. QED
      BY <2>6, <2>8, <2>10, <2>11 DEF ProcInv
  <1>7. CASE ~(ok /\ gone)
    <2>. DEFINE r == Failed(c, "error")
    <2>1. DOMAIN r = Fields /\ r.args = s.args /\ r.renamed = s.renamed
      BY <1>4, FailedFields DEF Fields
    <2>2. Becomes(p, r)
      BY <1>3, <1>7 DEF Succeeds, c
    <2>3. Effect(p) /\ proc'[p] = r
      <3>. HIDE DEF r
      <3>. QED
        BY <1>5, <2>1, <2>2
    <2>4. c.status = "running" /\ ~c.renamed /\ c.stdout = <<>>
      BY <1>2, <1>4 DEF Fields
    <2>. QED
      BY <1>4, <2>3, <2>4, FailureInv
  <1>. QED
    BY <1>6, <1>7

LEMMA PublishesStep ==
  ASSUME CliInv, NEW p \in Procs, Publishes(p)
  PROVE  Effect(p) /\ ProcInv(p)'
  <1>. DEFINE s == proc[p]
              r == [s EXCEPT !.staged = FALSE, !.renamed = TRUE, !.pc = "exit"]
  <1>1. /\ s.pc = "publish" /\ UNCHANGED data /\ ToPath(s) /\ Becomes(p, r)
        /\ links' = [links EXCEPT ![s.args.out] = p]
    BY DEF Publishes, At
  <1>2. /\ s.err = Unset /\ s.stdout = <<>> /\ s.status = "running" /\ ~s.renamed
        /\ Published(s.input, proc)
    BY <1>1, Before DEF PhaseInv, InputInv, Working, Reading
  <1>3. ~s.spool
    BY <1>1, <1>2, Before DEF RemovalInv, Spooled
  <1>4. /\ DOMAIN r = Fields /\ r.pc = "exit" /\ r.args = s.args /\ r.renamed /\ ~r.staged
        /\ \A f \in Fields \ {"staged", "renamed", "pc"} : r[f] = s[f]
    BY Before DEF Fields
  <1>. HIDE DEF r
  <1>5. proc'[p] = r /\ DOMAIN proc' = DOMAIN proc /\ \A q \in Procs \ {p} : proc'[q] = proc[q]
    BY <1>1, Before DEF Becomes, ShapeInv
  <1>6. s.args.out \in Names
    BY <1>1, Before DEF Options, ToPath
  <1>7. Effect(p)
    BY <1>1, <1>2, <1>4, <1>5, <1>6, Before DEF Effect, ShapeInv
  <1>8. /\ Keeps(p, {"staged", "renamed", "pc"}) /\ proc'[p].pc = "exit"
        /\ proc'[p].renamed /\ ~proc'[p].staged
    BY <1>4, <1>5 DEF Keeps
  <1>9. PhaseInv(proc[p])' /\ RemovalInv(proc[p])' /\ CommandInv(proc[p])'
    BY <1>2, <1>3, <1>8
    DEF Keeps, Fields, PhaseInv, RemovalInv, CommandInv, Working, Reading
  <1>10. Published(s.input, proc')
    BY <1>2, <1>7, Before, PublishedStays
  <1>11. InputInv(p)' /\ OutputInv(p)'
    BY <1>1, <1>8, <1>10 DEF Keeps, Fields, InputInv, OutputInv, ToPath, Reading
  <1>12. DecodeInv(p)' /\ SourceInv(p)'
    BY <1>1, <1>8, <1>10, Before DEF Keeps, Fields, DecodeInv, SourceInv, Reading
  <1>. QED
    BY <1>7, <1>9, <1>11, <1>12 DEF ProcInv

LEMMA PublishFailsStep ==
  ASSUME CliInv, NEW p \in Procs, PublishFails(p)
  PROVE  Effect(p) /\ ProcInv(p)'
  <1>1. /\ proc[p].pc = "publish" /\ UNCHANGED <<links, data>>
        /\ Becomes(p, Failed(proc[p], "error"))
    BY DEF PublishFails, At, PublishError
  <1>2. ~proc[p].spool
    BY <1>1, Before DEF RemovalInv, PhaseInv, Working, Reading, Spooled
  <1>. QED
    BY <1>1, <1>2, FailureStep DEF Working, Reading

LEMMA PublishesToStdoutStep ==
  ASSUME CliInv, NEW p \in Procs, PublishesToStdout(p)
  PROVE  Effect(p) /\ ProcInv(p)'
  <1>. DEFINE s   == proc[p]
              now == data[s.input]
  <1>1. s.pc = "publish" /\ UNCHANGED <<links, data>> /\ ~ToPath(s)
    BY DEF PublishesToStdout, At
  <1>2. /\ s.err = Unset /\ s.stdout = <<>> /\ s.status = "running" /\ ~s.renamed
        /\ Published(s.input, proc) /\ data[p] = Output(s, now)
    BY <1>1, Before DEF PhaseInv, InputInv, OutputInv, Working, Reading
  <1>3. ~s.spool
    BY <1>1, <1>2, Before DEF RemovalInv, Spooled
  <1>4. s.args.command = "decode" => IsContainer(now) /\ Copied(now, s.key)
    BY <1>1, Before DEF DecodeInv
  <1>5. ASSUME NEW r, Becomes(p, r), DOMAIN r = Fields,
               \A f \in Fields \ {"pc", "err", "stdout"} : r[f] = s[f],
               \/ r.pc = "discard" /\ r.err = Unset /\ r.stdout = Output(s, now)
               \/ r.pc \in {"discard", "exit"} /\ r.err = "error" /\ r.stdout = Staging
                  /\ (s.staged => r.pc = "discard")
        PROVE  Effect(p) /\ ProcInv(p)'
    <2>1. r.args = s.args /\ r.renamed = s.renamed
      BY <1>5 DEF Fields
    <2>2. Effect(p) /\ proc'[p] = r /\ Keeps(p, {"pc", "err", "stdout"})
      BY <1>1, <1>5, <2>1, Before, RecordOnly DEF Keeps
    <2>3. PhaseInv(proc[p])' /\ RemovalInv(proc[p])' /\ CommandInv(proc[p])'
      BY <1>2, <1>3, <1>5, <2>2
      DEF Keeps, Fields, PhaseInv, RemovalInv, CommandInv, Working, Reading, Staged, Unset
    <2>4. Published(s.input, proc') /\ data'[s.input] = now
      BY <1>2, <2>2, Before, PublishedStays
    <2>5. InputInv(p)' /\ DecodeInv(p)' /\ SourceInv(p)'
      BY <1>4, <1>5, <2>2, <2>4
      DEF Keeps, Fields, InputInv, DecodeInv, SourceInv, Reading
    <2>6. OutputInv(p)'
      BY <1>1, <1>5, <2>2, <2>4
      DEF Keeps, Fields, OutputInv, Output, Delivers, ToPath, Unset
    <2>. QED
      BY <2>2, <2>3, <2>5, <2>6 DEF ProcInv
  <1>6. CASE Becomes(p, [s EXCEPT !.stdout = data[p], !.pc = "discard"])
    <2>. DEFINE r == [s EXCEPT !.stdout = data[p], !.pc = "discard"]
    <2>1. /\ DOMAIN r = Fields /\ r.pc = "discard" /\ r.stdout = data[p]
          /\ \A f \in Fields \ {"pc", "stdout"} : r[f] = s[f]
      BY Before DEF Fields
    <2>2. Becomes(p, r)
      BY <1>6
    <2>. HIDE DEF r
    <2>3. r.err = Unset
      BY <1>2, <2>1 DEF Fields
    <2>. QED
      BY <1>2, <1>5, <2>1, <2>2, <2>3
  <1>7. CASE Becomes(p, Failed([s EXCEPT !.stdout = Staging], PublishError))
    <2>. DEFINE t == [s EXCEPT !.stdout = Staging]
                r == Failed(t, "error")
    <2>1. /\ DOMAIN t = Fields /\ t.stdout = Staging
          /\ \A f \in Fields \ {"stdout"} : t[f] = s[f]
      BY Before DEF Fields
    <2>2. Becomes(p, r)
      BY <1>7 DEF PublishError
    <2>. HIDE DEF t
    <2>3. /\ DOMAIN r = Fields /\ r.err = "error" /\ r.stdout = Staging
          /\ r.pc = (IF t.staged THEN "discard" ELSE "exit") /\ t.staged = s.staged
          /\ \A f \in Fields \ {"pc", "err", "stdout"} : r[f] = s[f]
      BY <2>1, FailedFields DEF Fields
    <2>. HIDE DEF r
    <2>. QED
      BY <1>5, <2>2, <2>3
  <1>. QED
    BY <1>6, <1>7 DEF PublishesToStdout

LEMMA DiscardsStep ==
  ASSUME CliInv, NEW p \in Procs, Discards(p)
  PROVE  Effect(p) /\ ProcInv(p)'
  <1>. DEFINE s == proc[p]
  <1>1. s.pc = "discard" /\ UNCHANGED <<links, data>>
    BY DEF Discards, At
  <1>2. s.status = "running" /\ ~s.renamed
    BY <1>1, Before DEF PhaseInv
  <1>3. ASSUME NEW r, Becomes(p, r), DOMAIN r = Fields, r.pc = "exit",
               \A f \in Fields \ {"staged", "stuck", "pc"} : r[f] = s[f],
               r.staged => "staged" \in r.stuck, s.stuck \subseteq r.stuck
        PROVE  Effect(p) /\ ProcInv(p)'
    <2>1. r.args = s.args /\ r.renamed = s.renamed
      BY <1>3 DEF Fields
    <2>2. Effect(p) /\ proc'[p] = r
      BY <1>1, <1>3, <2>1, Before, RecordOnly
    <2>3. Keeps(p, {"staged", "stuck", "pc"}) /\ proc'[p].pc = "exit"
      BY <1>3, <2>2 DEF Keeps
    <2>4. PhaseInv(proc[p])' /\ CommandInv(proc[p])'
      BY <1>1, <1>2, <2>3, Before DEF Keeps, Fields, PhaseInv, CommandInv, Working, Reading
    <2>5. RemovalInv(proc[p])'
      BY <1>1, <1>3, <2>2, <2>3, Before DEF Keeps, Fields, RemovalInv, Spooled
    <2>6. Published(s.input, proc) => Published(s.input, proc') /\ data'[s.input] = data[s.input]
      BY <2>2, Before, PublishedStays
    <2>7. InputInv(p)' /\ SourceInv(p)'
      BY <2>3 DEF InputInv, SourceInv, Reading
    <2>8. OutputInv(p)' /\ DecodeInv(p)'
      BY <1>1, <2>3, <2>6, Before
      DEF Keeps, Fields, OutputInv, DecodeInv, Output, Delivers, ToPath
    <2>. QED
      BY <2>2, <2>4, <2>5, <2>7, <2>8 DEF ProcInv
  <1>4. CASE Becomes(p, [s EXCEPT !.staged = FALSE, !.pc = "exit"])
    <2>. DEFINE r == [s EXCEPT !.staged = FALSE, !.pc = "exit"]
    <2>1. /\ DOMAIN r = Fields /\ r.pc = "exit" /\ ~r.staged /\ r.stuck = s.stuck
          /\ \A f \in Fields \ {"staged", "stuck", "pc"} : r[f] = s[f]
      BY Before DEF Fields
    <2>2. Becomes(p, r)
      BY <1>4
    <2>. HIDE DEF r
    <2>. QED
      BY <1>3, <2>1, <2>2
  <1>5. CASE Becomes(p, [s EXCEPT !.stuck = s.stuck \cup {"staged"}, !.pc = "exit"])
    <2>. DEFINE r == [s EXCEPT !.stuck = s.stuck \cup {"staged"}, !.pc = "exit"]
    <2>1. /\ DOMAIN r = Fields /\ r.pc = "exit" /\ r.stuck = s.stuck \cup {"staged"}
          /\ \A f \in Fields \ {"staged", "stuck", "pc"} : r[f] = s[f]
      BY Before DEF Fields
    <2>2. Becomes(p, r)
      BY <1>5
    <2>. HIDE DEF r
    <2>. QED
      BY <1>3, <2>1, <2>2
  <1>. QED
    BY <1>4, <1>5 DEF Discards

LEMMA ReportsStep ==
  ASSUME CliInv, NEW p \in Procs, Reports(p)
  PROVE  Effect(p) /\ ProcInv(p)'
  <1>. DEFINE s == proc[p]
              t == [s EXCEPT !.stdout = <<"report">>]
              r == To(t, "exit")
  <1>1. s.pc = "report" /\ UNCHANGED <<links, data>>
    BY DEF Reports, At
  <1>2. /\ s.err = Unset /\ s.stdout = <<>> /\ s.status = "running" /\ ~s.renamed
        /\ s.args.command \in {"verify", "inspect"}
    BY <1>1, Before DEF PhaseInv, CommandInv, Working, Reading
  <1>3. ~s.spool /\ (s.staged => "staged" \in s.stuck)
    BY <1>1, <1>2, Before DEF RemovalInv, Staged, Spooled
  <1>4. CASE Becomes(p, r)
    <2>1. DOMAIN t = Fields /\ \A f \in Fields \ {"stdout"} : t[f] = s[f]
      BY Before DEF Fields
    <2>. HIDE DEF t
    <2>2. /\ DOMAIN r = Fields /\ r.pc = "exit" /\ r.args = s.args /\ r.renamed = s.renamed
          /\ \A f \in Fields \ {"stdout", "pc"} : r[f] = s[f]
      BY <2>1, ToFields DEF Fields
    <2>. HIDE DEF r
    <2>3. Effect(p) /\ proc'[p] = r
      BY <1>1, <1>4, <2>2, Before, RecordOnly
    <2>4. Keeps(p, {"stdout", "pc"}) /\ proc'[p].pc = "exit"
      BY <2>2, <2>3 DEF Keeps
    <2>5. PhaseInv(proc[p])' /\ RemovalInv(proc[p])' /\ CommandInv(proc[p])'
      BY <1>2, <1>3, <2>4
      DEF Keeps, Fields, PhaseInv, RemovalInv, CommandInv, Working, Reading
    <2>6. InputInv(p)' /\ OutputInv(p)' /\ DecodeInv(p)' /\ SourceInv(p)'
      BY <1>2, <2>4
      DEF Keeps, Fields, InputInv, OutputInv, DecodeInv, SourceInv, Delivers, Reading
    <2>. QED
      BY <2>3, <2>5, <2>6 DEF ProcInv
  <1>. QED
    BY <1>1, <1>3, <1>4, FailureStep DEF Reports, Working, Reading

LEMMA ExitsStep ==
  ASSUME CliInv, NEW p \in Procs, Exits(p)
  PROVE  Effect(p) /\ ProcInv(p)'
  <1>. DEFINE s      == proc[p]
              status == IF s.err = Unset THEN "0" ELSE IF s.err = "usage" THEN "2" ELSE "1"
              r      == [s EXCEPT !.status = status]
  <1>1. s.pc = "exit" /\ s.status = "running" /\ UNCHANGED <<links, data>> /\ Becomes(p, r)
    BY DEF Exits, At
  <1>2. /\ DOMAIN r = Fields /\ r.status = status /\ r.args = s.args /\ r.renamed = s.renamed
        /\ \A f \in Fields \ {"status"} : r[f] = s[f]
    BY Before DEF Fields
  <1>. HIDE DEF r
  <1>3. Effect(p) /\ proc'[p] = r
    BY <1>1, <1>2, Before, RecordOnly
  <1>4. Keeps(p, {"status"}) /\ proc'[p].status = status /\ proc'[p].pc = "exit"
    BY <1>1, <1>2, <1>3 DEF Keeps, Fields
  <1>5. PhaseInv(proc[p])'
    BY <1>1, <1>4, Before DEF Keeps, Fields, PhaseInv, Working, Reading
  <1>6. RemovalInv(proc[p])' /\ CommandInv(proc[p])'
    BY <1>1, <1>4, Before DEF Keeps, Fields, RemovalInv, CommandInv, Working, Reading, Staged, Spooled
  <1>7. Published(s.input, proc) => Published(s.input, proc') /\ data'[s.input] = data[s.input]
    BY <1>3, Before, PublishedStays
  <1>8. InputInv(p)' /\ SourceInv(p)'
    BY <1>4 DEF Keeps, Fields, InputInv, SourceInv, Reading
  <1>9. OutputInv(p)' /\ DecodeInv(p)'
    BY <1>1, <1>4, <1>7, Before DEF Keeps, Fields, OutputInv, DecodeInv, Output, Delivers, ToPath
  <1>. QED
    BY <1>3, <1>5, <1>6, <1>8, <1>9 DEF ProcInv

LEMMA KilledStep ==
  ASSUME CliInv, NEW p \in Procs, Killed(p)
  PROVE  Effect(p) /\ ProcInv(p)'
  <1>. DEFINE s == proc[p]
              r == [s EXCEPT !.status = "killed", !.pc = "killed"]
  <1>1. s.status = "running" /\ UNCHANGED <<links, data>> /\ Becomes(p, r)
    BY DEF Killed
  <1>2. /\ DOMAIN r = Fields /\ r.status = "killed" /\ r.pc = "killed"
        /\ r.args = s.args /\ r.renamed = s.renamed
        /\ \A f \in Fields \ {"status", "pc"} : r[f] = s[f]
    BY Before DEF Fields
  <1>. HIDE DEF r
  <1>3. Effect(p) /\ proc'[p] = r
    BY <1>1, <1>2, Before, RecordOnly
  <1>4. Keeps(p, {"status", "pc"}) /\ proc'[p].status = "killed" /\ proc'[p].pc = "killed"
    BY <1>2, <1>3 DEF Keeps
  <1>5. PhaseInv(proc[p])' /\ RemovalInv(proc[p])' /\ CommandInv(proc[p])'
    BY <1>4, Before
    DEF Keeps, Fields, PhaseInv, RemovalInv, CommandInv, Working, Reading, Staged, Spooled
  <1>6. InputInv(p)' /\ OutputInv(p)' /\ SourceInv(p)'
    BY <1>4 DEF InputInv, OutputInv, SourceInv, Reading
  <1>7. Published(s.input, proc) => Published(s.input, proc') /\ data'[s.input] = data[s.input]
    BY <1>3, Before, PublishedStays
  <1>8. DecodeInv(p)'
    BY <1>4, <1>7, Before DEF Keeps, Fields, DecodeInv
  <1>. QED
    BY <1>3, <1>5, <1>6, <1>8 DEF ProcInv

-----------------------------------------------------------------------------
(* The invariant holds.                                                    *)

LEMMA InitCli == CliInit => CliInv
  <1>. SUFFICES ASSUME CliInit
                PROVE  CliInv
    OBVIOUS
  <1>1. PICK disk \in Disks :
          /\ links = disk.links /\ data = disk.data
          /\ \E request \in Requests : proc = [p \in Procs |-> Started(request[p])]
    BY DEF CliInit
  <1>2. PICK request \in Requests : proc = [p \in Procs |-> Started(request[p])]
    BY <1>1
  <1>3. ASSUME NEW p \in Procs
        PROVE  /\ DOMAIN proc[p] = Fields /\ Options(proc[p].args)
               /\ proc[p].pc = "parse" /\ proc[p].seen = <<>> /\ ~proc[p].staged
               /\ ~proc[p].spool /\ proc[p].err = Unset /\ proc[p].status = "running"
               /\ proc[p].stdout = <<>> /\ ~proc[p].renamed
    <2>1. proc[p] = Started(request[p])
      BY <1>2
    <2>. QED
      BY <2>1, CliAssumption DEF Started, Fields, Options
  <1>4. ShapeInv
    BY <1>1, <1>2, <1>3, CliAssumption DEF ShapeInv
  <1>5. NamesInv
    BY <1>1, CliAssumption DEF NamesInv, Published
  <1>6. ASSUME NEW p \in Procs
        PROVE  ProcInv(p)
    <2>1. PhaseInv(proc[p]) /\ RemovalInv(proc[p]) /\ CommandInv(proc[p])
      BY <1>3 DEF PhaseInv, RemovalInv, CommandInv, Working, Reading
    <2>2. InputInv(p) /\ OutputInv(p) /\ DecodeInv(p) /\ SourceInv(p)
      BY <1>3 DEF InputInv, OutputInv, DecodeInv, SourceInv, Reading
    <2>. QED
      BY <2>1, <2>2 DEF ProcInv
  <1>. QED
    BY <1>4, <1>5, <1>6 DEF CliInv

(* One step of one process, of any kind.                                   *)
LEMMA AnyStep ==
  ASSUME CliInv, NEW p \in Procs,
         Proceeds(p) \/ CopyFails(p) \/ PublishFails(p) \/ Killed(p)
  PROVE  Effect(p) /\ ProcInv(p)'
  <1>1. CASE Parses(p) \/ LoadsKey(p) \/ Plans(p) \/ OpensInput(p) \/ RejectsAliases(p)
    BY <1>1, ParsesStep, LoadsKeyStep, PlansStep, OpensInputStep, RejectsAliasesStep
  <1>2. CASE Stages(p) \/ Begins(p) \/ CopyReads(p) \/ CopyEnds(p)
    BY <1>2, StagesStep, BeginsStep, CopyReadsStep, CopyEndsStep
  <1>3. CASE CopyRejects(p) \/ CopyFails(p)
    BY <1>3, AbandonedStep DEF CopyRejects, CopyFails, At
  <1>4. CASE Aborts(p) \/ ClosesStdin(p) \/ ClosesEncoder(p)
    BY <1>4, AbortsStep, ClosesStdinStep, ClosesEncoderStep
  <1>5. CASE Publishes(p) \/ PublishesToStdout(p) \/ PublishFails(p) \/ Discards(p)
    BY <1>5, PublishesStep, PublishesToStdoutStep, PublishFailsStep, DiscardsStep
  <1>6. CASE Reports(p) \/ Exits(p) \/ Killed(p)
    BY <1>6, ReportsStep, ExitsStep, KilledStep
  <1>. QED
    BY <1>1, <1>2, <1>3, <1>4, <1>5, <1>6 DEF Proceeds

LEMMA StepCli == CliInv /\ [CliNext]_cliVars => CliInv'
  <1>. SUFFICES ASSUME CliInv, [CliNext]_cliVars
                PROVE  CliInv'
    OBVIOUS
  <1>1. CASE CliNext
    <2>1. PICK p \in Procs : Proceeds(p) \/ CopyFails(p) \/ PublishFails(p) \/ Killed(p)
      BY <1>1 DEF CliNext
    <2>2. Effect(p) /\ ProcInv(p)'
      BY <2>1, AnyStep
    <2>3. ShapeInv /\ NamesInv
      BY DEF CliInv
    <2>4. ShapeInv'
      BY <2>2, <2>3 DEF ShapeInv, Effect
    <2>5. NamesInv'
      BY <2>2, <2>3, NamesStay
    <2>6. \A q \in Procs : ProcInv(q)'
      BY <2>2, OthersStay
    <2>. QED
      BY <2>4, <2>5, <2>6 DEF CliInv
  <1>2. CASE UNCHANGED cliVars
    <2>1. links' = links /\ data' = data /\ proc' = proc
      BY <1>2 DEF cliVars
    <2>2. ShapeInv' = ShapeInv /\ NamesInv' = NamesInv
      BY <2>1 DEF ShapeInv, NamesInv
    <2>3. ASSUME NEW p \in Procs
          PROVE  ProcInv(p)' = ProcInv(p)
      <3>1. InputInv(p)' = InputInv(p) /\ SourceInv(p)' = SourceInv(p)
        BY <2>1 DEF InputInv, SourceInv
      <3>2. OutputInv(p)' = OutputInv(p) /\ DecodeInv(p)' = DecodeInv(p)
        BY <2>1 DEF OutputInv, DecodeInv
      <3>. QED
        BY <2>1, <3>1, <3>2 DEF ProcInv
    <2>. QED
      BY <2>2, <2>3 DEF CliInv
  <1>. QED
    BY <1>1, <1>2

LEMMA CliInvariant == CliSpec => []CliInv
  BY InitCli, StepCli, PTL DEF CliSpec
-----------------------------------------------------------------------------
(* The theorems.                                                           *)

(* The exit status tells whether the output is in place.                   *)
THEOREM StatusHonest == CliSpec => []StatusIsHonest
  <1>1. ASSUME CliInv, NEW p \in Procs
        PROVE  LET s == proc[p]
               IN  /\ s.status \in {"1", "2"} => ~s.renamed /\ s.stdout \in {<<>>, Staging}
                   /\ s.status = "0" /\ ~s.args.help /\ s.args.command \in {"encode", "decode"} =>
                        IF ToPath(s) THEN s.renamed ELSE s.stdout = Output(s, data[s.input])
    BY <1>1, Before DEF PhaseInv, OutputInv, Delivers
  <1>2. CliInv => StatusIsHonest
    BY <1>1 DEF StatusIsHonest
  <1>. QED
    BY <1>2, CliInvariant, PTL

(* A command that returns leaves nothing behind that it could remove.      *)
THEOREM NothingLeft == CliSpec => []NothingLeftBehind
  <1>1. ASSUME CliInv, NEW p \in Procs, proc[p].status \in {"0", "1", "2"}
        PROVE  /\ proc[p].staged => "staged" \in proc[p].stuck
               /\ proc[p].spool => "spool" \in proc[p].stuck /\ proc[p].status # "0"
    BY <1>1, Before DEF PhaseInv, RemovalInv, Staged, Spooled
  <1>2. CliInv => NothingLeftBehind
    BY <1>1 DEF NothingLeftBehind
  <1>. QED
    BY <1>2, CliInvariant, PTL

(* decode publishes and shows nothing of a container it rejects.           *)
THEOREM FailsClosed == CliSpec => []DecodeFailsClosed
  <1>1. ASSUME CliInv, NEW p \in Procs, proc[p].args.command = "decode",
               proc[p].renamed \/ proc[p].stdout # <<>>
        PROVE  IsContainer(data[proc[p].input]) /\ Copied(data[proc[p].input], proc[p].key)
    BY <1>1, Before DEF DecodeInv
  <1>2. CliInv => DecodeFailsClosed
    BY <1>1 DEF DecodeFailsClosed, Copied
  <1>. QED
    BY <1>2, CliInvariant, PTL

(* A name changes only from one whole content to another.                  *)
THEOREM NamesWhole == CliSpec => NamesChangeWhole
  <1>. DEFINE Whole ==
         \A n \in Names :
           IF links'[n] = links[n] THEN links[n] # NoFile => data'[links[n]] = data[links[n]]
           ELSE \E p \in Procs : /\ At(p, "publish") /\ proc[p].args.out = n /\ links'[n] = p
                                 /\ data[p] = Output(proc[p], data[proc[p].input])
  <1>1. ASSUME CliInv, CliNext
        PROVE  Whole
    <2>1. PICK p \in Procs : Proceeds(p) \/ CopyFails(p) \/ PublishFails(p) \/ Killed(p)
      BY <1>1 DEF CliNext
    <2>2. Effect(p)
      BY <1>1, <2>1, AnyStep
    <2>3. ASSUME NEW n \in Names, links'[n] = links[n], links[n] # NoFile
          PROVE  data'[links[n]] = data[links[n]]
      BY <1>1, <2>2, <2>3, PublishedStays DEF CliInv, NamesInv
    <2>4. ASSUME NEW n \in Names, links'[n] # links[n]
          PROVE  /\ At(p, "publish") /\ proc[p].args.out = n /\ links'[n] = p
                 /\ data[p] = Output(proc[p], data[proc[p].input])
      <3>1. /\ n = proc[p].args.out /\ links'[n] = p
            /\ Publishes(p)
        BY <2>2, <2>4 DEF Effect
      <3>2. proc[p].pc = "publish"
        BY <3>1 DEF Publishes, At
      <3>. QED
        BY <1>1, <3>1, <3>2, Before DEF At, OutputInv
    <2>. QED
      BY <2>3, <2>4
  <1>2. CliInv /\ [CliNext]_cliVars => [Whole]_cliVars
    BY <1>1
  <1>. QED
    BY <1>2, CliInvariant, PTL DEF CliSpec, NamesChangeWhole

(* An output replaces no file that its input's or its key's name stands    *)
(* for, unless os.Stat kept the two from being compared.                   *)
THEOREM SourcesKept == CliSpec => SourcesSurvive
  <1>. DEFINE Survive ==
         \A p \in Procs : proc'[p].renamed /\ ~proc[p].renamed =>
           \A source \in {"in", "keyFile"} : Compared(proc[p], source) =>
             links[proc[p].args[source]] # links[proc[p].args.out]
  <1>1. ASSUME CliInv, CliNext
        PROVE  Survive
    <2>1. PICK p \in Procs : Proceeds(p) \/ CopyFails(p) \/ PublishFails(p) \/ Killed(p)
      BY <1>1 DEF CliNext
    <2>2. Effect(p)
      BY <1>1, <2>1, AnyStep
    <2>3. ASSUME NEW q \in Procs, proc'[q].renamed, ~proc[q].renamed,
                 NEW source \in {"in", "keyFile"}, Compared(proc[q], source)
          PROVE  links[proc[q].args[source]] # links[proc[q].args.out]
      <3>1. q = p /\ Publishes(p)
        BY <2>2, <2>3 DEF Effect
      <3>2. proc[p].pc = "publish" /\ ToPath(proc[p])
        BY <3>1 DEF Publishes, At
      <3>. QED
        BY <1>1, <2>3, <3>1, <3>2, Before DEF SourceInv, Sources, Reading
    <2>. QED
      BY <2>3
  <1>2. CliInv /\ [CliNext]_cliVars => [Survive]_cliVars
    BY <1>1
  <1>. QED
    BY <1>2, CliInvariant, PTL DEF CliSpec, SourcesSurvive
=============================================================================
