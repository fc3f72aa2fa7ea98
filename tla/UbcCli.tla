------------------------------- MODULE UbcCli -------------------------------
(***************************************************************************)
(* The command line tool, cli/main.go: several processes that run encode,  *)
(* decode, verify or inspect over the same file system.  encode and decode *)
(* write to a staged file and publish it by a rename (or, for -out -, by a *)
(* copy to stdout).  Every operation on a file may fail, and a process may *)
(* be killed between any two steps.                                        *)
(*                                                                         *)
(* What the SDK does to the data is modelled by its result (GoEncoder and  *)
(* GoDecoder have the detail): a file's content is a tuple of strings, and *)
(* a container is <<"ubc", key, state>> before the content it was made of. *)
(***************************************************************************)
EXTENDS Naturals, Sequences

CONSTANTS
  Procs,       (* the processes                                             *)
  Requests,    (* what they are asked to do: functions from Procs to        *)
               (* records of the options, see MCUbcCli                      *)
  Names,       (* file names, except those of staged files                  *)
  Files,       (* the files there are, except those                         *)
  Disks,       (* records [links, data]: the file systems to begin with     *)
  Keys,        (* 32-byte keys                                              *)
  Reads        (* how many reads a copy of the input takes                  *)

NoFile == "no file"   \* what a name without a file is linked to
Unset  == "unset"     \* an option that is not given; no key; no error
Dash   == "-"         \* stdin or stdout

ASSUME CliAssumption ==
  /\ Reads \in Nat \ {0} /\ Names \cap {Dash, Unset} = {}
  /\ Files \cap Procs = {} /\ NoFile \notin Files \cup Procs
  /\ \A disk \in Disks :
       /\ DOMAIN disk.data = Files \cup Procs /\ DOMAIN disk.links = Names
       /\ \A n \in Names : disk.links[n] \in Files \cup {NoFile}
  /\ \A request \in Requests, p \in Procs :
       /\ {request[p].in, request[p].out} \subseteq Names \cup {Dash}
       /\ request[p].keyFile \in Names \cup {Unset} /\ request[p].stdin \in Files

Path(arg) == arg \notin {Dash, Unset}

VARIABLES
  links,   \* the directory: name -> file.  A staged file is its process
  data,    \* file -> content
  proc     \* process -> its local state

cliVars == <<links, data, proc>>

(* unseen, renamed and stuck record, for the properties, the sources that  *)
(* os.Stat kept from being compared with the output, that the process has  *)
(* published to its path, and the files of its own it could not remove.    *)
Started(command) ==
  [pc |-> "parse", args |-> command, key |-> Unset, input |-> NoFile, seen |-> <<>>,
   staged |-> FALSE, spool |-> FALSE, err |-> Unset, status |-> "running", stdout |-> <<>>,
   unseen |-> {}, renamed |-> FALSE, stuck |-> {}]

CliInit ==
  \E disk \in Disks :
    /\ links = disk.links /\ data = disk.data
    /\ \E request \in Requests : proc = [p \in Procs |-> Started(request[p])]

-----------------------------------------------------------------------------
(* What the SDK makes of a content.                                        *)

Staging == <<"staging">>    \* a file that is being written
Torn    == <<"torn">>       \* read while it changed

Container(key, state, content) == <<"ubc", key, state>> \o content
IsContainer(content) == Len(content) > 3 /\ content[1] = "ubc"

(* NewDecoder: a header, and a key if it asks for one.                     *)
Opened(content, key) == IsContainer(content) /\ (content[2] # Unset => key # Unset)

(* A body cut at a read block ends in io.EOF: GoDecoder, CutAtBlock.       *)
Copied(content, key) ==
  content[2] \in {Unset, key} /\ content[3] \in {"whole", "cut at block"}

Decoded(content) ==
  (IF content[3] = "whole" THEN <<>> ELSE <<"beginning of">>) \o SubSeq(content, 4, Len(content))

Input(seen) == IF \A i \in DOMAIN seen : seen[i] = seen[1] THEN seen[1] ELSE Torn

Output(s, content) ==
  IF s.args.command = "encode" THEN Container(s.key, "whole", content) ELSE Decoded(content)

-----------------------------------------------------------------------------
(* A step of process p, which was at pc and now is in state s.             *)

At(p, pc) == proc[p].pc = pc
Becomes(p, s) == proc' = [proc EXCEPT ![p] = s]
To(s, pc) == [s EXCEPT !.pc = pc]

(* A return of an error: the deferred discard comes next, if it is set.    *)
Failed(s, kind) == [s EXCEPT !.err = kind, !.pc = IF s.staged THEN "discard" ELSE "exit"]

ToPath(s) == s.args.out # Dash

Parses(p) ==
  /\ At(p, "parse")
  /\ LET s == proc[p]
     IN  Becomes(p,
           IF s.args.help THEN To(s, "exit")
           ELSE IF ~s.args.parses THEN Failed(s, "usage")
           ELSE IF s.args.command \in {"verify", "inspect"} /\ ToPath(s) THEN Failed(s, "usage")
           ELSE To(s, IF s.args.command = "inspect" THEN "open" ELSE "key"))
  /\ UNCHANGED <<links, data>>

(* The key of the file, or of UBC_KEY, or none.                            *)
decodeKey(s, content) ==
  IF content \in {<<k>> : k \in Keys}
  THEN [s EXCEPT !.key = content[1], !.pc = IF s.args.command = "encode" THEN "plan" ELSE "open"]
  ELSE Failed(s, "usage")

LoadsKey(p) ==
  /\ At(p, "key")
  /\ LET s == proc[p]
     IN  IF Path(s.args.keyFile)
         THEN \/ links[s.args.keyFile] # NoFile
                 /\ Becomes(p, decodeKey(s, data[links[s.args.keyFile]]))
              \/ Becomes(p, Failed(s, "error"))
         ELSE IF s.args.env # Unset THEN Becomes(p, decodeKey(s, <<s.args.env>>))
         ELSE Becomes(p, To(s, IF s.args.command = "encode" THEN "plan" ELSE "open"))
  /\ UNCHANGED <<links, data>>

(* encode: the options that do not fit the key, the metadata, the nonce.   *)
Plans(p) ==
  /\ At(p, "plan")
  /\ LET s == proc[p]
         legal == /\ s.args.hugeChunks => s.key = Unset
                  /\ s.args.metadataLegal
                  /\ s.args.baseNonce # Unset => s.key # Unset /\ s.args.baseNonce = "legal"
     IN  Becomes(p, IF legal THEN To(s, "open") ELSE Failed(s, "usage"))
  /\ UNCHANGED <<links, data>>

Readable(s) == s.args.in # Dash => links[s.args.in] # NoFile

OpensInput(p) ==
  /\ At(p, "open")
  /\ LET s    == proc[p]
         next == IF s.args.command \in {"verify", "inspect"} THEN "report" ELSE "alias"
     IN  \/ /\ Readable(s)
            /\ Becomes(p, [s EXCEPT !.pc = next,
                             !.input = IF s.args.in = Dash THEN s.args.stdin ELSE links[s.args.in]])
         \/ s.args.in # Dash /\ Becomes(p, Failed(s, "error"))
  /\ UNCHANGED <<links, data>>

(* With a bug: the key file is not compared.                               *)
SourcesWithoutKey == {"in"}

(* The options whose files the output may not be.                          *)
Sources == {"in", "keyFile"}

(* What rejectOutputAliases calls os.Stat for, if there is an output path. *)
Statted(s) == {option \in {"out"} \cup Sources : Path(s.args[option])}

(* os.Stat finds a file, if there is one and it does not fail all the same. *)
Found(s, option, failing) ==
  option \in Statted(s) \ failing /\ links[s.args[option]] # NoFile

(* An output or a source that is not found is not taken for an alias.      *)
Aliased(s, failing) ==
  /\ Found(s, "out", failing)
  /\ \E source \in Sources :
       Found(s, source, failing) /\ links[s.args[source]] = links[s.args.out]

(* An output that has no file yet loses nothing by it.                     *)
Unseen(s, failing) ==
  {source \in Sources : links[s.args.out] # NoFile /\ {"out", source} \cap failing # {}}

RejectsAliases(p) ==
  /\ At(p, "alias")
  /\ LET s == proc[p]
     IN  IF ~ToPath(s) THEN Becomes(p, To(s, "stage"))
         ELSE \E failing \in SUBSET Statted(s) :
                Becomes(p, IF Aliased(s, failing) THEN Failed(s, "usage")
                           ELSE To([s EXCEPT !.unseen = Unseen(s, failing)], "stage"))
  /\ UNCHANGED <<links, data>>

(* os.CreateTemp: a new file, in the directory of the output.              *)
Stages(p) ==
  /\ At(p, "stage")
  /\ \/ /\ Becomes(p, [proc[p] EXCEPT !.staged = TRUE, !.pc = "begin"])
        /\ data' = [data EXCEPT ![p] = Staging]
     \/ Becomes(p, Failed(proc[p], "error")) /\ UNCHANGED data
  /\ UNCHANGED links

(* NewEncoder makes its own temporary file; NewDecoder reads the prefix.   *)
Begins(p) ==
  /\ At(p, "begin")
  /\ LET s   == proc[p]
         now == data[s.input]
     IN  \/ s.args.command = "encode" /\ Becomes(p, [s EXCEPT !.spool = TRUE, !.pc = "copy"])
         \/ /\ s.args.command = "decode" /\ Opened(now, s.key)
            /\ Becomes(p, [s EXCEPT !.seen = <<now>>, !.pc = "copy"])
         \/ Becomes(p, Failed(s, "error"))
  /\ UNCHANGED <<links, data>>

(* io.Copy.  A process has the file it opened, whatever the name is linked *)
(* to by now.                                                              *)
CopyReads(p) ==
  /\ At(p, "copy") /\ Len(proc[p].seen) < Reads
  /\ Becomes(p, [proc[p] EXCEPT !.seen = Append(@, data[proc[p].input])])
  /\ UNCHANGED <<links, data>>

(* With a bug: the decoder's error is dropped.                             *)
SoundAnyhow(s) == TRUE

Sound(s) == s.args.command = "decode" => Copied(Input(s.seen), s.key)
AllRead(s) == Len(s.seen) = Reads

CopyEnds(p) ==
  /\ At(p, "copy") /\ AllRead(proc[p]) /\ Sound(proc[p])
  /\ Becomes(p, To(proc[p], "stdin"))
  /\ data' = IF proc[p].args.command = "encode" THEN data
             ELSE [data EXCEPT ![p] = Output(proc[p], Input(proc[p].seen))]
  /\ UNCHANGED links

(* With a bug: encode returns without closing its encoder.                 *)
AbandonedOpen(s) == Failed(s, "error")

(* After a failure encode closes its encoder and drops what Close says.    *)
Abandoned(s) == IF s.spool THEN To([s EXCEPT !.err = "error"], "abort") ELSE Failed(s, "error")

CopyRejects(p) ==
  /\ At(p, "copy") /\ AllRead(proc[p]) /\ ~Sound(proc[p])
  /\ Becomes(p, Abandoned(proc[p]))
  /\ UNCHANGED <<links, data>>

(* Reading, or writing to the staged or the temporary file, fails.         *)
CopyFails(p) ==
  /\ At(p, "copy") /\ Becomes(p, Abandoned(proc[p]))
  /\ UNCHANGED <<links, data>>

(* With a bug: what Close returns is not looked at.                        *)
SucceedsAnyhow(ok, gone) == TRUE

Succeeds(ok, gone) == ok /\ gone

(* Close removes the encoder's temporary file, or fails to.                *)
Closed(s, gone) ==
  [s EXCEPT !.spool = ~gone, !.stuck = IF gone THEN @ ELSE @ \cup {"spool"}]

Aborts(p) ==
  /\ At(p, "abort")
  /\ \E gone \in BOOLEAN : Becomes(p, To(Closed(proc[p], gone), "discard"))
  /\ UNCHANGED <<links, data>>

(* stdin that is also the output is closed before it is replaced.          *)
ClosesStdin(p) ==
  /\ At(p, "stdin")
  /\ LET s == proc[p]
     IN  \/ Becomes(p, To(s, IF s.args.command = "encode" THEN "close" ELSE "publish"))
         \/ /\ ToPath(s) /\ links[s.args.out] = s.args.stdin
            /\ Becomes(p, Abandoned(s))
  /\ UNCHANGED <<links, data>>

ClosesEncoder(p) ==
  /\ At(p, "close")
  /\ \E ok, gone \in BOOLEAN :
       /\ LET s == Closed(proc[p], gone)
          IN  Becomes(p, IF Succeeds(ok, gone) THEN To(s, "publish") ELSE Failed(s, "error"))
       /\ data' = IF ok THEN [data EXCEPT ![p] = Output(proc[p], Input(proc[p].seen))] ELSE data
  /\ UNCHANGED links

(* With a bug: the error of a publication is dropped.                      *)
PublishErrorDropped == Unset

PublishError == "error"

(* publish: the staged file is closed and renamed, or copied to stdout.    *)
Publishes(p) ==
  /\ At(p, "publish")
  /\ LET s == proc[p]
     IN  /\ ToPath(s)
         /\ Becomes(p, [s EXCEPT !.staged = FALSE, !.renamed = TRUE, !.pc = "exit"])
         /\ links' = [links EXCEPT ![s.args.out] = p]
  /\ UNCHANGED data

PublishesToStdout(p) ==
  /\ At(p, "publish")
  /\ LET s == proc[p]
     IN  /\ ~ToPath(s)
         /\ \/ Becomes(p, [s EXCEPT !.stdout = data[p], !.pc = "discard"])
            \/ Becomes(p, Failed([s EXCEPT !.stdout = Staging], PublishError))
  /\ UNCHANGED <<links, data>>

PublishFails(p) ==
  /\ At(p, "publish") /\ Becomes(p, Failed(proc[p], PublishError))
  /\ UNCHANGED <<links, data>>

Discards(p) ==
  /\ At(p, "discard")
  /\ Becomes(p, [proc[p] EXCEPT !.staged = FALSE, !.pc = "exit"])
     \/ Becomes(p, [proc[p] EXCEPT !.stuck = @ \cup {"staged"}, !.pc = "exit"])
  /\ UNCHANGED <<links, data>>

(* verify and inspect: read, and say what they found.                      *)
Reports(p) ==
  /\ At(p, "report")
  /\ LET s    == proc[p]
         now  == data[s.input]
         good == IF s.args.command = "inspect" THEN IsContainer(now)
                 ELSE Opened(now, s.key) /\ Copied(now, s.key)
     IN  \/ Becomes(p, Failed(s, "error"))
         \/ good /\ Becomes(p, To([s EXCEPT !.stdout = <<"report">>], "exit"))
  /\ UNCHANGED <<links, data>>

Exits(p) ==
  /\ At(p, "exit") /\ proc[p].status = "running"
  /\ Becomes(p, [proc[p] EXCEPT !.status =
                   IF proc[p].err = Unset THEN "0"
                   ELSE IF proc[p].err = "usage" THEN "2" ELSE "1"])
  /\ UNCHANGED <<links, data>>

Killed(p) ==
  /\ proc[p].status = "running"
  /\ Becomes(p, [proc[p] EXCEPT !.status = "killed", !.pc = "killed"])
  /\ UNCHANGED <<links, data>>
-----------------------------------------------------------------------------
(* What needs nothing but the process to go on.                            *)
Proceeds(p) ==
  \/ Parses(p) \/ LoadsKey(p) \/ Plans(p) \/ OpensInput(p) \/ RejectsAliases(p) \/ Stages(p)
  \/ Begins(p) \/ CopyReads(p) \/ CopyEnds(p) \/ CopyRejects(p) \/ Aborts(p) \/ ClosesStdin(p)
  \/ ClosesEncoder(p) \/ Publishes(p) \/ PublishesToStdout(p) \/ Discards(p) \/ Reports(p)
  \/ Exits(p)

CliNext == \E p \in Procs : Proceeds(p) \/ CopyFails(p) \/ PublishFails(p) \/ Killed(p)

CliSpec == CliInit /\ [][CliNext]_cliVars

-----------------------------------------------------------------------------
(* Properties.                                                             *)

(* Whoever else writes and whenever a process is killed, a name changes    *)
(* only from one whole content to another, which its publisher made of one *)
(* version of its input; and a file that has a name is never written to.   *)
NamesChangeWhole ==
  [][\A n \in Names :
       IF links'[n] = links[n] THEN links[n] # NoFile => data'[links[n]] = data[links[n]]
       ELSE \E p \in Procs : /\ At(p, "publish") /\ proc[p].args.out = n /\ links'[n] = p
                             /\ data[p] = Output(proc[p], data[proc[p].input])]_cliVars

(* Exit status 0 means that the output is where it was asked for, any      *)
(* other that the name was not touched.                                    *)
StatusIsHonest ==
  \A p \in Procs :
    LET s == proc[p]
    IN  /\ s.status \in {"1", "2"} => ~s.renamed /\ s.stdout \in {<<>>, Staging}
        /\ s.status = "0" /\ ~s.args.help /\ s.args.command \in {"encode", "decode"} =>
             IF ToPath(s) THEN s.renamed ELSE s.stdout = Output(s, data[s.input])

(* "-out must refer to a different file than input and key material"       *)
(* (main.go:444): when the output is replaced it is still not the file the *)
(* name of the input or of the key stands for, whoever published in the    *)
(* meantime and under any hard link.  A source is excepted only if os.Stat *)
(* failed for it, or for an output that was there: the code takes either   *)
(* for no alias.  The file that was opened as input may be replaced: if    *)
(* another process has put another one in its name's place.                *)
Compared(s, source) == Path(s.args[source]) /\ source \notin s.unseen

SourcesSurvive ==
  [][\A p \in Procs : proc'[p].renamed /\ ~proc[p].renamed =>
       \A source \in {"in", "keyFile"} : Compared(proc[p], source) =>
         links[proc[p].args[source]] # links[proc[p].args.out]]_cliVars

(* A command that returns leaves no staged file and no temporary plaintext *)
(* behind, unless it could not be removed.                                 *)
NothingLeftBehind ==
  \A p \in Procs : proc[p].status \in {"0", "1", "2"} =>
    /\ proc[p].staged => "staged" \in proc[p].stuck
    /\ proc[p].spool => "spool" \in proc[p].stuck /\ proc[p].status # "0"

(* Nothing of a container that decode rejects is published or shown.  A    *)
(* body cut at a read block is not rejected (see GoDecoder).               *)
DecodeFailsClosed ==
  \A p \in Procs : proc[p].args.command = "decode" /\ (proc[p].renamed \/ proc[p].stdout # <<>>) =>
    LET container == data[proc[p].input]
    IN  /\ IsContainer(container) /\ container[2] \in {Unset, proc[p].key}
        /\ container[3] \in {"whole", "cut at block"}
=============================================================================
