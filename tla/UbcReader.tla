----------------------------- MODULE UbcReader ------------------------------
(***************************************************************************)
(* What a streaming reader promises, whichever SDK it is written in: it    *)
(* releases, in pieces of any size, the plaintext that the one-shot        *)
(* decoder accepts, nothing else and nothing out of order; and it ends as  *)
(* the one-shot decoder ends, a clean end only after all of the plaintext. *)
(***************************************************************************)
EXTENDS Integers, Sequences

CONSTANTS
  Reference(_),    (* what the one-shot decoder, decodeBytes, makes of an   *)
                   (* input: its error, its plaintext, and whether it met   *)
                   (* a chunk body cut short by the end of the input        *)
  NoError,         (* a clean end                                           *)
  ReportsCutBody   (* TRUE if a chunk body cut short by the end of the      *)
                   (* source is always reported as ERR_TRUNCATED            *)

VARIABLES
  input,       \* the container, the key and the caps
  intact,      \* the source ends with io.EOF, not with an error
  released,    \* the plaintext handed to the caller
  outcome      \* "open", an error, or NoError for a clean end

inputVars  == <<input, intact>>
readerVars == <<inputVars, released, outcome>>

ReaderInit == released = <<>> /\ outcome = "open"

Release ==
  /\ outcome = "open"
  /\ LET plain == Reference(input).plain
     IN  \E n \in Len(released) + 1..Len(plain) : released' = SubSeq(plain, 1, n)
  /\ UNCHANGED <<inputVars, outcome>>

(* The source failed: the reader may not call that a clean end.            *)
SourceFails ==
  /\ outcome = "open" /\ ~intact
  /\ outcome' \notin {NoError, "open"}
  /\ UNCHANGED <<inputVars, released>>

Finish ==
  /\ outcome = "open" /\ intact
  /\ outcome' # "open"
  /\ LET reference == Reference(input)
     IN  /\ (reference.inBody /\ ~ReportsCutBody) \/ outcome' = reference.err
         /\ (outcome' = NoError /\ reference.err = NoError) => released = reference.plain
  /\ UNCHANGED <<inputVars, released>>

ReaderNext == Release \/ SourceFails \/ Finish

ReaderSpec == ReaderInit /\ [][ReaderNext]_readerVars
=============================================================================
