----------------------------- MODULE PyReadBack -----------------------------
(***************************************************************************)
(* The Decoder of the Python SDK over a stream; or the Encoder, and, when  *)
(* close has returned or raised, a Decoder with the same key over whatever *)
(* it left in its sink.                                                    *)
(***************************************************************************)
EXTENDS PyDecoder, PyEncoder

VARIABLE job        \* "reads" a stream, "encodes", or "reads back"

readBackVars == <<job, vars, encVars>>

ReadBackInit == job \in {"reads", "encodes"} /\ Init /\ EncInit

Encodes == job = "encodes" /\ EncNext /\ UNCHANGED <<job, vars>>

(* Close has returned or raised: what the sink has is read back.           *)
HandOver ==
  /\ job = "encodes" /\ closed /\ encPhase = "idle"
  /\ job' = "reads back" /\ stream' = sink /\ key' = encoding.key /\ options' = Uncapped
  /\ UNCHANGED <<pos, faults, phase, callVars, openVars, loadVars, pending, finalized, terminal,
                 reply, outVars, encVars>>

Decodes == job # "encodes" /\ Next /\ UNCHANGED <<job, encVars>>

ReadBackNext == Encodes \/ HandOver \/ Decodes

ReadBackSpec == ReadBackInit /\ [][ReadBackNext]_readBackVars

-----------------------------------------------------------------------------
(* What is read back: the Decoder never calls the rest of a failed close   *)
(* complete unless nothing is missing, it reads what the file had counted, *)
(* it raises nothing over what close reported as written, and that is what *)
(* the writes that returned were given, if no write that raised had stored *)
(* a part of its data.                                                     *)
CloseWritesAccepted ==
  job = "reads back" =>
    /\ finalized => /\ pieces = <<>>
                    /\ dropped = <<>> => Accepted = Spooled
    /\ (outcome = NoError /\ faults = 0) => terminal = NoError /\ phase # "rejected"
    /\ ~torn => Spooled = accepted
=============================================================================
