------------------------------- MODULE Tools --------------------------------
(***************************************************************************)
(* The two tools that watch over the SDKs, side by side: the build loop    *)
(* and the cross-decode gate.  They share no state.                        *)
(***************************************************************************)
EXTENDS BuildLoop

CONSTANTS Cases, Containers, CaseLists

VARIABLES manifest, alone, list, python, files, encodes, decodes, stage, done, status

gateVars == <<manifest, alone, list, python, files, encodes, decodes, stage, done, status>>

Gate == INSTANCE CrossDecode

ASSUME ToolsAssumption == Gate!GateAssumption

(* A gate that passes has shown the SDKs interchangeable on every case,    *)
(* and the Go tool by itself passes only what it has been shown: no stage  *)
(* or comparison of cross-decode.mjs, of the Python driver or of           *)
(* crossdecode/main.go can be left out unnoticed.                          *)
PassIsEarned == Gate!PassIsEarned
=============================================================================
