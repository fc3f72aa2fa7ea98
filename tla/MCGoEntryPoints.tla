-------------------------- MODULE MCGoEntryPoints ---------------------------
(***************************************************************************)
(* DecodeBytes, Verify and Inspect over the streams of UbcSamples.         *)
(***************************************************************************)
EXTENDS GoEntryPoints, UbcSamples

MCEntries == EntryPoints
MCTails   == {EOF, SourceError}
=============================================================================
