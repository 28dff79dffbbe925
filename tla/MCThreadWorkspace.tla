-------------------------- MODULE MCThreadWorkspace --------------------------
(***************************************************************************)
(* ThreadWorkspace for TLC under two sets of bounds: the cfg's, with two   *)
(* turns and the page's own requests, and those of Streaming below, with   *)
(* one turn of two chunks, a socket that breaks and events that are        *)
(* trimmed.  A behaviour keeps to one of them.                             *)
(***************************************************************************)
EXTENDS ThreadWorkspace

VARIABLE part  \* the bounds this behaviour keeps to

Streaming == INSTANCE ThreadWorkspace WITH
    MaxTurns <- 1, MaxChunks <- 2, MaxPipe <- 1, MaxWire <- 2, MaxSubmits <- 0,
    MaxStops <- 0, MaxBreaks <- 1, QuietTurns <- {1}, AskingTurns <- {1}, Limit <- 3

InitEither ==
    \/ part = "prompts" /\ Init
    \/ part = "streaming" /\ Streaming!Init

NextEither ==
    \/ part = "prompts" /\ Next /\ UNCHANGED part
    \/ part = "streaming" /\ Streaming!Next /\ UNCHANGED part

SpecEither == InitEither /\ [][NextEither]_<<vars, part>>

\* Every variable keeps its type under its bounds: so the kept events of a
\* thread are never more than the limit.
TypeOKEither == IF part = "prompts" THEN TypeOK ELSE Streaming!TypeOK
=============================================================================
