------------------------------ MODULE FencedLog ------------------------------
(***************************************************************************)
(* What the durable run store promises to its callers: an append-only log   *)
(* that one holder at a time may write, in rising terms.  A grant ends the  *)
(* previous holder's right to write; nothing gives a term out again.        *)
(* DurableStore implements this module with lease owners, epochs, handles   *)
(* and the checkpoint history.                                              *)
(***************************************************************************)
EXTENDS Integers, Sequences

CONSTANT Workers

VARIABLES
    holders,  \* the worker that may write, if any
    term,     \* the number of grants so far
    log       \* what was written: the rank, the writer and its term

logVars == <<holders, term, log>>

LogInit == holders = {} /\ term = 0 /\ log = <<>>

Grant(w) ==
    /\ holders' = {w}
    /\ term' = term + 1
    /\ UNCHANGED log

Drop ==
    /\ holders # {}
    /\ holders' = {}
    /\ UNCHANGED <<term, log>>

Write(w) ==
    /\ w \in holders
    /\ log' = Append(log, [rank |-> Len(log), by |-> w, term |-> term])
    /\ UNCHANGED <<holders, term>>

LogNext == Drop \/ \E w \in Workers : Grant(w) \/ Write(w)

LogSpec == LogInit /\ [][LogNext]_logVars
=============================================================================
