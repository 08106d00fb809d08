------------------------------ MODULE Rollout ------------------------------
(***************************************************************************)
(* The rollout of a task, as recovery reads it: an append-only sequence of *)
(* records written by ChatGPT Desktop.  A record that neither begins, ends *)
(* nor proves work of a turn is left out.  A turn is named by the position *)
(* of its first record.                                                    *)
(***************************************************************************)
EXTENDS Naturals, Sequences

Ends == {"abort", "quota", "error", "done"}
Kinds == {"start", "work"} \union Ends

Record(kind, turn) == [kind |-> kind, turn |-> turn]
Starts(log) == {i \in DOMAIN log : log[i].kind = "start"}

TailStates == {"active", "aborted", "quota", "error", "clean", "unknown"}

(* inspect_thread_rollout_state_from_lines: what the last record says.     *)
TailState(log) ==
    LET last == log[Len(log)].kind
    IN CASE last \in {"start", "work"} -> "active"
         [] last = "abort" -> "aborted"
         [] last = "quota" -> "quota"
         [] last = "error" -> "error"
         [] last = "done" -> "clean"

(* inspect_thread_rollout_state.  A rollout that is missing or cannot be   *)
(* read, or whose last record is still being written or is malformed, says *)
(* nothing of the task.                                                    *)
InspectedState(log, legible) == IF legible THEN TailState(log) ELSE "unknown"

-----------------------------------------------------------------------------
(* Evidence: what the records after a checkpoint prove.                    *)
NoEvidence == [started |-> FALSE, work |-> FALSE, failed |-> FALSE,
               aborted |-> FALSE, turn |-> 0]

(* Mutant: work seen before the turn started still counts.                 *)
EventKeepsWork(e, r) ==
    LET own == e.started /\ r.turn = e.turn
    IN CASE r.kind = "start" ->
               [NoEvidence EXCEPT !.started = TRUE, !.turn = r.turn, !.work = e.work]
         [] r.kind = "work" -> [e EXCEPT !.work = TRUE]
         [] r.kind = "abort" ->
               [e EXCEPT !.failed = @ \/ own, !.aborted = @ \/ own \/ ~e.started]
         [] r.kind \in {"quota", "error"} -> [e EXCEPT !.failed = @ \/ own]
         [] r.kind = "done" -> e

(* Evidence::event.  The end of another turn than the one that started is  *)
(* ignored; work carries no turn and counts for the one that started last. *)
Event(e, r) ==
    LET own == e.started /\ r.turn = e.turn
    IN CASE r.kind = "start" ->
               [NoEvidence EXCEPT !.started = TRUE, !.turn = r.turn]
         [] r.kind = "work" -> [e EXCEPT !.work = TRUE]
         [] r.kind = "abort" ->
               [e EXCEPT !.failed = @ \/ own, !.aborted = @ \/ own \/ ~e.started]
         [] r.kind \in {"quota", "error"} -> [e EXCEPT !.failed = @ \/ own]
         [] r.kind = "done" -> e

(* Observer::poll_to from a checkpoint to the length read last.            *)
Evidence(log, from, to) ==
    LET read[i \in Nat] == IF i <= from THEN NoEvidence ELSE Event(read[i - 1], log[i])
    IN read[to]

(* An expected turn of 0 is "any".                                         *)
MatchesExpected(e, expected) == e.started /\ expected \in {0, e.turn}

Verified(e, expected) ==
    MatchesExpected(e, expected) /\ e.work /\ ~e.failed /\ ~e.aborted

-----------------------------------------------------------------------------
(* AuthRotationCheckpointService: the turn running at the end of a rollout *)
ActiveTurn(log) ==
    LET open == {i \in Starts(log) : \A j \in i + 1 .. Len(log) : log[j].kind = "work"}
    IN IF open = {} THEN 0 ELSE CHOOSE i \in open : TRUE

(* ... and whether the records between two checkpoints are that turn's,    *)
(* closed at their end by an error and by nothing else.                    *)
ClosedByError(log, from, to, turn) ==
    /\ from < to /\ to = Len(log)
    /\ log[to] = Record("error", turn)
    /\ \A i \in from + 1 .. to - 1 : log[i].kind = "work"

=============================================================================
