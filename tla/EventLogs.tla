------------------------------ MODULE EventLogs ------------------------------
(***************************************************************************)
(* Which program's events a transaction's log holds                        *)
(* (packages/sdk/src/events.ts): programs call each other, every call      *)
(* writes an invoke line and an end line, and the payload lines in between *)
(* do not say whose they are.  The runtime cuts a long log off.            *)
(*                                                                         *)
(* A program's own text cannot look like the runtime's lines here (the     *)
(* source says what it means if it does).                                  *)
(***************************************************************************)
EXTENDS Integers, Sequences

CONSTANTS
    Programs,        \* programs a transaction runs
    Us,              \* this program
    MaxLines,        \* bound: log lines of a transaction
    MaxDepth         \* bound: programs inside each other

VARIABLES
    running,         \* programs inside each other, the innermost last
    logs,            \* the log: [line |-> "invoke" | "data" | "end" | "text", by]; "by" is not in a data line
    cut,             \* the runtime wrote "Log truncated"
    listed           \* the programs in each of the message's lists of accounts

logVars == <<running, logs, cut, listed>>

\* A program's account is never loaded as a writable one.
Groups == {"accountKeys", "staticAccountKeys", "loaded readonly"}

innermost(s) == s[Len(s)]
popped(s) == SubSeq(s, 1, Len(s) - 1)

LogInit == running = <<>> /\ logs = <<>> /\ cut = FALSE /\ listed = [g \in Groups |-> {}]

\* A line of the runtime; a cut log stays as it is.
logged(line, p) ==
    IF cut THEN UNCHANGED <<logs, cut>>
    ELSE \/ logs' = Append(logs, [line |-> line, by |-> p]) /\ UNCHANGED cut
         \/ UNCHANGED logs /\ cut' = TRUE

line_left == Len(logs) < MaxLines

invoke(p) ==
    /\ line_left /\ Len(running) < MaxDepth
    /\ running' = Append(running, p)
    /\ logged("invoke", p)
    /\ IF \E g \in Groups : p \in listed[g] THEN UNCHANGED listed
       ELSE \E g \in Groups : listed' = [listed EXCEPT ![g] = @ \cup {p}]

writes(line) ==
    /\ line_left /\ running # <<>>
    /\ logged(line, innermost(running))
    /\ UNCHANGED <<running, listed>>

end ==
    /\ line_left /\ running # <<>>
    /\ running' = popped(running)
    /\ logged("end", innermost(running))
    /\ UNCHANGED listed

LogNext == (\E p \in Programs : invoke(p)) \/ writes("data") \/ writes("text") \/ end

LogSpec == LogInit /\ [][LogNext]_logVars

-----------------------------------------------------------------------------
(* extractEventsFromLogs: the stack is rebuilt line by line *)

no_lines == [stack |-> <<>>, out |-> {}]

\* Mutant: the end of a call is not seen, so that the caller's lines are the callee's.
walk_line_deaf(at, i, entry) ==
    CASE entry.line = "invoke" -> [at EXCEPT !.stack = Append(@, entry.by)]
      [] entry.line = "data" /\ at.stack # <<>> /\ innermost(at.stack) = Us -> [at EXCEPT !.out = @ \cup {i}]
      [] OTHER -> at

\* What the entry of line i does to the walk; "out" is the lines that are decoded.
walk_line(at, i, entry) ==
    CASE entry.line = "invoke" -> [at EXCEPT !.stack = Append(@, entry.by)]
      [] entry.line = "end"    -> [at EXCEPT !.stack = IF @ = <<>> THEN @ ELSE popped(@)]
      [] entry.line = "data" /\ at.stack # <<>> /\ innermost(at.stack) = Us -> [at EXCEPT !.out = @ \cup {i}]
      [] OTHER -> at

extracted ==
    LET walk[i \in 0..Len(logs)] == IF i = 0 THEN no_lines ELSE walk_line(walk[i - 1], i, logs[i])
    IN  walk[Len(logs)].out

assertProgramInvoked(p) == \E g \in Groups : p \in listed[g]

\* However programs call each other and wherever the runtime cuts the log, the
\* lines decoded as ours are exactly those this program wrote, and the message
\* lists this program when there is one.
OursExactly ==
    /\ extracted = {i \in DOMAIN logs : logs[i].line = "data" /\ logs[i].by = Us}
    /\ extracted # {} => assertProgramInvoked(Us)

=============================================================================
