---------------------------- MODULE FileLogging -----------------------------
(***************************************************************************)
(* utils/src/file_logging.c: g_log_file is the number of the file that is  *)
(* open, 0 for NULL.                                                       *)
(***************************************************************************)
EXTENDS Naturals, Sequences, FiniteSets

NoLog == [g_log_file |-> 0, opened |-> 0, open |-> {}, console |-> 0, lines |-> <<>>]

(* The FILE that was open before is forgotten, whether fopen succeeds or   *)
(* not.                                                                    *)
log_init(log, opens) ==
    IF ~opens THEN [log EXCEPT !.g_log_file = 0]
    ELSE [log EXCEPT !.g_log_file = log.opened + 1, !.opened = @ + 1,
                     !.open = @ \cup {log.opened + 1}, !.lines = Append(@, 0)]

log_close(log) == [log EXCEPT !.g_log_file = 0, !.open = @ \ {log.g_log_file}]

(* lines[n] counts the lines in the n-th file.                             *)
log_write(log) ==
    IF log.g_log_file = 0 THEN [log EXCEPT !.console = @ + 1]
    ELSE [log EXCEPT !.console = @ + 1, !.lines[log.g_log_file] = @ + 1]

LogOps == {"init", "init fails", "close", "write"}

log_call(log, op) ==
    CASE op = "init"       -> log_init(log, TRUE)
      [] op = "init fails" -> log_init(log, FALSE)
      [] op = "close"      -> log_close(log)
      [] op = "write"      -> log_write(log)
=============================================================================
