-------------------------------- MODULE Metrics --------------------------------
(***************************************************************************)
(* The performance log (metrics.py) under a program that times its calls.   *)
(* log_metric looks whether the file is empty, opens it for appending and    *)
(* writes when it closes it; other processes log to the same file in        *)
(* between, each step may raise, and a process may die after each.  timed   *)
(* logs in a finally block: the row of an operation is written whether it   *)
(* returned or raised, and an exception, be it of the log itself, goes on   *)
(* to the operations around it.                                            *)
(*                                                                         *)
(* What is kept of the file: whether it exists, its first line, how many    *)
(* headers each process wrote, and its rows, each named by the position of  *)
(* the operation in the program.                                           *)
(***************************************************************************)
EXTENDS Naturals, Sequences, FiniteSets

CONSTANTS
  Processes,   \* running programs, one RUN_ID each
  Flow         \* the timed operations of a program in the order they end

(* An operation: what is logged for it, how long it takes, the operation    *)
(* it is part of (0 if none), and whether the program may return after it. *)
OperationType ==
  [scenario: STRING, operation: STRING, duration: Nat, outer: Nat, mayReturn: BOOLEAN]

ASSUME FlowAssumption ==
  /\ Flow \in Seq(OperationType)
  /\ Len(Flow) > 0
  /\ \A i \in DOMAIN Flow : Flow[i].outer = 0 \/ Flow[i].outer \in i + 1 .. Len(Flow) - 1

VARIABLES
  file,      \* RESULTS_FILE
  point,     \* the point each process has reached
  position,  \* the operation each process is in
  raising,   \* whether an exception is on its way
  header     \* write_header of the log_metric call of each process

vars == <<file, point, position, raising, header>>

RowType ==
  [run: Processes, index: DOMAIN Flow, scenario: STRING, operation: STRING,
   duration: Nat, status: {"SUCCESS", "FAILURE"}]

Init ==
  /\ file = [exists |-> FALSE, first |-> "nothing",
             headers |-> [p \in Processes |-> 0], rows |-> {}]
  /\ point = [p \in Processes |-> "run"]
  /\ position = [p \in Processes |-> 1]
  /\ raising = [p \in Processes |-> FALSE]
  /\ header = [p \in Processes |-> FALSE]

Goto(p, where) == point' = [point EXCEPT ![p] = where]

(* The timed function of the operation returns or raises, be it an          *)
(* interrupt that no handler catches; log_metric is called in either case.  *)
(* The last operation is the total, logged without a function.             *)
FinishOperation(p, exception) ==
  /\ point[p] = "run"
  /\ exception => position[p] # Len(Flow)
  /\ raising' = [raising EXCEPT ![p] = exception]
  /\ Goto(p, "decide")
  /\ UNCHANGED <<file, position, header>>

(* Mutants: a file that exists is taken to have its header; the decision    *)
(* is made once and kept.                                                  *)
DecideHeaderIfAbsent(p) ==
  /\ point[p] = "decide"
  /\ header' = [header EXCEPT ![p] = ~file.exists]
  /\ Goto(p, "open")
  /\ UNCHANGED <<file, position, raising>>

DecideHeaderOnce(p) ==
  /\ point[p] = "decide"
  /\ header' = [header EXCEPT ![p] = header[p] \/ ~file.exists \/ file.first = "nothing"]
  /\ Goto(p, "open")
  /\ UNCHANGED <<file, position, raising>>

(* log_metric, up to write_header.                                         *)
DecideHeader(p) ==
  /\ point[p] = "decide"
  /\ header' = [header EXCEPT ![p] = ~file.exists \/ file.first = "nothing"]
  /\ Goto(p, "open")
  /\ UNCHANGED <<file, position, raising>>

(* open(RESULTS_FILE, "a") creates the file.                               *)
OpenFile(p) ==
  /\ point[p] = "open"
  /\ file' = [file EXCEPT !.exists = TRUE]
  /\ Goto(p, "write")
  /\ UNCHANGED <<position, raising, header>>

(* Mutants: the program goes on with the next operation after an exception; *)
(* a program that returns early logs its total all the same.               *)
LeaveForNext(p, exception) ==
  /\ Goto(p, IF position[p] = Len(Flow) THEN "finished" ELSE "run")
  /\ position' = [position EXCEPT ![p] = IF @ < Len(Flow) THEN @ + 1 ELSE @]
  /\ raising' = [raising EXCEPT ![p] = exception]

LeaveToTotal(p, exception) ==
  LET op == Flow[position[p]]
  IN  \/ /\ exception /\ op.outer # 0
         /\ Goto(p, "decide")
         /\ position' = [position EXCEPT ![p] = op.outer]
         /\ raising' = [raising EXCEPT ![p] = TRUE]
      \/ /\ exception /\ op.outer = 0
         /\ Goto(p, "stopped")
         /\ raising' = [raising EXCEPT ![p] = FALSE]
         /\ UNCHANGED position
      \/ /\ ~exception /\ position[p] < Len(Flow)
         /\ Goto(p, "run")
         /\ position' = [position EXCEPT ![p] = IF op.mayReturn THEN Len(Flow) ELSE @ + 1]
         /\ UNCHANGED raising
      \/ /\ ~exception /\ position[p] = Len(Flow)
         /\ Goto(p, "finished")
         /\ UNCHANGED <<position, raising>>

(* timed is left, with an exception or without: an exception goes through   *)
(* the timed operation around this one, or ends the program.               *)
Leave(p, exception) ==
  LET op == Flow[position[p]]
  IN  \/ /\ exception /\ op.outer # 0
         /\ Goto(p, "decide")
         /\ position' = [position EXCEPT ![p] = op.outer]
         /\ raising' = [raising EXCEPT ![p] = TRUE]
      \/ /\ exception /\ op.outer = 0
         /\ Goto(p, "stopped")
         /\ raising' = [raising EXCEPT ![p] = FALSE]
         /\ UNCHANGED position
      \/ /\ ~exception /\ position[p] < Len(Flow)
         /\ Goto(p, "run")
         /\ position' = [position EXCEPT ![p] = @ + 1]
         /\ UNCHANGED raising
      \/ /\ ~exception
         /\ position[p] = Len(Flow) \/ op.mayReturn
         /\ Goto(p, IF position[p] = Len(Flow) THEN "finished" ELSE "stopped")
         /\ UNCHANGED <<position, raising>>

(* timed catches Exception: an operation that a KeyboardInterrupt or a      *)
(* SystemExit ends is logged as a success.                                 *)
Statuses(p) == {"SUCCESS"} \cup {s \in {"FAILURE"} : raising[p]}

Row(p, status) ==
  LET op == Flow[position[p]]
  IN  [run |-> p, index |-> position[p], scenario |-> op.scenario,
       operation |-> op.operation, duration |-> op.duration, status |-> status]

(* The file is closed: header and row reach it in one write.               *)
WriteRow(p) ==
  /\ point[p] = "write"
  /\ \E status \in Statuses(p) : file' =
       [exists |-> TRUE,
        first |-> IF file.first # "nothing" THEN file.first
                  ELSE IF header[p] THEN "header" ELSE "row",
        headers |-> IF header[p] THEN [file.headers EXCEPT ![p] = @ + 1] ELSE file.headers,
        rows |-> file.rows \cup {Row(p, status)}]
  /\ Leave(p, raising[p])
  /\ UNCHANGED header

(* The directory cannot be made, the file not be opened or written.        *)
LogRaises(p) ==
  /\ point[p] \in {"decide", "open", "write"}
  /\ Leave(p, TRUE)
  /\ UNCHANGED <<file, header>>

(* The process is killed; it is not started again under this RUN_ID.       *)
Crash(p) ==
  /\ point[p] \notin {"finished", "stopped"}
  /\ Goto(p, "stopped")
  /\ raising' = [raising EXCEPT ![p] = FALSE]
  /\ UNCHANGED <<file, position, header>>

Next ==
  \E p \in Processes :
    \/ \E exception \in BOOLEAN : FinishOperation(p, exception)
    \/ DecideHeader(p)
    \/ OpenFile(p)
    \/ WriteRow(p)
    \/ LogRaises(p)
    \/ Crash(p)

Spec == Init /\ [][Next]_vars

-----------------------------------------------------------------------------
Logging(p) == point[p] \in {"decide", "open", "write"}

(* The type invariant; an exception is on its way only while its rows are  *)
(* being logged, and a file with lines exists.                             *)
TypeOK ==
  /\ file \in [exists: BOOLEAN, first: {"nothing", "header", "row"},
               headers: [Processes -> Nat], rows: SUBSET RowType]
  /\ point \in [Processes -> {"run", "decide", "open", "write", "finished", "stopped"}]
  /\ position \in [Processes -> DOMAIN Flow]
  /\ raising \in [Processes -> BOOLEAN]
  /\ header \in [Processes -> BOOLEAN]
  /\ \A p \in Processes : raising[p] => Logging(p)
  /\ \A p \in Processes : point[p] = "write" => file.exists
  /\ file.rows # {} => file.first # "nothing"

(* csv.DictReader takes the names of the columns from the first line        *)
(* (analyse_performance.py 21): whichever processes race for an absent or   *)
(* empty file, and wherever they fail or die, no row comes before a header. *)
HeaderFirst == file.first # "row"

(* The race at metrics.py 45 can repeat the header, but only once for each  *)
(* run that started on an empty file.                                      *)
HeaderOncePerRun == \A p \in Processes : file.headers[p] <= 1
=============================================================================
