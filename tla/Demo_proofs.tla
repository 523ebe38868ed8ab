------------------------------ MODULE Demo_proofs ------------------------------
(***************************************************************************)
(* Proofs about the performance log and what the analysis takes from it, for *)
(* any number of programs that log to one file and any program.             *)
(***************************************************************************)
EXTENDS Demo, Integers, FiniteSetTheorems, WellFoundedInduction, TLAPS

(* Facts about the program that the proofs need, from FlowAssumption.      *)
LEMMA FlowFacts ==
  /\ Len(Flow) \in Nat /\ Len(Flow) > 0
  /\ DOMAIN Flow = 1 .. Len(Flow)
  /\ \A i \in DOMAIN Flow : Flow[i] \in OperationType
  /\ \A i \in DOMAIN Flow :
       Flow[i].outer # 0 => Flow[i].outer \in DOMAIN Flow /\ Flow[i].outer < Len(Flow)
<1>1. /\ Len(Flow) \in Nat
      /\ DOMAIN Flow = 1 .. Len(Flow)
      /\ \A i \in DOMAIN Flow : Flow[i] \in OperationType
  BY FlowAssumption
<1>2. ASSUME NEW i \in DOMAIN Flow, Flow[i].outer # 0
      PROVE  Flow[i].outer \in DOMAIN Flow /\ Flow[i].outer < Len(Flow)
  <2>1. Flow[i].outer \in i + 1 .. Len(Flow) - 1
    BY <1>2, FlowAssumption
  <2> QED BY <1>1, <2>1
<1> QED BY <1>1, <1>2, FlowAssumption

-----------------------------------------------------------------------------
(* Leaving an operation changes only what Leave says, whatever comes next.  *)
LEMMA LeaveTyped ==
  ASSUME NEW p \in Processes, NEW exception \in BOOLEAN, TypeOK, Logging(p),
         raising[p] => exception, Leave(p, exception)
  PROVE  /\ point' \in [Processes -> {"run", "decide", "open", "write", "finished", "stopped"}]
         /\ position' \in [Processes -> DOMAIN Flow]
         /\ raising' \in [Processes -> BOOLEAN]
         /\ \A q \in Processes : q # p => /\ point'[q] = point[q]
                                          /\ position'[q] = position[q]
                                          /\ raising'[q] = raising[q]
         /\ raising'[p] => exception /\ point'[p] = "decide"
         /\ point'[p] # "write"
<1> DEFINE op == Flow[position[p]]
<1>1. /\ position[p] \in DOMAIN Flow
      /\ op \in OperationType
  BY FlowFacts DEF TypeOK
<1>2. op.outer # 0 => op.outer \in DOMAIN Flow
  BY <1>1, FlowFacts
<1>3. position[p] < Len(Flow) => position[p] + 1 \in DOMAIN Flow
  BY <1>1, FlowFacts
<1>4. \E where \in {"run", "decide", "finished", "stopped"} :
        point' = [point EXCEPT ![p] = where]
  BY DEF Leave, Goto
<1>5. position' \in [Processes -> DOMAIN Flow]
  BY <1>2, <1>3 DEF Leave, TypeOK
<1>6. raising' \in [Processes -> BOOLEAN] /\ (raising'[p] => exception /\ point'[p] = "decide")
  <2>1. raising \in [Processes -> BOOLEAN] /\ DOMAIN point = Processes
    BY DEF TypeOK
  <2>2. \/ raising' = [raising EXCEPT ![p] = TRUE] /\ exception /\ Goto(p, "decide")
        \/ raising' = [raising EXCEPT ![p] = FALSE]
        \/ raising' = raising /\ ~exception
    BY DEF Leave
  <2>3. raising' \in [Processes -> BOOLEAN]
    BY <2>1, <2>2
  <2>4. raising'[p] => exception /\ point'[p] = "decide"
    BY <2>1, <2>2 DEF Goto
  <2> QED BY <2>3, <2>4
<1>7. \A q \in Processes : q # p => position'[q] = position[q] /\ raising'[q] = raising[q]
  BY DEF Leave, TypeOK
<1> QED BY <1>4, <1>5, <1>6, <1>7 DEF Goto, TypeOK

(* Every reachable state of the log and of the programs is well typed.      *)
THEOREM TypeCorrect == Spec => []TypeOK
<1>1. Init => TypeOK
  BY FlowFacts DEF Init, TypeOK, Logging
<1>2. TypeOK /\ [Next]_vars => TypeOK'
  <2> SUFFICES ASSUME TypeOK, [Next]_vars PROVE TypeOK'
    OBVIOUS
  <2>1. ASSUME NEW p \in Processes, NEW exception \in BOOLEAN, FinishOperation(p, exception)
        PROVE  TypeOK'
    BY <2>1 DEF FinishOperation, Goto, TypeOK, Logging
  <2>2. ASSUME NEW p \in Processes, DecideHeader(p) PROVE TypeOK'
    BY <2>2 DEF DecideHeader, Goto, TypeOK, Logging
  <2>3. ASSUME NEW p \in Processes, OpenFile(p) PROVE TypeOK'
    BY <2>3 DEF OpenFile, Goto, TypeOK, Logging
  <2>4. ASSUME NEW p \in Processes, WriteRow(p) PROVE TypeOK'
    <3>1. Logging(p) /\ raising[p] \in BOOLEAN
      BY <2>4 DEF WriteRow, Logging, TypeOK
    <3>2. Leave(p, raising[p])
      BY <2>4 DEF WriteRow
    <3>3. \A status \in Statuses(p) : Row(p, status) \in RowType
      BY FlowFacts DEF TypeOK, Row, RowType, OperationType, Statuses
    <3>4. /\ file' \in [exists: BOOLEAN, first: {"nothing", "header", "row"},
                       headers: [Processes -> Nat], rows: SUBSET RowType]
          /\ file'.exists
          /\ file'.first # "nothing"
      BY <2>4, <3>3 DEF WriteRow, TypeOK
    <3>5. header' \in [Processes -> BOOLEAN]
      BY <2>4 DEF WriteRow, TypeOK
    <3> QED BY <3>1, <3>2, <3>4, <3>5, LeaveTyped DEF TypeOK, Logging
  <2>5. ASSUME NEW p \in Processes, LogRaises(p) PROVE TypeOK'
    <3>1. Logging(p) /\ Leave(p, TRUE)
      BY <2>5 DEF LogRaises, Logging
    <3> QED BY <2>5, <3>1, LeaveTyped DEF LogRaises, TypeOK, Logging
  <2>6. ASSUME NEW p \in Processes, Crash(p) PROVE TypeOK'
    BY <2>6 DEF Crash, Goto, TypeOK, Logging
  <2>7. CASE UNCHANGED vars
    BY <2>7 DEF vars, TypeOK, Logging
  <2> QED BY <2>1, <2>2, <2>3, <2>4, <2>5, <2>6, <2>7 DEF Next
<1> QED BY <1>1, <1>2, PTL DEF Spec

-----------------------------------------------------------------------------
(* The header.  A process that found lines in the file may rely on them; one *)
(* that decided to write a header has not written any, since before it the  *)
(* file was empty.                                                          *)
Decided(p) == point[p] \in {"open", "write"}

HeaderInv ==
  /\ HeaderFirst
  /\ HeaderOncePerRun
  /\ ~file.exists => file.first = "nothing"
  /\ file.first = "nothing" => \A p \in Processes : file.headers[p] = 0
  /\ \A p \in Processes : Decided(p) =>
       IF header[p] THEN file.headers[p] = 0 ELSE file.first = "header"

LEMMA HeaderStep == TypeOK /\ HeaderInv /\ [Next]_vars => HeaderInv'
<1> SUFFICES ASSUME TypeOK, HeaderInv, [Next]_vars PROVE HeaderInv'
  OBVIOUS
<1> USE DEF HeaderInv, HeaderFirst, HeaderOncePerRun, Decided
<1>1. ASSUME NEW p \in Processes, NEW exception \in BOOLEAN, FinishOperation(p, exception)
      PROVE  HeaderInv'
  BY <1>1 DEF FinishOperation, Goto, TypeOK
<1>2. ASSUME NEW p \in Processes, DecideHeader(p) PROVE HeaderInv'
  BY <1>2 DEF DecideHeader, Goto, TypeOK
<1>3. ASSUME NEW p \in Processes, OpenFile(p) PROVE HeaderInv'
  BY <1>3 DEF OpenFile, Goto, TypeOK
<1>4. ASSUME NEW p \in Processes, WriteRow(p) PROVE HeaderInv'
  <2>1. /\ Logging(p) /\ raising[p] \in BOOLEAN
        /\ Decided(p)
        /\ Leave(p, raising[p])
    BY <1>4 DEF WriteRow, Logging, TypeOK
  <2>2. /\ file'.first = "header"
        /\ file'.exists
        /\ \A q \in Processes : file'.headers[q] <= 1
        /\ \A q \in Processes : q # p => file'.headers[q] = file.headers[q]
    BY <1>4, <2>1 DEF WriteRow, TypeOK
  <2>3. /\ \A q \in Processes : q # p => point'[q] = point[q]
        /\ ~Decided(p)'
    BY <2>1, LeaveTyped DEF Leave, Goto, TypeOK
  <2> QED BY <1>4, <2>2, <2>3 DEF WriteRow, TypeOK
<1>5. ASSUME NEW p \in Processes, LogRaises(p) PROVE HeaderInv'
  <2>1. Logging(p) /\ Leave(p, TRUE)
    BY <1>5 DEF LogRaises, Logging
  <2>2. /\ \A q \in Processes : q # p => point'[q] = point[q]
        /\ ~Decided(p)'
    BY <2>1, LeaveTyped DEF Leave, Goto, TypeOK
  <2> QED BY <1>5, <2>2 DEF LogRaises, TypeOK
<1>6. ASSUME NEW p \in Processes, Crash(p) PROVE HeaderInv'
  BY <1>6 DEF Crash, Goto, TypeOK
<1>7. CASE UNCHANGED vars
  BY <1>7 DEF vars
<1> QED BY <1>1, <1>2, <1>3, <1>4, <1>5, <1>6, <1>7 DEF Next

LEMMA HeaderInvariant == Spec => []HeaderInv
<1>1. Init => HeaderInv
  BY DEF Init, HeaderInv, HeaderFirst, HeaderOncePerRun, Decided
<1> QED BY <1>1, HeaderStep, TypeCorrect, PTL DEF Spec

(* Whichever programs race for an empty file, fail or die, its first line    *)
(* is the header.                                                          *)
THEOREM HeaderIsFirst == Spec => []HeaderFirst
<1>1. HeaderInv => HeaderFirst
  BY DEF HeaderInv
<1> QED BY <1>1, HeaderInvariant, PTL

(* No program repeats the header it wrote.                                 *)
THEOREM HeaderIsRare == Spec => []HeaderOncePerRun
<1>1. HeaderInv => HeaderOncePerRun
  BY DEF HeaderInv
<1> QED BY <1>1, HeaderInvariant, PTL

-----------------------------------------------------------------------------
(* The rows of a run.  As long as nothing went wrong in it, the run has     *)
(* logged a success for every operation before the one it is in; once an    *)
(* exception is on its way, the run never reaches the last operation.       *)
Sound(p) == point[p] # "stopped" /\ ~raising[p]

Logged(p) == IF point[p] = "finished" THEN Len(Flow) ELSE position[p] - 1

HasRow(p, i) == \E row \in file.rows : row.run = p /\ row.index = i

RunInv ==
  /\ \A row \in file.rows : /\ row.scenario = Flow[row.index].scenario
                            /\ row.operation = Flow[row.index].operation
                            /\ row.duration = Flow[row.index].duration
                            /\ row.index = Len(Flow) => point[row.run] = "finished"
  /\ \A p \in Processes : raising[p] => position[p] < Len(Flow)
  /\ \A p \in Processes : Sound(p) =>
       /\ \A row \in file.rows : row.run = p => row.status = "SUCCESS"
       /\ \A i \in 1 .. Logged(p) : HasRow(p, i)

(* An exception never leads to the last operation, and a run that is left   *)
(* without one has logged all up to the operation it left.                  *)
LEMMA LeaveRun ==
  ASSUME NEW p \in Processes, NEW exception \in BOOLEAN, TypeOK, Logging(p),
         raising[p] => exception, Leave(p, exception)
  PROVE  /\ raising'[p] => position'[p] < Len(Flow)
         /\ Sound(p)' => ~exception /\ Logged(p)' = position[p]
         /\ ~exception /\ position[p] = Len(Flow) => point'[p] = "finished"
<1>1. /\ position \in [Processes -> DOMAIN Flow] /\ position[p] \in 1 .. Len(Flow)
      /\ DOMAIN point = Processes /\ raising \in [Processes -> BOOLEAN]
      /\ Len(Flow) \in Nat
  BY FlowFacts DEF TypeOK
<1>2. CASE exception /\ Flow[position[p]].outer # 0
  <2>1. /\ position' = [position EXCEPT ![p] = Flow[position[p]].outer]
        /\ raising' = [raising EXCEPT ![p] = TRUE]
    BY <1>2 DEF Leave
  <2> QED BY <1>1, <1>2, <2>1, FlowFacts DEF Sound
<1>3. CASE exception /\ Flow[position[p]].outer = 0
  <2>1. raising' = [raising EXCEPT ![p] = FALSE] /\ Goto(p, "stopped")
    BY <1>3 DEF Leave
  <2> QED BY <1>1, <1>3, <2>1 DEF Sound, Goto
<1>4. CASE ~exception
  <2>1. /\ ~raising[p] /\ raising' = raising
        /\ \/ /\ position[p] < Len(Flow)
              /\ point' = [point EXCEPT ![p] = "run"]
              /\ position' = [position EXCEPT ![p] = @ + 1]
           \/ /\ position[p] < Len(Flow)
              /\ point' = [point EXCEPT ![p] = "stopped"]
           \/ /\ position[p] = Len(Flow)
              /\ point' = [point EXCEPT ![p] = "finished"]
    BY <1>1, <1>4 DEF Leave, Goto
  <2> QED BY <1>1, <1>4, <2>1 DEF Sound, Logged
<1> QED BY <1>2, <1>3, <1>4

LEMMA RunStep == TypeOK /\ RunInv /\ [Next]_vars => RunInv'
<1> SUFFICES ASSUME TypeOK, RunInv, [Next]_vars PROVE RunInv'
  OBVIOUS
<1> USE DEF RunInv, Sound, Logged, HasRow
<1>1. ASSUME NEW p \in Processes, NEW exception \in BOOLEAN, FinishOperation(p, exception)
      PROVE  RunInv'
  <2>1. /\ point[p] = "run" /\ point' = [point EXCEPT ![p] = "decide"]
        /\ raising' = [raising EXCEPT ![p] = exception]
        /\ exception => position[p] # Len(Flow)
        /\ file' = file /\ position' = position
    BY <1>1 DEF FinishOperation, Goto
  <2>2. /\ DOMAIN point = Processes /\ raising \in [Processes -> BOOLEAN]
        /\ position[p] \in 1 .. Len(Flow) /\ Len(Flow) \in Nat
        /\ ~raising[p]
        /\ \A row \in file.rows : row.run \in Processes
    BY <2>1, FlowFacts DEF TypeOK, Logging, RowType
  <2>3. \A q \in Processes : raising'[q] => position'[q] < Len(Flow)
    BY <2>1, <2>2
  <2>4. \A q \in Processes : Sound(q)' => Sound(q) /\ Logged(q)' = Logged(q)
    BY <2>1, <2>2
  <2>5. \A row \in file'.rows : row.index = Len(Flow) => point'[row.run] = "finished"
    BY <2>1, <2>2
  <2> QED BY <2>1, <2>3, <2>4, <2>5
<1>2. ASSUME NEW p \in Processes, DecideHeader(p) PROVE RunInv'
  BY <1>2 DEF DecideHeader, Goto, TypeOK
<1>3. ASSUME NEW p \in Processes, OpenFile(p) PROVE RunInv'
  BY <1>3 DEF OpenFile, Goto, TypeOK
<1>4. ASSUME NEW p \in Processes, WriteRow(p) PROVE RunInv'
  <2>1. /\ Logging(p) /\ raising[p] \in BOOLEAN
        /\ Leave(p, raising[p])
        /\ \E s \in Statuses(p) : file'.rows = file.rows \cup {Row(p, s)}
    BY <1>4 DEF WriteRow, Logging, TypeOK
  <2> PICK status \in Statuses(p) : file'.rows = file.rows \cup {Row(p, status)}
    BY <2>1
  <2>2. /\ Row(p, status).run = p /\ Row(p, status).index = position[p]
        /\ Row(p, status).scenario = Flow[position[p]].scenario
        /\ Row(p, status).operation = Flow[position[p]].operation
        /\ Row(p, status).duration = Flow[position[p]].duration
        /\ ~raising[p] => Row(p, status).status = "SUCCESS"
        /\ position[p] \in 1 .. Len(Flow) /\ Len(Flow) \in Nat
        /\ \A row \in file.rows : row.run \in Processes
    BY FlowFacts DEF Row, Statuses, TypeOK, RowType
  <2>3. \A q \in Processes : q # p => /\ point'[q] = point[q]
                                      /\ position'[q] = position[q]
                                      /\ raising'[q] = raising[q]
    BY <2>1, LeaveTyped
  <2>4. /\ raising'[p] => position'[p] < Len(Flow)
        /\ Sound(p)' => ~raising[p] /\ Logged(p)' = position[p]
        /\ ~raising[p] /\ position[p] = Len(Flow) => point'[p] = "finished"
    BY <2>1, LeaveRun
  <2>5. \A row \in file'.rows : row.index = Len(Flow) => point'[row.run] = "finished"
    <3>1. \A row \in file.rows : row.index = Len(Flow) => row.run # p
      BY <2>1 DEF Logging
    <3>2. position[p] = Len(Flow) => ~raising[p]
      BY <2>2
    <3> QED BY <2>1, <2>2, <2>3, <2>4, <3>1, <3>2
  <2>6. \A row \in file'.rows : /\ row.scenario = Flow[row.index].scenario
                                /\ row.operation = Flow[row.index].operation
                                /\ row.duration = Flow[row.index].duration
    BY <2>1, <2>2
  <2>7. \A q \in Processes : raising'[q] => position'[q] < Len(Flow)
    BY <2>3, <2>4
  <2>8. ASSUME NEW q \in Processes, Sound(q)'
        PROVE  /\ \A row \in file'.rows : row.run = q => row.status = "SUCCESS"
               /\ \A i \in 1 .. Logged(q)' : HasRow(q, i)'
    <3>1. CASE q = p
      <4>1. /\ Sound(p) /\ Logged(p) = position[p] - 1 /\ Logged(p)' = position[p]
        BY <2>1, <2>4, <2>8, <3>1 DEF Logging
      <4>2. \A i \in 1 .. position[p] - 1 : HasRow(p, i)
        BY <4>1
      <4>3. \A i \in 1 .. position[p] : HasRow(p, i)'
        BY <2>1, <2>2, <4>2
      <4> QED BY <2>1, <2>2, <3>1, <4>1, <4>3
    <3>2. CASE q # p
      <4>1. Sound(q) /\ Logged(q)' = Logged(q)
        BY <2>3, <2>8, <3>2
      <4> QED BY <2>1, <2>2, <3>2, <4>1
    <3> QED BY <3>1, <3>2
  <2> QED BY <2>5, <2>6, <2>7, <2>8
<1>5. ASSUME NEW p \in Processes, LogRaises(p) PROVE RunInv'
  <2>1. Logging(p) /\ Leave(p, TRUE) /\ file' = file
    BY <1>5 DEF LogRaises, Logging
  <2>2. \A q \in Processes : q # p => /\ point'[q] = point[q]
                                      /\ position'[q] = position[q]
                                      /\ raising'[q] = raising[q]
    BY <2>1, LeaveTyped
  <2>3. ~Sound(p)' /\ (raising'[p] => position'[p] < Len(Flow))
    BY <2>1, LeaveRun
  <2>4. \A row \in file.rows : row.index = Len(Flow) => row.run # p /\ row.run \in Processes
    BY <2>1 DEF Logging, TypeOK, RowType
  <2> QED BY <2>1, <2>2, <2>3, <2>4
<1>6. ASSUME NEW p \in Processes, Crash(p) PROVE RunInv'
  BY <1>6 DEF Crash, Goto, TypeOK
<1>7. CASE UNCHANGED vars
  BY <1>7 DEF vars
<1> QED BY <1>1, <1>2, <1>3, <1>4, <1>5, <1>6, <1>7 DEF Next

LEMMA RunInvariant == Spec => []RunInv
<1>1. Init => RunInv
  BY FlowFacts DEF Init, RunInv, Sound, Logged, HasRow
<1> QED BY <1>1, RunStep, TypeCorrect, PTL DEF Spec

(* What the statistics use of a run is all of a run that went well.         *)
THEOREM RunsAreWhole == Spec => []CompletedRunsAreWhole
<1>1. TypeOK /\ RunInv => CompletedRunsAreWhole
  <2> SUFFICES ASSUME TypeOK, RunInv PROVE CompletedRunsAreWhole
    OBVIOUS
  <2>1. \A row \in file.rows : /\ row.run \in Processes /\ row.index \in DOMAIN Flow
                               /\ IsTotal(row) <=> row.index = Len(Flow)
    BY TotalAssumption DEF TypeOK, RowType, RunInv, IsTotal
  <2>2. ASSUME NEW p \in Processes, point[p] = "finished"
        PROVE  /\ \A row \in file.rows : row.run = p => row.status = "SUCCESS"
               /\ \A i \in DOMAIN Flow : HasRow(p, i)
    BY <2>2, FlowFacts DEF TypeOK, RunInv, Sound, Logged, Logging
  <2>3. CompletedRunIds(Rows) = {p \in Processes : point[p] = "finished"}
    <3>1. ASSUME NEW p \in Processes, point[p] = "finished"
          PROVE  p \in CompletedRunIds(Rows)
      <4> Len(Flow) \in DOMAIN Flow
        BY FlowFacts
      <4>1. PICK row \in file.rows : row.run = p /\ row.index = Len(Flow)
        BY <2>2, <3>1 DEF HasRow
      <4> QED BY <2>1, <2>2, <3>1, <4>1 DEF CompletedRunIds, Rows
    <3>2. ASSUME NEW p \in CompletedRunIds(Rows)
          PROVE  p \in Processes /\ point[p] = "finished"
      <4>1. PICK row \in file.rows : row.run = p /\ IsTotal(row)
        BY <3>2 DEF CompletedRunIds, Rows
      <4> QED BY <2>1, <4>1 DEF RunInv
    <3> QED BY <3>1, <3>2
  <2>4. ASSUME NEW p \in CompletedRunIds(Rows)
        PROVE  {row.index : row \in {r \in Used : r.run = p}} = DOMAIN Flow
    <3>1. p \in Processes /\ point[p] = "finished"
      BY <2>3, <2>4
    <3>2. ASSUME NEW i \in DOMAIN Flow
          PROVE  \E row \in Used : row.run = p /\ row.index = i
      BY <2>2, <2>4, <3>1, <3>2 DEF HasRow, Used, CompletedRows, Rows
    <3>3. Used \subseteq file.rows
      BY DEF Used, CompletedRows, Rows
    <3> QED BY <2>1, <3>2, <3>3
  <2> QED BY <2>2, <2>3, <2>4 DEF CompletedRunsAreWhole, Rows
<1> QED BY <1>1, RunInvariant, TypeCorrect, PTL

-----------------------------------------------------------------------------
(* Sums over finite sets.  First induction over finite sets, in a form that *)
(* speaks of sets only: a set of sets that has {} and every subset of S all  *)
(* of whose elements can be taken away within it has S.                     *)
LEMMA LeastNatural ==
  ASSUME NEW T, T \subseteq Nat, T # {}
  PROVE  \E n \in T : \A m \in T : n <= m
<1>1. PICK n \in T : \A m \in T : ~ (<<m, n>> \in OpToRel(<, Nat))
  BY WFMin, NatLessThanWellFounded
<1>2. ASSUME NEW m \in T, m < n PROVE FALSE
  BY <1>1, <1>2 DEF OpToRel
<1> QED BY <1>2

LEMMA SetInduction ==
  ASSUME NEW S, IsFiniteSet(S), NEW T, {} \in T,
         \A s \in SUBSET S : s # {} /\ (\A x \in s : s \ {x} \in T) => s \in T
  PROVE  S \in T
<1> SUFFICES ASSUME S \notin T PROVE FALSE
  OBVIOUS
<1> DEFINE B == {s \in SUBSET S : s \notin T}
<1> DEFINE C == {Cardinality(s) : s \in B}
<1>1. \A s \in SUBSET S : IsFiniteSet(s) /\ Cardinality(s) \in Nat
  BY FS_Subset, FS_CardinalityType
<1>2. C \subseteq Nat /\ C # {}
  BY <1>1
<1>3. PICK n \in C : \A m \in C : n <= m
  <2> HIDE DEF C
  <2> QED BY <1>2, LeastNatural
<1>4. PICK s \in B : Cardinality(s) = n
  OBVIOUS
<1>5. ASSUME NEW x \in s PROVE s \ {x} \in T
  <2>1. Cardinality(s \ {x}) = n - 1
    BY <1>1, <1>4, FS_RemoveElement
  <2>2. n \in Nat /\ s \ {x} \in SUBSET S
    BY <1>2, <1>4
  <2> QED BY <1>3, <2>1, <2>2
<1> QED BY <1>4, <1>5

(* The equation by which the library defines a sum has a solution, it has   *)
(* only one, and so it holds of sums.                                      *)
Chosen(s) == CHOOSE x \in s : TRUE

Recursion(g, f, s) == IF s = {} THEN 0 ELSE f[Chosen(s)] + g[s \ {Chosen(s)}]

Sums(g, f, S) == g = [s \in SUBSET S |-> Recursion(g, f, s)]

LEMMA ChosenInSet == \A s : s # {} => Chosen(s) \in s
BY DEF Chosen

LEMMA SumUnfold ==
  ASSUME NEW f, NEW S
  PROVE  SumOver(f, S) = (CHOOSE g : Sums(g, f, S))[S]
BY DEF SumOver, MapThenSumSet, MapThenFoldSet, Sums, Recursion, Chosen

LEMMA SumsExist ==
  ASSUME NEW f, NEW S, IsFiniteSet(S)
  PROVE  \E g : Sums(g, f, S)
<1> DEFINE Small(n) == {s \in SUBSET S : Cardinality(s) <= n}
<1> DEFINE Solved(n) == \E g : g = [s \in Small(n) |-> Recursion(g, f, s)]
<1> DEFINE B == {n \in Nat : ~Solved(n)}
<1>1. \A s \in SUBSET S : IsFiniteSet(s) /\ Cardinality(s) \in Nat
  BY FS_Subset, FS_CardinalityType
<1>2. ASSUME NEW n \in B, \A m \in B : n <= m PROVE FALSE
  <2>1. CASE n = 0
    <3> DEFINE g == [s \in Small(0) |-> 0]
    <3>1. \A s \in Small(0) : s = {}
      BY <1>1, FS_EmptySet
    <3>2. \A s \in Small(0) : Recursion(g, f, s) = 0
      BY <3>1 DEF Recursion
    <3>3. g = [s \in Small(0) |-> Recursion(g, f, s)]
      BY <3>2
    <3> QED BY <2>1, <3>3
  <2>2. CASE n # 0
    <3>1. n - 1 \in Nat /\ ~(n <= n - 1)
      BY <2>2
    <3>2. Solved(n - 1)
      BY <1>2, <3>1
    <3>3. PICK g : g = [s \in Small(n - 1) |-> Recursion(g, f, s)]
      BY <3>2
    <3> DEFINE h == [s \in Small(n) |-> Recursion(g, f, s)]
    <3>4. ASSUME NEW s \in Small(n) PROVE Recursion(h, f, s) = Recursion(g, f, s)
      <4>1. CASE s = {}
        BY <4>1 DEF Recursion
      <4>2. CASE s # {}
        <5> DEFINE t == s \ {Chosen(s)}
        <5>1. Chosen(s) \in s
          BY <4>2, ChosenInSet
        <5>2. Cardinality(t) = Cardinality(s) - 1
          BY <1>1, <5>1, FS_RemoveElement
        <5>3. t \in Small(n - 1) /\ t \in Small(n)
          BY <1>1, <5>2, <3>1
        <5>4. g[t] = Recursion(g, f, t) /\ h[t] = Recursion(g, f, t)
          BY <3>3, <5>3
        <5> QED BY <4>2, <5>4 DEF Recursion
      <4> QED BY <4>1, <4>2
    <3>5. h = [s \in Small(n) |-> Recursion(h, f, s)]
      BY <3>4
    <3>6. Solved(n)
      BY <3>5
    <3> QED BY <3>6
  <2> QED BY <2>1, <2>2
<1>3. B = {}
  <2>1. B \subseteq Nat
    OBVIOUS
  <2> HIDE DEF B
  <2> QED BY <1>2, <2>1, LeastNatural
<1>4. Solved(Cardinality(S))
  BY <1>1, <1>3
<1>5. Small(Cardinality(S)) = SUBSET S
  BY FS_Subset
<1> QED BY <1>4, <1>5 DEF Sums

LEMMA SumsUnique ==
  ASSUME NEW f, NEW S, IsFiniteSet(S), NEW R \in SUBSET S,
         NEW g, Sums(g, f, S), NEW h, Sums(h, f, R)
  PROVE  h[R] = g[R]
<1> DEFINE T == {s \in SUBSET R : h[s] = g[s]}
<1>1. \A s \in SUBSET R : h[s] = Recursion(h, f, s) /\ g[s] = Recursion(g, f, s)
  BY DEF Sums
<1>2. {} \in T
  BY <1>1 DEF Recursion
<1>3. ASSUME NEW s \in SUBSET R, s # {}, \A x \in s : s \ {x} \in T
      PROVE  s \in T
  <2>1. s \ {Chosen(s)} \in T
    BY <1>3, ChosenInSet
  <2> QED BY <1>1, <1>3, <2>1 DEF Recursion
<1>4. R \in T
  <2>1. IsFiniteSet(R)
    BY FS_Subset
  <2> HIDE DEF T
  <2> QED BY <1>2, <1>3, <2>1, SetInduction
<1> QED BY <1>4

LEMMA SumChosen ==
  ASSUME NEW f, NEW S, IsFiniteSet(S)
  PROVE  SumOver(f, S) = IF S = {} THEN 0
                         ELSE f[Chosen(S)] + SumOver(f, S \ {Chosen(S)})
<1> DEFINE g(R) == CHOOSE h : Sums(h, f, R)
<1>1. \A R \in SUBSET S : Sums(g(R), f, R) /\ SumOver(f, R) = g(R)[R]
  BY SumsExist, SumUnfold, FS_Subset
<1> HIDE DEF g
<1>2. \A R \in SUBSET S : g(R)[R] = g(S)[R]
  BY <1>1, SumsUnique
<1>3. g(S)[S] = Recursion(g(S), f, S)
  BY <1>1 DEF Sums
<1>4. S \ {Chosen(S)} \in SUBSET S
  OBVIOUS
<1> QED BY <1>1, <1>2, <1>3, <1>4 DEF Recursion

(* What the proofs use of sums: the element taken away first is any.        *)
LEMMA SumEmpty == \A f : SumOver(f, {}) = 0
BY SumChosen, FS_EmptySet

LEMMA SumNatural ==
  ASSUME NEW S, IsFiniteSet(S), NEW f, \A x \in S : f[x] \in Nat
  PROVE  SumOver(f, S) \in Nat
<1> DEFINE T == {s \in SUBSET S : SumOver(f, s) \in Nat}
<1>1. {} \in T
  BY SumEmpty
<1>2. ASSUME NEW s \in SUBSET S, s # {}, \A x \in s : s \ {x} \in T
      PROVE  s \in T
  <2>1. Chosen(s) \in s /\ SumOver(f, s) = f[Chosen(s)] + SumOver(f, s \ {Chosen(s)})
    BY <1>2, SumChosen, ChosenInSet, FS_Subset
  <2>2. f[Chosen(s)] \in Nat /\ SumOver(f, s \ {Chosen(s)}) \in Nat
    BY <1>2, <2>1
  <2> QED BY <2>1, <2>2
<1>3. S \in T
  <2> HIDE DEF T
  <2> QED BY <1>1, <1>2, SetInduction
<1> QED BY <1>3

LEMMA SumRemove ==
  ASSUME NEW S, IsFiniteSet(S), NEW f, \A x \in S : f[x] \in Nat, NEW x \in S
  PROVE  SumOver(f, S) = f[x] + SumOver(f, S \ {x})
<1> DEFINE T == {s \in SUBSET S : \A y \in s : SumOver(f, s) = f[y] + SumOver(f, s \ {y})}
<1>1. {} \in T
  OBVIOUS
<1>2. ASSUME NEW s \in SUBSET S, s # {}, \A y \in s : s \ {y} \in T
      PROVE  s \in T
  <2> DEFINE c == Chosen(s)
  <2>1. c \in s /\ SumOver(f, s) = f[c] + SumOver(f, s \ {c})
    BY <1>2, SumChosen, ChosenInSet, FS_Subset
  <2> HIDE DEF c
  <2>2. ASSUME NEW y \in s, y # c
        PROVE  SumOver(f, s) = f[y] + SumOver(f, s \ {y})
    <3> DEFINE rest == SumOver(f, (s \ {y}) \ {c})
    <3>1. SumOver(f, s \ {c}) = f[y] + rest
      <4>1. SumOver(f, s \ {c}) = f[y] + SumOver(f, (s \ {c}) \ {y})
        BY <1>2, <2>1, <2>2
      <4>2. (s \ {c}) \ {y} = (s \ {y}) \ {c}
        OBVIOUS
      <4> QED BY <4>1, <4>2
    <3>2. SumOver(f, s \ {y}) = f[c] + rest
      BY <1>2, <2>1, <2>2
    <3>3. rest \in Nat /\ f[y] \in Nat /\ f[c] \in Nat
      <4>1. (s \ {y}) \ {c} \in SUBSET S
        OBVIOUS
      <4>2. IsFiniteSet((s \ {y}) \ {c})
        BY <4>1, FS_Subset
      <4> QED BY <2>1, <4>1, <4>2, SumNatural
    <3> HIDE DEF rest
    <3> QED BY <2>1, <3>1, <3>2, <3>3
  <2> QED BY <2>1, <2>2
<1>3. S \in T
  <2> HIDE DEF T
  <2> QED BY <1>1, <1>2, SetInduction
<1> QED BY <1>3

LEMMA SumUnion ==
  ASSUME NEW S, IsFiniteSet(S), NEW f, \A x \in S : f[x] \in Nat,
         NEW Q \in SUBSET S, NEW R \in SUBSET S, Q \cap R = {}
  PROVE  SumOver(f, Q \cup R) = SumOver(f, Q) + SumOver(f, R)
<1> DEFINE T == {s \in SUBSET Q : SumOver(f, s \cup R) = SumOver(f, s) + SumOver(f, R)}
<1>1. {} \in T
  <2>1. {} \cup R = R
    OBVIOUS
  <2>2. SumOver(f, R) \in Nat
    BY SumNatural, FS_Subset
  <2>3. SumOver(f, {} \cup R) = SumOver(f, {}) + SumOver(f, R)
    BY <2>1, <2>2, SumEmpty
  <2> QED BY <2>3
<1>2. ASSUME NEW s \in SUBSET Q, s # {}, \A x \in s : s \ {x} \in T
      PROVE  s \in T
  <2>1. PICK x \in s : TRUE
    BY <1>2
  <2>2. IsFiniteSet(s) /\ IsFiniteSet(s \cup R) /\ IsFiniteSet(s \ {x}) /\ IsFiniteSet(R)
    <3>1. s \in SUBSET S /\ s \cup R \in SUBSET S /\ s \ {x} \in SUBSET S
      OBVIOUS
    <3> QED BY <3>1, FS_Subset
  <2>3. SumOver(f, s) = f[x] + SumOver(f, s \ {x})
    BY <2>1, <2>2, SumRemove
  <2>4. SumOver(f, s \cup R) = f[x] + SumOver(f, (s \cup R) \ {x})
    BY <2>1, <2>2, SumRemove
  <2>5. (s \cup R) \ {x} = (s \ {x}) \cup R
    BY <2>1
  <2>6. SumOver(f, (s \ {x}) \cup R) = SumOver(f, s \ {x}) + SumOver(f, R)
    BY <1>2, <2>1
  <2>7. SumOver(f, s \ {x}) \in Nat /\ SumOver(f, R) \in Nat /\ f[x] \in Nat
    BY <2>1, <2>2, SumNatural
  <2>8. SumOver(f, s \cup R) = SumOver(f, s) + SumOver(f, R)
    <3>1. SumOver(f, s \cup R) = f[x] + (SumOver(f, s \ {x}) + SumOver(f, R))
      BY <2>4, <2>5, <2>6, Zenon
    <3> QED BY <2>3, <2>7, <3>1
  <2> QED BY <2>8
<1>3. Q \in T
  <2>1. IsFiniteSet(Q)
    BY FS_Subset
  <2> HIDE DEF T
  <2> QED BY <1>1, <1>2, <2>1, SetInduction
<1> QED BY <1>3

(* More is no less: a sum over part of a set, of a function that is nowhere *)
(* greater, is no greater.                                                 *)
LEMMA SumMonotonic ==
  ASSUME NEW S, IsFiniteSet(S), NEW f, NEW g, NEW R \in SUBSET S,
         \A x \in S : f[x] \in Nat /\ g[x] \in Nat,
         \A x \in R : f[x] <= g[x]
  PROVE  SumOver(f, R) <= SumOver(g, S)
<1> DEFINE T == {s \in SUBSET S : SumOver(f, s \cap R) <= SumOver(g, s)}
<1>1. {} \in T
  <2>1. {} \cap R = {}
    OBVIOUS
  <2> QED BY <2>1, SumEmpty
<1>2. ASSUME NEW s \in SUBSET S, s # {}, \A x \in s : s \ {x} \in T
      PROVE  s \in T
  <2>1. PICK x \in s : TRUE
    BY <1>2
  <2>2. IsFiniteSet(s) /\ IsFiniteSet(s \cap R) /\ IsFiniteSet(s \ {x})
    BY FS_Subset
  <2>3. SumOver(g, s) = g[x] + SumOver(g, s \ {x})
    BY <2>1, <2>2, SumRemove
  <2>4. SumOver(f, (s \ {x}) \cap R) <= SumOver(g, s \ {x})
    BY <1>2, <2>1
  <2>5. /\ SumOver(g, s \ {x}) \in Nat
        /\ SumOver(f, (s \ {x}) \cap R) \in Nat
    <3>1. IsFiniteSet((s \ {x}) \cap R)
      BY FS_Subset
    <3> QED BY <2>2, <3>1, SumNatural
  <2>6. CASE x \in R
    <3>1. SumOver(f, s \cap R) = f[x] + SumOver(f, (s \cap R) \ {x})
      BY <2>1, <2>2, <2>6, SumRemove
    <3>2. (s \cap R) \ {x} = (s \ {x}) \cap R
      OBVIOUS
    <3>3. f[x] \in Nat /\ g[x] \in Nat /\ f[x] <= g[x]
      BY <2>1, <2>6
    <3>4. SumOver(f, s \cap R) <= SumOver(g, s)
      BY <2>3, <2>4, <2>5, <3>1, <3>2, <3>3
    <3> QED BY <3>4
  <2>7. CASE x \notin R
    <3>1. s \cap R = (s \ {x}) \cap R
      BY <2>7
    <3>2. SumOver(f, s \cap R) = SumOver(f, (s \ {x}) \cap R) /\ g[x] \in Nat
      BY <2>1, <3>1, Zenon
    <3>3. SumOver(f, s \cap R) <= SumOver(g, s)
      BY <2>3, <2>4, <2>5, <3>2
    <3> QED BY <3>3
  <2> QED BY <2>6, <2>7
<1>3. S \in T
  <2> HIDE DEF T
  <2> QED BY <1>1, <1>2, SetInduction
<1>4. S \cap R = R
  OBVIOUS
<1> QED BY <1>3, <1>4

(* Along a one-to-one map the sum is the same.                             *)
LEMMA SumReindexed ==
  ASSUME NEW S, IsFiniteSet(S), NEW f, NEW g, NEW b,
         \A x \in S : g[x] \in Nat /\ f[b[x]] = g[x],
         \A x, y \in S : b[x] = b[y] => x = y
  PROVE  SumOver(f, {b[x] : x \in S}) = SumOver(g, S)
<1> DEFINE Image(s) == {b[x] : x \in s}
<1> DEFINE T == {s \in SUBSET S : IsFiniteSet(Image(s)) /\ SumOver(f, Image(s)) = SumOver(g, s)}
<1>1. {} \in T
  <2>1. Image({}) = {}
    OBVIOUS
  <2> QED BY <2>1, SumEmpty, FS_EmptySet
<1>2. ASSUME NEW s \in SUBSET S, s # {}, \A x \in s : s \ {x} \in T
      PROVE  s \in T
  <2>1. PICK x \in s : TRUE
    BY <1>2
  <2>2. Image(s) = Image(s \ {x}) \cup {b[x]} /\ Image(s) \ {b[x]} = Image(s \ {x})
    OBVIOUS
  <2>3. IsFiniteSet(Image(s \ {x})) /\ SumOver(f, Image(s \ {x})) = SumOver(g, s \ {x})
    BY <1>2, <2>1
  <2>4. IsFiniteSet(Image(s))
    <3>1. IsFiniteSet(Image(s \ {x}) \cup {b[x]})
      BY <2>3, FS_AddElement, Zenon
    <3> QED BY <2>2, <3>1, Zenon
  <2>5. SumOver(f, Image(s)) = f[b[x]] + SumOver(f, Image(s \ {x}))
    <3>1. \A z \in Image(s) : f[z] \in Nat
      OBVIOUS
    <3>2. b[x] \in Image(s)
      BY <2>1
    <3>3. SumOver(f, Image(s)) = f[b[x]] + SumOver(f, Image(s) \ {b[x]})
      <4> HIDE DEF Image, T
      <4> QED BY <2>4, <3>1, <3>2, SumRemove
    <3> QED BY <2>2, <3>3, Zenon
  <2>6. SumOver(g, s) = g[x] + SumOver(g, s \ {x})
    <3>1. IsFiniteSet(s)
      BY FS_Subset
    <3> QED BY <2>1, <3>1, SumRemove
  <2>7. f[b[x]] = g[x]
    BY <2>1
  <2>8. SumOver(f, Image(s)) = SumOver(g, s)
    BY <2>3, <2>5, <2>6, <2>7
  <2> QED BY <2>4, <2>8
<1>3. S \in T
  <2> HIDE DEF T
  <2> QED BY <1>1, <1>2, SetInduction
<1> QED BY <1>3

(* Summing group by group: h[k] is the sum over the elements of group k.    *)
LEMMA SumGrouped ==
  ASSUME NEW S, IsFiniteSet(S), NEW K, IsFiniteSet(K), NEW f, NEW key, NEW group, NEW h,
         \A x \in S : f[x] \in Nat /\ key[x] \in K,
         \A k \in K : \A x : x \in group[k] <=> x \in S /\ key[x] = k,
         \A k \in K : h[k] = SumOver(f, group[k])
  PROVE  SumOver(h, K) = SumOver(f, S)
<1> DEFINE Group(k) == group[k]
<1> DEFINE Groups(L) == {x \in S : key[x] \in L}
<1> DEFINE T == {L \in SUBSET K : SumOver(h, L) = SumOver(f, Groups(L))}
<1>1. {} \in T
  <2>1. Groups({}) = {}
    OBVIOUS
  <2> QED BY <2>1, SumEmpty
<1>2. ASSUME NEW L \in SUBSET K, L # {}, \A k \in L : L \ {k} \in T
      PROVE  L \in T
  <2>1. PICK k \in L : TRUE
    BY <1>2
  <2>2. \A l \in K : h[l] \in Nat
    <3>1. \A l \in K : IsFiniteSet(Group(l))
      BY FS_Subset
    <3>2. \A l \in K : \A x \in Group(l) : f[x] \in Nat
      OBVIOUS
    <3>3. \A l \in K : h[l] = SumOver(f, Group(l))
      OBVIOUS
    <3> HIDE DEF Group
    <3> QED BY <3>1, <3>2, <3>3, SumNatural
  <2>3. SumOver(h, L) = h[k] + SumOver(h, L \ {k})
    <3>1. IsFiniteSet(L) /\ \A l \in L : h[l] \in Nat
      BY <2>2, FS_Subset
    <3> QED BY <2>1, <3>1, SumRemove
  <2>4. h[k] = SumOver(f, Group(k))
    BY <2>1
  <2>5. SumOver(h, L \ {k}) = SumOver(f, Groups(L \ {k}))
    BY <1>2, <2>1
  <2>6. /\ Groups(L) = Group(k) \cup Groups(L \ {k})
        /\ Group(k) \cap Groups(L \ {k}) = {}
        /\ Group(k) \subseteq S /\ Groups(L \ {k}) \subseteq S
    BY <2>1
  <2>7. SumOver(f, Groups(L)) = SumOver(f, Group(k)) + SumOver(f, Groups(L \ {k}))
    <3> DEFINE Q == Group(k)
    <3> DEFINE R == Groups(L \ {k})
    <3>1. Q \in SUBSET S /\ R \in SUBSET S /\ Q \cap R = {}
      BY <2>6
    <3>2. SumOver(f, Q \cup R) = SumOver(f, Q) + SumOver(f, R)
      <4> HIDE DEF T, Q, R
      <4> QED BY <3>1, SumUnion
    <3> QED BY <2>6, <3>2, Zenon
  <2>8. SumOver(h, L) = SumOver(f, Groups(L))
    BY <2>3, <2>4, <2>5, <2>7
  <2> QED BY <2>8
<1>3. K \in T
  <2> HIDE DEF T
  <2> QED BY <1>1, <1>2, SetInduction
<1>4. Groups(K) = S
  OBVIOUS
<1> QED BY <1>3, <1>4

-----------------------------------------------------------------------------
(* What the statistics add up.  The rows of a completed run are those of     *)
(* the program's operations, each of them once: a sum over rows of the run  *)
(* is the sum over the operations they are the rows of.                     *)
RowOf(p, i) ==
  [run |-> p, index |-> i, scenario |-> Flow[i].scenario, operation |-> Flow[i].operation,
   duration |-> Flow[i].duration, status |-> "SUCCESS"]

LEMMA RowsOfRun ==
  ASSUME TypeOK, RunInv, CompletedRunsAreWhole, NEW p \in CompletedRunIds(Rows)
  PROVE  {row \in Used : row.run = p} = {RowOf(p, i) : i \in DOMAIN Flow}
<1>1. ASSUME NEW row \in Used, row.run = p
      PROVE  row.index \in DOMAIN Flow /\ row = RowOf(p, row.index)
  <2>1. row \in RowType /\ row \in file.rows /\ row.status = "SUCCESS"
    BY DEF TypeOK, Used, CompletedRows, Rows
  <2>2. /\ row.scenario = Flow[row.index].scenario
        /\ row.operation = Flow[row.index].operation
        /\ row.duration = Flow[row.index].duration
    BY <2>1 DEF RunInv
  <2> QED BY <1>1, <2>1, <2>2 DEF RowType, RowOf
<1>2. ASSUME NEW i \in DOMAIN Flow
      PROVE  RowOf(p, i) \in Used /\ RowOf(p, i).run = p
  <2> DEFINE own == {row \in Used : row.run = p}
  <2>1. {row.index : row \in own} = DOMAIN Flow
    BY DEF CompletedRunsAreWhole
  <2>2. PICK row \in own : row.index = i
    <3> HIDE DEF own
    <3> QED BY <2>1
  <2>3. row = RowOf(p, i)
    BY <1>1, <2>2
  <2> QED BY <2>2, <2>3
<1> QED BY <1>1, <1>2

LEMMA OperationSets ==
  /\ IsFiniteSet(DOMAIN Flow)
  /\ \A I \in SUBSET DOMAIN Flow : IsFiniteSet(I)
  /\ \A i \in DOMAIN Flow : Durations[i] \in Nat /\ Durations[i] = Flow[i].duration
<1>1. IsFiniteSet(DOMAIN Flow)
  BY FlowFacts, FS_Interval
<1>2. \A i \in DOMAIN Flow : Durations[i] \in Nat /\ Durations[i] = Flow[i].duration
  BY FlowFacts DEF Durations, OperationType
<1> QED BY <1>1, <1>2, FS_Subset

LEMMA TotalOfRows ==
  ASSUME NEW p, NEW I \in SUBSET DOMAIN Flow
  PROVE  Total({RowOf(p, i) : i \in I}) = SumOver(Durations, I)
<1> DEFINE b == [i \in I |-> RowOf(p, i)]
<1> DEFINE f == [row \in {RowOf(p, i) : i \in I} |-> row.duration]
<1>1. {b[i] : i \in I} = {RowOf(p, i) : i \in I}
  OBVIOUS
<1>2. \A i \in I : Durations[i] \in Nat /\ f[b[i]] = Durations[i]
  BY OperationSets DEF RowOf
<1>3. \A i, j \in I : b[i] = b[j] => i = j
  BY DEF RowOf
<1>4. IsFiniteSet(I)
  BY OperationSets
<1>5. SumOver(f, {b[i] : i \in I}) = SumOver(Durations, I)
  <2> HIDE DEF b, f
  <2> QED BY <1>2, <1>3, <1>4, SumReindexed
<1> QED BY <1>1, <1>5 DEF Total

(* The time the phases of a run add up to is that of its phases' operations. *)
Phases == {i \in DOMAIN Flow : IsPhase(Flow[i].scenario)}

LEMMA PhaseSum ==
  ASSUME TypeOK, RunInv, CompletedRunsAreWhole, NEW p \in CompletedRunIds(Rows)
  PROVE  LET totals == ScenarioTotals(Used)
         IN  SumOver(totals, {k \in DOMAIN totals : k[1] = p}) = SumOver(Durations, Phases)
<1> DEFINE totals == ScenarioTotals(Used)
<1> DEFINE K == {k \in DOMAIN totals : k[1] = p}
<1> DEFINE key == [i \in Phases |-> <<p, Flow[i].scenario>>]
<1> DEFINE phases == {row \in Used : IsPhase(row.scenario)}
<1> DEFINE Group(k) == {i \in Phases : key[i] = k}
<1>1. {row \in phases : row.run = p} = {RowOf(p, i) : i \in Phases}
  BY RowsOfRun DEF Phases, RowOf
<1>2. DOMAIN totals = {<<row.run, row.scenario>> : row \in phases}
  BY DEF ScenarioTotals
<1>3. K = {key[i] : i \in Phases}
  <2>1. ASSUME NEW i \in Phases PROVE key[i] \in K
    <3>1. RowOf(p, i) \in phases
      BY <1>1
    <3> QED BY <1>2, <3>1 DEF RowOf
  <2>2. ASSUME NEW k \in K PROVE \E i \in Phases : k = key[i]
    <3>1. PICK row \in phases : k = <<row.run, row.scenario>>
      BY <1>2
    <3>2. row.run = p
      BY <3>1
    <3>3. PICK i \in Phases : row = RowOf(p, i)
      BY <1>1, <3>2
    <3> QED BY <3>1, <3>3 DEF RowOf
  <2> QED BY <2>1, <2>2
<1>4. IsFiniteSet(Phases) /\ \A i \in Phases : Durations[i] \in Nat /\ key[i] \in K
  BY <1>3, OperationSets DEF Phases
<1>5. IsFiniteSet(K)
  <2>1. key \in Surjection(Phases, K)
    BY <1>3 DEF Surjection
  <2> QED BY <1>4, <2>1, FS_Surjection
<1>6. ASSUME NEW k \in K PROVE totals[k] = SumOver(Durations, Group(k))
  <2>1. totals[k] = Total({row \in phases : <<row.run, row.scenario>> = k})
    BY DEF ScenarioTotals
  <2>2. {row \in phases : <<row.run, row.scenario>> = k} = {RowOf(p, i) : i \in Group(k)}
    <3>1. PICK j \in Phases : k = <<p, Flow[j].scenario>>
      BY <1>3
    <3>2. {row \in phases : <<row.run, row.scenario>> = k}
            = {row \in {r \in phases : r.run = p} : row.scenario = k[2]}
      BY <3>1
    <3>3. \A i \in Phases : RowOf(p, i).scenario = k[2] <=> i \in Group(k)
      BY <3>1 DEF RowOf
    <3> DEFINE own == {RowOf(p, i) : i \in Phases}
    <3>4. {row \in own : row.scenario = k[2]} = {RowOf(p, i) : i \in Group(k)}
      <4> DEFINE group == Group(k)
      <4>1. group \subseteq Phases /\ \A i \in Phases : RowOf(p, i).scenario = k[2] <=> i \in group
        BY <3>3
      <4> HIDE DEF group
      <4>2. {row \in own : row.scenario = k[2]} = {RowOf(p, i) : i \in group}
        BY <4>1
      <4> QED BY <4>2 DEF group
    <3> QED BY <1>1, <3>2, <3>4, Zenon
  <2>3. Group(k) \in SUBSET DOMAIN Flow
    BY DEF Phases
  <2>4. Total({RowOf(p, i) : i \in Group(k)}) = SumOver(Durations, Group(k))
    <3> DEFINE group == Group(k)
    <3>1. group \in SUBSET DOMAIN Flow
      BY <2>3
    <3> HIDE DEF group
    <3>2. Total({RowOf(p, i) : i \in group}) = SumOver(Durations, group)
      BY <3>1, TotalOfRows
    <3> QED BY <3>2 DEF group
  <2> QED BY <2>1, <2>2, <2>4, Zenon
<1>7. SumOver(totals, K) = SumOver(Durations, Phases)
  <2> DEFINE group == [k \in K |-> Group(k)]
  <2>1. \A k \in K : totals[k] = SumOver(Durations, group[k])
    BY <1>6
  <2>2. \A k \in K : \A i : i \in group[k] <=> i \in Phases /\ key[i] = k
    OBVIOUS
  <2> HIDE DEF totals, K, key, phases, group
  <2> QED BY <1>4, <1>5, <2>1, <2>2, SumGrouped
<1> QED BY <1>7

(* No time is counted for two phases or for a phase and the backend within   *)
(* it: the phases of a run add up to no more than its end-to-end time.      *)
THEOREM PhasesFit == Spec => []PhasesWithinTotal
<1>1. TypeOK /\ RunInv /\ CompletedRunsAreWhole => PhasesWithinTotal
  <2> SUFFICES ASSUME TypeOK, RunInv, CompletedRunsAreWhole, NEW p \in CompletedRunIds(Rows)
               PROVE  SumOver(Durations, Phases) <= TotalFlow(Used, p)
    BY PhaseSum DEF PhasesWithinTotal
  <2>1. Len(Flow) \in DOMAIN Flow /\ Len(Flow) \notin Phases
    BY FlowFacts, TotalAssumption DEF Phases, IsPhase, IsTotal
  <2>2. Phases \subseteq Within(0) /\ Within(0) \in SUBSET DOMAIN Flow
    BY <2>1, BackendAssumption DEF Phases, Within, IsPhase
  <2>3. SumOver(Durations, Phases) <= SumOver(Durations, Within(0))
    <3>1. \A i \in DOMAIN Flow : Durations[i] <= Durations[i]
      BY OperationSets
    <3> QED BY <2>2, <3>1, OperationSets, SumMonotonic
  <2>4. TotalFlow(Used, p) = Flow[Len(Flow)].duration
    <3>1. {row \in Used : row.run = p /\ IsTotal(row)} = {RowOf(p, i) : i \in {Len(Flow)}}
      <4>1. \A i \in DOMAIN Flow : IsTotal(RowOf(p, i)) <=> i = Len(Flow)
        BY TotalAssumption DEF IsTotal, RowOf
      <4>2. {row \in Used : row.run = p /\ IsTotal(row)}
              = {row \in {RowOf(p, i) : i \in DOMAIN Flow} : IsTotal(row)}
        BY RowsOfRun
      <4> QED BY <2>1, <4>1, <4>2
    <3>2. TotalFlow(Used, p) = SumOver(Durations, {Len(Flow)})
      BY <2>1, <3>1, TotalOfRows DEF TotalFlow
    <3>3. SumOver(Durations, {Len(Flow)}) = Durations[Len(Flow)] + SumOver(Durations, {Len(Flow)} \ {Len(Flow)})
      BY <2>1, OperationSets, SumRemove
    <3>4. {Len(Flow)} \ {Len(Flow)} = {}
      OBVIOUS
    <3>5. SumOver(Durations, {Len(Flow)}) = Durations[Len(Flow)] + 0
      BY <3>3, <3>4, SumEmpty, Zenon
    <3> QED BY <2>1, <3>2, <3>5, OperationSets
  <2>5. /\ SumOver(Durations, Phases) \in Nat
        /\ SumOver(Durations, Within(0)) \in Nat
        /\ Flow[Len(Flow)].duration \in Nat
    BY <2>1, <2>2, OperationSets, SumNatural
  <2> QED BY <2>3, <2>4, <2>5, TimesAssumption
<1> QED BY <1>1, RunsAreWhole, RunInvariant, TypeCorrect, PTL

(* What the plot counts as explained by the backend happened within the      *)
(* publications: their unexplained rest is never negative.                  *)
THEOREM OverheadPositive == Spec => []OverheadIsTime
<1> DEFINE Explained == {i \in DOMAIN Flow : /\ Flow[i].scenario \in BackendScenarios
                                             /\ Flow[i].operation \in PublicationParts}
<1> DEFINE Publications == {i \in DOMAIN Flow : Flow[i].scenario = "publish"}
<1> DEFINE outer == [i \in Explained |-> Flow[i].outer]
<1> DEFINE Part(j) == {i \in Explained : outer[i] = j}
<1> DEFINE parts == [j \in Publications |-> Part(j)]
<1> DEFINE part == [j \in Publications |-> SumOver(Durations, Part(j))]
<1>1. /\ Explained \in SUBSET DOMAIN Flow
      /\ Publications \in SUBSET DOMAIN Flow
      /\ \A i \in Explained : outer[i] \in Publications
  BY BackendAssumption, FlowFacts
<1>2. SumOver(part, Publications) = SumOver(Durations, Explained)
  <2>1. \A i \in Explained : Durations[i] \in Nat /\ outer[i] \in Publications
    BY <1>1, OperationSets
  <2>2. \A j \in Publications : /\ part[j] = SumOver(Durations, parts[j])
                                /\ \A i : i \in parts[j] <=> i \in Explained /\ outer[i] = j
    OBVIOUS
  <2>3. IsFiniteSet(Explained) /\ IsFiniteSet(Publications)
    BY <1>1, OperationSets
  <2> HIDE DEF Explained, Publications, outer, parts, part
  <2> QED BY <2>1, <2>2, <2>3, SumGrouped
<1>3. ASSUME NEW j \in Publications PROVE part[j] \in Nat /\ part[j] <= Durations[j]
  <2>1. j \in DOMAIN Flow /\ \A i \in Part(j) : i # Len(Flow)
    BY <1>1, FlowFacts, TotalAssumption DEF IsTotal, BackendScenarios
  <2>2. Part(j) \subseteq Within(j) /\ Within(j) \in SUBSET DOMAIN Flow
    BY <2>1 DEF Within
  <2>3. SumOver(Durations, Part(j)) <= SumOver(Durations, Within(j))
    <3>1. \A i \in DOMAIN Flow : Durations[i] <= Durations[i]
      BY OperationSets
    <3> HIDE DEF Part
    <3> QED BY <2>2, <3>1, OperationSets, SumMonotonic
  <2>4. /\ SumOver(Durations, Part(j)) \in Nat
        /\ SumOver(Durations, Within(j)) \in Nat
    <3> HIDE DEF Part
    <3> QED BY <2>2, OperationSets, SumNatural
  <2>5. SumOver(Durations, Within(j)) <= Durations[j] /\ Durations[j] \in Nat
    BY <2>1, OperationSets, TimesAssumption
  <2> HIDE DEF Part
  <2> QED BY <2>3, <2>4, <2>5
<1>4. SumOver(Durations, Explained) <= SumOver(Durations, Publications)
  <2>1. \A j \in Publications : part[j] \in Nat /\ Durations[j] \in Nat /\ part[j] <= Durations[j]
    BY <1>1, <1>3, OperationSets
  <2>2. IsFiniteSet(Publications)
    BY <1>1, OperationSets
  <2>3. SumOver(part, Publications) <= SumOver(Durations, Publications)
    <3> HIDE DEF Publications, part
    <3> QED BY <2>1, <2>2, SumMonotonic
  <2> QED BY <1>2, <2>3
<1>5. TypeOK /\ RunInv /\ CompletedRunsAreWhole => OverheadIsTime
  <2> SUFFICES ASSUME TypeOK, RunInv, CompletedRunsAreWhole, NEW p \in CompletedRunIds(Rows)
               PROVE  KnownPublication(Used, p) <= PublicationTime(Used, p)
    BY DEF OverheadIsTime
  <2>1. {row \in Used : /\ row.run = p
                        /\ row.scenario \in BackendScenarios
                        /\ row.operation \in PublicationParts}
          = {RowOf(p, i) : i \in Explained}
    BY RowsOfRun DEF RowOf
  <2>2. {row \in Used : row.run = p /\ row.scenario = "publish"}
          = {RowOf(p, i) : i \in Publications}
    BY RowsOfRun DEF RowOf
  <2> HIDE DEF Explained, Publications
  <2>3. /\ KnownPublication(Used, p) = SumOver(Durations, Explained)
        /\ PublicationTime(Used, p) = SumOver(Durations, Publications)
    BY <1>1, <2>1, <2>2, TotalOfRows DEF KnownPublication, PublicationTime
  <2> QED BY <1>4, <2>3
<1> QED BY <1>5, RunsAreWhole, RunInvariant, TypeCorrect, PTL
==============================================================================
