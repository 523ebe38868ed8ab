------------------------------- MODULE Analysis -------------------------------
(***************************************************************************)
(* What the scripts under analysis/ compute from the rows of the performance *)
(* log.  A repeated header is a row whose status is no status and whose     *)
(* scenario is none, which the selections below leave out; but the plots    *)
(* convert the column of durations before they select (plot_performance.py  *)
(* 50), and raise on a file that has one.                                  *)
(***************************************************************************)
EXTENDS Naturals, FiniteSets, FiniteSetsExt

BackendScenarios == {"knot_dns", "ipfs", "dnslink_ipfs"}

(* The operations that make up a publication, of all backends together: a   *)
(* run logs those of one.                                                  *)
PublicationParts ==
  {"dns_txt_update", "ipfs_add_json", "ipfs_key_gen", "ipns_publish"}

IsTotal(row) == row.scenario = "summary" /\ row.operation = "total_flow"

(* The sum of what f gives for the elements of a finite set.               *)
SumOver(f, S) == MapThenSumSet(LAMBDA x : f[x], S)

Total(rows) == SumOver([row \in rows |-> row.duration], rows)

(* _completed_run_ids: the runs that logged their total.                   *)
CompletedRunIds(rows) ==
  {row.run : row \in {r \in rows : r.status = "SUCCESS" /\ IsTotal(r)}}

CompletedRows(rows) ==
  {row \in rows : row.run \in CompletedRunIds(rows) /\ row.status = "SUCCESS"}

(* Mutant: operations of the backends count as scenarios of their own.     *)
IsPhaseOrBackend(scenario) == scenario # "summary"

IsPhase(scenario) == scenario \notin BackendScenarios \cup {"summary"}

(* _scenario_total_groups, values_by_backend_phase and scenario_totals      *)
(* compute the same: what each run spent in each phase.                    *)
ScenarioTotals(rows) ==
  LET phases == {row \in rows : IsPhase(row.scenario)}
      keys   == {<<row.run, row.scenario>> : row \in phases}
  IN  [k \in keys |-> Total({row \in phases : <<row.run, row.scenario>> = k})]

(* What the tables and plots show as the end-to-end time of a run.         *)
TotalFlow(rows, run) == Total({row \in rows : row.run = run /\ IsTotal(row)})

(* Mutant: all that the backend did in the run.                            *)
KnownPublicationAll(rows, run) ==
  Total({row \in rows : row.run = run /\ row.scenario \in BackendScenarios})

(* plot_publication_breakdown: the time of a run's publications, and how    *)
(* much of it the backend's own operations explain.  That a share under a   *)
(* threshold is not drawn is left out.                                     *)
PublicationTime(rows, run) ==
  Total({row \in rows : row.run = run /\ row.scenario = "publish"})

KnownPublication(rows, run) ==
  Total({row \in rows : /\ row.run = run
                        /\ row.scenario \in BackendScenarios
                        /\ row.operation \in PublicationParts})
=============================================================================
