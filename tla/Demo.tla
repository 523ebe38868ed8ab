--------------------------------- MODULE Demo ---------------------------------
(***************************************************************************)
(* The demonstration (demo.py) as a source of measurements, several of them  *)
(* logging to one file, and what the analysis makes of that file at any     *)
(* moment.  Operations of a phase that behave alike are one step; each call  *)
(* of the store logs the operations of its backend inside the step.         *)
(***************************************************************************)
EXTENDS Metrics, Analysis

CONSTANT Backend   \* STORE_TYPE: "KNOT_DNS", "IPFS" or "DNSLINK_IPFS"

BackendScenario ==
  CASE Backend = "KNOT_DNS" -> "knot_dns"
    [] Backend = "IPFS" -> "ipfs"
    [] Backend = "DNSLINK_IPFS" -> "dnslink_ipfs"

(* What publish_identity and the resolutions log, DNS records validated as  *)
(* they are by default.                                                    *)
Write ==
  CASE Backend = "KNOT_DNS" -> <<"dns_txt_update">>
    [] Backend = "IPFS" -> <<"ipfs_key_gen", "ipfs_add_json", "ipns_publish">>
    [] Backend = "DNSLINK_IPFS" -> <<"ipfs_add_json", "dns_txt_update">>

Read ==
  CASE Backend = "KNOT_DNS" -> <<"dnssec_txt_resolve">>
    [] Backend = "IPFS" -> <<"ipns_resolve", "ipfs_cat_json">>
    [] Backend = "DNSLINK_IPFS" -> <<"dnssec_txt_resolve", "ipfs_cat_json">>

Step(scenario, operation, parts) ==
  [scenario |-> scenario, operation |-> operation, parts |-> parts]

(* main(), from the first identity to the tampered request.                *)
Steps ==
  <<Step("startup", "generate_identity", <<>>),
    Step("publish", "publish_identity", Write),
    Step("publish", "publish_provider_registry", Write),
    Step("discovery", "broker_discovery", Read \o Read),
    Step("dap", "dap_create_capability", <<>>),
    Step("idap", "idap_authorize", Read),
    Step("idap", "idap_replay_check", Read),
    Step("crypto", "encrypt_message", <<>>),
    Step("tampering", "tampering_check", Read)>>

(* A step's operations in the order they end, each one unit of time beside  *)
(* its parts.  After idap_authorize the program returns unless the answer   *)
(* is AUTHORIZED.                                                          *)
Timed(before, step) ==
  LET n == Len(step.parts)
      part(i) == [scenario |-> BackendScenario, operation |-> step.parts[i], duration |-> 1,
                  outer |-> before + n + 1, mayReturn |-> FALSE]
      whole == [scenario |-> step.scenario, operation |-> step.operation, duration |-> n + 1,
                outer |-> 0, mayReturn |-> step.operation = "idap_authorize"]
  IN  [i \in 1 .. n + 1 |-> IF i <= n THEN part(i) ELSE whole]

AllSteps[k \in 0 .. Len(Steps)] ==
  IF k = 0 THEN <<>>
  ELSE AllSteps[k - 1] \o Timed(Len(AllSteps[k - 1]), Steps[k])

Elapsed ==
  LET ops == AllSteps[Len(Steps)]
  IN  SumOver([i \in DOMAIN ops |-> ops[i].duration], {i \in DOMAIN ops : ops[i].outer = 0})

(* The total comes last, outside of every timed call.                      *)
DemoFlow ==
  Append(AllSteps[Len(Steps)],
         [scenario |-> "summary", operation |-> "total_flow", duration |-> Elapsed,
          outer |-> 0, mayReturn |-> FALSE])

(* So it is in every program the analysis is for.                          *)
ASSUME TotalAssumption == \A i \in DOMAIN Flow : IsTotal(Flow[i]) <=> i = Len(Flow)

Durations == [i \in DOMAIN Flow |-> Flow[i].duration]

(* The operations timed within operation j, and for 0 those timed within    *)
(* none but the total.                                                     *)
Within(j) == {i \in DOMAIN Flow : Flow[i].outer = j} \ {Len(Flow)}

(* One thread makes the calls one after the other, and one clock times them *)
(* (metrics.py 65, demo.py 88): an operation lasts at least as long as the  *)
(* operations within it, and the total as long as all of them.             *)
ASSUME TimesAssumption ==
  /\ \A j \in DOMAIN Flow : SumOver(Durations, Within(j)) <= Flow[j].duration
  /\ SumOver(Durations, Within(0)) <= Flow[Len(Flow)].duration

(* Only the operations of the backends are timed within others, and those   *)
(* that write only within publications.                                    *)
ASSUME BackendAssumption ==
  \A i \in DOMAIN Flow :
    /\ Flow[i].outer # 0 => Flow[i].scenario \in BackendScenarios
    /\ Flow[i].scenario \in BackendScenarios /\ Flow[i].operation \in PublicationParts =>
         Flow[i].outer # 0 /\ Flow[Flow[i].outer].scenario = "publish"

-----------------------------------------------------------------------------
Rows == file.rows
Used == CompletedRows(Rows)

(* The statistics are about demonstrations that ran to their end, and about *)
(* all of each: a run with a total has exactly one row for every operation, *)
(* none failed, although its log may have failed at any of them; a run that *)
(* failed, returned early (demo.py 279) or died has no total.              *)
CompletedRunsAreWhole ==
  /\ CompletedRunIds(Rows) = {p \in Processes : point[p] = "finished"}
  /\ \A p \in CompletedRunIds(Rows) :
       /\ {row.index : row \in {r \in Used : r.run = p}} = DOMAIN Flow
       /\ \A row \in Rows : row.run = p => row.status = "SUCCESS"

(* The phases of a run add up to no more than its end-to-end time: no time  *)
(* is counted for a phase and for the backend operation within it           *)
(* (generate_thesis_phase_tables.py 60, analyse_performance.py 68).        *)
PhasesWithinTotal ==
  LET totals == ScenarioTotals(Used)
  IN  \A p \in CompletedRunIds(Rows) :
        SumOver(totals, {k \in DOMAIN totals : k[1] = p})
          <= TotalFlow(Used, p)

(* The overhead shown in the publication plot is never negative: the        *)
(* operations counted as parts of the publications happened within them    *)
(* (plot_performance.py 152).                                              *)
OverheadIsTime ==
  \A p \in CompletedRunIds(Rows) : KnownPublication(Used, p) <= PublicationTime(Used, p)
=============================================================================
