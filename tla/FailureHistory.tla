--------------------------- MODULE FailureHistory ---------------------------
(***************************************************************************)
(* ControlPlane with a history variable: how many fetches have failed in a *)
(* row since the TCP backend at an IP registered or last answered.  It     *)
(* observes what becomes of a backend and of its fetches, and nothing of   *)
(* how the poller counts: when failCounts is raised, and when, under which *)
(* lock and in which of several sections it is cleared, is the code's      *)
(* affair.                                                                 *)
(***************************************************************************)
EXTENDS ControlPlane

VARIABLE failedInARow   \* failedInARow[ip]: failed fetches of the backend at ip

historyvars == <<vars, failedInARow>>

\* The fetch of this step's poll got an answer, or none
FetchAnswered(ip) == poll[ip].at = "fetch" /\ poll'[ip].at = "answered"
FetchFailed(ip) == poll[ip].at = "fetch" /\ poll'[ip] = NotPolled

Observe ==
    failedInARow' = [ip \in IPs |->
        IF ~Registered(ip)' \/ FetchAnswered(ip) THEN 0
        ELSE IF FetchFailed(ip) THEN failedInARow[ip] + 1
        ELSE failedInARow[ip]]

HistoryInit == Init /\ failedInARow = [ip \in IPs |-> 0]
HistoryNext == Next /\ Observe
HistorySpec == HistoryInit /\ [][HistoryNext]_historyvars

(***************************************************************************)
(* A TCP backend leaves the registry by the last of MaxConsecutiveFails    *)
(* failed polls in a row, and by nothing else: not one failure sooner, as  *)
(* with a count left over from a predecessor or from before an answer, and *)
(* not one later.  Counting, removing and forgetting are spread over       *)
(* recordFailure and recordSuccess (health_poller.go:122-147), the latter  *)
(* called only after the hook of the answer has returned.                  *)
(***************************************************************************)
RemovedByTheLastFailure ==
    [][\A ip \in IPs : RegisteredIn("tcp", ip) =>
           (~Registered(ip)' <=>
                FetchFailed(ip) /\ failedInARow[ip] + 1 = MaxConsecutiveFails)]_historyvars
=============================================================================
