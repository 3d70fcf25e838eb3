--------------------------- MODULE OracleHistory ---------------------------
(***************************************************************************)
(* Oracle with history variables about the miss slashes: which validators  *)
(* ever failed to feed an accept-listed pair while bonded, and how many    *)
(* windows were closed with a validator bonded since genesis or since its  *)
(* last miss slash.                                                        *)
(***************************************************************************)
EXTENDS Oracle

VARIABLES faulted, sinceSlash

histVars == <<vars, faulted, sinceSlash>>

\* A window is closed by this step.
Closing == phase = "staking" /\ height % params.voteWindow = 0

Fault(v) == \E pair \in AcceptSet(params) : <<v, pair>> \notin DOMAIN feeds

HistInit ==
    /\ Init
    /\ faulted = {}
    /\ sinceSlash = [v \in Validators |-> 0]

HistNext ==
    /\ Next
    /\ faulted' = faulted \cup {v \in BondedVals : Closing /\ Fault(v)}
    /\ sinceSlash' = [v \in Validators |->
                        IF ~Closing \/ v \notin BondedVals THEN sinceSlash[v]
                        ELSE IF v \in slashed'.miss THEN 0 ELSE sinceSlash[v] + 1]

HistSpec == HistInit /\ [][HistNext]_histVars

\* A validator that, whenever it was bonded at the close of a window, had fed
\* every accept-listed pair is never slashed for missing: not for a pair that
\* was listed or de-listed meanwhile, nor after it was out of the bonded set.
DiligentNeverMissSlashed == slashed.miss \subseteq faulted

\* A validator is never slashed for misses before miss_window_size windows
\* were closed with it bonded, since genesis or since its last miss slash,
\* whatever governance and restarts do to the counters in between.
MissSlashesApart ==
    [][\A v \in slashed'.miss :
         Closing => sinceSlash[v] + 1 >= params.missWindowSize]_histVars
============================================================================
