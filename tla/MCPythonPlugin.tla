--------------------------- MODULE MCPythonPlugin ---------------------------
(***************************************************************************)
(* Two concurrent invocations of a plugin, a worker and its replacement,   *)
(* calls that are bounded by MaxCalls and a respawn budget of one; or the  *)
(* environment of two plugins of one package.  A behaviour is of one part. *)
(***************************************************************************)
EXTENDS PythonPlugin, VenvCache

VARIABLE part

MCDeclared == [req : {0, 1, 2}, manifest : {1}] \cup {[req |-> 1, manifest |-> 2]}

\* The other part stays in one of its initial states.
Idle ==
  part = "worker" =>
    venv = NoVenv /\ declared = [p \in Plugin |-> [req |-> 1, manifest |-> 1]]

MCInit == Init /\ EnvInit /\ part \in {"worker", "venv"} /\ Idle

\* The invocations being alike, it is the same one that calls first.
InTurn == calls = 0 /\ calls' = 1 => pc'[CHOOSE c \in Caller : TRUE] # "idle"

\* A shutdown meets at most one respawn, and neither a fault nor an edit comes before.
Met ==
  ~Orderly' =>
    /\ faults' = 0 /\ edits' = 0
    /\ \A p, q \in Plugin : step'[p] # "idle" /\ step'[q] # "idle" => p = q

MCNext ==
  \/ part = "worker" /\ Next /\ InTurn /\ UNCHANGED <<envVars, part>>
  \/ part = "venv" /\ EnvNext /\ Met /\ UNCHANGED <<vars, part>>

MCSpec == MCInit /\ [][MCNext]_<<vars, envVars, part>> /\ Fairness

\* The environment alone, whatever a shutdown meets.
VenvSpec ==
  MCInit /\ part = "venv" /\ [][EnvNext /\ UNCHANGED <<vars, part>>]_<<vars, envVars, part>>

\* The worker alone.
WorkerSpec ==
  MCInit /\ part = "worker" /\ [][MCNext]_<<vars, envVars, part>>
=============================================================================
