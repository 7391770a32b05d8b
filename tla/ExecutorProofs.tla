--------------------------- MODULE ExecutorProofs ---------------------------
(***************************************************************************)
(* Proofs about the executor, for every set of plugins, requests, results  *)
(* and configurations: its verdicts, error records and payloads, and what  *)
(* it carries over from one invocation to the next.                        *)
(***************************************************************************)
EXTENDS Executor, TLAPS

\* The types that the arguments below use.
Types ==
  /\ conf \in [Plugin -> PluginConf]
  /\ disabled \subseteq Plugin
  /\ hook \in [Request -> Nat]
  /\ phase \in [Request -> Mode \cup {"Idle", "Returned", "Unwound"}]
  /\ groups \in [Request -> [Mode -> SUBSET Plugin]]
  /\ payload \in [Request -> Seq(Plugin)]
  /\ modified \in [Request -> BOOLEAN]
  /\ table \in [Request -> [global : Seq(Nat \X Plugin), local : [Plugin -> SUBSET Nat]]]
  /\ errors \in [Request -> SUBSET Plugin]
  /\ violation \in [Request -> SUBSET Plugin]
  /\ ran \in [Request -> [Plugin -> RanOutcome]]
  /\ saw \in [Request -> [Plugin -> Seq(Plugin)]]
  /\ barred \in [Request -> SUBSET Plugin]
  /\ background \subseteq [req : Request, hook : Nat, plugin : Plugin, saw : Seq(Plugin),
                           state : {"running", "ok", "failed", "panicked"}]

\* An entry that waits in a group belongs there, has not run and was not barred;
\* what has run of its mode comes before it.
Grouped(r) ==
  \A m \in Mode : \A p \in groups[r][m] :
    /\ conf[p].mode = m
    /\ ran[r][p] = "not_run"
    /\ p \notin barred[r]
    /\ \A q \in Plugin : conf[q].mode = m /\ ran[r][q] # "not_run" => q < p

\* During a phase nothing of a later one has run, and nothing of an earlier one waits.
Placed(r) ==
  phase[r] \in Mode =>
    /\ \A q \in Plugin : Rank[phase[r]] < Rank[conf[q].mode] => ran[r][q] = "not_run"
    /\ \A m \in Mode : Rank[m] < Rank[phase[r]] => groups[r][m] = {}

\* Until the result is returned nobody has objected.
Unopposed(r) ==
  phase[r] # "Returned" =>
    /\ violation[r] = {}
    /\ \A p \in Plugin : ~Objects(r, p) /\ ran[r][p] # "aborted"

\* VerdictJustified, of one request.
Judged(r) ==
  /\ Returned(r) /\ violation[r] = {} =>
       /\ \A p \in Plugin : ~Objects(r, p) /\ ran[r][p] # "aborted"
       /\ \A m \in Mode : groups[r][m] = {}
  /\ Returned(r) /\ violation[r] # {} =>
       \E p \in Plugin : /\ violation[r] = {p}
                         /\ Objects(r, p)
                         /\ \A q \in Plugin : Objects(r, q) => ~Before(q, p)
  /\ \A p \in Plugin : Objects(r, p) =>
       /\ \A q \in Plugin : Rank[conf[p].mode] < Rank[conf[q].mode] => ran[r][q] = "not_run"
       /\ TasksOf(r) = {}

\* FailuresAccounted at every step.
Accounted(r) == errors[r] = {p \in Plugin : ran[r][p] = "failed" /\ ~Objects(r, p)}

\* The tasks of an invocation are there once it has returned; no task is of an
\* invocation to come.
Tasked(r) ==
  /\ phase[r] # "Returned" => TasksOf(r) = {}
  /\ \A t \in TasksOf(r) : t.plugin \notin barred[r] /\ t.saw = payload[r]
  /\ \A t \in background : t.req = r => t.hook <= hook[r]

\* The second part of BreakersHold, without the tasks.
Tripped(r) ==
  /\ \A p \in Plugin : ran[r][p] = "failed" /\ conf[p].on_error = "Disable" => p \in disabled
  /\ \A p \in barred[r] : ran[r][p] = "not_run"

\* PayloadHandedOn at every step, and that modifiers are serial plugins that ran.
Chained(r) ==
  /\ modified[r] <=> payload[r] # <<>>
  /\ \A i \in DOMAIN payload[r] : ran[r][payload[r][i]] # "not_run" /\ conf[payload[r][i]].mode \in Serial
  /\ \A i, j \in DOMAIN payload[r] : i < j => Before(payload[r][i], payload[r][j])
  /\ \A i \in DOMAIN payload[r] : saw[r][payload[r][i]] = SubSeq(payload[r], 1, i - 1)
  /\ \A p \in Plugin : conf[p].mode \in {"Audit", "Concurrent"} /\ ran[r][p] # "not_run"
                         => saw[r][p] = payload[r]

\* The plugins whose writes of hook h are in the table.
Writers(g, h) == {s[2] : s \in {g[i] : i \in {j \in DOMAIN g : g[j][1] = h}}}

\* ContextWritesCommitted at every step but a panic; stamps are of hooks that began.
Stamped(r) ==
  /\ \A i \in DOMAIN table[r].global : table[r].global[i][1] <= hook[r]
  /\ phase[r] # "Unwound" =>
       Writers(table[r].global, hook[r])
         = {p \in Plugin : conf[p].mode \in Serial /\ ran[r][p] # "not_run" /\ p \notin violation[r]}

RInv(r) ==
  /\ Grouped(r) /\ Placed(r) /\ Unopposed(r) /\ Judged(r) /\ Accounted(r)
  /\ Tasked(r) /\ Tripped(r) /\ Chained(r) /\ Stamped(r)

IInv ==
  /\ Types
  /\ \A p \in disabled : conf[p].on_error = "Disable"
  /\ \A r \in Request : RInv(r)

\* The phases and their order.
LEMMA Ranks ==
  /\ Rank["Sequential"] = 1 /\ Rank["Transform"] = 2 /\ Rank["Audit"] = 3
  /\ Rank["Concurrent"] = 4 /\ Rank["FireAndForget"] = 5
  /\ Mode = {"Sequential", "Transform", "Audit", "Concurrent", "FireAndForget"}
  /\ DOMAIN NextPhase = {"Sequential", "Transform", "Audit", "Concurrent"}
  /\ \A m \in DOMAIN NextPhase : NextPhase[m] \in Mode /\ Rank[NextPhase[m]] = Rank[m] + 1
  /\ \A m \in Mode : Rank[m] \in Nat
BY DEF Rank, Mode, Serial, NextPhase

\* The rank of the concurrent phase.
LEMMA RankOfConcurrent == Rank["Concurrent"] = 4
BY Zenon, Ranks

\* Of two concurrent plugins the later entry does not run before the earlier one.
LEMMA NotBefore ==
  ASSUME conf' = conf, NEW p \in Plugin, NEW q \in Plugin, p <= q,
         conf[q].mode = "Concurrent", conf[p].mode = "Concurrent"
  PROVE  ~Before(q, p)'
<1>1. ~(q < p)
  BY ExecutorAssumption
<1>2. ~(Rank["Concurrent"] < Rank["Concurrent"])
  BY RankOfConcurrent
<1> QED
  BY Zenon, <1>1, <1>2 DEF Before

\* Modes with the same rank are the same.
LEMMA RankOne == \A m, n \in Mode : Rank[m] = Rank[n] => m = n
BY Ranks

\* A step of one request leaves another request's part of the invariant alone: it
\* shares the breakers, which only trip, and the tasks, which only end.
LEMMA Framed ==
  ASSUME Types, NEW r \in Request, RInv(r), conf' = conf, disabled \subseteq disabled',
         hook'[r] = hook[r], phase'[r] = phase[r], groups'[r] = groups[r], payload'[r] = payload[r],
         modified'[r] = modified[r], table'[r] = table[r], errors'[r] = errors[r],
         violation'[r] = violation[r], ran'[r] = ran[r], saw'[r] = saw[r], barred'[r] = barred[r],
         \A t \in background' : t.req = r =>
           \E u \in background : u.req = r /\ u.hook = t.hook /\ u.plugin = t.plugin /\ u.saw = t.saw
  PROVE  RInv(r)'
<1>1. TasksOf(r) = {} => TasksOf(r)' = {}
  BY DEF TasksOf
<1>2. \A p \in Plugin : Objects(r, p)' <=> Objects(r, p)
  BY Zenon DEF Objects
<1>3. \A p, q \in Plugin : Before(p, q)' <=> Before(p, q)
  BY Zenon DEF Before
<1>4. Grouped(r)'
  BY DEF RInv, Grouped
<1>5. Placed(r)'
  BY Zenon DEF RInv, Placed
<1>6. Unopposed(r)'
  BY Zenon, <1>2 DEF RInv, Unopposed
<1>7. Judged(r)'
  <2>1. Returned(r)' <=> Returned(r)
    BY Zenon DEF Returned
  <2> QED
    BY Zenon, <1>1, <1>2, <1>3, <2>1 DEF RInv, Judged
<1>8. Accounted(r)'
  BY Zenon, <1>2 DEF RInv, Accounted
<1>9. Tasked(r)'
  <2>1. \A t \in TasksOf(r)' : t.plugin \notin barred[r] /\ t.saw = payload[r]
    BY DEF RInv, Tasked, TasksOf
  <2>2. \A t \in background' : t.req = r => t.hook <= hook[r]
    BY Zenon DEF RInv, Tasked
  <2> QED
    BY Zenon, <1>1, <2>1, <2>2 DEF RInv, Tasked
<1>10. Tripped(r)'
  BY Zenon DEF RInv, Tripped
<1>11. Chained(r)'
  <2>1. \A i \in DOMAIN payload[r] : payload[r][i] \in Plugin
    BY DEF Types
  <2> QED
    BY <1>3, <2>1 DEF RInv, Chained
<1>12. Stamped(r)'
  BY Zenon DEF RInv, Stamped
<1> QED
  BY Zenon, <1>4, <1>5, <1>6, <1>7, <1>8, <1>9, <1>10, <1>11, <1>12 DEF RInv

\* The breakers that are open are those of plugins that ask for it.
Open == \A p \in disabled : conf[p].on_error = "Disable"

\* What an action of request r has to keep when it leaves the others alone.
LEMMA OneStep ==
  ASSUME IInv, NEW r \in Request, Types', Open', RInv(r)', conf' = conf, disabled \subseteq disabled',
         \A s \in Request : s # r =>
           /\ hook'[s] = hook[s] /\ phase'[s] = phase[s] /\ groups'[s] = groups[s]
           /\ payload'[s] = payload[s] /\ modified'[s] = modified[s] /\ table'[s] = table[s]
           /\ errors'[s] = errors[s] /\ violation'[s] = violation[s] /\ ran'[s] = ran[s]
           /\ saw'[s] = saw[s] /\ barred'[s] = barred[s],
         \A t \in background' : t \in background \/ t.req = r
  PROVE  IInv'
<1>1. ASSUME NEW s \in Request, s # r PROVE RInv(s)'
  <2>1. \A t \in background' : t.req = s =>
           \E u \in background : u.req = s /\ u.hook = t.hook /\ u.plugin = t.plugin /\ u.saw = t.saw
    BY Zenon, <1>1
  <2> QED
    BY Zenon, <1>1, <2>1, Framed DEF IInv
<1> QED
  BY Zenon, <1>1 DEF IInv, Open

\* The start holds the invariant.
LEMMA Initially == Init => IInv
<1> SUFFICES ASSUME Init PROVE IInv
  BY Zenon
<1>1. conf \in [Plugin -> PluginConf]
  BY Zenon, ExecutorAssumption DEF Init
<1>2. Types
  <2>1. EmptyTable \in [global : Seq(Nat \X Plugin), local : [Plugin -> SUBSET Nat]]
    BY DEF EmptyTable
  <2>2. NoGroups \in [Mode -> SUBSET Plugin]
    BY Zenon DEF NoGroups
  <2>3. <<>> \in Seq(Plugin) /\ [p \in Plugin |-> <<>>] \in [Plugin -> Seq(Plugin)]
    OBVIOUS
  <2>4. [p \in Plugin |-> "not_run"] \in [Plugin -> RanOutcome]
    BY Zenon DEF RanOutcome
  <2> QED
    BY Zenon, <1>1, <2>1, <2>2, <2>3, <2>4 DEF Init, Types, None
<1>3. ASSUME NEW r \in Request PROVE RInv(r)
  <2>1. \A p \in Plugin : ran[r][p] = "not_run" /\ ~Objects(r, p)
    BY Zenon, <1>3 DEF Init, Objects
  <2>2. phase[r] = "Idle" /\ groups[r] = NoGroups /\ payload[r] = <<>> /\ modified[r] = FALSE /\ errors[r] = {}
        /\ violation[r] = {} /\ barred[r] = {} /\ background = {} /\ hook[r] = 0 /\ table[r] = EmptyTable
    BY Zenon, <1>3 DEF Init, None
  <2>3. phase[r] \notin Mode
    BY Zenon, <2>2, Ranks
  <2>4. Grouped(r) /\ Placed(r) /\ Unopposed(r) /\ Accounted(r) /\ Tripped(r)
    BY Zenon, <2>1, <2>2, <2>3 DEF Grouped, NoGroups, Placed, Unopposed, Accounted, Tripped
  <2>5. Tasked(r)
    BY Zenon, <2>2 DEF Tasked, TasksOf
  <2>6. Judged(r)
    BY Zenon, <2>1, <2>2 DEF Judged, Returned
  <2>7. Chained(r)
    BY <2>1, <2>2 DEF Chained
  <2>8. Stamped(r)
    <3>1. table[r].global = <<>>
      BY <2>2 DEF EmptyTable
    <3>2. DOMAIN table[r].global = {}
      BY <3>1
    <3> QED
      BY Zenon, <2>1, <3>2 DEF Stamped, Writers
  <2> QED
    BY Zenon, <2>4, <2>5, <2>6, <2>7, <2>8 DEF RInv
<1> QED
  BY Zenon, <1>2, <1>3 DEF Init, IInv

\* A new invocation of a request.
LEMMA InvokeKeeps ==
  ASSUME IInv, NEW r \in Request, NEW entries \in EntrySets, Invoke(r, entries)
  PROVE  IInv'
<1> USE DEF None
<1>0. entries \subseteq Plugin /\ Types /\ RInv(r)
  BY Zenon, ExecutorAssumption DEF IInv
<1>1. GroupByMode(entries) \in [Mode -> SUBSET Plugin]
  BY Zenon, <1>0 DEF GroupByMode
<1>2. Types'
  <2>1. [p \in Plugin |-> "not_run"] \in [Plugin -> RanOutcome]
    BY Zenon DEF RanOutcome
  <2>2. hook' \in [Request -> Nat] /\ phase' \in [Request -> Mode \cup {"Idle", "Returned", "Unwound"}]
    <3>1. hook' \in [Request -> Nat]
      BY <1>0 DEF Invoke, Types
    <3>2. (IF entries = {} THEN "Returned" ELSE "Sequential") \in Mode \cup {"Idle", "Returned", "Unwound"}
      BY Zenon, Ranks
    <3>3. phase' \in [Request -> Mode \cup {"Idle", "Returned", "Unwound"}]
      BY Zenon, <1>0, <3>2 DEF Invoke, Types
    <3> QED
      BY Zenon, <3>1, <3>3
  <2>3. groups' \in [Request -> [Mode -> SUBSET Plugin]] /\ payload' \in [Request -> Seq(Plugin)]
        /\ modified' \in [Request -> BOOLEAN]
    BY <1>0, <1>1 DEF Invoke, Types
  <2>4. errors' \in [Request -> SUBSET Plugin] /\ violation' \in [Request -> SUBSET Plugin]
        /\ barred' \in [Request -> SUBSET Plugin]
    BY Zenon, <1>0 DEF Invoke, Types
  <2>5. ran' \in [Request -> [Plugin -> RanOutcome]]
    BY Zenon, <1>0, <2>1 DEF Invoke, Types
  <2>6. saw' \in [Request -> [Plugin -> Seq(Plugin)]]
    <3>1. [p \in Plugin |-> <<>>] \in [Plugin -> Seq(Plugin)]
      OBVIOUS
    <3> QED
      BY Zenon, <1>0, <3>1 DEF Invoke, Types
  <2> QED
    BY Zenon, <1>0, <2>2, <2>3, <2>4, <2>5, <2>6 DEF Invoke, Types
<1>3. /\ phase'[r] \in {"Returned", "Sequential"} /\ (phase'[r] = "Returned" => entries = {})
      /\ groups'[r] = GroupByMode(entries) /\ payload'[r] = <<>> /\ modified'[r] = FALSE
      /\ errors'[r] = {} /\ violation'[r] = {} /\ barred'[r] = disabled /\ hook'[r] = hook[r] + 1
      /\ table'[r] = table[r] /\ conf' = conf /\ background' = background /\ disabled' = disabled
      /\ \A p \in Plugin : ran'[r][p] = "not_run"
  BY Zenon, <1>0 DEF Invoke, Types
<1>4. \A p \in Plugin : ~Objects(r, p)'
  BY Zenon, <1>3 DEF Objects
<1>5. \A m \in Mode : \A p \in GroupByMode(entries)[m] : p \in Plugin /\ conf[p].mode = m /\ p \notin disabled
  BY Zenon, <1>0 DEF GroupByMode
<1>6. Grouped(r)'
  BY Zenon, <1>3, <1>5 DEF Grouped
<1>7. Placed(r)'
  <2>1. \A m \in Mode : ~(Rank[m] < Rank["Sequential"])
    BY Ranks
  <2> QED
    BY Zenon, <1>3, <2>1, Ranks DEF Placed
<1>8. Unopposed(r)' /\ Accounted(r)'
  BY Zenon, <1>3, <1>4 DEF Unopposed, Accounted
<1>9. TasksOf(r)' = {}
  BY <1>0, <1>3 DEF TasksOf, RInv, Tasked, Types
<1>10. Tasked(r)'
  <2>1. \A t \in background : t.req = r => t.hook <= hook[r] + 1
    BY <1>0 DEF RInv, Tasked, Types
  <2> QED
    BY Zenon, <1>3, <1>9, <2>1 DEF Tasked
<1>11. Judged(r)'
  <2>1. entries = {} => \A m \in Mode : GroupByMode(entries)[m] = {}
    BY Zenon DEF GroupByMode
  <2> QED
    BY Zenon, <1>3, <1>4, <2>1 DEF Judged, Returned
<1>12. Tripped(r)'
  BY Zenon, <1>0, <1>3 DEF Tripped, Types
<1>13. Chained(r)'
  BY <1>3 DEF Chained
<1>14. Stamped(r)'
  <2> DEFINE g == table[r].global
  <2>1. g \in Seq(Nat \X Plugin) /\ hook[r] \in Nat
    BY Zenon, <1>0 DEF Types
  <2>2. \A i \in DOMAIN g : g[i][1] <= hook[r] /\ g[i][1] \in Nat
    BY <1>0, <2>1 DEF RInv, Stamped
  <2> HIDE DEF g
  <2>3. Writers(g, hook[r] + 1) = {}
    BY <2>1, <2>2 DEF Writers
  <2>4. \A i \in DOMAIN g : g[i][1] <= hook[r] + 1
    BY <2>1, <2>2
  <2> QED
    BY Zenon, <1>3, <2>3, <2>4 DEF Stamped, g
<1>15. RInv(r)'
  BY Zenon, <1>6, <1>7, <1>8, <1>10, <1>11, <1>12, <1>13, <1>14 DEF RInv
<1>16. \A s \in Request : s # r =>
           /\ hook'[s] = hook[s] /\ phase'[s] = phase[s] /\ groups'[s] = groups[s]
           /\ payload'[s] = payload[s] /\ modified'[s] = modified[s] /\ table'[s] = table[s]
           /\ errors'[s] = errors[s] /\ violation'[s] = violation[s] /\ ran'[s] = ran[s]
           /\ saw'[s] = saw[s] /\ barred'[s] = barred[s]
  BY Zenon, <1>0 DEF Invoke, Types
<1>17. Open'
  BY Zenon, <1>3 DEF IInv, Open
<1> QED
  BY Zenon, <1>2, <1>3, <1>15, <1>16, <1>17, OneStep

\* A phase that is over gives way to the next one.
LEMMA EndPhaseKeeps ==
  ASSUME IInv, NEW r \in Request, EndPhase(r)
  PROVE  IInv'
<1>0. Types /\ RInv(r)
  BY Zenon DEF IInv
<1>1. /\ phase[r] \in DOMAIN NextPhase /\ groups[r][phase[r]] = {} /\ phase'[r] = NextPhase[phase[r]]
      /\ \A s \in Request : s # r => phase'[s] = phase[s]
      /\ phase' \in [Request -> Mode \cup {"Idle", "Returned", "Unwound"}]
  BY Zenon, <1>0, Ranks DEF EndPhase, Types
<1>2. /\ conf' = conf /\ disabled' = disabled /\ background' = background /\ hook' = hook /\ groups' = groups
      /\ payload' = payload /\ modified' = modified /\ table' = table /\ errors' = errors
      /\ violation' = violation /\ ran' = ran /\ saw' = saw /\ barred' = barred
  BY Zenon DEF EndPhase
<1>3. Types'
  BY Zenon, <1>0, <1>1, <1>2 DEF Types
<1>4. phase[r] \in Mode /\ phase'[r] \in Mode /\ Rank[phase'[r]] = Rank[phase[r]] + 1
      /\ phase[r] # "Returned" /\ phase'[r] # "Returned" /\ phase[r] # "Unwound"
  BY <1>1, Ranks
<1>5. \A p \in Plugin : Objects(r, p)' <=> Objects(r, p)
  BY Zenon, <1>2 DEF Objects
<1>6. \A p, q \in Plugin : Before(p, q)' <=> Before(p, q)
  BY Zenon, <1>2 DEF Before
<1>7. Grouped(r)'
  BY Zenon, <1>0, <1>2 DEF RInv, Grouped
<1>8. Placed(r)'
  <2>1. \A q \in Plugin : conf[q].mode \in Mode
    BY Zenon, <1>0 DEF Types, PluginConf
  <2>2. \A m \in Mode : Rank[m] < Rank[phase[r]] + 1 => Rank[m] < Rank[phase[r]] \/ m = phase[r]
    BY <1>4, Ranks, RankOne
  <2>3. \A m \in Mode : Rank[phase[r]] + 1 < Rank[m] => Rank[phase[r]] < Rank[m]
    BY <1>4, Ranks
  <2> QED
    BY Zenon, <1>0, <1>1, <1>2, <1>4, <2>1, <2>2, <2>3 DEF RInv, Placed
<1>9. Unopposed(r)' /\ Accounted(r)'
  BY Zenon, <1>0, <1>2, <1>4, <1>5 DEF RInv, Unopposed, Accounted
<1>10. Tasked(r)'
  BY Zenon, <1>0, <1>2, <1>4 DEF RInv, Tasked, TasksOf
<1>11. Judged(r)'
  BY Zenon, <1>0, <1>4, <1>5, <1>9, <1>2 DEF RInv, Judged, Returned, Unopposed
<1>12. Tripped(r)'
  BY Zenon, <1>0, <1>2 DEF RInv, Tripped
<1>13. Chained(r)'
  <2>1. \A i \in DOMAIN payload[r] : payload[r][i] \in Plugin
    BY <1>0 DEF Types
  <2> QED
    BY Zenon, <1>0, <1>2, <1>6, <2>1 DEF RInv, Chained
<1>14. Stamped(r)'
  BY Zenon, <1>0, <1>2, <1>4 DEF RInv, Stamped
<1>15. RInv(r)'
  BY Zenon, <1>7, <1>8, <1>9, <1>10, <1>11, <1>12, <1>13, <1>14 DEF RInv
<1>16. Open'
  BY Zenon, <1>2 DEF IInv, Open
<1> QED
  BY Zenon, <1>1, <1>2, <1>3, <1>15, <1>16, OneStep

\* What Dispatch does, plugin by plugin: the entry was waiting in the current
\* phase, and is the first of its mode that waits.
Dispatches(r, p, what) ==
  /\ conf[p].mode = phase[r] /\ ran[r][p] = "not_run" /\ p \notin barred[r]
  /\ groups' \in [Request -> [Mode -> SUBSET Plugin]]
  /\ ran' \in [Request -> [Plugin -> RanOutcome]]
  /\ saw' \in [Request -> [Plugin -> Seq(Plugin)]]
  /\ ran'[r][p] = what /\ saw'[r][p] = payload[r]
  /\ \A q \in Plugin : q # p => ran'[r][q] = ran[r][q] /\ saw'[r][q] = saw[r][q]
  /\ groups'[r][phase[r]] = groups[r][phase[r]] \ {p}
  /\ \A m \in Mode : m # phase[r] => groups'[r][m] = groups[r][m]
  /\ \A m \in Mode : groups'[r][m] \subseteq groups[r][m]
  /\ \A s \in Request : s # r => groups'[s] = groups[s] /\ ran'[s] = ran[s] /\ saw'[s] = saw[s]
  /\ \A q \in Plugin : conf[q].mode = phase[r] /\ ran[r][q] # "not_run" => q < p
  /\ Grouped(r)'

\* An entry that waits in a group is dispatched as said.
LEMMA Dispatched ==
  ASSUME Types, NEW r \in Request, RInv(r), phase[r] \in Mode, NEW p, NEW what \in RanOutcome \ {"not_run"},
         Dispatch(r, p, what), conf' = conf, barred' = barred
  PROVE  p \in Plugin /\ Dispatches(r, p, what)
<1>1. p \in groups[r][phase[r]] /\ p \in Plugin
  BY DEF Dispatch, Types
<1>2. conf[p].mode = phase[r] /\ ran[r][p] = "not_run" /\ p \notin barred[r]
      /\ \A q \in Plugin : conf[q].mode = phase[r] /\ ran[r][q] # "not_run" => q < p
  BY Zenon, <1>1 DEF RInv, Grouped
<1>3. groups' \in [Request -> [Mode -> SUBSET Plugin]]
      /\ \A m \in Mode : groups'[r][m] = IF m = phase[r] THEN groups[r][m] \ {p} ELSE groups[r][m]
  <2> DEFINE g == [groups[r] EXCEPT ![phase[r]] = groups[r][phase[r]] \ {p}]
  <2>1. groups[r] \in [Mode -> SUBSET Plugin]
    BY Zenon DEF Types
  <2>2. g \in [Mode -> SUBSET Plugin]
        /\ \A m \in Mode : g[m] = IF m = phase[r] THEN groups[r][m] \ {p} ELSE groups[r][m]
    BY Zenon, <2>1
  <2>3. groups' = [groups EXCEPT ![r] = g]
    BY Zenon DEF Dispatch
  <2> HIDE DEF g
  <2>4. groups' \in [Request -> [Mode -> SUBSET Plugin]] /\ groups'[r] = g
    BY Zenon, <2>2, <2>3 DEF Types
  <2> QED
    BY Zenon, <2>2, <2>4
<1>4. ran' \in [Request -> [Plugin -> RanOutcome]]
      /\ \A q \in Plugin : ran'[r][q] = IF q = p THEN what ELSE ran[r][q]
  BY Zenon, <1>1 DEF Dispatch, Types
<1>5. saw' \in [Request -> [Plugin -> Seq(Plugin)]]
      /\ \A q \in Plugin : saw'[r][q] = IF q = p THEN payload[r] ELSE saw[r][q]
  BY Zenon, <1>1 DEF Dispatch, Types
<1>6. \A s \in Request : s # r => groups'[s] = groups[s] /\ ran'[s] = ran[s] /\ saw'[s] = saw[s]
  BY Zenon DEF Dispatch, Types
<1>7. Grouped(r)'
  <2> SUFFICES ASSUME NEW m \in Mode, NEW q \in groups'[r][m]
               PROVE  /\ conf[q].mode = m
                      /\ ran'[r][q] = "not_run"
                      /\ q \notin barred[r]
                      /\ \A q2 \in Plugin : conf[q2].mode = m /\ ran'[r][q2] # "not_run" => q2 < q
    BY Zenon DEF Grouped
  <2>1. q \in groups[r][m] /\ q \in Plugin
    <3>1. q \in groups[r][m]
      BY Zenon, <1>3
    <3> QED
      BY <3>1 DEF Types
  <2>2. conf[q].mode = m /\ ran[r][q] = "not_run" /\ q \notin barred[r]
        /\ \A q2 \in Plugin : conf[q2].mode = m /\ ran[r][q2] # "not_run" => q2 < q
    BY Zenon, <2>1 DEF RInv, Grouped
  <2>3. q # p
    BY Zenon, <1>2, <1>3, <2>2
  <2>4. conf[p].mode = m => p < q
    <3>1. \A x \in groups[r][phase[r]] : p <= x
      BY Zenon DEF Dispatch
    <3> QED
      BY <1>1, <1>2, <2>1, <2>3, <3>1, ExecutorAssumption
  <2> QED
    BY Zenon, <1>4, <2>1, <2>2, <2>3, <2>4
<1> QED
  BY Zenon, <1>1, <1>2, <1>3, <1>4, <1>5, <1>6, <1>7 DEF Dispatches

\* After a dispatch nothing of a later phase has run.
LEMMA StillPlaced ==
  ASSUME Types, NEW r \in Request, RInv(r), phase[r] \in Mode, NEW p \in Plugin, NEW what,
         Dispatches(r, p, what), conf' = conf, phase'[r] = phase[r]
  PROVE  Placed(r)'
<1>1. Rank[phase[r]] \in Nat
  BY Zenon, Ranks
<1>2. \A q \in Plugin : Rank[phase[r]] < Rank[conf[q].mode] => ran'[r][q] = "not_run"
  <2> SUFFICES ASSUME NEW q \in Plugin, Rank[phase[r]] < Rank[conf[q].mode] PROVE ran'[r][q] = "not_run"
    BY Zenon
  <2>1. q # p
    BY <1>1 DEF Dispatches
  <2>2. ran[r][q] = "not_run"
    BY Zenon DEF RInv, Placed
  <2> QED
    BY Zenon, <2>1, <2>2 DEF Dispatches
<1>3. \A m \in Mode : Rank[m] < Rank[phase[r]] => groups'[r][m] = {}
  BY Zenon DEF RInv, Placed, Dispatches
<1> QED
  BY Zenon, <1>2, <1>3 DEF Placed

\* The payload of r stays as it is, or gets the modification of a serial plugin p.
Extends(r, p) ==
  /\ payload' \in [Request -> Seq(Plugin)] /\ modified' \in [Request -> BOOLEAN]
  /\ \A s \in Request : s # r => payload'[s] = payload[s] /\ modified'[s] = modified[s]
  /\ \/ payload'[r] = payload[r] /\ modified'[r] = modified[r]
     \/ phase[r] \in Serial /\ payload'[r] = Append(payload[r], p) /\ modified'[r] = TRUE

\* The chain of modifications goes on with a plugin that runs now, or stays as it is.
LEMMA ChainGoesOn ==
  ASSUME Types, NEW r \in Request, RInv(r), phase[r] \in {"Sequential", "Transform", "Audit"}, NEW p \in Plugin,
         NEW what \in RanOutcome \ {"not_run"}, Dispatches(r, p, what), conf' = conf, Extends(r, p)
  PROVE  Chained(r)'
<1> DEFINE s == payload[r]
<1>0. s \in Seq(Plugin) /\ (\A i \in DOMAIN s : s[i] \in Plugin) /\ DOMAIN s = 1..Len(s) /\ Len(s) \in Nat
  BY DEF Types
<1>1. /\ conf[p].mode = phase[r] /\ ran[r][p] = "not_run" /\ ran'[r][p] # "not_run" /\ saw'[r][p] = payload[r]
      /\ \A q \in Plugin : q # p => ran'[r][q] = ran[r][q] /\ saw'[r][q] = saw[r][q]
      /\ \A q \in Plugin : conf[q].mode = phase[r] /\ ran[r][q] # "not_run" => q < p
  BY Zenon DEF Dispatches
<1>2. \A q \in Plugin : ran[r][q] # "not_run" => q # p /\ ran'[r][q] # "not_run" /\ saw'[r][q] = saw[r][q]
  BY Zenon, <1>1
<1>3. /\ modified[r] <=> s # <<>>
      /\ \A i \in DOMAIN s : ran[r][s[i]] # "not_run" /\ conf[s[i]].mode \in Serial
      /\ \A i, j \in DOMAIN s : i < j => Before(s[i], s[j])
      /\ \A i \in DOMAIN s : saw[r][s[i]] = SubSeq(s, 1, i - 1)
      /\ \A q \in Plugin : conf[q].mode \in {"Audit", "Concurrent"} /\ ran[r][q] # "not_run" => saw[r][q] = s
  BY Zenon DEF RInv, Chained
<1>4. phase[r] \in Serial => \A q \in Plugin : conf[q].mode \in {"Audit", "Concurrent"} => ran'[r][q] = "not_run"
  <2>1. ASSUME phase[r] \in Serial, NEW q \in Plugin, conf[q].mode \in {"Audit", "Concurrent"}
        PROVE  ran'[r][q] = "not_run"
    <3>1. Rank[phase[r]] < Rank[conf[q].mode]
      BY <2>1, Ranks DEF Serial
    <3>2. q # p
      BY Zenon, <1>1, <2>1 DEF Serial
    <3>3. phase[r] \in Mode
      BY Zenon, Ranks
    <3> QED
      BY Zenon, <1>1, <3>1, <3>2, <3>3 DEF RInv, Placed
  <2> QED
    BY Zenon, <2>1
<1>5. CASE payload'[r] = payload[r] /\ modified'[r] = modified[r]
  <2>1. \A q \in Plugin : conf[q].mode \in {"Audit", "Concurrent"} /\ ran'[r][q] # "not_run" => saw'[r][q] = s
    BY Zenon, <1>1, <1>3
  <2> HIDE DEF s
  <2>2. modified'[r] <=> s # <<>>
    BY Zenon, <1>3, <1>5
  <2>3. \A i \in DOMAIN s : ran'[r][s[i]] # "not_run" /\ conf[s[i]].mode \in Serial
    BY Zenon, <1>0, <1>2, <1>3
  <2>4. \A i, j \in DOMAIN s : i < j => Before(s[i], s[j])
    BY Zenon, <1>3
  <2>5. \A i \in DOMAIN s : saw'[r][s[i]] = SubSeq(s, 1, i - 1)
    BY Zenon, <1>0, <1>2, <1>3
  <2>6. payload'[r] = s
    BY Zenon, <1>5 DEF s
  <2> QED
    BY <2>1, <2>2, <2>3, <2>4, <2>5, <2>6 DEF Chained, Before
<1>6. CASE phase[r] \in Serial /\ payload'[r] = Append(payload[r], p) /\ modified'[r] = TRUE
  <2> DEFINE t == Append(s, p)
  <2> HIDE DEF s
  <2>1. t \in Seq(Plugin) /\ Len(t) = Len(s) + 1 /\ DOMAIN t = 1..(Len(s) + 1) /\ t # <<>>
        /\ (\A i \in DOMAIN s : t[i] = s[i]) /\ t[Len(s) + 1] = p
    BY <1>0
  <2>2. \A i \in DOMAIN t : i \in DOMAIN s \/ i = Len(s) + 1
    BY <1>0, <2>1
  <2>3. \A i \in DOMAIN s : SubSeq(t, 1, i - 1) = SubSeq(s, 1, i - 1)
    BY <1>0, <2>1
  <2>4. SubSeq(t, 1, Len(s)) = s
    BY <1>0, <2>1
  <2> HIDE DEF t
  <2>5. \A i \in DOMAIN t : ran'[r][t[i]] # "not_run" /\ conf[t[i]].mode \in Serial
    BY <1>0, <1>1, <1>2, <1>3, <1>6, <2>1, <2>2
  <2>6. \A i \in DOMAIN s : Before(s[i], p)
    <3> SUFFICES ASSUME NEW i \in DOMAIN s PROVE Before(s[i], p)
      BY Zenon
    <3>1. s[i] \in Plugin /\ ran[r][s[i]] # "not_run" /\ conf[s[i]].mode \in Serial
      BY Zenon, <1>0, <1>3
    <3>2. ~(Rank[phase[r]] < Rank[conf[s[i]].mode])
      BY Zenon, <1>6, <3>1, Ranks DEF RInv, Placed, Serial
    <3>3. Rank[conf[s[i]].mode] \in Nat /\ Rank[phase[r]] \in Nat
      BY Zenon, <1>6, <3>1, Ranks DEF Serial
    <3>4. CASE Rank[conf[s[i]].mode] = Rank[phase[r]]
      <4>1. conf[s[i]].mode = phase[r]
        BY <1>6, <3>1, <3>4, RankOne, Ranks DEF Serial
      <4> QED
        BY Zenon, <1>1, <3>1, <4>1 DEF Before
    <3>5. CASE Rank[conf[s[i]].mode] # Rank[phase[r]]
      BY <1>1, <3>2, <3>3, <3>5 DEF Before
    <3> QED
      BY Zenon, <3>4, <3>5
  <2>7. \A i, j \in DOMAIN t : i < j => Before(t[i], t[j])
    <3> SUFFICES ASSUME NEW i \in DOMAIN t, NEW j \in DOMAIN t, i < j PROVE Before(t[i], t[j])
      BY Zenon
    <3>1. i \in DOMAIN s /\ t[i] = s[i]
      BY <1>0, <2>1, <2>2
    <3>2. CASE j \in DOMAIN s
      BY Zenon, <1>3, <2>1, <3>1, <3>2
    <3>3. CASE j = Len(s) + 1
      BY Zenon, <2>1, <2>6, <3>1, <3>3
    <3> QED
      BY Zenon, <2>2, <3>2, <3>3
  <2>8. \A i \in DOMAIN t : saw'[r][t[i]] = SubSeq(t, 1, i - 1)
    <3> SUFFICES ASSUME NEW i \in DOMAIN t PROVE saw'[r][t[i]] = SubSeq(t, 1, i - 1)
      BY Zenon
    <3>1. CASE i \in DOMAIN s
      BY <1>0, <1>2, <1>3, <2>1, <2>3, <3>1
    <3>2. CASE i = Len(s) + 1
      <4>1. i - 1 = Len(s) /\ t[i] = p
        BY <1>0, <2>1, <3>2
      <4> QED
        BY Zenon, <1>1, <2>4, <4>1 DEF s
    <3> QED
      BY Zenon, <2>2, <3>1, <3>2
  <2>9. payload'[r] = t
    BY Zenon, <1>6 DEF t, s
  <2> QED
    BY <1>4, <1>6, <2>1, <2>5, <2>7, <2>8, <2>9 DEF Chained, Before
<1> QED
  BY Zenon, <1>5, <1>6 DEF Extends

\* How the history names an answer: a failure, or one of the others.
LEMMA Outcomes ==
  \A res : /\ Outcome(res) \in {"failed", "deny", "bare_deny", "allow"}
           /\ (res.kind = "Err") <=> Outcome(res) = "failed"
BY Zenon DEF Outcome

\* A failure that does not halt is recorded, and trips the breaker if asked to.
Notes(r, p, res) ==
  /\ errors' = IF res.kind = "Err" THEN [errors EXCEPT ![r] = @ \cup {p}] ELSE errors
  /\ disabled' = IF res.kind = "Err" /\ conf[p].on_error = "Disable" THEN disabled \cup {p} ELSE disabled

\* What becomes of the context table of r, and of no other request's.
Stores(r) ==
  /\ table' \in [Request -> [global : Seq(Nat \X Plugin), local : [Plugin -> SUBSET Nat]]]
  /\ \A s \in Request : s # r => table'[s] = table[s]

\* What an entry leaves alone that does not end its phase.
InPhase ==
  /\ conf' = conf /\ background' = background /\ hook' = hook /\ phase' = phase
  /\ violation' = violation /\ barred' = barred

\* What the handler answered does not end the loop.
Proceeds(r, p, res) == ~Halts(p, res, phase[r] = "Sequential")

\* An entry of a serially executed phase after which the phase goes on, whatever
\* becomes of the payload and the context table.
LEMMA GoesOn ==
  ASSUME IInv, NEW r \in Request, NEW p \in Plugin, NEW res \in Results,
         phase[r] \in {"Sequential", "Transform", "Audit"}, Dispatch(r, p, Outcome(res)),
         Proceeds(r, p, res),
         Notes(r, p, res), InPhase, Extends(r, p), Stores(r), Stamped(r)'
  PROVE  IInv'
<1> DEFINE what == Outcome(res)
<1>0. Types /\ RInv(r) /\ phase[r] \in Mode /\ phase[r] # "Returned"
  BY Zenon, Ranks DEF IInv
<1>1. what \in RanOutcome \ {"not_run"} /\ what # "aborted" /\ ((res.kind = "Err") <=> what = "failed")
  BY Zenon, Outcomes DEF RanOutcome
<1>2. Dispatches(r, p, what)
  BY Zenon, <1>0, <1>1, Dispatched DEF InPhase
<1>3. ~(phase[r] = "Sequential" /\ (what = "deny" \/ (what = "failed" /\ conf[p].on_error = "Fail")))
  BY Zenon DEF Halts, Proceeds
<1> HIDE DEF what
<1>4. ~Objects(r, p)'
  <2>1. conf[p].mode = phase[r] /\ ran'[r][p] = what
    BY Zenon, <1>2 DEF Dispatches
  <2> SUFFICES ASSUME Objects(r, p)' PROVE FALSE
    BY Zenon
  <2>2. conf[p].mode \in Blocking
    BY Zenon DEF Objects, InPhase
  <2>3. phase[r] = "Sequential"
    BY Zenon, <2>1, <2>2 DEF Blocking
  <2>4. \/ ran'[r][p] = "deny"
        \/ ran'[r][p] = "bare_deny" /\ conf[p].mode = "Concurrent"
        \/ ran'[r][p] = "failed" /\ conf[p].on_error = "Fail"
    BY Zenon DEF Objects, InPhase
  <2>5. conf[p].mode # "Concurrent"
    BY Zenon, <2>1, <2>3
  <2>6. what = "deny" \/ (what = "failed" /\ conf[p].on_error = "Fail")
    BY Zenon, <2>1, <2>4, <2>5
  <2> QED
    BY Zenon, <1>3, <2>3, <2>6
<1>5. \A q \in Plugin : q # p => (Objects(r, q)' <=> Objects(r, q))
  BY Zenon, <1>2 DEF Objects, Dispatches, InPhase
<1>6. \A q \in Plugin : ~Objects(r, q) /\ ran[r][q] # "aborted"
  BY Zenon, <1>0 DEF RInv, Unopposed
<1>7. Types'
  <2>1. errors' \in [Request -> SUBSET Plugin]
    BY Zenon, <1>0 DEF Types, Notes
  <2>2. disabled' \subseteq Plugin
    BY Zenon, <1>0 DEF Types, Notes
  <2> QED
    BY Zenon, <1>0, <1>2, <2>1, <2>2 DEF Types, Dispatches, InPhase, Extends, Stores
<1>8. Placed(r)'
  BY Zenon, <1>0, <1>2, StillPlaced DEF InPhase
<1>9. Unopposed(r)'
  <2>1. violation[r] = {}
    BY Zenon, <1>0 DEF RInv, Unopposed
  <2>2. \A q \in Plugin : ran'[r][q] # "aborted"
    <3>1. ran'[r][p] # "aborted"
      BY Zenon, <1>1, <1>2 DEF Dispatches
    <3>2. \A q \in Plugin : q # p => ran'[r][q] # "aborted"
      BY Zenon, <1>2, <1>6 DEF Dispatches
    <3> QED
      BY Zenon, <3>1, <3>2
  <2> QED
    BY Zenon, <1>4, <1>5, <1>6, <2>1, <2>2 DEF Unopposed, InPhase
<1>10. Judged(r)'
  BY Zenon, <1>0, <1>4, <1>5, <1>6 DEF Judged, Returned, InPhase
<1>11. Accounted(r)'
  <2>1. errors[r] = {q \in Plugin : ran[r][q] = "failed" /\ ~Objects(r, q)}
    BY Zenon, <1>0 DEF RInv, Accounted
  <2>2. errors'[r] = IF what = "failed" THEN errors[r] \cup {p} ELSE errors[r]
    BY Zenon, <1>0, <1>1 DEF Types, Notes
  <2>3. \A q \in Plugin : q \in errors'[r] <=> ran'[r][q] = "failed" /\ ~Objects(r, q)'
    <3> SUFFICES ASSUME NEW q \in Plugin PROVE q \in errors'[r] <=> ran'[r][q] = "failed" /\ ~Objects(r, q)'
      BY Zenon
    <3>1. CASE q = p
      <4>1. ran[r][p] = "not_run" /\ ran'[r][p] = what
        BY Zenon, <1>2 DEF Dispatches
      <4>2. p \notin errors[r]
        BY Zenon, <2>1, <4>1
      <4>3. p \in errors'[r] <=> what = "failed"
        BY Zenon, <2>2, <4>2
      <4> QED
        BY Zenon, <1>4, <3>1, <4>1, <4>3
    <3>2. CASE q # p
      <4>1. ran'[r][q] = ran[r][q]
        BY Zenon, <1>2, <3>2 DEF Dispatches
      <4>2. q \in errors'[r] <=> q \in errors[r]
        BY Zenon, <2>2, <3>2
      <4> QED
        BY Zenon, <1>5, <2>1, <3>2, <4>1, <4>2
    <3> QED
      BY Zenon, <3>1, <3>2
  <2>4. errors'[r] \subseteq Plugin
    BY Zenon, <1>7 DEF Types
  <2> QED
    BY Zenon, <2>3, <2>4 DEF Accounted
<1>12. Tasked(r)'
  <2>1. TasksOf(r) = {} /\ TasksOf(r)' = {}
    BY Zenon, <1>0 DEF RInv, Tasked, TasksOf, InPhase
  <2> QED
    BY Zenon, <1>0, <2>1 DEF RInv, Tasked, InPhase
<1>13. Tripped(r)'
  <2>1. \A q \in Plugin : ran'[r][q] = "failed" /\ conf[q].on_error = "Disable" => q \in disabled'
    <3> SUFFICES ASSUME NEW q \in Plugin, ran'[r][q] = "failed", conf[q].on_error = "Disable"
                 PROVE  q \in disabled'
      BY Zenon
    <3>1. CASE q = p
      <4>1. res.kind = "Err"
        BY Zenon, <1>1, <1>2, <3>1 DEF Dispatches
      <4> QED
        BY Zenon, <3>1, <4>1 DEF Notes
    <3>2. CASE q # p
      <4>1. q \in disabled
        BY Zenon, <1>0, <1>2, <3>2 DEF Dispatches, RInv, Tripped
      <4> QED
        BY Zenon, <4>1 DEF Notes
    <3> QED
      BY Zenon, <3>1, <3>2
  <2>2. \A q \in barred[r] : ran'[r][q] = "not_run"
    <3> SUFFICES ASSUME NEW q \in barred[r] PROVE ran'[r][q] = "not_run"
      BY Zenon
    <3>1. q \in Plugin
      BY Zenon, <1>0 DEF Types
    <3>2. q # p /\ ran[r][q] = "not_run"
      BY Zenon, <1>0, <1>2 DEF Dispatches, RInv, Tripped
    <3> QED
      BY Zenon, <1>2, <3>1, <3>2 DEF Dispatches
  <2> QED
    BY Zenon, <2>1, <2>2 DEF Tripped, InPhase
<1>14. Chained(r)'
  BY Zenon, <1>0, <1>1, <1>2, ChainGoesOn DEF InPhase
<1>15. RInv(r)'
  BY Zenon, <1>2, <1>8, <1>9, <1>10, <1>11, <1>12, <1>13, <1>14 DEF RInv, Dispatches, Stores
<1>16. Open'
  BY Zenon DEF IInv, Open, Notes, InPhase
<1>17. \A s \in Request : s # r =>
           /\ hook'[s] = hook[s] /\ phase'[s] = phase[s] /\ groups'[s] = groups[s]
           /\ payload'[s] = payload[s] /\ modified'[s] = modified[s] /\ table'[s] = table[s]
           /\ errors'[s] = errors[s] /\ violation'[s] = violation[s] /\ ran'[s] = ran[s]
           /\ saw'[s] = saw[s] /\ barred'[s] = barred[s]
  <2>1. \A s \in Request : s # r => errors'[s] = errors[s]
    BY Zenon, <1>0 DEF Types, Notes
  <2>2. \A s \in Request : s # r => groups'[s] = groups[s] /\ ran'[s] = ran[s] /\ saw'[s] = saw[s]
    BY Zenon, <1>2 DEF Dispatches
  <2> QED
    BY Zenon, <2>1, <2>2 DEF InPhase, Extends, Stores
<1>18. disabled \subseteq disabled' /\ conf' = conf /\ \A t \in background' : t \in background \/ t.req = r
  BY Zenon DEF Notes, InPhase
<1> QED
  BY Zenon, <1>7, <1>15, <1>16, <1>17, <1>18, OneStep

\* A stamp that is appended adds its writer to the writers of its hook.
LEMMA OneMoreWriter ==
  ASSUME NEW g \in Seq(Nat \X Plugin), NEW h \in Nat, NEW p \in Plugin
  PROVE  /\ Writers(Append(g, <<h, p>>), h) = Writers(g, h) \cup {p}
         /\ (\A i \in DOMAIN g : g[i][1] <= h) =>
              \A i \in DOMAIN Append(g, <<h, p>>) : Append(g, <<h, p>>)[i][1] <= h
         /\ Append(g, <<h, p>>) \in Seq(Nat \X Plugin)
<1> DEFINE e == <<h, p>>
           t == Append(g, e)
<1>1. e \in Nat \X Plugin /\ e[1] = h /\ e[2] = p
  BY Zenon
<1> HIDE DEF e
<1>2. /\ t \in Seq(Nat \X Plugin) /\ DOMAIN t = 1..(Len(g) + 1) /\ DOMAIN g = 1..Len(g) /\ Len(g) \in Nat
      /\ (\A i \in DOMAIN g : t[i] = g[i]) /\ t[Len(g) + 1] = e
  BY <1>1
<1> HIDE DEF t
<1>3. DOMAIN t = DOMAIN g \cup {Len(g) + 1}
  BY <1>2
<1>4. Writers(t, h) \subseteq Writers(g, h) \cup {p}
  <2> SUFFICES ASSUME NEW x \in Writers(t, h) PROVE x \in Writers(g, h) \cup {p}
    BY Zenon
  <2>1. PICK i \in DOMAIN t : t[i][1] = h /\ x = t[i][2]
    BY Zenon DEF Writers
  <2>2. CASE i \in DOMAIN g
    BY Zenon, <1>2, <2>1, <2>2 DEF Writers
  <2>3. CASE i = Len(g) + 1
    BY Zenon, <1>1, <1>2, <2>1, <2>3
  <2> QED
    BY Zenon, <1>3, <2>2, <2>3
<1>5. Writers(g, h) \subseteq Writers(t, h)
  BY <1>2, <1>3 DEF Writers
<1>6. p \in Writers(t, h)
  BY Zenon, <1>1, <1>2, <1>3 DEF Writers
<1>7. ASSUME \A i \in DOMAIN g : g[i][1] <= h, NEW i \in DOMAIN t PROVE t[i][1] <= h
  <2>1. CASE i \in DOMAIN g
    BY Zenon, <1>2, <1>7, <2>1
  <2>2. CASE i = Len(g) + 1
    BY <1>1, <1>2, <2>2
  <2> QED
    BY Zenon, <1>3, <2>1, <2>2
<1> QED
  BY Zenon, <1>2, <1>4, <1>5, <1>6, <1>7 DEF t, e

\* An entry after which the serial loop goes on.
LEMMA SerialContinuesKeeps ==
  ASSUME IInv, NEW r \in Request, NEW p \in Plugin, NEW res \in Results, SerialContinues(r, p, res)
  PROVE  IInv'
<1>0. Types /\ RInv(r) /\ phase[r] \in Serial /\ phase[r] \in Mode /\ phase[r] \in {"Sequential", "Transform"}
  BY Zenon, Ranks DEF IInv, SerialContinues, Serial
<1>1. /\ InPhase /\ Dispatch(r, p, Outcome(res)) /\ Proceeds(r, p, res) /\ Notes(r, p, res)
      /\ table' = [table EXCEPT ![r] = StoreContext(table[r], hook[r], p)]
  BY Zenon DEF SerialContinues, InPhase, Notes, Proceeds
<1>2. Extends(r, p)
  <2>1. CASE res.kind = "Ok" /\ res.payload
    <3>1. payload' = [payload EXCEPT ![r] = Append(payload[r], p)] /\ modified' = [modified EXCEPT ![r] = TRUE]
      BY Zenon, <2>1 DEF SerialContinues
    <3>2. Append(payload[r], p) \in Seq(Plugin)
      BY <1>0 DEF Types
    <3> QED
      BY Zenon, <1>0, <3>1, <3>2 DEF Types, Extends
  <2>2. CASE ~(res.kind = "Ok" /\ res.payload)
    <3>1. payload' = payload /\ modified' = modified
      BY Zenon, <2>2 DEF SerialContinues
    <3> QED
      BY Zenon, <1>0, <3>1 DEF Types, Extends
  <2> QED
    BY Zenon, <2>1, <2>2
<1> DEFINE g == table[r].global
           w == Append(g, <<hook[r], p>>)
           l == [table[r].local EXCEPT ![p] = @ \cup {hook[r]}]
<1>3. g \in Seq(Nat \X Plugin) /\ hook[r] \in Nat /\ table[r].local \in [Plugin -> SUBSET Nat]
  BY Zenon, <1>0 DEF Types
<1>4. StoreContext(table[r], hook[r], p) = [global |-> w, local |-> l]
  BY Zenon DEF StoreContext
<1>5. l \in [Plugin -> SUBSET Nat]
  BY Zenon, <1>3
<1>6. /\ w \in Seq(Nat \X Plugin) /\ Writers(w, hook[r]) = Writers(g, hook[r]) \cup {p}
      /\ (\A i \in DOMAIN g : g[i][1] <= hook[r]) => \A i \in DOMAIN w : w[i][1] <= hook[r]
  <2> HIDE DEF g
  <2> QED
    BY <1>3, OneMoreWriter
<1> HIDE DEF g, w, l
<1>7. /\ table' \in [Request -> [global : Seq(Nat \X Plugin), local : [Plugin -> SUBSET Nat]]]
      /\ table'[r].global = w /\ \A s \in Request : s # r => table'[s] = table[s]
  <2> DEFINE c == [global |-> w, local |-> l]
             C == [global : Seq(Nat \X Plugin), local : [Plugin -> SUBSET Nat]]
  <2>1. c \in C /\ c.global = w
    BY Zenon, <1>5, <1>6
  <2>2. table \in [Request -> C]
    BY Zenon, <1>0 DEF Types
  <2>3. table' = [table EXCEPT ![r] = c]
    BY Zenon, <1>1, <1>4
  <2> HIDE DEF c, C
  <2>4. table' \in [Request -> C] /\ table'[r] = c /\ \A s \in Request : s # r => table'[s] = table[s]
    BY Zenon, <2>1, <2>2, <2>3
  <2> QED
    BY Zenon, <2>1, <2>4 DEF C
<1>8. Stamped(r)'
  <2>1. Outcome(res) \in RanOutcome \ {"not_run"}
    BY Zenon, Outcomes DEF RanOutcome
  <2>2. /\ conf[p].mode = phase[r] /\ ran'[r][p] # "not_run"
        /\ \A q \in Plugin : q # p => ran'[r][q] = ran[r][q]
    <3>1. Dispatches(r, p, Outcome(res))
      BY Zenon, <1>0, <1>1, <2>1, Dispatched DEF InPhase
    <3> QED
      BY Zenon, <2>1, <3>1 DEF Dispatches
  <2>3. violation[r] = {} /\ phase[r] # "Unwound"
    BY Zenon, <1>0 DEF RInv, Unopposed
  <2>4. /\ \A i \in DOMAIN g : g[i][1] <= hook[r]
        /\ Writers(g, hook[r]) = {q \in Plugin : conf[q].mode \in Serial /\ ran[r][q] # "not_run" /\ q \notin violation[r]}
    BY Zenon, <1>0, <2>3 DEF RInv, Stamped, g
  <2>5. Writers(g, hook[r]) \cup {p}
          = {q \in Plugin : conf[q].mode \in Serial /\ ran'[r][q] # "not_run" /\ q \notin violation[r]}
    BY Zenon, <1>0, <2>1, <2>2, <2>3, <2>4
  <2> QED
    BY Zenon, <1>1, <1>6, <1>7, <2>4, <2>5 DEF Stamped, InPhase
<1>9. Stores(r)
  BY Zenon, <1>7 DEF Stores
<1>10. phase[r] \in {"Sequential", "Transform", "Audit"}
  BY Zenon, <1>0
<1> QED
  BY Zenon, <1>1, <1>2, <1>8, <1>9, <1>10, GoesOn

\* An entry of the audit phase.
LEMMA AuditKeeps ==
  ASSUME IInv, NEW r \in Request, NEW p \in Plugin, NEW res \in Results, Audit(r, p, res)
  PROVE  IInv'
<1>0. Types /\ RInv(r) /\ phase[r] = "Audit" /\ phase[r] \in Mode
  BY Zenon, Ranks DEF IInv, Audit
<1>1. InPhase /\ payload' = payload /\ modified' = modified /\ table' = table
      /\ Dispatch(r, p, Outcome(res)) /\ Notes(r, p, res)
  BY Zenon DEF Audit, InPhase, Notes
<1>2. Proceeds(r, p, res) /\ phase[r] \in {"Sequential", "Transform", "Audit"}
  BY Zenon, <1>0 DEF Halts, Proceeds
<1>3. Stamped(r)'
  <2>1. Outcome(res) \in RanOutcome \ {"not_run"}
    BY Zenon, Outcomes DEF RanOutcome
  <2>2. /\ conf[p].mode = phase[r] /\ ran'[r][p] # "not_run"
        /\ \A q \in Plugin : q # p => ran'[r][q] = ran[r][q]
    <3>1. Dispatches(r, p, Outcome(res))
      BY Zenon, <1>0, <1>1, <2>1, Dispatched DEF InPhase
    <3> QED
      BY Zenon, <2>1, <3>1 DEF Dispatches
  <2>3. \A q \in Plugin : conf[q].mode \in Serial => ran'[r][q] = ran[r][q]
    BY Zenon, <1>0, <2>2 DEF Serial
  <2> QED
    BY Zenon, <1>0, <1>1, <2>3 DEF RInv, Stamped, InPhase
<1>4. Extends(r, p) /\ Stores(r)
  BY Zenon, <1>0, <1>1 DEF Types, Extends, Stores
<1> QED
  BY Zenon, <1>1, <1>2, <1>3, <1>4, GoesOn

\* An entry that ends the invocation.
LEMMA SerialHaltsKeeps ==
  ASSUME IInv, NEW r \in Request, NEW p \in Plugin, NEW res \in Results, SerialHalts(r, p, res)
  PROVE  IInv'
<1> DEFINE what == Outcome(res)
<1>0. Types /\ RInv(r) /\ phase[r] = "Sequential" /\ phase[r] \in Mode /\ p \in Nat
  BY Zenon, Ranks, ExecutorAssumption DEF IInv, SerialHalts
<1>1. /\ conf' = conf /\ disabled' = disabled /\ background' = background /\ hook' = hook
      /\ payload' = payload /\ modified' = modified /\ errors' = errors /\ barred' = barred
      /\ Dispatch(r, p, what) /\ violation' = [violation EXCEPT ![r] = {p}]
      /\ table' = [table EXCEPT ![r] = TakeContext(table[r], p)]
      /\ phase' = [phase EXCEPT ![r] = "Returned"]
  BY Zenon DEF SerialHalts, Some
<1>2. what = "deny" \/ (what = "failed" /\ conf[p].on_error = "Fail")
  BY Zenon DEF SerialHalts, Halts
<1>3. what \in RanOutcome \ {"not_run"}
  BY Zenon, <1>2 DEF RanOutcome
<1> HIDE DEF what
<1>4. Dispatches(r, p, what)
  BY Zenon, <1>0, <1>1, <1>3, Dispatched
<1>5. phase'[r] = "Returned" /\ violation'[r] = {p}
      /\ \A s \in Request : s # r => phase'[s] = phase[s] /\ violation'[s] = violation[s] /\ table'[s] = table[s]
  BY Zenon, <1>0, <1>1 DEF Types
<1>6. /\ table' \in [Request -> [global : Seq(Nat \X Plugin), local : [Plugin -> SUBSET Nat]]]
      /\ table'[r].global = table[r].global
  <2> DEFINE c == TakeContext(table[r], p)
             C == [global : Seq(Nat \X Plugin), local : [Plugin -> SUBSET Nat]]
  <2>1. table \in [Request -> C] /\ table[r] \in C
    BY Zenon, <1>0 DEF Types
  <2>2. c \in C /\ c.global = table[r].global
    BY Zenon, <2>1 DEF TakeContext
  <2>3. table' = [table EXCEPT ![r] = c]
    BY Zenon, <1>1
  <2> HIDE DEF c, C
  <2>4. table' \in [Request -> C] /\ table'[r] = c
    BY Zenon, <2>1, <2>2, <2>3
  <2> QED
    BY Zenon, <2>2, <2>4 DEF C
<1>7. Types'
  <2>1. phase' \in [Request -> Mode \cup {"Idle", "Returned", "Unwound"}]
        /\ violation' \in [Request -> SUBSET Plugin]
    BY Zenon, <1>0, <1>1 DEF Types
  <2> QED
    BY Zenon, <1>0, <1>1, <1>4, <1>6, <2>1 DEF Types, Dispatches
<1>8. Objects(r, p)'
  BY Zenon, <1>0, <1>1, <1>2, <1>4 DEF Objects, Dispatches, Blocking
<1>9. \A q \in Plugin : q # p => ~Objects(r, q)'
  <2>1. \A q \in Plugin : q # p => (Objects(r, q)' <=> Objects(r, q))
    BY Zenon, <1>1, <1>4 DEF Objects, Dispatches
  <2> QED
    BY Zenon, <1>0, <2>1 DEF RInv, Unopposed
<1>10. Grouped(r)'
  BY Zenon, <1>4 DEF Dispatches
<1>11. Placed(r)' /\ Unopposed(r)'
  BY Zenon, <1>5, Ranks DEF Placed, Unopposed
<1>12. TasksOf(r) = {} /\ TasksOf(r)' = {}
  BY Zenon, <1>0, <1>1 DEF RInv, Tasked, TasksOf
<1>13. Judged(r)'
  <2>1. ~Before(p, p)'
    <3>1. Rank[conf[p].mode] \in Nat
      BY Zenon, <1>0, <1>4, Ranks DEF Dispatches
    <3>2. conf' = conf
      BY Zenon, <1>1
    <3>3. ~(p < p) /\ ~(Rank[conf[p].mode] < Rank[conf[p].mode])
      BY <1>0, <3>1
    <3> QED
      BY Zenon, <3>2, <3>3 DEF Before
  <2>2. \A q \in Plugin : Rank[conf[p].mode] < Rank[conf[q].mode] => ran'[r][q] = "not_run"
    <3> SUFFICES ASSUME NEW q \in Plugin, Rank[conf[p].mode] < Rank[conf[q].mode] PROVE ran'[r][q] = "not_run"
      BY Zenon
    <3>1. conf[p].mode = phase[r] /\ Rank[conf[p].mode] \in Nat
      BY Zenon, <1>0, <1>4, Ranks DEF Dispatches
    <3>2. q # p
      BY <3>1
    <3>3. ran[r][q] = "not_run"
      BY Zenon, <1>0, <3>1 DEF RInv, Placed
    <3> QED
      BY Zenon, <1>4, <3>2, <3>3 DEF Dispatches
  <2> QED
    BY Zenon, <1>1, <1>5, <1>8, <1>9, <1>12, <2>1, <2>2 DEF Judged
<1>14. Accounted(r)'
  <2>1. errors[r] = {q \in Plugin : ran[r][q] = "failed" /\ ~Objects(r, q)}
    BY Zenon, <1>0 DEF RInv, Accounted
  <2>2. p \notin errors[r]
    BY Zenon, <1>4, <2>1 DEF Dispatches
  <2>3. \A q \in Plugin : q # p => ran'[r][q] = ran[r][q] /\ ~Objects(r, q)
    BY Zenon, <1>0, <1>4 DEF Dispatches, RInv, Unopposed
  <2>4. \A q \in Plugin : q \in errors[r] <=> ran'[r][q] = "failed" /\ ~Objects(r, q)'
    BY Zenon, <1>8, <1>9, <2>1, <2>2, <2>3
  <2>5. errors[r] \subseteq Plugin
    BY Zenon, <2>1
  <2> QED
    BY Zenon, <1>1, <2>4, <2>5 DEF Accounted
<1>15. Tasked(r)'
  BY Zenon, <1>0, <1>1, <1>12 DEF RInv, Tasked
<1>16. Tripped(r)'
  <2>1. \A q \in Plugin : ran'[r][q] = "failed" /\ conf[q].on_error = "Disable" => q # p
    BY Zenon, <1>2, <1>4 DEF Dispatches
  <2>2. \A q \in Plugin : q # p => ran'[r][q] = ran[r][q]
    BY Zenon, <1>4 DEF Dispatches
  <2>3. \A q \in barred[r] : q \in Plugin /\ q # p
    BY Zenon, <1>0, <1>4 DEF Types, Dispatches
  <2> QED
    BY Zenon, <1>0, <1>1, <2>1, <2>2, <2>3 DEF RInv, Tripped
<1>17. Chained(r)'
  <2>1. Extends(r, p)
    BY Zenon, <1>0, <1>1 DEF Extends, Types
  <2> QED
    BY Zenon, <1>0, <1>1, <1>3, <1>4, <2>1, ChainGoesOn
<1>18. Stamped(r)'
  <2>1. violation[r] = {}
    BY Zenon, <1>0 DEF RInv, Unopposed
  <2>2. \A q \in Plugin : q # p => ran'[r][q] = ran[r][q]
    BY Zenon, <1>4 DEF Dispatches
  <2>3. ran[r][p] = "not_run"
    BY Zenon, <1>4 DEF Dispatches
  <2>4. {q \in Plugin : conf[q].mode \in Serial /\ ran[r][q] # "not_run" /\ q \notin violation[r]}
          = {q \in Plugin : conf[q].mode \in Serial /\ ran'[r][q] # "not_run" /\ q \notin {p}}
    BY Zenon, <2>1, <2>2, <2>3
  <2> QED
    BY Zenon, <1>0, <1>1, <1>5, <1>6, <2>4 DEF RInv, Stamped
<1>19. RInv(r)'
  BY Zenon, <1>10, <1>11, <1>13, <1>14, <1>15, <1>16, <1>17, <1>18 DEF RInv
<1>20. Open'
  BY Zenon, <1>1 DEF IInv, Open
<1>21. \A s \in Request : s # r => groups'[s] = groups[s] /\ ran'[s] = ran[s] /\ saw'[s] = saw[s]
  BY Zenon, <1>4 DEF Dispatches
<1> QED
  BY Zenon, <1>1, <1>5, <1>7, <1>19, <1>20, <1>21, OneStep

\* A panic in a handler that is awaited in place.
LEMMA SerialPanicsKeeps ==
  ASSUME IInv, NEW r \in Request, NEW p \in Plugin, SerialPanics(r, p)
  PROVE  IInv'
<1>0. Types /\ RInv(r) /\ phase[r] \in {"Sequential", "Transform", "Audit"} /\ phase[r] \in Mode
      /\ phase[r] # "Returned"
  BY Zenon, Ranks DEF IInv, SerialPanics, Serial
<1>1. /\ conf' = conf /\ disabled' = disabled /\ background' = background /\ hook' = hook
      /\ payload' = payload /\ modified' = modified /\ errors' = errors /\ barred' = barred
      /\ violation' = violation /\ table' = table
      /\ Dispatch(r, p, "panicked") /\ phase' = [phase EXCEPT ![r] = "Unwound"]
  BY Zenon DEF SerialPanics
<1>2. "panicked" \in RanOutcome \ {"not_run"}
  BY Zenon DEF RanOutcome
<1>3. Dispatches(r, p, "panicked")
  BY Zenon, <1>0, <1>1, <1>2, Dispatched
<1>4. phase'[r] = "Unwound" /\ \A s \in Request : s # r => phase'[s] = phase[s]
  BY Zenon, <1>0, <1>1 DEF Types
<1>5. Types'
  <2>1. phase' \in [Request -> Mode \cup {"Idle", "Returned", "Unwound"}]
    BY Zenon, <1>0, <1>1 DEF Types
  <2> QED
    BY Zenon, <1>0, <1>1, <1>3, <2>1 DEF Types, Dispatches
<1>6. /\ ran[r][p] = "not_run" /\ ran'[r][p] = "panicked" /\ p \notin barred[r]
      /\ \A q \in Plugin : q # p => ran'[r][q] = ran[r][q]
  BY Zenon, <1>3 DEF Dispatches
<1>7. \A q \in Plugin : ~Objects(r, q) /\ ran[r][q] # "aborted"
  BY Zenon, <1>0 DEF RInv, Unopposed
<1>8. \A q \in Plugin : ~Objects(r, q)'
  <2>1. ~Objects(r, p)'
    BY Zenon, <1>6 DEF Objects
  <2>2. \A q \in Plugin : q # p => (Objects(r, q)' <=> Objects(r, q))
    BY Zenon, <1>1, <1>6 DEF Objects
  <2> QED
    BY Zenon, <1>7, <2>1, <2>2
<1>9. Grouped(r)' /\ Placed(r)'
  BY Zenon, <1>3, <1>4, Ranks DEF Dispatches, Placed
<1>10. Unopposed(r)'
  <2>1. \A q \in Plugin : ran'[r][q] # "aborted"
    BY Zenon, <1>6, <1>7
  <2> QED
    BY Zenon, <1>0, <1>1, <1>8, <2>1 DEF RInv, Unopposed
<1>11. Judged(r)'
  BY Zenon, <1>4, <1>8 DEF Judged, Returned
<1>12. Accounted(r)'
  <2>1. errors[r] = {q \in Plugin : ran[r][q] = "failed" /\ ~Objects(r, q)}
    BY Zenon, <1>0 DEF RInv, Accounted
  <2>2. \A q \in Plugin : ran'[r][q] = "failed" <=> ran[r][q] = "failed"
    BY Zenon, <1>6
  <2> QED
    BY Zenon, <1>1, <1>7, <1>8, <2>1, <2>2 DEF Accounted
<1>13. Tasked(r)'
  <2>1. TasksOf(r) = {} /\ TasksOf(r)' = {}
    BY Zenon, <1>0, <1>1 DEF RInv, Tasked, TasksOf
  <2> QED
    BY Zenon, <1>0, <1>1, <2>1 DEF RInv, Tasked
<1>14. Tripped(r)'
  <2>1. \A q \in barred[r] : q \in Plugin /\ q # p
    BY Zenon, <1>0, <1>6 DEF Types
  <2> QED
    BY Zenon, <1>0, <1>1, <1>6, <2>1 DEF RInv, Tripped
<1>15. Chained(r)'
  <2>1. Extends(r, p)
    BY Zenon, <1>0, <1>1 DEF Extends, Types
  <2> QED
    BY Zenon, <1>0, <1>1, <1>2, <1>3, <2>1, ChainGoesOn
<1>16. Stamped(r)'
  BY Zenon, <1>0, <1>1, <1>4 DEF RInv, Stamped
<1>17. RInv(r)'
  BY Zenon, <1>9, <1>10, <1>11, <1>12, <1>13, <1>14, <1>15, <1>16 DEF RInv
<1>18. Open'
  BY Zenon, <1>1 DEF IInv, Open
<1>19. \A s \in Request : s # r => groups'[s] = groups[s] /\ ran'[s] = ran[s] /\ saw'[s] = saw[s]
  BY Zenon, <1>3 DEF Dispatches
<1> QED
  BY Zenon, <1>1, <1>4, <1>5, <1>17, <1>18, <1>19, OneStep

\* How the history names a branch's outcome: cut short only if it was aborted, and a
\* denial if the join loop takes it for one.
LEMMA Says ==
  ASSUME NEW o \in BR!BranchOutcome
  PROVE  /\ BranchSays(o) \in {"allow", "deny", "bare_deny", "aborted", "failed"}
         /\ BranchSays(o) = "aborted" => o = BR!Aborted
         /\ BR!Halts(o) => BranchSays(o) \in {"deny", "bare_deny"}
<1>1. BranchSays(o) \in {"allow", "deny", "bare_deny", "aborted", "failed"}
  BY Zenon DEF BranchSays
<1>2. BranchSays(o) = "aborted" => o = BR!Aborted
  BY Zenon DEF BranchSays
<1>3. ASSUME BR!Halts(o) PROVE BranchSays(o) \in {"deny", "bare_deny"}
  <2>1. o.kind = "Completed" /\ o.value \in {"Deny", "DenyBare"}
    BY Zenon, <1>3 DEF BR!Halts
  <2>2. o \in [kind : {"Completed"}, value : BranchData]
    BY <2>1 DEF BR!BranchOutcome, BR!TimedOut, BR!Aborted, BR!Panicked
  <2>3. o = BR!Completed("Deny") \/ o = BR!Completed("DenyBare")
    BY Zenon, <2>1, <2>2 DEF BR!Completed
  <2>4. BR!Completed("Deny") # BR!Completed("Allow") /\ BR!Completed("DenyBare") # BR!Completed("Allow")
        /\ BR!Completed("DenyBare") # BR!Completed("Deny")
    BY Zenon DEF BR!Completed
  <2>5. BR!Completed("Deny") # BR!Aborted /\ BR!Completed("DenyBare") # BR!Aborted
    <3>1. BR!Completed("Deny").kind # BR!Aborted.kind /\ BR!Completed("DenyBare").kind # BR!Aborted.kind
      BY Zenon DEF BR!Completed, BR!Aborted
    <3> QED
      BY Zenon, <3>1
  <2>6. CASE o = BR!Completed("Deny")
    BY Zenon, <2>4, <2>5, <2>6 DEF BranchSays
  <2>7. CASE o = BR!Completed("DenyBare")
    BY Zenon, <2>4, <2>5, <2>7 DEF BranchSays
  <2> QED
    BY Zenon, <2>3, <2>6, <2>7
<1> QED
  BY Zenon, <1>1, <1>2, <1>3

\* The background tasks are spawned and the result is an allow.
LEMMA SpawnKeeps ==
  ASSUME IInv, NEW r \in Request, SpawnFireAndForget(r)
  PROVE  IInv'
<1> DEFINE task(p) == [req |-> r, hook |-> hook[r], plugin |-> p, saw |-> payload[r], state |-> "running"]
           E == groups[r]["FireAndForget"]
<1>0. Types /\ RInv(r) /\ phase[r] = "FireAndForget" /\ phase[r] \in Mode /\ "FireAndForget" \in Mode
  BY Zenon, Ranks DEF IInv, SpawnFireAndForget
<1>1. /\ conf' = conf /\ disabled' = disabled /\ hook' = hook /\ payload' = payload /\ modified' = modified
      /\ table' = table /\ errors' = errors /\ violation' = violation /\ ran' = ran /\ saw' = saw
      /\ barred' = barred /\ background' = background \cup {task(p) : p \in E}
      /\ groups' = [groups EXCEPT ![r]["FireAndForget"] = {}] /\ phase' = [phase EXCEPT ![r] = "Returned"]
  BY Zenon DEF SpawnFireAndForget
<1>2. /\ groups' \in [Request -> [Mode -> SUBSET Plugin]] /\ groups'[r]["FireAndForget"] = {}
      /\ \A m \in Mode : m # "FireAndForget" => groups'[r][m] = groups[r][m]
      /\ \A s \in Request : s # r => groups'[s] = groups[s]
  <2> DEFINE G == [groups[r] EXCEPT !["FireAndForget"] = {}]
  <2>1. groups[r] \in [Mode -> SUBSET Plugin]
    BY Zenon, <1>0 DEF Types
  <2>2. G \in [Mode -> SUBSET Plugin] /\ G["FireAndForget"] = {}
        /\ \A m \in Mode : m # "FireAndForget" => G[m] = groups[r][m]
    BY Zenon, <1>0, <2>1
  <2>3. groups' = [groups EXCEPT ![r] = G]
    BY Zenon, <1>1
  <2> HIDE DEF G
  <2>4. /\ groups' \in [Request -> [Mode -> SUBSET Plugin]] /\ groups'[r] = G
        /\ \A s \in Request : s # r => groups'[s] = groups[s]
    BY Zenon, <1>0, <2>2, <2>3 DEF Types
  <2> QED
    BY Zenon, <2>2, <2>4
<1>3. \A m \in Mode : groups'[r][m] = {}
  <2> SUFFICES ASSUME NEW m \in Mode PROVE groups'[r][m] = {}
    BY Zenon
  <2>1. m = "FireAndForget" \/ Rank[m] < Rank["FireAndForget"]
    BY Ranks
  <2>2. Rank[m] < Rank["FireAndForget"] => groups[r][m] = {}
    BY Zenon, <1>0 DEF RInv, Placed
  <2> QED
    BY Zenon, <1>2, <2>1, <2>2
<1>4. /\ phase'[r] = "Returned" /\ phase' \in [Request -> Mode \cup {"Idle", "Returned", "Unwound"}]
      /\ \A s \in Request : s # r => phase'[s] = phase[s]
  BY Zenon, <1>0, <1>1 DEF Types
<1>5. \A p \in E : p \in Plugin /\ p \notin barred[r]
  BY <1>0 DEF Types, RInv, Grouped
<1>6. \A p \in E : task(p).req = r /\ task(p).hook = hook[r] /\ task(p).plugin = p /\ task(p).saw = payload[r]
  BY Zenon
<1>7. \A p \in E : task(p) \in [req : Request, hook : Nat, plugin : Plugin, saw : Seq(Plugin),
                                state : {"running", "ok", "failed", "panicked"}]
  BY Zenon, <1>0, <1>5 DEF Types
<1> HIDE DEF task, E
<1>8. Types'
  <2> DEFINE T == [req : Request, hook : Nat, plugin : Plugin, saw : Seq(Plugin),
                   state : {"running", "ok", "failed", "panicked"}]
  <2>1. background \subseteq T /\ \A p \in E : task(p) \in T
    BY Zenon, <1>0, <1>7 DEF Types
  <2>2. background' = background \cup {task(p) : p \in E}
    BY Zenon, <1>1
  <2> HIDE DEF T
  <2>3. background' \subseteq T
    BY Zenon, <2>1, <2>2
  <2>4. /\ conf' = conf /\ disabled' = disabled /\ hook' = hook /\ payload' = payload
        /\ modified' = modified /\ table' = table /\ errors' = errors /\ violation' = violation
        /\ ran' = ran /\ saw' = saw /\ barred' = barred
    BY Zenon, <1>1
  <2> QED
    BY Zenon, <1>0, <1>2, <1>4, <2>3, <2>4 DEF Types, T
<1>9. violation[r] = {} /\ \A p \in Plugin : ~Objects(r, p) /\ ran[r][p] # "aborted"
  BY Zenon, <1>0 DEF RInv, Unopposed
<1>10. \A p \in Plugin : ~Objects(r, p)'
  BY Zenon, <1>1, <1>9 DEF Objects
<1>11. Grouped(r)' /\ Placed(r)' /\ Unopposed(r)'
  BY Zenon, <1>3, <1>4, Ranks DEF Grouped, Placed, Unopposed
<1>12. Judged(r)'
  BY Zenon, <1>1, <1>3, <1>9, <1>10 DEF Judged
<1>13. Accounted(r)'
  BY Zenon, <1>0, <1>1, <1>9, <1>10 DEF RInv, Accounted
<1>14. Tasked(r)'
  <2>1. TasksOf(r) = {} /\ \A t \in background : t.req = r => t.hook <= hook[r]
    BY Zenon, <1>0 DEF RInv, Tasked
  <2>2. \A t \in background' : t \in background \/ \E p \in E : t = task(p)
    BY Zenon, <1>1
  <2>3. \A t \in TasksOf(r)' : \E p \in E : t = task(p)
    BY Zenon, <1>1, <2>1, <2>2 DEF TasksOf
  <2>4. \A t \in TasksOf(r)' : t.plugin \notin barred[r] /\ t.saw = payload[r]
    BY <1>5, <1>6, <2>3
  <2>5. hook[r] \in Nat
    BY Zenon, <1>0 DEF Types
  <2>6. \A t \in background' : t.req = r => t.hook <= hook[r]
    BY <1>6, <2>1, <2>2, <2>5
  <2> QED
    BY Zenon, <1>1, <1>4, <2>4, <2>6 DEF Tasked
<1>15. Tripped(r)'
  BY Zenon, <1>0, <1>1 DEF RInv, Tripped
<1>16. Chained(r)'
  <2>1. conf' = conf /\ payload' = payload /\ modified' = modified /\ ran' = ran /\ saw' = saw
    BY Zenon, <1>1
  <2>2. Chained(r)
    BY Zenon, <1>0 DEF RInv
  <2>3. \A p, q \in Plugin : Before(p, q)' <=> Before(p, q)
    BY Zenon, <2>1 DEF Before
  <2>4. \A i \in DOMAIN payload[r] : payload[r][i] \in Plugin
    BY <1>0 DEF Types
  <2> QED
    BY Zenon, <2>1, <2>2, <2>3, <2>4 DEF Chained
<1>17. Stamped(r)'
  BY Zenon, <1>0, <1>1, <1>4 DEF RInv, Stamped
<1>18. RInv(r)'
  BY Zenon, <1>11, <1>12, <1>13, <1>14, <1>15, <1>16, <1>17 DEF RInv
<1>19. Open'
  BY Zenon, <1>1 DEF IInv, Open
<1>20. \A t \in background' : t \in background \/ t.req = r
  BY <1>1, <1>6
<1> QED
  BY Zenon, <1>1, <1>2, <1>4, <1>8, <1>18, <1>19, <1>20, OneStep

\* A background task ends.
LEMMA BackgroundEndsKeeps ==
  ASSUME IInv, NEW t \in background, NEW state \in {"ok", "failed", "panicked"}, BackgroundEnds(t, state)
  PROVE  IInv'
<1> DEFINE u == [t EXCEPT !.state = state]
<1>0. Types /\ \A r \in Request : RInv(r)
  BY Zenon DEF IInv
<1>1. /\ conf' = conf /\ disabled' = disabled /\ hook' = hook /\ payload' = payload /\ modified' = modified
      /\ table' = table /\ errors' = errors /\ violation' = violation /\ ran' = ran /\ saw' = saw
      /\ barred' = barred /\ groups' = groups /\ phase' = phase
      /\ background' = (background \ {t}) \cup {u}
  BY Zenon DEF BackgroundEnds, reqVars
<1>2. t \in [req : Request, hook : Nat, plugin : Plugin, saw : Seq(Plugin),
             state : {"running", "ok", "failed", "panicked"}]
  BY Zenon, <1>0 DEF Types
<1>3. u \in [req : Request, hook : Nat, plugin : Plugin, saw : Seq(Plugin),
             state : {"running", "ok", "failed", "panicked"}]
      /\ u.req = t.req /\ u.hook = t.hook /\ u.plugin = t.plugin /\ u.saw = t.saw
  BY Zenon, <1>2
<1> HIDE DEF u
<1>4. Types'
  BY Zenon, <1>0, <1>1, <1>3 DEF Types
<1>5. ASSUME NEW r \in Request PROVE RInv(r)'
  <2>1. \A x \in background' : x.req = r =>
           \E y \in background : y.req = r /\ y.hook = x.hook /\ y.plugin = x.plugin /\ y.saw = x.saw
    BY Zenon, <1>1, <1>3
  <2> QED
    BY Zenon, <1>0, <1>1, <1>5, <2>1, Framed
<1> QED
  BY Zenon, <1>1, <1>4, <1>5 DEF IInv

\* The objector that is blamed is well defined: a set of plugins has a first entry.
Ordered ==
  \A S \in SUBSET Plugin : S # {} => \E p \in S : FirstOf(S) = {p} /\ \A q \in S : p <= q

\* The concurrent phase: the outcomes of a group that kept its promise, walked in
\* input order.
LEMMA ConcurrentKeeps ==
  ASSUME Ordered, IInv, NEW r \in Request, NEW outs \in [groups[r]["Concurrent"] -> BR!BranchOutcome], Concurrent(r, outs)
  PROVE  IInv'
<1> DEFINE E == groups[r]["Concurrent"]
           F == {p \in E : BranchSays(outs[p]) = "failed"}
           H == HaltingBranches(E, outs)
<1>0. Types /\ RInv(r) /\ phase[r] = "Concurrent" /\ phase[r] \in Mode /\ "Concurrent" \in Mode /\ Rank["Concurrent"] = 4
  BY Zenon, Ranks DEF IInv, Concurrent
<1>1. /\ conf' = conf /\ background' = background /\ hook' = hook
      /\ payload' = payload /\ modified' = modified /\ table' = table /\ barred' = barred
  BY Zenon DEF Concurrent
<1>2. /\ groups' = [groups EXCEPT ![r]["Concurrent"] = {}]
      /\ errors' = [errors EXCEPT ![r] = errors[r] \cup Recorded(F)]
      /\ disabled' = disabled \cup {p \in F : conf[p].on_error = "Disable"}
      /\ violation' = [violation EXCEPT ![r] = FirstOf(H)]
      /\ phase' = [phase EXCEPT ![r] = AfterBranches(H)]
      /\ ran' = [ran EXCEPT ![r] = [p \in Plugin |-> IF p \in E THEN BranchSays(outs[p]) ELSE ran[r][p]]]
      /\ saw' = [saw EXCEPT ![r] = [p \in Plugin |-> IF p \in E THEN payload[r] ELSE saw[r][p]]]
  BY Zenon DEF Concurrent
<1>3. \A p \in E : /\ p \in Plugin /\ conf[p].mode = "Concurrent" /\ ran[r][p] = "not_run" /\ p \notin barred[r]
  BY <1>0 DEF Types, RInv, Grouped
<1>4. \A p \in E : /\ BranchSays(outs[p]) \in {"allow", "deny", "bare_deny", "aborted", "failed"}
                   /\ BranchSays(outs[p]) = "aborted" => outs[p] = BR!Aborted
                   /\ BR!Halts(outs[p]) => BranchSays(outs[p]) \in {"deny", "bare_deny"}
  BY Zenon, Says
<1>5. \A p : p \in H <=> /\ p \in E
                         /\ \/ BranchSays(outs[p]) \in {"deny", "bare_deny"}
                            \/ BranchSays(outs[p]) = "failed" /\ conf[p].on_error = "Fail"
  BY Zenon DEF HaltingBranches
<1>6. H = {} => \A p \in E : BranchSays(outs[p]) # "aborted"
  <2> SUFFICES ASSUME NEW p \in E, BranchSays(outs[p]) = "aborted" PROVE H # {}
    BY Zenon
  <2>1. outs[p] = BR!Aborted /\ DOMAIN outs = E
    BY Zenon, <1>4
  <2>2. BR!Promise(outs, [timeout_per_branch |-> TRUE, short_circuit_on_deny |-> ShortCircuit])
    BY Zenon DEF Concurrent
  <2>3. \E q \in E : BR!Halts(outs[q])
    BY Zenon, <2>1, <2>2 DEF BR!Promise
  <2> QED
    BY Zenon, <1>4, <1>5, <2>3
<1>7. F \subseteq E /\ H \subseteq E /\ E \subseteq Plugin
  BY Zenon, <1>3, <1>5
<1>8. \A p : p \in F <=> p \in E /\ BranchSays(outs[p]) = "failed"
  BY Zenon
<1> HIDE DEF E, F, H
<1>9. /\ ran' \in [Request -> [Plugin -> RanOutcome]]
      /\ \A p \in E : ran'[r][p] = BranchSays(outs[p])
      /\ \A p \in Plugin : p \notin E => ran'[r][p] = ran[r][p]
      /\ \A s \in Request : s # r => ran'[s] = ran[s]
  <2> DEFINE R == [p \in Plugin |-> IF p \in E THEN BranchSays(outs[p]) ELSE ran[r][p]]
  <2>1. \A p \in Plugin : (IF p \in E THEN BranchSays(outs[p]) ELSE ran[r][p]) \in RanOutcome
    BY <1>0, <1>4 DEF Types, RanOutcome
  <2>2. R \in [Plugin -> RanOutcome] /\ (\A p \in E : R[p] = BranchSays(outs[p]))
        /\ \A p \in Plugin : p \notin E => R[p] = ran[r][p]
    BY Zenon, <1>7, <2>1
  <2>3. ran' = [ran EXCEPT ![r] = R]
    BY Zenon, <1>2
  <2> HIDE DEF R
  <2>4. ran' \in [Request -> [Plugin -> RanOutcome]] /\ ran'[r] = R /\ \A s \in Request : s # r => ran'[s] = ran[s]
    BY Zenon, <1>0, <2>2, <2>3 DEF Types
  <2> QED
    BY Zenon, <2>2, <2>4
<1>10. /\ saw' \in [Request -> [Plugin -> Seq(Plugin)]]
       /\ \A p \in E : saw'[r][p] = payload[r]
       /\ \A p \in Plugin : p \notin E => saw'[r][p] = saw[r][p]
       /\ \A s \in Request : s # r => saw'[s] = saw[s]
  <2> DEFINE R == [p \in Plugin |-> IF p \in E THEN payload[r] ELSE saw[r][p]]
  <2>1. \A p \in Plugin : (IF p \in E THEN payload[r] ELSE saw[r][p]) \in Seq(Plugin)
    BY <1>0 DEF Types
  <2>2. R \in [Plugin -> Seq(Plugin)] /\ (\A p \in E : R[p] = payload[r])
        /\ \A p \in Plugin : p \notin E => R[p] = saw[r][p]
    BY Zenon, <1>7, <2>1
  <2>3. saw' = [saw EXCEPT ![r] = R]
    BY Zenon, <1>2
  <2> HIDE DEF R
  <2>4. saw' \in [Request -> [Plugin -> Seq(Plugin)]] /\ saw'[r] = R /\ \A s \in Request : s # r => saw'[s] = saw[s]
    BY Zenon, <1>0, <2>2, <2>3 DEF Types
  <2> QED
    BY Zenon, <2>2, <2>4
<1>11. /\ groups' \in [Request -> [Mode -> SUBSET Plugin]] /\ groups'[r]["Concurrent"] = {}
       /\ \A m \in Mode : m # "Concurrent" => groups'[r][m] = groups[r][m]
       /\ \A s \in Request : s # r => groups'[s] = groups[s]
  <2> DEFINE G == [groups[r] EXCEPT !["Concurrent"] = {}]
  <2>1. groups[r] \in [Mode -> SUBSET Plugin]
    BY Zenon, <1>0 DEF Types
  <2>2. G \in [Mode -> SUBSET Plugin] /\ G["Concurrent"] = {} /\ \A m \in Mode : m # "Concurrent" => G[m] = groups[r][m]
    BY Zenon, <1>0, <2>1
  <2>3. groups' = [groups EXCEPT ![r] = G]
    BY Zenon, <1>2
  <2> HIDE DEF G
  <2>4. /\ groups' \in [Request -> [Mode -> SUBSET Plugin]] /\ groups'[r] = G
        /\ \A s \in Request : s # r => groups'[s] = groups[s]
    BY Zenon, <1>0, <2>2, <2>3 DEF Types
  <2> QED
    BY Zenon, <2>2, <2>4
<1>12. /\ errors' \in [Request -> SUBSET Plugin] /\ errors'[r] = errors[r] \cup Recorded(F)
       /\ \A s \in Request : s # r => errors'[s] = errors[s]
  <2>1. Recorded(F) \subseteq Plugin
    BY Zenon, <1>7 DEF Recorded
  <2> QED
    BY Zenon, <1>0, <1>2, <2>1 DEF Types
<1>13. /\ violation' \in [Request -> SUBSET Plugin] /\ violation'[r] = FirstOf(H)
       /\ \A s \in Request : s # r => violation'[s] = violation[s]
  <2>1. FirstOf(H) \subseteq Plugin
    BY Zenon, <1>7 DEF FirstOf
  <2> QED
    BY Zenon, <1>0, <1>2, <2>1 DEF Types
<1>14. /\ phase' \in [Request -> Mode \cup {"Idle", "Returned", "Unwound"}] /\ phase'[r] = AfterBranches(H)
       /\ \A s \in Request : s # r => phase'[s] = phase[s]
  <2>1. AfterBranches(H) \in Mode \cup {"Idle", "Returned", "Unwound"}
    BY Zenon, <1>0 DEF AfterBranches
  <2> QED
    BY Zenon, <1>0, <1>2, <2>1 DEF Types
<1>15. Types'
  <2>1. disabled' \subseteq Plugin
    BY Zenon, <1>0, <1>2, <1>7 DEF Types
  <2> QED
    BY Zenon, <1>0, <1>1, <1>9, <1>10, <1>11, <1>12, <1>13, <1>14, <2>1 DEF Types
<1>16. \A q \in Plugin : ~Objects(r, q) /\ ran[r][q] # "aborted"
  BY Zenon, <1>0 DEF RInv, Unopposed
<1>17. \A q \in Plugin : Objects(r, q)' <=> q \in H
  <2> SUFFICES ASSUME NEW q \in Plugin PROVE Objects(r, q)' <=> q \in H
    BY Zenon
  <2>1. CASE q \in E
    <3>1. conf'[q].mode = "Concurrent" /\ conf' = conf /\ ran'[r][q] = BranchSays(outs[q])
      BY Zenon, <1>1, <1>3, <1>9, <2>1
    <3>2. Objects(r, q)' <=> \/ ran'[r][q] = "deny" \/ ran'[r][q] = "bare_deny"
                             \/ ran'[r][q] = "failed" /\ conf[q].on_error = "Fail"
      BY Zenon, <3>1 DEF Objects, Blocking
    <3> QED
      BY Zenon, <1>5, <2>1, <3>1, <3>2
  <2>2. CASE q \notin E
    <3>1. Objects(r, q)' <=> Objects(r, q)
      BY Zenon, <1>1, <1>9, <2>2 DEF Objects
    <3> QED
      BY Zenon, <1>7, <1>16, <2>2, <3>1
  <2> QED
    BY Zenon, <2>1, <2>2
<1>18. \A q \in Plugin : Rank["Concurrent"] < Rank[conf[q].mode] => ran'[r][q] = "not_run"
  <2> SUFFICES ASSUME NEW q \in Plugin, Rank["Concurrent"] < Rank[conf[q].mode] PROVE ran'[r][q] = "not_run"
    BY Zenon
  <2>1. q \notin E
    <3>1. ~(Rank["Concurrent"] < Rank["Concurrent"])
      BY RankOfConcurrent
    <3> QED
      BY Zenon, <1>3, <3>1
  <2>2. ran[r][q] = "not_run"
    BY Zenon, <1>0 DEF RInv, Placed
  <2> QED
    BY Zenon, <1>9, <2>1, <2>2
<1>19. Grouped(r)'
  <2> SUFFICES ASSUME NEW m \in Mode, NEW q \in groups'[r][m]
               PROVE  /\ conf[q].mode = m
                      /\ ran'[r][q] = "not_run"
                      /\ q \notin barred[r]
                      /\ \A q2 \in Plugin : conf[q2].mode = m /\ ran'[r][q2] # "not_run" => q2 < q
    BY Zenon, <1>1 DEF Grouped
  <2>1. m # "Concurrent" /\ q \in groups[r][m]
    BY Zenon, <1>11
  <2>2. /\ q \in Plugin /\ conf[q].mode = m /\ ran[r][q] = "not_run" /\ q \notin barred[r]
        /\ \A q2 \in Plugin : conf[q2].mode = m /\ ran[r][q2] # "not_run" => q2 < q
    <3>1. groups[r] \in [Mode -> SUBSET Plugin]
      BY Zenon, <1>0 DEF Types
    <3> QED
      BY Zenon, <1>0, <2>1, <3>1 DEF RInv, Grouped
  <2>3. \A q2 \in Plugin : conf[q2].mode = m => ran'[r][q2] = ran[r][q2]
    BY Zenon, <1>3, <1>9, <2>1
  <2> QED
    BY Zenon, <2>2, <2>3
<1>20. Placed(r)'
  <2>1. phase'[r] \in Mode => phase'[r] = "Concurrent"
    BY Zenon, <1>14, Ranks DEF AfterBranches
  <2>2. \A m \in Mode : Rank[m] < Rank["Concurrent"] => groups'[r][m] = {}
    <3> SUFFICES ASSUME NEW m \in Mode, Rank[m] < Rank["Concurrent"] PROVE groups'[r][m] = {}
      BY Zenon
    <3>1. m # "Concurrent"
      BY <1>0
    <3>2. groups[r][m] = {}
      BY Zenon, <1>0 DEF RInv, Placed
    <3> QED
      BY Zenon, <1>11, <3>1, <3>2
  <2> QED
    BY Zenon, <1>1, <1>18, <2>1, <2>2 DEF Placed
<1>21. H = {} => FirstOf(H) = {}
  BY Zenon DEF FirstOf
<1>22. Unopposed(r)'
  <2> SUFFICES ASSUME phase'[r] # "Returned"
               PROVE  violation'[r] = {} /\ \A p \in Plugin : ~Objects(r, p)' /\ ran'[r][p] # "aborted"
    BY Zenon DEF Unopposed
  <2>1. H = {}
    BY Zenon, <1>14 DEF AfterBranches
  <2>2. \A p \in Plugin : ran'[r][p] # "aborted"
    BY Zenon, <1>6, <1>9, <1>16, <2>1
  <2> QED
    BY Zenon, <1>13, <1>17, <1>21, <2>1, <2>2
<1>23. TasksOf(r) = {} /\ TasksOf(r)' = {}
  BY Zenon, <1>0, <1>1 DEF RInv, Tasked, TasksOf
<1>24. H # {} => \E p \in H : FirstOf(H) = {p} /\ \A q \in H : p <= q
  <2>1. H \in SUBSET Plugin
    BY Zenon, <1>7
  <2> QED
    BY Zenon, <2>1 DEF Ordered
<1>25. Judged(r)'
  <2>1. \A p \in Plugin : Objects(r, p)' =>
          /\ \A q \in Plugin : Rank[conf'[p].mode] < Rank[conf'[q].mode] => ran'[r][q] = "not_run"
          /\ TasksOf(r)' = {}
    BY Zenon, <1>1, <1>3, <1>7, <1>17, <1>18, <1>23
  <2>2. CASE H = {}
    <3>1. phase'[r] = "Concurrent" /\ ~Returned(r)'
      BY Zenon, <1>14, <2>2 DEF AfterBranches, Returned
    <3> QED
      BY Zenon, <2>1, <3>1 DEF Judged
  <2>3. CASE H # {}
    <3>1. PICK p \in H : FirstOf(H) = {p} /\ \A q \in H : p <= q
      BY Zenon, <1>24, <2>3
    <3>2. p \in Plugin /\ violation'[r] = {p} /\ Objects(r, p)'
      BY Zenon, <1>7, <1>13, <1>17, <3>1
    <3>3. \A q \in Plugin : Objects(r, q)' => ~Before(q, p)'
      <4> SUFFICES ASSUME NEW q \in Plugin, Objects(r, q)' PROVE ~Before(q, p)'
        BY Zenon
      <4>1. q \in H /\ p <= q /\ p \in Nat /\ q \in Nat
        BY Zenon, <1>17, <3>1, <3>2, ExecutorAssumption
      <4>2. conf[q].mode = "Concurrent" /\ conf[p].mode = "Concurrent"
        BY Zenon, <1>3, <1>7, <3>1, <4>1
      <4>3. conf' = conf /\ p \in Plugin
        BY Zenon, <1>1, <3>2
      <4> QED
        BY Zenon, <4>1, <4>2, <4>3, NotBefore
    <3> QED
      BY Zenon, <2>1, <3>2, <3>3 DEF Judged
  <2> QED
    BY Zenon, <2>2, <2>3
<1>26. Accounted(r)'
  <2>1. errors[r] = {q \in Plugin : ran[r][q] = "failed" /\ ~Objects(r, q)}
    BY Zenon, <1>0 DEF RInv, Accounted
  <2>2. \A q \in Plugin : q \in errors'[r] <=> ran'[r][q] = "failed" /\ ~Objects(r, q)'
    <3> SUFFICES ASSUME NEW q \in Plugin PROVE q \in errors'[r] <=> ran'[r][q] = "failed" /\ ~Objects(r, q)'
      BY Zenon
    <3>1. CASE q \in E
      <4>1. q \notin errors[r]
        BY Zenon, <1>3, <2>1, <3>1
      <4>2. q \in errors'[r] <=> q \in F /\ conf[q].on_error # "Fail"
        BY Zenon, <1>12, <4>1 DEF Recorded
      <4>3. ran'[r][q] = "failed" <=> q \in F
        BY Zenon, <1>8, <1>9, <3>1
      <4>4. q \in F => (q \in H <=> conf[q].on_error = "Fail")
        BY Zenon, <1>5, <1>8
      <4> QED
        BY Zenon, <1>17, <4>2, <4>3, <4>4
    <3>2. CASE q \notin E
      <4>1. q \in errors'[r] <=> q \in errors[r]
        BY Zenon, <1>7, <1>12, <3>2 DEF Recorded
      <4>2. ran'[r][q] = ran[r][q] /\ q \notin H
        BY Zenon, <1>7, <1>9, <3>2
      <4> QED
        BY Zenon, <1>16, <1>17, <2>1, <4>1, <4>2
    <3> QED
      BY Zenon, <3>1, <3>2
  <2>3. errors'[r] \subseteq Plugin
    BY Zenon, <1>15 DEF Types
  <2> QED
    BY Zenon, <2>2, <2>3 DEF Accounted
<1>27. Tasked(r)'
  BY Zenon, <1>0, <1>1, <1>23 DEF RInv, Tasked
<1>28. Tripped(r)'
  <2>1. \A q \in Plugin : ran'[r][q] = "failed" /\ conf[q].on_error = "Disable" => q \in disabled'
    <3> SUFFICES ASSUME NEW q \in Plugin, ran'[r][q] = "failed", conf[q].on_error = "Disable" PROVE q \in disabled'
      BY Zenon
    <3>1. CASE q \in E
      BY Zenon, <1>2, <1>8, <1>9, <3>1
    <3>2. CASE q \notin E
      <4>1. q \in disabled
        BY Zenon, <1>0, <1>9, <3>2 DEF RInv, Tripped
      <4> QED
        BY Zenon, <1>2, <4>1
    <3> QED
      BY Zenon, <3>1, <3>2
  <2>2. \A q \in barred[r] : q \in Plugin /\ q \notin E
    BY Zenon, <1>0, <1>3 DEF Types
  <2> QED
    BY Zenon, <1>0, <1>1, <1>9, <2>1, <2>2 DEF RInv, Tripped
<1>29. Chained(r)'
  <2>0. PICK s \in {payload[r]} : TRUE
    BY Zenon
  <2>a. s = payload[r]
    BY Zenon, <2>0
  <2>1. /\ modified[r] <=> s # <<>>
        /\ \A i \in DOMAIN s : ran[r][s[i]] # "not_run" /\ conf[s[i]].mode \in Serial
        /\ \A i, j \in DOMAIN s : i < j => Before(s[i], s[j])
        /\ \A i \in DOMAIN s : saw[r][s[i]] = SubSeq(s, 1, i - 1)
        /\ \A q \in Plugin : conf[q].mode \in {"Audit", "Concurrent"} /\ ran[r][q] # "not_run" => saw[r][q] = s
    BY Zenon, <1>0, <2>a DEF RInv, Chained
  <2>2. \A i \in DOMAIN s : s[i] \in Plugin
    BY <1>0, <2>a DEF Types
  <2>3. \A i \in DOMAIN s : s[i] \notin E
    BY Zenon, <1>3, <2>1
  <2>4. \A i \in DOMAIN s : ran'[r][s[i]] = ran[r][s[i]] /\ saw'[r][s[i]] = saw[r][s[i]]
    BY Zenon, <1>9, <1>10, <2>2, <2>3
  <2>5. \A q \in Plugin : conf[q].mode \in {"Audit", "Concurrent"} /\ ran'[r][q] # "not_run" => saw'[r][q] = s
    BY Zenon, <1>9, <1>10, <2>a, <2>1
  <2>6. payload'[r] = s /\ modified'[r] = modified[r] /\ conf' = conf
    BY Zenon, <1>1, <2>a
  <2>7. \A p, q \in Plugin : Before(p, q)' <=> Before(p, q)
    BY Zenon, <2>6 DEF Before
  <2>8. ASSUME NEW i \in DOMAIN s, NEW j \in DOMAIN s, i < j PROVE Before(s[i], s[j])'
    <3>1. s[i] \in Plugin /\ s[j] \in Plugin
      BY Zenon, <2>2
    <3>2. Before(s[i], s[j])
      BY Zenon, <2>1, <2>8
    <3> QED
      BY Zenon, <2>7, <3>1, <3>2
  <2>9. ASSUME NEW i \in DOMAIN s
        PROVE  ran'[r][s[i]] # "not_run" /\ conf'[s[i]].mode \in Serial /\ saw'[r][s[i]] = SubSeq(s, 1, i - 1)
    <3>1. ran[r][s[i]] # "not_run" /\ conf[s[i]].mode \in Serial /\ saw[r][s[i]] = SubSeq(s, 1, i - 1)
      BY Zenon, <2>1
    <3> QED
      BY Zenon, <2>4, <2>6, <3>1
  <2>10. \A q \in Plugin : conf'[q].mode \in {"Audit", "Concurrent"} /\ ran'[r][q] # "not_run" => saw'[r][q] = s
    BY Zenon, <2>5, <2>6
  <2>11. modified'[r] <=> s # <<>>
    BY Zenon, <2>1, <2>6
  <2>12. payload'[r] = s
    BY Zenon, <2>6
  <2> QED
    BY Zenon, <2>8, <2>9, <2>10, <2>11, <2>12 DEF Chained
<1>30. Stamped(r)'
  <2>1. violation[r] = {}
    BY Zenon, <1>0 DEF RInv, Unopposed
  <2>2. \A q \in Plugin : conf[q].mode \in Serial => ran'[r][q] = ran[r][q] /\ q \notin violation'[r]
    <3> SUFFICES ASSUME NEW q \in Plugin, conf[q].mode \in Serial
                 PROVE  ran'[r][q] = ran[r][q] /\ q \notin violation'[r]
      BY Zenon
    <3>1. q \notin E
      BY Zenon, <1>3 DEF Serial
    <3> QED
      BY Zenon, <1>7, <1>9, <1>13, <3>1 DEF FirstOf
  <2>3. {q \in Plugin : conf[q].mode \in Serial /\ ran[r][q] # "not_run" /\ q \notin violation[r]}
          = {q \in Plugin : conf[q].mode \in Serial /\ ran'[r][q] # "not_run" /\ q \notin violation'[r]}
    BY Zenon, <2>1, <2>2
  <2> QED
    BY Zenon, <1>0, <1>1, <2>3 DEF RInv, Stamped
<1>31. RInv(r)'
  BY Zenon, <1>19, <1>20, <1>22, <1>25, <1>26, <1>27, <1>28, <1>29, <1>30 DEF RInv
<1>32. Open'
  BY Zenon, <1>1, <1>2 DEF IInv, Open
<1> QED
  BY Zenon, <1>1, <1>2, <1>9, <1>10, <1>11, <1>12, <1>13, <1>14, <1>15, <1>31, <1>32, OneStep

\* Every step of the executor keeps the invariant.
LEMMA NextKeeps == Ordered /\ IInv /\ [Next]_vars => IInv'
<1> SUFFICES ASSUME Ordered, IInv, [Next]_vars PROVE IInv'
  BY Zenon
<1>1. ASSUME NEW r \in Request, NEW entries \in EntrySets, Invoke(r, entries) PROVE IInv'
  BY Zenon, <1>1, InvokeKeeps
<1>2. ASSUME NEW r \in Request, StepOf(r) PROVE IInv'
  <2>1. CASE EndPhase(r)
    BY Zenon, <2>1, EndPhaseKeeps
  <2>2. ASSUME NEW p \in Plugin, NEW res \in Results, SerialContinues(r, p, res) PROVE IInv'
    BY Zenon, <2>2, SerialContinuesKeeps
  <2>3. ASSUME NEW p \in Plugin, NEW res \in Results, SerialHalts(r, p, res) PROVE IInv'
    BY Zenon, <2>3, SerialHaltsKeeps
  <2>4. ASSUME NEW p \in Plugin, NEW res \in Results, Audit(r, p, res) PROVE IInv'
    BY Zenon, <2>4, AuditKeeps
  <2>5. ASSUME NEW p \in Plugin, SerialPanics(r, p) PROVE IInv'
    BY Zenon, <2>5, SerialPanicsKeeps
  <2>6. ASSUME NEW outs \in [groups[r]["Concurrent"] -> BR!BranchOutcome], Concurrent(r, outs) PROVE IInv'
    BY Zenon, <2>6, ConcurrentKeeps
  <2>7. CASE SpawnFireAndForget(r)
    BY Zenon, <2>7, SpawnKeeps
  <2> QED
    BY Zenon, <1>2, <2>1, <2>2, <2>3, <2>4, <2>5, <2>6, <2>7 DEF StepOf
<1>3. ASSUME NEW t \in background, NEW state \in {"ok", "failed", "panicked"}, BackgroundEnds(t, state) PROVE IInv'
  BY Zenon, <1>3, BackgroundEndsKeeps
<1>4. CASE UNCHANGED vars
  <2>1. /\ conf' = conf /\ disabled' = disabled /\ hook' = hook /\ payload' = payload /\ modified' = modified
        /\ table' = table /\ errors' = errors /\ violation' = violation /\ ran' = ran /\ saw' = saw
        /\ barred' = barred /\ groups' = groups /\ phase' = phase /\ background' = background
    BY Zenon, <1>4 DEF vars, reqVars
  <2>2. ASSUME NEW r \in Request PROVE RInv(r)'
    BY Zenon, <2>1, <2>2, Framed DEF IInv
  <2>3. Types'
    BY Zenon, <2>1 DEF IInv, Types
  <2> QED
    BY Zenon, <2>1, <2>2, <2>3 DEF IInv
<1> QED
  BY Zenon, <1>1, <1>2, <1>3, <1>4 DEF Next

INSTANCE WellFoundedInduction

\* A set of numbers that is not empty has a least element.
LEMMA Least ==
  ASSUME NEW S \in SUBSET Nat, S # {}
  PROVE  \E x \in S : \A y \in S : x <= y
<1> DEFINE R == {ss \in Nat \X Nat : ss[1] < ss[2]}
<1>1. IsWellFoundedOn(R, Nat)
  BY Zenon, NatLessThanWellFounded DEF OpToRel
<1>2. \E x \in S : \A y \in S : ~(<<y, x>> \in R)
  <2>1. S \subseteq Nat
    BY Zenon
  <2> HIDE DEF R
  <2> QED
    BY Zenon, <1>1, <2>1, WFMin
<1>3. PICK x \in S : \A y \in S : ~(<<y, x>> \in R)
  BY Zenon, <1>2
<1>4. \A y \in S : ~(y < x)
  BY Zenon, <1>3
<1> QED
  BY <1>4

\* Entries are numbered, so that a set of plugins has a first one.
LEMMA InOrder == Ordered
<1> SUFFICES ASSUME NEW S \in SUBSET Plugin, S # {} PROVE \E p \in S : FirstOf(S) = {p} /\ \A q \in S : p <= q
  BY Zenon DEF Ordered
<1>1. S \in SUBSET Nat
  BY Zenon, ExecutorAssumption
<1>2. PICK p \in S : \A q \in S : p <= q
  BY Zenon, <1>1, Least
<1>3. ASSUME NEW q \in FirstOf(S) PROVE q = p
  <2>1. q \in S /\ q <= p /\ p <= q /\ q \in Nat /\ p \in Nat
    BY Zenon, <1>1, <1>2 DEF FirstOf
  <2> QED
    BY <2>1
<1>4. p \in FirstOf(S)
  BY Zenon, <1>2 DEF FirstOf
<1>5. FirstOf(S) = {p}
  BY Zenon, <1>3, <1>4
<1> QED
  BY Zenon, <1>2, <1>5

\* The inductive invariant of the executor.
LEMMA Invariant == Spec => []IInv
<1>1. IInv /\ [Next]_vars => IInv'
  BY Zenon, NextKeeps, InOrder
<1> QED
  BY <1>1, Initially, PTL DEF Spec

\* Whatever plugins answer, fail or panic (executor.rs 282-445), an allowed result
\* hides no objection and skips no entry, a denied one blames the first objector, and
\* nothing of a later phase runs after an objection.
THEOREM Verdicts == Spec => []VerdictJustified
<1>1. IInv => VerdictJustified
  <2> SUFFICES ASSUME IInv PROVE VerdictJustified
    BY Zenon
  <2>1. \A r \in Request : Judged(r)
    BY Zenon DEF IInv, RInv
  <2> QED
    BY Zenon, <2>1 DEF VerdictJustified, AllowedIsSound, DeniedIsJustified, NothingAfterDenial, Judged, None, Some
<1> QED
  BY <1>1, Invariant, PTL

\* PipelineResult.errors (executor.rs 360-445) names exactly the awaited plugins that
\* failed without a right to halt.
THEOREM Failures == Spec => []FailuresAccounted
<1>1. IInv => FailuresAccounted
  BY Zenon DEF IInv, RInv, Accounted, FailuresAccounted
<1> QED
  BY <1>1, Invariant, PTL

\* Modifications are chained in pipeline order, each plugin is given what its
\* predecessors left, and audit plugins, branches and tasks the final payload.
THEOREM Payloads == Spec => []PayloadHandedOn
<1>1. IInv => PayloadHandedOn
  <2> SUFFICES ASSUME IInv PROVE PayloadHandedOn
    BY Zenon
  <2>1. \A r \in Request : Chained(r) /\ Tasked(r)
    BY Zenon DEF IInv, RInv
  <2>2. ModificationsChained
    BY Zenon, <2>1 DEF ModificationsChained, Chained
  <2>3. ReadersSawFinalPayload
    BY Zenon, <2>1 DEF ReadersSawFinalPayload, Chained, Tasked
  <2> QED
    BY Zenon, <2>2, <2>3 DEF PayloadHandedOn
<1> QED
  BY <1>1, Invariant, PTL

\* A breaker that has tripped keeps its plugin out of every later invocation of any
\* request, and the context table holds the writes of exactly the serial plugins that
\* let the invocation go on.
THEOREM Carried == Spec => []CarriedOver
<1>1. IInv => CarriedOver
  <2> SUFFICES ASSUME IInv PROVE CarriedOver
    BY Zenon
  <2>1. \A r \in Request : Tripped(r) /\ Tasked(r) /\ Stamped(r)
    BY Zenon DEF IInv, RInv
  <2>2. BreakersHold
    BY Zenon, <2>1 DEF IInv, BreakersHold, Tripped, Tasked
  <2>3. ContextWritesCommitted
    BY Zenon, <2>1 DEF ContextWritesCommitted, Stamped, Writers, Returned
  <2> QED
    BY Zenon, <2>2, <2>3 DEF CarriedOver
<1> QED
  BY <1>1, Invariant, PTL
=============================================================================
