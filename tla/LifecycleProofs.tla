-------------------------- MODULE LifecycleProofs --------------------------
(***************************************************************************)
(* Proofs about initialize() and shutdown(), for every set of callers and  *)
(* plugins and every number of calls and tasks.  What RollbackComplete     *)
(* says of a manager at rest is, while calls run, a balance: each plugin   *)
(* has been initialised once more than it has been shut down for every     *)
(* initialize() that has it on its list.                                   *)
(***************************************************************************)
EXTENDS Lifecycle, FiniteSetTheorems, TLAPS

Elements(s) == {s[k] : k \in DOMAIN s}

Types ==
  /\ registered \in Seq(Plugin)
  /\ initialized \in BOOLEAN
  /\ pc \in [Caller -> {"idle", "failed", "init", "rollback", "drain", "teardown"}]
  /\ todo \in [Caller -> SUBSET Plugin]
  /\ done \in [Caller -> Seq(Plugin)]
  /\ known \in [Caller -> SUBSET Plugin]
  /\ ups \in [Plugin -> Nat]
  /\ downs \in [Plugin -> Nat]
  /\ early \in Nat
  /\ tasks \in Nat
  /\ closed \in BOOLEAN
  /\ woken \subseteq Caller

\* A shutdown has closed the tracker, and only a tracker that is closed and
\* empty of early tasks lets it pass.
Draining ==
  /\ \A c \in Caller : pc[c] \in {"drain", "teardown"} => closed
  /\ woken # {} => closed /\ early = 0
  /\ \A c \in Caller : pc[c] = "teardown" => early = 0

\* A shutdown has visited, or will visit, what was registered when it began.
Reaching ==
  \A c \in Caller :
    /\ pc[c] = "drain" => known[c] \subseteq Elements(registered)
    /\ pc[c] = "teardown" => known[c] \subseteq todo[c] \cup Elements(done[c])

Starting(c) == pc[c] \in {"init", "rollback"}

\* An initialize() visits a plugin once.
Once ==
  \A c \in Caller : Starting(c) =>
    /\ \A j, k \in DOMAIN done[c] : done[c][j] = done[c][k] => j = k
    /\ todo[c] \cap Elements(done[c]) = {}

\* The calls that have initialised p and have neither succeeded nor rolled it back.
Holding(p) == {c \in Caller : Starting(c) /\ p \in Elements(done[c])}

Balanced ==
  \A p \in Plugin :
    /\ IsFiniteSet(Holding(p))
    /\ ~initialized /\ ~closed => ups[p] = downs[p] + Cardinality(Holding(p))

IInv == Types /\ Draining /\ Reaching /\ Once /\ Balanced
-----------------------------------------------------------------------------
\* Appending to a list of visited plugins adds one plugin (manager.rs 869).
LEMMA AppendAdds ==
  ASSUME NEW S, NEW s \in Seq(S), NEW e \in S
  PROVE  /\ Append(s, e) \in Seq(S)
         /\ Elements(Append(s, e)) = Elements(s) \cup {e}
<1>1. Append(s, e) \in Seq(S) /\ DOMAIN Append(s, e) = 1..(Len(s) + 1) /\ DOMAIN s = 1..Len(s) /\ Len(s) \in Nat
  OBVIOUS
<1>2. \A k \in 1..Len(s) : Append(s, e)[k] = s[k]
  OBVIOUS
<1>3. Append(s, e)[Len(s) + 1] = e
  OBVIOUS
<1>4. ASSUME NEW x PROVE x \in Elements(Append(s, e)) <=> x \in Elements(s) \cup {e}
  <2>1. ASSUME x \in Elements(Append(s, e)) PROVE x \in Elements(s) \cup {e}
    <3>1. PICK k \in 1..(Len(s) + 1) : x = Append(s, e)[k]
      BY Zenon, <1>1, <2>1 DEF Elements
    <3>2. k = Len(s) + 1 \/ k \in 1..Len(s)
      BY <1>1
    <3> QED BY Zenon, <1>1, <1>2, <1>3, <3>1, <3>2 DEF Elements
  <2>2. ASSUME x \in Elements(s) \cup {e} PROVE x \in Elements(Append(s, e))
    <3>1. CASE x = e
      <4>1. Len(s) + 1 \in DOMAIN Append(s, e)
        BY <1>1
      <4> QED BY Zenon, <1>3, <3>1, <4>1 DEF Elements
    <3>2. CASE x \in Elements(s)
      <4>1. PICK k \in 1..Len(s) : x = s[k]
        BY Zenon, <1>1, <3>2 DEF Elements
      <4>2. k \in DOMAIN Append(s, e)
        BY <1>1
      <4> QED BY Zenon, <1>2, <4>1, <4>2 DEF Elements
    <3> QED BY Zenon, <2>2, <3>1, <3>2
  <2> QED BY Zenon, <2>1, <2>2
<1> QED BY Zenon, <1>1, <1>4

\* Popping a list without duplicates takes its last plugin off (manager.rs 848-857).
LEMMA PopRemoves ==
  ASSUME NEW S, NEW s \in Seq(S), s # <<>>,
         \A j, k \in DOMAIN s : s[j] = s[k] => j = k
  PROVE  LET t == SubSeq(s, 1, Len(s) - 1)
         IN /\ s[Len(s)] \in S
            /\ s[Len(s)] \in Elements(s)
            /\ t \in Seq(S)
            /\ \A j, k \in DOMAIN t : t[j] = t[k] => j = k
            /\ Elements(t) = Elements(s) \ {s[Len(s)]}
<1> DEFINE n == Len(s)
           t == SubSeq(s, 1, n - 1)
<1>1. n \in Nat /\ n # 0 /\ DOMAIN s = 1..n
  OBVIOUS
<1>2. n \in DOMAIN s /\ s[n] \in S /\ s[n] \in Elements(s)
  BY <1>1 DEF Elements
<1>3. t \in Seq(S) /\ Len(t) = n - 1 /\ \A k \in 1..(n - 1) : t[k] = s[k]
  BY <1>1
<1>4. DOMAIN t = 1..(n - 1)
  BY <1>3
<1> HIDE DEF t, n
<1>5. \A k \in 1..(n - 1) : k \in 1..n /\ k # n
  BY <1>1
<1>6. \A j, k \in DOMAIN t : t[j] = t[k] => j = k
  BY Zenon, <1>1, <1>3, <1>4, <1>5
<1>7. ASSUME NEW x PROVE x \in Elements(t) <=> x \in Elements(s) \ {s[n]}
  <2>1. ASSUME x \in Elements(t) PROVE x \in Elements(s) \ {s[n]}
    <3>1. PICK k \in 1..(n - 1) : x = t[k]
      BY Zenon, <1>4, <2>1 DEF Elements
    <3> QED BY Zenon, <1>1, <1>2, <1>3, <1>5, <3>1 DEF Elements
  <2>2. ASSUME x \in Elements(s) \ {s[n]} PROVE x \in Elements(t)
    <3>1. PICK k \in 1..n : x = s[k]
      BY Zenon, <1>1, <2>2 DEF Elements
    <3>2. k \in 1..(n - 1)
      BY <1>1, <2>2, <3>1
    <3> QED BY Zenon, <1>3, <1>4, <3>1, <3>2 DEF Elements
  <2> QED BY Zenon, <2>1, <2>2
<1>8. Elements(t) = Elements(s) \ {s[n]}
  BY Zenon, <1>7
<1> QED BY Zenon, <1>2, <1>3, <1>6, <1>8 DEF t, n

\* The empty list has no elements.
LEMMA NoElements == Elements(<<>>) = {} /\ \A S : <<>> \in Seq(S)
  BY DEF Elements
-----------------------------------------------------------------------------
\* A new manager has no calls, no plugins and no tasks.
LEMMA InitIInv == Init => IInv
<1> SUFFICES ASSUME Init PROVE IInv
  BY Zenon
<1>1. Types
  BY Zenon, NoElements DEF Init, Types
<1>2. Draining /\ Reaching /\ Once
  BY Zenon DEF Init, Draining, Reaching, Once, Starting
<1>3. Balanced
  <2>1. ASSUME NEW p \in Plugin PROVE Holding(p) = {}
    BY Zenon DEF Init, Holding, Starting
  <2>2. ASSUME NEW p \in Plugin PROVE IsFiniteSet(Holding(p)) /\ Cardinality(Holding(p)) = 0
    BY Zenon, <2>1, FS_EmptySet
  <2>3. ASSUME NEW p \in Plugin PROVE ups[p] = 0 /\ downs[p] = 0
    BY Zenon DEF Init
  <2> QED BY <2>2, <2>3 DEF Balanced
<1> QED BY Zenon, <1>1, <1>2, <1>3 DEF IInv
-----------------------------------------------------------------------------
\* Registering a plugin only adds to the registry (register_handler).
LEMMA RegisterKeeps ==
  ASSUME IInv, NEW q \in Plugin, Register(q)
  PROVE  IInv'
<1> USE DEF IInv, Register
<1>1. registered' \in Seq(Plugin) /\ Elements(registered') = Elements(registered) \cup {q}
  BY AppendAdds DEF Types
<1>2. Types'
  BY Zenon, <1>1 DEF Types, tracker
<1>3. Draining' /\ Once'
  BY Zenon DEF Draining, Once, Starting, tracker
<1>4. Reaching'
  BY Zenon, <1>1 DEF Reaching
<1>5. Balanced'
  BY Zenon DEF Balanced, Holding, Starting, tracker
<1> QED BY Zenon, <1>2, <1>3, <1>4, <1>5

\* A fire-and-forget task spawned once the tracker is closed is not an early one.
LEMMA SpawnKeeps ==
  ASSUME IInv, Spawn
  PROVE  IInv'
<1> USE DEF IInv, Spawn
<1>1. Types'
  BY DEF Types
<1>2. Draining'
  BY Zenon DEF Draining, Types
<1>3. Reaching' /\ Once'
  BY Zenon DEF Reaching, Once, Starting
<1>4. Balanced'
  BY Zenon DEF Balanced, Holding, Starting
<1> QED BY Zenon, <1>1, <1>2, <1>3, <1>4

\* The last task to end leaves no early one (task_tracker).
LEMMA TaskEndsKeeps ==
  ASSUME IInv, TaskEnds
  PROVE  IInv'
<1> USE DEF IInv, TaskEnds
<1>1. Types'
  BY DEF Types
<1>2. Draining'
  <2>1. early' <= early /\ early' \in Nat /\ tasks' \in Nat /\ early' + tasks' + 1 = early + tasks
    <3>1. CASE early > 0 /\ early' = early - 1 /\ tasks' = tasks
      BY <3>1 DEF Types
    <3>2. CASE tasks > 0 /\ tasks' = tasks - 1 /\ early' = early
      BY <3>2 DEF Types
    <3> QED BY Zenon, <3>1, <3>2
  <2>2. woken' # {} => closed /\ early' = 0
    <3>1. CASE closed /\ early + tasks = 1
      BY <2>1, <3>1 DEF Types
    <3>2. CASE ~(closed /\ early + tasks = 1)
      BY <2>1, <3>2 DEF Types, Draining
    <3> QED BY Zenon, <3>1, <3>2
  <2> QED BY <2>1, <2>2 DEF Draining, Types
<1>3. Reaching' /\ Once'
  BY Zenon DEF Reaching, Once, Starting
<1>4. Balanced'
  BY Zenon DEF Balanced, Holding, Starting
<1> QED BY Zenon, <1>1, <1>2, <1>3, <1>4
-----------------------------------------------------------------------------
\* A call begins with nothing on its list (manager.rs 825-838).
LEMMA InitializeKeeps ==
  ASSUME IInv, NEW c \in Caller, Initialize(c)
  PROVE  IInv'
<1> USE DEF IInv, Initialize, tracker
<1>0. Elements(registered) \subseteq Plugin /\ Registered = Elements(registered)
  BY DEF Types, Elements, Registered
<1>1. Types'
  BY Zenon, <1>0, NoElements DEF Types
<1>2. Draining' /\ Reaching'
  BY Zenon DEF Draining, Reaching, Types
<1>3. done'[c] = <<>> /\ Elements(done'[c]) = {} /\ DOMAIN done'[c] = {}
  BY NoElements DEF Types
<1>4. \A d \in Caller : d # c => done'[d] = done[d] /\ todo'[d] = todo[d] /\ pc'[d] = pc[d]
  BY Zenon DEF Types
<1>5. Once'
  BY <1>3, <1>4 DEF Once, Starting
<1>6. \A p \in Plugin : Holding(p)' = Holding(p)
  BY Zenon, <1>3, <1>4 DEF Holding, Starting
<1>7. Balanced'
  BY Zenon, <1>6 DEF Balanced
<1> QED BY Zenon, <1>1, <1>2, <1>5, <1>7

\* A plugin that initialises is on the list, and was not (manager.rs 845-869).
LEMMA InitializePluginKeeps ==
  ASSUME IInv, NEW c \in Caller, NEW p \in Plugin, InitializePlugin(c, p)
  PROVE  IInv'
<1> USE DEF IInv, InitializePlugin, tracker
<1>1. /\ done[c] \in Seq(Plugin) /\ done'[c] = Append(done[c], p) /\ todo'[c] = todo[c] \ {p}
      /\ \A d \in Caller : d # c => done'[d] = done[d] /\ todo'[d] = todo[d]
      /\ pc' = pc /\ Starting(c)
  BY Zenon DEF Types, Starting
<1>2. done'[c] \in Seq(Plugin) /\ Elements(done'[c]) = Elements(done[c]) \cup {p}
  BY <1>1, AppendAdds
<1>3. p \notin Elements(done[c])
  BY Zenon, <1>1 DEF Once
<1>4. Types'
  BY <1>2 DEF Types
<1>5. Draining' /\ Reaching'
  BY Zenon, <1>1 DEF Draining, Reaching
<1>6. Once'
  <2>1. \A j, k \in DOMAIN done'[c] : done'[c][j] = done'[c][k] => j = k
    <3> DEFINE n == Len(done[c])
    <3>1. n \in Nat /\ DOMAIN done[c] = 1..n /\ DOMAIN done'[c] = 1..(n + 1)
          /\ done'[c][n + 1] = p /\ \A k \in 1..n : done'[c][k] = done[c][k]
      BY <1>1
    <3>2. \A k \in 1..n : done[c][k] # p
      BY Zenon, <1>3, <3>1 DEF Elements
    <3>3. \A j, k \in 1..n : done[c][j] = done[c][k] => j = k
      BY Zenon, <1>1, <3>1 DEF Once
    <3> HIDE DEF n
    <3>4. \A k \in 1..(n + 1) : k \in 1..n \/ k = n + 1
      BY <3>1
    <3> QED BY <3>1, <3>2, <3>3, <3>4
  <2>2. todo'[c] \cap Elements(done'[c]) = {}
    BY Zenon, <1>1, <1>2 DEF Once
  <2> QED BY <1>1, <2>1, <2>2 DEF Once, Starting
<1>7. Balanced'
  <2>1. Holding(p)' = Holding(p) \cup {c} /\ c \notin Holding(p)
    BY Zenon, <1>1, <1>2, <1>3 DEF Holding, Starting
  <2>2. \A q \in Plugin : q # p => Holding(q)' = Holding(q) /\ ups'[q] = ups[q]
    BY Zenon, <1>1, <1>2 DEF Holding, Starting, Types
  <2>3. IsFiniteSet(Holding(p)') /\ Cardinality(Holding(p)') = Cardinality(Holding(p)) + 1
    BY <2>1, FS_AddElement DEF Balanced
  <2>4. Cardinality(Holding(p)) \in Nat /\ ups'[p] = ups[p] + 1 /\ ups[p] \in Nat /\ downs[p] \in Nat
    BY Zenon, FS_CardinalityType DEF Balanced, Types
  <2> QED BY <2>2, <2>3, <2>4 DEF Balanced
<1> QED BY Zenon, <1>4, <1>5, <1>6, <1>7

\* An initialize() that meets a failing plugin turns to its rollback with its list kept
\* (manager.rs 845-848).
LEMMA InitializeFailsKeeps ==
  ASSUME IInv, NEW c \in Caller, NEW p \in Plugin, InitializeFails(c, p)
  PROVE  IInv'
<1> USE DEF IInv, InitializeFails, tracker
<1>1. Types'
  BY Zenon DEF Types
<1>2. pc'[c] = "rollback" /\ pc[c] = "init" /\ \A d \in Caller : d # c => pc'[d] = pc[d]
  BY Zenon DEF Types
<1>3. Draining' /\ Reaching' /\ Once'
  BY <1>2 DEF Draining, Reaching, Once, Starting
<1>4. \A q \in Plugin : Holding(q)' = Holding(q)
  BY Zenon, <1>2 DEF Holding, Starting
<1>5. Balanced'
  BY Zenon, <1>4 DEF Balanced
<1> QED BY Zenon, <1>1, <1>3, <1>5
-----------------------------------------------------------------------------
\* The rollback takes the last plugin off the list and shuts it down
\* (manager.rs 848-857).
LEMMA RollbackKeeps ==
  ASSUME IInv, NEW c \in Caller, Rollback(c)
  PROVE  IInv'
<1> USE DEF IInv, Rollback, tracker
<1>1. CASE done[c] = <<>>
  <2>1. pc' = [pc EXCEPT ![c] = "failed"] /\ downs' = downs /\ done' = done
    BY Zenon, <1>1
  <2>2. pc'[c] = "failed" /\ pc[c] = "rollback" /\ \A d \in Caller : d # c => pc'[d] = pc[d]
    BY Zenon, <2>1 DEF Types
  <2>3. Types'
    BY Zenon, <2>1 DEF Types
  <2>4. Draining' /\ Reaching' /\ Once'
    BY <2>1, <2>2 DEF Draining, Reaching, Once, Starting
  <2>5. \A q \in Plugin : Holding(q)' = Holding(q)
    BY Zenon, <1>1, <2>1, <2>2, NoElements DEF Holding, Starting
  <2>6. Balanced'
    BY Zenon, <2>1, <2>5 DEF Balanced
  <2> QED BY Zenon, <2>3, <2>4, <2>6
<1>2. CASE done[c] # <<>>
  <2> DEFINE t == SubSeq(done[c], 1, Len(done[c]) - 1)
  <2>1. Starting(c) /\ done[c] \in Seq(Plugin) /\ \A j, k \in DOMAIN done[c] : done[c][j] = done[c][k] => j = k
    BY Zenon DEF Starting, Once, Types
  <2>2. PICK q \in Plugin :
          /\ q = done[c][Len(done[c])] /\ q \in Elements(done[c]) /\ t \in Seq(Plugin)
          /\ \A j, k \in DOMAIN t : t[j] = t[k] => j = k
          /\ Elements(t) = Elements(done[c]) \ {q}
    BY Zenon, <1>2, <2>1, PopRemoves
  <2>3. downs' = [downs EXCEPT ![q] = @ + 1] /\ done' = [done EXCEPT ![c] = t] /\ pc' = pc
    BY Zenon, <1>2, <2>2
  <2> HIDE DEF t
  <2>4. done'[c] = t /\ \A d \in Caller : d # c => done'[d] = done[d]
    BY Zenon, <2>3 DEF Types
  <2>5. Types'
    <3>1. downs' \in [Plugin -> Nat]
      BY <2>3, <2>2 DEF Types
    <3>2. done' \in [Caller -> Seq(Plugin)]
      BY Zenon, <2>3, <2>2 DEF Types
    <3> QED BY Zenon, <2>3, <3>1, <3>2 DEF Types
  <2>6. Draining' /\ Reaching'
    BY Zenon, <2>3, <2>4 DEF Draining, Reaching
  <2>7. Once'
    BY <2>3, <2>2, <2>4 DEF Once, Starting
  <2>8. Balanced'
    <3>1. Holding(q)' = Holding(q) \ {c} /\ c \in Holding(q)
      BY Zenon, <2>3, <2>1, <2>2, <2>4 DEF Holding, Starting
    <3>2. \A p \in Plugin : p # q => Holding(p)' = Holding(p) /\ downs'[p] = downs[p]
      BY Zenon, <2>3, <2>2, <2>4 DEF Holding, Starting, Types
    <3>3. IsFiniteSet(Holding(q)') /\ Cardinality(Holding(q)') = Cardinality(Holding(q)) - 1
      BY <2>2, <3>1, FS_RemoveElement DEF Balanced
    <3>4. Cardinality(Holding(q)) \in Nat /\ downs'[q] = downs[q] + 1 /\ ups[q] \in Nat /\ downs[q] \in Nat
      BY Zenon, <2>3, <2>2, FS_CardinalityType DEF Balanced, Types
    <3>5. ups' = ups /\ initialized' = initialized /\ closed' = closed
      BY Zenon
    <3>6. ~initialized /\ ~closed => ups'[q] = downs'[q] + Cardinality(Holding(q)')
      <4> DEFINE before == Cardinality(Holding(q))
                 after == Cardinality(Holding(q)')
      <4>1. ~initialized /\ ~closed => ups[q] = downs[q] + before
        BY Zenon, <2>2 DEF Balanced
      <4>2. before \in Nat /\ after = before - 1
        BY Zenon, <3>3, <3>4
      <4> HIDE DEF before, after, IInv, Rollback
      <4>3. ~initialized /\ ~closed => ups[q] = downs[q] + 1 + after
        BY <3>4, <4>1, <4>2
      <4> QED BY Zenon, <3>4, <3>5, <4>3 DEF after
    <3> QED BY <2>2, <3>2, <3>3, <3>5, <3>6 DEF Balanced
  <2> QED BY Zenon, <2>5, <2>6, <2>7, <2>8
<1> QED BY Zenon, <1>1, <1>2

\* A call that succeeds lets go of its list, and from then on the manager is
\* initialised until a shutdown has closed the tracker (manager.rs 873-875).
LEMMA InitializeEndsKeeps ==
  ASSUME IInv, NEW c \in Caller, InitializeEnds(c)
  PROVE  IInv'
<1> USE DEF IInv, InitializeEnds, tracker
<1>1. Types'
  BY Zenon DEF Types
<1>2. pc'[c] = "idle" /\ pc[c] = "init" /\ \A d \in Caller : d # c => pc'[d] = pc[d]
  BY Zenon DEF Types
<1>3. Draining' /\ Reaching' /\ Once'
  BY <1>2 DEF Draining, Reaching, Once, Starting
<1>4. \A q \in Plugin : Holding(q)' \subseteq Holding(q)
  BY Zenon, <1>2 DEF Holding, Starting
<1>5. Balanced'
  BY Zenon, <1>4, FS_Subset DEF Balanced
<1> QED BY Zenon, <1>1, <1>3, <1>5

\* A shutdown() closes the tracker and remembers what is registered.
LEMMA ShutdownKeeps ==
  ASSUME IInv, NEW c \in Caller, Shutdown(c)
  PROVE  IInv'
<1> USE DEF IInv, Shutdown
<1>0. Elements(registered) \subseteq Plugin /\ Registered = Elements(registered)
  BY DEF Types, Elements, Registered
<1>1. Types'
  BY Zenon, <1>0 DEF Types
<1>2. pc'[c] = "drain" /\ pc[c] \in {"idle", "failed"} /\ \A d \in Caller : d # c => pc'[d] = pc[d]
  BY Zenon DEF Types
<1>3. known'[c] = Elements(registered) /\ \A d \in Caller : d # c => known'[d] = known[d]
  BY Zenon, <1>0 DEF Types
<1>4. Draining' /\ Once'
  BY Zenon, <1>2 DEF Draining, Once, Starting
<1>5. Reaching'
  BY Zenon, <1>2, <1>3 DEF Reaching
<1>6. \A q \in Plugin : Holding(q)' = Holding(q)
  BY Zenon, <1>2 DEF Holding, Starting
<1>7. Balanced'
  BY Zenon, <1>6 DEF Balanced
<1> QED BY Zenon, <1>1, <1>4, <1>5, <1>7

\* The tracker was empty once it was closed, so no early task is left
\* (manager.rs 900-901).
LEMMA DrainedKeeps ==
  ASSUME IInv, NEW c \in Caller, Drained(c)
  PROVE  IInv'
<1> USE DEF IInv, Drained
<1>0. Elements(registered) \subseteq Plugin /\ Registered = Elements(registered)
  BY DEF Types, Elements, Registered
<1>1. Types'
  BY Zenon, <1>0, NoElements DEF Types
<1>2. pc'[c] = "teardown" /\ pc[c] = "drain" /\ \A d \in Caller : d # c => pc'[d] = pc[d]
  BY Zenon DEF Types
<1>3. todo'[c] = Elements(registered)
      /\ \A d \in Caller : d # c => todo'[d] = todo[d] /\ done'[d] = done[d]
  BY Zenon, <1>0 DEF Types
<1>4. early = 0 /\ closed
  BY <1>2 DEF Draining, Types
<1>5. Draining'
  BY Zenon, <1>2, <1>4 DEF Draining
<1>6. Once' /\ Reaching'
  BY <1>2, <1>3 DEF Once, Reaching, Starting
<1>7. \A q \in Plugin : Holding(q)' = Holding(q)
  BY Zenon, <1>2, <1>3 DEF Holding, Starting
<1>8. Balanced'
  BY Zenon, <1>7 DEF Balanced
<1> QED BY Zenon, <1>1, <1>5, <1>6, <1>8

\* The teardown moves a plugin from what is left to what is done.
LEMMA ShutdownPluginKeeps ==
  ASSUME IInv, NEW c \in Caller, NEW p \in Plugin, ShutdownPlugin(c, p)
  PROVE  IInv'
<1> USE DEF IInv, ShutdownPlugin, tracker
<1>1. /\ done[c] \in Seq(Plugin) /\ done'[c] = Append(done[c], p) /\ todo'[c] = todo[c] \ {p}
      /\ \A d \in Caller : d # c => done'[d] = done[d] /\ todo'[d] = todo[d]
      /\ pc' = pc /\ pc[c] = "teardown" /\ closed
  BY Zenon DEF Types, Draining
<1>2. done'[c] \in Seq(Plugin) /\ Elements(done'[c]) = Elements(done[c]) \cup {p}
  BY <1>1, AppendAdds
<1>3. Types'
  BY <1>2 DEF Types
<1>4. Draining' /\ Once'
  BY <1>1 DEF Draining, Once, Starting
<1>5. Reaching'
  BY Zenon, <1>1, <1>2 DEF Reaching
<1>6. \A q \in Plugin : Holding(q)' = Holding(q)
  BY Zenon, <1>1 DEF Holding, Starting
<1>7. Balanced'
  BY Zenon, <1>1, <1>6 DEF Balanced
<1> QED BY Zenon, <1>3, <1>4, <1>5, <1>7

\* A shutdown() ends with every plugin visited.
LEMMA ShutdownEndsKeeps ==
  ASSUME IInv, NEW c \in Caller, ShutdownEnds(c)
  PROVE  IInv'
<1> USE DEF IInv, ShutdownEnds, tracker
<1>1. Types'
  BY Zenon DEF Types
<1>2. pc'[c] = "idle" /\ pc[c] = "teardown" /\ closed /\ \A d \in Caller : d # c => pc'[d] = pc[d]
  BY Zenon DEF Types, Draining
<1>3. Draining' /\ Reaching' /\ Once'
  BY <1>2 DEF Draining, Reaching, Once, Starting
<1>4. \A q \in Plugin : Holding(q)' = Holding(q)
  BY Zenon, <1>2 DEF Holding, Starting
<1>5. Balanced'
  BY Zenon, <1>2, <1>4 DEF Balanced
<1> QED BY Zenon, <1>1, <1>3, <1>5
-----------------------------------------------------------------------------
\* Every step of the callers, the registry and the tasks keeps the invariant.
LEMMA NextKeeps == IInv /\ [Next]_vars => IInv'
<1> SUFFICES ASSUME IInv, [Next]_vars PROVE IInv'
  BY Zenon
<1>1. CASE UNCHANGED vars
  <2>1. Types' /\ Draining' /\ Reaching'
    BY Zenon, <1>1 DEF vars, tracker, IInv, Types, Draining, Reaching
  <2>2. Once'
    BY Zenon, <1>1 DEF vars, tracker, IInv, Once, Starting
  <2>3. \A p \in Plugin : Holding(p)' = Holding(p)
    BY Zenon, <1>1 DEF vars, Holding, Starting
  <2>4. Balanced'
    BY Zenon, <1>1, <2>3 DEF vars, tracker, IInv, Balanced
  <2> QED BY Zenon, <2>1, <2>2, <2>4 DEF IInv
<1>2. CASE \E p \in Plugin : Register(p)
  BY Zenon, <1>2, RegisterKeeps
<1>3. CASE Spawn \/ TaskEnds
  BY Zenon, <1>3, SpawnKeeps, TaskEndsKeeps
<1>4. ASSUME NEW c \in Caller, Initialize(c) \/ Shutdown(c) \/ Step(c) PROVE IInv'
  <2>1. CASE Initialize(c) \/ Shutdown(c)
    BY Zenon, <2>1, InitializeKeeps, ShutdownKeeps
  <2>2. CASE InitializeStep(c)
    BY Zenon, <2>2, InitializePluginKeeps, RollbackKeeps, InitializeEndsKeeps DEF InitializeStep
  <2>3. CASE ShutdownStep(c)
    BY Zenon, <2>3, DrainedKeeps, ShutdownPluginKeeps, ShutdownEndsKeeps DEF ShutdownStep
  <2> QED BY Zenon, <1>4, <2>1, <2>2, <2>3 DEF Step
<1>5. CASE \E c \in Caller, p \in Plugin : InitializeFails(c, p)
  BY Zenon, <1>5, InitializeFailsKeeps
<1> QED BY Zenon, <1>1, <1>2, <1>3, <1>4, <1>5 DEF Next

\* The invariant of initialize() and shutdown() holds in every reachable state.
LEMMA Invariant == Spec => []IInv
  BY InitIInv, NextKeeps, PTL DEF Spec

\* A failed initialize() leaves no plugin up (manager.rs 845-867), however many
\* callers initialise and fail at once.
THEOREM RolledBack == Spec => []RollbackComplete
<1>1. IInv => RollbackComplete
  <2> SUFFICES ASSUME IInv, \A c \in Caller : pc[c] \in {"idle", "failed"}, ~initialized, ~closed
               PROVE  ups = downs
    BY Zenon DEF RollbackComplete
  <2>1. ASSUME NEW p \in Plugin PROVE ups[p] = downs[p]
    <3>1. Holding(p) = {}
      BY Zenon DEF Holding, Starting
    <3>2. Cardinality(Holding(p)) = 0
      BY Zenon, <3>1, FS_EmptySet
    <3> QED BY <3>2 DEF IInv, Balanced, Types
  <2> QED BY <2>1 DEF IInv, Types
<1> QED BY <1>1, Invariant, PTL

\* No plugin is torn down under a task spawned before the shutdown closed the
\* tracker (manager.rs 900-901).
THEOREM DrainedFirst == Spec => []DrainedBeforeTeardown
<1>1. IInv => DrainedBeforeTeardown
  BY Zenon DEF IInv, Draining, DrainedBeforeTeardown
<1> QED BY <1>1, Invariant, PTL

\* A shutdown that returns has shut down every plugin registered when it began
\* (manager.rs 903-913).
THEOREM AllReached == Spec => ShutdownReachesAll
<1> DEFINE A == \A c \in Caller : pc[c] = "teardown" /\ pc'[c] = "idle" =>
                  \A p \in known[c] : \E k \in DOMAIN done[c] : done[c][k] = p
<1>1. IInv /\ [Next]_vars => [A]_vars
  <2> SUFFICES ASSUME IInv, Next, NEW c \in Caller, pc[c] = "teardown", pc'[c] = "idle"
               PROVE  \A p \in known[c] : \E k \in DOMAIN done[c] : done[c][k] = p
    BY Zenon
  <2>1. todo[c] = {}
    <3>1. pc \in [Caller -> {"idle", "failed", "init", "rollback", "drain", "teardown"}]
      BY Zenon DEF IInv, Types
    <3> QED BY Zenon, <3>1 DEF Next, Step, InitializeStep, ShutdownStep, Register, Initialize, Shutdown,
         InitializePlugin, Rollback, InitializeEnds, Drained, ShutdownPlugin, ShutdownEnds,
         InitializeFails, Spawn, TaskEnds
  <2>2. known[c] \subseteq Elements(done[c])
    BY Zenon, <2>1 DEF IInv, Reaching
  <2> QED BY Zenon, <2>2 DEF Elements
<1>2. Spec => [][A]_vars
  BY <1>1, Invariant, PTL DEF Spec
<1> QED BY Zenon, <1>2 DEF ShutdownReachesAll
=============================================================================
