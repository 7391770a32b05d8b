-------------------------- MODULE VenvCacheProofs ---------------------------
(***************************************************************************)
(* For any number of plugins, edits and faults: the shared environment is  *)
(* not removed under a running worker, a shutdown leaves no claim, and a   *)
(* plugin that is ready has what it declares installed; the first two      *)
(* until a shutdown meets a respawn.                                       *)
(***************************************************************************)
EXTENDS VenvCache, TLAPS

Steps ==
  {"idle", "ensure", "prepare", "create", "install", "installing", "claim", "claiming", "save",
   "saving", "ready"}

IsRecord(v) == v = [f \in DOMAIN v |-> v[f]] /\ "exists" \in DOMAIN v

Shape ==
  /\ step \in [Plugin -> Steps]
  /\ child \in [Plugin -> {"none", "running", "dead"}]
  /\ outcome \in [Plugin -> {"Reused", "Built", "SharedUpdate"}]
  /\ draft = [p \in Plugin |-> draft[p]]
  /\ \A p \in Plugin : step[p] = "claiming" => draft[p] \subseteq Plugin
  /\ release \subseteq [by : Plugin, left : SUBSET Plugin]
  /\ manager = "down" => release = {}
  /\ owners \subseteq Plugin
  /\ todo \subseteq Plugin
  /\ manager \in {"down", "starting", "up", "stopping"}
  /\ IsRecord(venv)

\* ensure() and launch of p are under way.
Busy(p) == step[p] # "idle"

\* p is about to remove the directory or has done so.
Wiping(p) == step[p] = "create" \/ (step[p] = "prepare" /\ outcome[p] # "SharedUpdate")

AtMost(p) == \A q \in Plugin : q = p

WhenDown ==
  manager = "down" =>
    todo = {} /\ \A p \in Plugin : step[p] = "idle" /\ child[p] = "none"

\* Plugins come up one at a time; those that are up have their claim on disk
\* or in the write under way.
WhenStarting ==
  manager = "starting" =>
    /\ release = {}
    /\ \A p \in Plugin : step[p] # "idle" => p \in todo
    /\ \A p \in Plugin \ todo :
         /\ child[p] = "running"
         /\ p \in owners \/ \E q \in Plugin : step[q] = "claiming"
         /\ \A q \in Plugin : step[q] = "claiming" => p \in draft[q]
    /\ \A p \in Plugin :
         /\ step[p] = "claiming" => p \in draft[p]
         /\ step[p] \in {"save", "saving", "ready"} => p \in owners

\* Once all are up every plugin has a claim and none writes one, and only a
\* plugin that has the package to itself removes the directory.
WhenUp ==
  manager = "up" =>
    /\ owners = Plugin
    /\ release = {}
    /\ \A p \in Plugin : step[p] # "claiming"
    /\ \A p \in Plugin : Wiping(p) => AtMost(p)
    /\ ~venv.exists => \A p \in Plugin : AtMost(p)

WhenStopping ==
  manager = "stopping" =>
    /\ \A p \in Plugin : ~Busy(p)
    /\ \A p \in Plugin \ todo : child[p] = "none"
    /\ \A r \in release : child[r.by] = "none"

Alone ==
  manager = "starting" =>
    \A p, q \in Plugin : step[p] # "idle" /\ step[q] # "idle" => p = q

\* The claims that are left are those of the plugins still to be shut down.
ClaimsLeft ==
  manager \in {"stopping", "down"} /\ ended = "shutdown" =>
    owners \subseteq todo /\ \A r \in release : r.left \subseteq todo \ {r.by}

\* No worker runs for a plugin being launched, or while the directory goes.
Workers ==
  /\ \A p \in Plugin : Busy(p) => child[p] = "none"
  /\ \A p \in Plugin : Wiping(p) => \A q \in Plugin : child[q] # "running"
  /\ \A p \in Plugin : manager = "starting" /\ p \in todo => child[p] = "none"

Core ==
  /\ WhenDown /\ WhenStarting /\ WhenUp /\ WhenStopping /\ Alone /\ ClaimsLeft
  /\ Workers /\ RunningVenvKept

\* Of a host whose shutdown met a respawn only the types are known.
EnvInv == Shape /\ (Orderly => Core)
-----------------------------------------------------------------------------
\* A change of what is installed is no change of whether the directory exists.
LEMMA InstallKeepsDirectory ==
  ASSUME NEW v, IsRecord(v), NEW p, NEW e, NEW w, w = [v EXCEPT !.installed[p] = e]
  PROVE  IsRecord(w) /\ w.exists = v.exists
<1>1. DOMAIN w = DOMAIN v /\ w = [f \in DOMAIN w |-> w[f]]
  BY Zenon DEF IsRecord
<1>2. w["exists"] = v["exists"]
  BY Zenon DEF IsRecord
<1> QED
  BY Zenon, <1>1, <1>2 DEF IsRecord

\* A change at one plugin leaves a function of the plugins.
LEMMA ExceptIsFunction ==
  ASSUME NEW f, f = [q \in Plugin |-> f[q]], NEW p \in Plugin, NEW e, NEW g,
         g = [f EXCEPT ![p] = e]
  PROVE  g = [q \in Plugin |-> g[q]]
  BY Zenon

\* A host that is down, with or without an environment of an earlier release.
LEMMA InitEstablishes == EnvInit => EnvInv
<1> SUFFICES ASSUME EnvInit PROVE EnvInv
  BY Zenon
<1> USE DEF EnvInit, NoVenv, Fresh
<1>1. Shape
  BY Zenon DEF Shape, Steps, IsRecord
<1>2. WhenDown
  BY Zenon DEF WhenDown
<1>3. WhenStarting
  BY Zenon DEF WhenStarting
<1>4. WhenUp
  BY Zenon DEF WhenUp
<1>5. WhenStopping
  BY Zenon DEF WhenStopping
<1>6. Alone
  BY Zenon DEF Alone
<1>7. ClaimsLeft
  BY Zenon DEF ClaimsLeft
<1>8. Workers
  BY Zenon DEF Workers, Busy, Wiping
<1>9. RunningVenvKept
  BY Zenon DEF RunningVenvKept
<1> QED
  BY Zenon, <1>1, <1>2, <1>3, <1>4, <1>5, <1>6, <1>7, <1>8, <1>9 DEF EnvInv, Core

\* While no shutdown has met a respawn, every step of ensure(), of the manager, of a
\* fault or of an edit keeps the invariant.
LEMMA CoreStep ==
  ASSUME Shape, Orderly, Core, EnvNext, Orderly'
  PROVE  Core'
<1> USE DEF Core, Orderly, Shape, WhenDown, WhenStarting, WhenUp, WhenStopping, Alone, ClaimsLeft, Workers,
            RunningVenvKept, Busy, Wiping, AtMost, Steps, IsRecord,
            files, progress, bounds, history
<1>1. CASE Start
  BY <1>1 DEF Start, Over, Quiet
<1>2. CASE Started
  BY <1>2 DEF Started
<1>3. CASE ShutdownAll
  BY <1>3 DEF ShutdownAll, Overtaken, Quiet
<1>4. CASE Stopped
  <2>2. WhenDown'
    BY Zenon, <1>4 DEF Stopped
  <2>3. WhenStarting'
    BY Zenon, <1>4 DEF Stopped
  <2>4. WhenUp'
    BY Zenon, <1>4 DEF Stopped
  <2>5. WhenStopping'
    BY Zenon, <1>4 DEF Stopped
  <2>6. Alone'
    BY Zenon, <1>4 DEF Stopped
  <2>7. ClaimsLeft'
    BY Zenon, <1>4 DEF Stopped
  <2>8. Workers'
    BY Zenon, <1>4 DEF Stopped
  <2>9. RunningVenvKept'
    BY Zenon, <1>4 DEF Stopped
  <2> QED
    BY Zenon, <2>2, <2>3, <2>4, <2>5, <2>6, <2>7, <2>8, <2>9
<1>5. CASE Crash
  <2>2. WhenDown'
    BY Zenon, <1>5 DEF Crash, HostEnds, LeftBy, Emptied, NoVenv, Fresh
  <2>3. WhenStarting'
    BY Zenon, <1>5 DEF Crash, HostEnds, LeftBy, Emptied, NoVenv, Fresh
  <2>4. WhenUp'
    BY Zenon, <1>5 DEF Crash, HostEnds, LeftBy, Emptied, NoVenv, Fresh
  <2>5. WhenStopping'
    BY Zenon, <1>5 DEF Crash, HostEnds, LeftBy, Emptied, NoVenv, Fresh
  <2>6. Alone'
    BY Zenon, <1>5 DEF Crash, HostEnds, LeftBy, Emptied, NoVenv, Fresh
  <2>7. ClaimsLeft'
    BY Zenon, <1>5 DEF Crash, HostEnds, LeftBy, Emptied, NoVenv, Fresh
  <2>8. Workers'
    BY Zenon, <1>5 DEF Crash, HostEnds, LeftBy, Emptied, NoVenv, Fresh
  <2>9. RunningVenvKept'
    BY Zenon, <1>5 DEF Crash, HostEnds, LeftBy, Emptied, NoVenv, Fresh
  <2> QED
    BY Zenon, <2>2, <2>3, <2>4, <2>5, <2>6, <2>7, <2>8, <2>9
<1>6. CASE RemovesVenv
  BY <1>6 DEF RemovesVenv, Over, NoVenv
<1>7. ASSUME NEW p \in Plugin, InitializePlugin(p) PROVE Core'
  BY <1>7 DEF InitializePlugin, GoesTo, Quiet
<1>8. ASSUME NEW p \in Plugin, ChildDies(p) PROVE Core'
  BY <1>8 DEF ChildDies, InService
<1>9. ASSUME NEW p \in Plugin, RespawnsDead(p) PROVE Core'
  BY <1>9 DEF RespawnsDead, InService, Overtaken, GoesTo
<1>10. ASSUME NEW p \in Plugin, Ensure(p) PROVE Core'
  BY <1>10 DEF Ensure, Reuses, Rebuilds, HasOtherOwner, GoesTo
<1>11. ASSUME NEW p \in Plugin, PrepareDirectories(p) PROVE Core'
  BY <1>11 DEF PrepareDirectories, GoesTo, NoVenv
<1>12. ASSUME NEW p \in Plugin, CreateVenv(p) PROVE Core'
  BY <1>12 DEF CreateVenv, GoesTo, Fresh
<1>13. ASSUME NEW p \in Plugin, StartsPip(p) PROVE Core'
  <2>2. WhenDown'
    BY Zenon, <1>13, InstallKeepsDirectory DEF StartsPip, GoesTo
  <2>3. WhenStarting'
    BY <1>13, InstallKeepsDirectory DEF StartsPip, GoesTo
  <2>4. WhenUp'
    BY <1>13, InstallKeepsDirectory DEF StartsPip, GoesTo
  <2>5. WhenStopping'
    BY <1>13, InstallKeepsDirectory DEF StartsPip, GoesTo
  <2>6. Alone'
    BY <1>13, InstallKeepsDirectory DEF StartsPip, GoesTo
  <2>7. ClaimsLeft'
    BY Zenon, <1>13, InstallKeepsDirectory DEF StartsPip, GoesTo
  <2>8. Workers'
    BY <1>13, InstallKeepsDirectory DEF StartsPip, GoesTo
  <2>9. RunningVenvKept'
    BY <1>13, InstallKeepsDirectory DEF StartsPip, GoesTo
  <2> QED
    BY Zenon, <2>2, <2>3, <2>4, <2>5, <2>6, <2>7, <2>8, <2>9
<1>14. ASSUME NEW p \in Plugin, PipEnds(p) PROVE Core'
  <2>2. WhenDown'
    BY Zenon, <1>14, InstallKeepsDirectory DEF PipEnds, GoesTo
  <2>3. WhenStarting'
    BY <1>14, InstallKeepsDirectory DEF PipEnds, GoesTo
  <2>4. WhenUp'
    BY <1>14, InstallKeepsDirectory DEF PipEnds, GoesTo
  <2>5. WhenStopping'
    BY Zenon, <1>14, InstallKeepsDirectory DEF PipEnds, GoesTo
  <2>6. Alone'
    BY <1>14, InstallKeepsDirectory DEF PipEnds, GoesTo
  <2>7. ClaimsLeft'
    BY Zenon, <1>14, InstallKeepsDirectory DEF PipEnds, GoesTo
  <2>8. Workers'
    BY <1>14, InstallKeepsDirectory DEF PipEnds, GoesTo
  <2>9. RunningVenvKept'
    BY Zenon, <1>14, InstallKeepsDirectory DEF PipEnds, GoesTo
  <2> QED
    BY Zenon, <2>2, <2>3, <2>4, <2>5, <2>6, <2>7, <2>8, <2>9
<1>15. ASSUME NEW p \in Plugin, RegisterOwner(p) PROVE Core'
  <2>3. WhenDown'
    BY Zenon, <1>15 DEF RegisterOwner, GoesTo, AfterClaim
  <2>4. WhenStarting'
    BY <1>15 DEF RegisterOwner, GoesTo, AfterClaim
  <2>5. WhenUp'
    BY <1>15 DEF RegisterOwner, GoesTo, AfterClaim
  <2>6. WhenStopping'
    BY Zenon, <1>15 DEF RegisterOwner, GoesTo, AfterClaim
  <2>7. Alone'
    BY <1>15 DEF RegisterOwner, GoesTo, AfterClaim
  <2>8. ClaimsLeft'
    BY Zenon, <1>15 DEF RegisterOwner, GoesTo, AfterClaim
  <2>9. Workers'
    BY <1>15 DEF RegisterOwner, GoesTo, AfterClaim
  <2>10. RunningVenvKept'
    BY Zenon, <1>15 DEF RegisterOwner, GoesTo, AfterClaim
  <2> QED
    BY Zenon, <2>3, <2>4, <2>5, <2>6, <2>7, <2>8, <2>9, <2>10
<1>16. ASSUME NEW p \in Plugin, OwnersWritten(p) PROVE Core'
  <2>3. WhenDown'
    BY Zenon, <1>16 DEF OwnersWritten, GoesTo, AfterClaim
  <2>4. WhenStarting'
    BY <1>16 DEF OwnersWritten, GoesTo, AfterClaim
  <2>5. WhenUp'
    BY Zenon, <1>16 DEF OwnersWritten, GoesTo, AfterClaim
  <2>6. WhenStopping'
    BY <1>16 DEF OwnersWritten, GoesTo, AfterClaim
  <2>7. Alone'
    BY <1>16 DEF OwnersWritten, GoesTo, AfterClaim
  <2>8. ClaimsLeft'
    BY Zenon, <1>16 DEF OwnersWritten, GoesTo, AfterClaim
  <2>9. Workers'
    BY <1>16 DEF OwnersWritten, GoesTo, AfterClaim
  <2>10. RunningVenvKept'
    BY Zenon, <1>16 DEF OwnersWritten, GoesTo, AfterClaim
  <2> QED
    BY Zenon, <2>3, <2>4, <2>5, <2>6, <2>7, <2>8, <2>9, <2>10
<1>17. ASSUME NEW p \in Plugin, SaveMetadata(p) PROVE Core'
  <2>3. WhenDown'
    BY Zenon, <1>17 DEF SaveMetadata, GoesTo
  <2>4. manager = "starting" => \A q \in Plugin \ todo : q \in owners
    BY <1>17 DEF SaveMetadata
  <2>5. WhenStarting'
    BY <1>17, <2>4 DEF SaveMetadata, GoesTo
  <2>6. WhenUp'
    BY <1>17 DEF SaveMetadata, GoesTo
  <2>7. WhenStopping'
    BY <1>17 DEF SaveMetadata, GoesTo
  <2>8. Alone'
    BY <1>17 DEF SaveMetadata, GoesTo
  <2>9. ClaimsLeft'
    BY Zenon, <1>17 DEF SaveMetadata, GoesTo
  <2>10. Workers'
    BY <1>17 DEF SaveMetadata, GoesTo
  <2>11. RunningVenvKept'
    BY Zenon, <1>17 DEF SaveMetadata, GoesTo
  <2> QED
    BY Zenon, <2>3, <2>5, <2>6, <2>7, <2>8, <2>9, <2>10, <2>11
<1>18. ASSUME NEW p \in Plugin, MetadataWritten(p) PROVE Core'
  <2>3. WhenDown'
    BY Zenon, <1>18 DEF MetadataWritten, GoesTo, Writes
  <2>4. manager = "starting" => \A q \in Plugin \ todo : q \in owners
    BY <1>18 DEF MetadataWritten
  <2>5. WhenStarting'
    BY <1>18, <2>4 DEF MetadataWritten, GoesTo, Writes
  <2>6. WhenUp'
    BY <1>18 DEF MetadataWritten, GoesTo, Writes
  <2>7. WhenStopping'
    BY <1>18 DEF MetadataWritten, GoesTo, Writes
  <2>8. Alone'
    BY <1>18 DEF MetadataWritten, GoesTo, Writes
  <2>9. ClaimsLeft'
    BY Zenon, <1>18 DEF MetadataWritten, GoesTo, Writes
  <2>10. Workers'
    BY <1>18 DEF MetadataWritten, GoesTo, Writes
  <2>11. RunningVenvKept'
    BY Zenon, <1>18 DEF MetadataWritten, GoesTo, Writes
  <2> QED
    BY Zenon, <2>3, <2>5, <2>6, <2>7, <2>8, <2>9, <2>10, <2>11
<1>19. ASSUME NEW p \in Plugin, Launch(p) PROVE Core'
  <2>3. WhenDown'
    BY Zenon, <1>19 DEF Launch, Done
  <2>4. manager = "starting" => \A q \in Plugin \ todo : q \in owners
    BY Zenon, <1>19 DEF Launch
  <2>5. WhenStarting'
    BY <1>19, <2>4 DEF Launch, Done
  <2>6. WhenUp'
    BY <1>19 DEF Launch, Done
  <2>7. WhenStopping'
    BY <1>19 DEF Launch, Done
  <2>8. Alone'
    BY <1>19 DEF Launch, Done
  <2>9. ClaimsLeft'
    BY Zenon, <1>19 DEF Launch, Done
  <2>10. Workers'
    BY <1>19 DEF Launch, Done
  <2>11. RunningVenvKept'
    BY Zenon, <1>19 DEF Launch, Done
  <2> QED
    BY Zenon, <2>3, <2>5, <2>6, <2>7, <2>8, <2>9, <2>10, <2>11
<1>20. ASSUME NEW p \in Plugin, EnsureFails(p) PROVE Core'
  <2>3. WhenDown'
    BY Zenon, <1>20 DEF EnsureFails, Doomed, Fails, Done, LeftBy, Emptied, NoVenv, Fresh
  <2>4. WhenStarting'
    BY Zenon, <1>20 DEF EnsureFails, Doomed, Fails, Done, LeftBy, Emptied, NoVenv, Fresh
  <2>5. WhenUp'
    BY <1>20 DEF EnsureFails, Doomed, Fails, Done, LeftBy, Emptied, NoVenv, Fresh
  <2>6. WhenStopping'
    BY <1>20 DEF EnsureFails, Doomed, Fails, Done, LeftBy, Emptied, NoVenv, Fresh
  <2>7. Alone'
    BY <1>20 DEF EnsureFails, Doomed, Fails, Done, LeftBy, Emptied, NoVenv, Fresh
  <2>8. ClaimsLeft'
    BY Zenon, <1>20 DEF EnsureFails, Doomed, Fails, Done, LeftBy, Emptied, NoVenv, Fresh
  <2>9. Workers'
    BY <1>20 DEF EnsureFails, Doomed, Fails, Done, LeftBy, Emptied, NoVenv, Fresh
  <2>10. RunningVenvKept'
    BY <1>20 DEF EnsureFails, Doomed, Fails, Done, LeftBy, Emptied, NoVenv, Fresh
  <2> QED
    BY Zenon, <2>3, <2>4, <2>5, <2>6, <2>7, <2>8, <2>9, <2>10
<1>21. ASSUME NEW p \in Plugin, ShutdownPlugin(p) PROVE Core'
  BY <1>21 DEF ShutdownPlugin, Releases
<1>22. CASE Released
  <2>3. WhenDown'
    BY Zenon, <1>22 DEF Released
  <2>4. WhenStarting'
    BY Zenon, <1>22 DEF Released
  <2>5. WhenUp'
    BY Zenon, <1>22 DEF Released
  <2>6. WhenStopping'
    BY <1>22 DEF Released
  <2>7. Alone'
    BY <1>22 DEF Released
  <2>8. ClaimsLeft'
    BY <1>22 DEF Released
  <2>9. Workers'
    BY <1>22 DEF Released
  <2>10. RunningVenvKept'
    BY <1>22 DEF Released
  <2> QED
    BY Zenon, <2>3, <2>4, <2>5, <2>6, <2>7, <2>8, <2>9, <2>10
<1>23. ASSUME NEW p \in Plugin, Edit(p) PROVE Core'
  BY <1>23 DEF Edit
<1>24. CASE Exits
  BY <1>24 DEF Exits, Over, Quiet
<1> QED
  BY Zenon, <1>1, <1>2, <1>3, <1>4, <1>5, <1>6, <1>7, <1>8, <1>9, <1>10, <1>11, <1>12,
     <1>13, <1>14, <1>15, <1>16, <1>17, <1>18, <1>19, <1>20, <1>21, <1>22, <1>23, <1>24 DEF EnvNext

\* Every step keeps the types.
LEMMA ShapeStep ==
  ASSUME Shape, EnvNext
  PROVE  Shape'
<1> USE DEF Shape, Steps, IsRecord, files, progress, bounds, history
<1>1. CASE Start \/ Started \/ ShutdownAll \/ Stopped \/ RemovesVenv
  BY <1>1 DEF Start, Started, ShutdownAll, Stopped, RemovesVenv, NoVenv
<1>2. CASE Crash \/ Exits
  BY <1>2 DEF Crash, Exits, HostEnds, LeftBy, Emptied, NoVenv, Fresh
<1>3. CASE Released
  BY <1>3 DEF Released
<1>4. ASSUME NEW p \in Plugin, InitializePlugin(p) \/ ChildDies(p) \/ RespawnsDead(p) PROVE Shape'
  BY <1>4 DEF InitializePlugin, ChildDies, RespawnsDead, GoesTo
<1>5. ASSUME NEW p \in Plugin, Ensure(p) PROVE Shape'
  BY <1>5 DEF Ensure, Reuses, Rebuilds, GoesTo
<1>6. ASSUME NEW p \in Plugin, PrepareDirectories(p) \/ CreateVenv(p) PROVE Shape'
  BY <1>6 DEF PrepareDirectories, CreateVenv, GoesTo, NoVenv, Fresh
<1>7. ASSUME NEW p \in Plugin, StartsPip(p) PROVE Shape'
  BY <1>7, InstallKeepsDirectory DEF StartsPip, GoesTo
<1>8. ASSUME NEW p \in Plugin, PipEnds(p) PROVE Shape'
  BY <1>8, InstallKeepsDirectory DEF PipEnds, GoesTo
<1>9. ASSUME NEW p \in Plugin, RegisterOwner(p) PROVE Shape'
  <2>1. draft' = [q \in Plugin |-> draft'[q]]
    BY <1>9, ExceptIsFunction DEF RegisterOwner, GoesTo, AfterClaim
  <2> QED BY <1>9, <2>1 DEF RegisterOwner, GoesTo, AfterClaim
<1>10. ASSUME NEW p \in Plugin, OwnersWritten(p) PROVE Shape'
  <2>1. draft' = [q \in Plugin |-> draft'[q]]
    BY Zenon, <1>10, ExceptIsFunction DEF OwnersWritten, GoesTo, AfterClaim
  <2> QED BY <1>10, <2>1 DEF OwnersWritten, GoesTo, AfterClaim
<1>11. ASSUME NEW p \in Plugin, SaveMetadata(p) PROVE Shape'
  <2>1. draft' = [q \in Plugin |-> draft'[q]]
    BY Zenon, <1>11, ExceptIsFunction DEF SaveMetadata, GoesTo
  <2> QED BY <1>11, <2>1 DEF SaveMetadata, GoesTo
<1>12. ASSUME NEW p \in Plugin, MetadataWritten(p) PROVE Shape'
  <2>1. draft' = [q \in Plugin |-> draft'[q]]
    BY Zenon, <1>12, ExceptIsFunction DEF MetadataWritten, GoesTo, Writes
  <2> QED BY <1>12, <2>1 DEF MetadataWritten, GoesTo, Writes
<1>13. ASSUME NEW p \in Plugin, Launch(p) PROVE Shape'
  <2>1. draft' = [q \in Plugin |-> draft'[q]]
    BY Zenon, <1>13, ExceptIsFunction DEF Launch, Done
  <2> QED BY <1>13, <2>1 DEF Launch, Done
<1>14. ASSUME NEW p \in Plugin, EnsureFails(p) PROVE Shape'
  <2>1. draft' = [q \in Plugin |-> draft'[q]]
    BY Zenon, <1>14, ExceptIsFunction DEF EnsureFails, Fails, Done
  <2> QED BY <1>14, <2>1 DEF EnsureFails, Fails, Done, LeftBy, Emptied, NoVenv, Fresh
<1>15. ASSUME NEW p \in Plugin, ShutdownPlugin(p) PROVE Shape'
  BY <1>15 DEF ShutdownPlugin, Releases
<1>16. ASSUME NEW p \in Plugin, Edit(p) PROVE Shape'
  BY <1>16 DEF Edit
<1> QED
  BY Zenon, <1>1, <1>2, <1>3, <1>4, <1>5, <1>6, <1>7, <1>8, <1>9, <1>10, <1>11, <1>12,
     <1>13, <1>14, <1>15, <1>16 DEF EnvNext

\* A host whose shutdown met a respawn is followed by one that finds nothing of it
\* left but files, or crashes.
LEMMA OvertakenStep ==
  ASSUME Shape, ~Orderly, EnvNext, Orderly'
  PROVE  Core'
<1> USE DEF Orderly, files, progress, bounds, history
<1>1. Start \/ Crash
  <2>1. manager \in {"down", "stopping"} /\ ended = "overtaken"
    BY Zenon DEF Shape
  <2> QED BY SMT, <2>1 DEF EnvNext,
             Started, ShutdownAll, Stopped, Exits, RemovesVenv, InitializePlugin, ChildDies,
             RespawnsDead, Overtaken, Ensure, PrepareDirectories, CreateVenv, StartsPip, PipEnds,
             RegisterOwner, OwnersWritten, SaveMetadata, MetadataWritten, Launch,
             EnsureFails, Fails, ShutdownPlugin, Released, Edit
<1> USE DEF Core, Shape, WhenDown, WhenStarting, WhenUp, WhenStopping, Alone, ClaimsLeft, Workers,
            RunningVenvKept, Busy, Wiping
<1>2. CASE Start
  <2>1. manager' = "starting" /\ todo' = Plugin /\ step' = step /\ child' = child /\ release' = release
    BY Zenon, <1>2 DEF Start
  <2>2. \A p \in Plugin : step[p] = "idle" /\ child[p] = "none"
    BY Zenon, <1>2 DEF Start, Over, Quiet
  <2>3. release = {}
    BY Zenon, <1>2 DEF Start
  <2> QED BY <2>1, <2>2, <2>3
<1>3. CASE Crash
  <2>1. /\ manager' = "down" /\ ended' = "crash" /\ todo' = {} /\ release' = {}
        /\ \A p \in Plugin : step'[p] = "idle" /\ child'[p] = "none"
    BY Zenon, <1>3 DEF Crash, HostEnds
  <2> QED BY <2>1
<1> QED BY Zenon, <1>1, <1>2, <1>3

\* Every step keeps the invariant.
LEMMA StepPreserves == EnvInv /\ [EnvNext]_envVars => EnvInv'
<1> SUFFICES ASSUME EnvInv, [EnvNext]_envVars PROVE EnvInv'
  BY Zenon
<1>1. CASE EnvNext
  BY Zenon, <1>1, CoreStep, ShapeStep, OvertakenStep DEF EnvInv
<1>2. CASE UNCHANGED envVars
  BY <1>2 DEF EnvInv, Core, Orderly, Shape, WhenDown, WhenStarting, WhenUp, WhenStopping, Alone,
     ClaimsLeft, Workers, RunningVenvKept, Busy, Wiping, AtMost, Steps, IsRecord,
     envVars, files, progress, bounds, history
<1> QED BY Zenon, <1>1, <1>2

\* Whatever number of plugins share the environment, however often it is
\* edited, fails or the host crashes: it is not removed under a running worker,
\* because a plugin that comes up has its claim on disk before its worker
\* starts and a plugin that finds a claim of another does not remove
\* (venv.rs 505-522).
THEOREM DirectoryKept == EnvSpec => []RunningVenvKept
<1>1. EnvInv => RunningVenvKept
  BY Zenon DEF EnvInv, Core, RunningVenvKept
<1> QED
  BY <1>1, InitEstablishes, StepPreserves, PTL DEF EnvSpec

\* After the shutdown of a host that was up, and that met no respawn, no claim is left
\* behind, so the next rebuild is not taken for one of a shared environment
\* (plugin.rs 884-906).
THEOREM ShutdownReleases == EnvSpec => []ClaimsReleased
<1>1. EnvInv => ClaimsReleased
  BY Zenon DEF EnvInv, Core, Orderly, WhenDown, ClaimsLeft, ClaimsReleased
<1> QED
  BY <1>1, InitEstablishes, StepPreserves, PTL DEF EnvSpec

\* The shared environment outlives the workers in it, and its claims do not outlive
\* the plugins (venv.rs, plugin.rs 884-906), unless a shutdown met a respawn.
THEOREM EnvironmentKept == EnvSpec => []VenvKept
<1>1. RunningVenvKept /\ ClaimsReleased => VenvKept
  BY Zenon DEF VenvKept
<1> QED
  BY <1>1, DirectoryKept, ShutdownReleases, PTL
-----------------------------------------------------------------------------
(* What is installed *)

\* A directory records what is installed in it for each plugin.
IsVenv(v) ==
  v = NoVenv \/ \E i : i = [p \in Plugin |-> i[p]] /\ v = [exists |-> TRUE, installed |-> i]

Has(v, p, req) == v.exists /\ v.installed[p] = req

With(v, p, req) == [v EXCEPT !.installed[p] = req]

FileTypes ==
  /\ IsVenv(venv)
  /\ declared \in [Plugin -> Declared]
  /\ read = [p \in Plugin |-> read[p]]
  /\ metadata = [p \in Plugin |-> metadata[p]]
  /\ built = [p \in Plugin |-> built[p]]

\* ensure() found the cache of p not valid and has not saved what it builds.
Rebuilding(p) ==
  /\ step[p] \in {"prepare", "create", "install", "installing", "claim", "claiming", "save", "saving"}
  /\ outcome[p] # "Reused"

\* While it builds, the metadata of p tells nothing.
WhenRebuilding ==
  \A p \in Plugin :
    /\ step[p] \in {"prepare", "create", "install", "installing", "save", "saving"} => outcome[p] # "Reused"
    /\ Rebuilding(p) => p \in stale /\ built[p] = NoMetadata

\* Where a build of p stands with the directory.
Directory ==
  Orderly => \A p \in Plugin :
    /\ step[p] = "create" => ~venv.exists
    /\ step[p] \in {"install", "installing"} => venv.exists
    /\ step[p] = "prepare" /\ outcome[p] = "SharedUpdate" => venv.exists

\* What pip has put there, or a valid cache has vouched for, is there.
Installed ==
  Orderly => \A p \in Plugin :
    /\ Rebuilding(p) /\ step[p] \in {"claim", "claiming", "save", "saving"} /\ read[p] # 0 =>
         Has(venv, p, read[p])
    /\ step[p] \in {"claim", "claiming", "ready"} /\ p \notin stale /\ read[p] # 0 =>
         Has(venv, p, read[p])

\* Metadata tells what is installed, and for what the plugin was built.
Truthful ==
  \A p \in Plugin :
    /\ p \notin stale /\ metadata[p] # NoMetadata /\ metadata[p].req # 0 =>
         Has(venv, p, metadata[p].req)
    /\ built[p] # NoMetadata =>
         metadata[p].req = built[p].req /\ metadata[p].manifest \in {NoSignal, built[p].manifest}

\* What is installed is not followed once a shutdown has met a respawn.
Unfollowed == ~Orderly => stale = Plugin

InstInv == FileTypes /\ WhenRebuilding /\ Directory /\ Installed /\ Truthful /\ Unfollowed
-----------------------------------------------------------------------------
USE EnvAssumption

\* pip changes what is installed for one plugin of a directory that exists
\* (venv.rs 723-812).
LEMMA PipWrites ==
  ASSUME NEW v, IsVenv(v), v.exists, NEW p \in Plugin, NEW e
  PROVE  /\ IsVenv(With(v, p, e)) /\ With(v, p, e).exists /\ With(v, p, e).installed[p] = e
         /\ \A q \in Plugin : q # p => With(v, p, e).installed[q] = v.installed[q]
<1>1. PICK i : i = [q \in Plugin |-> i[q]] /\ v = [exists |-> TRUE, installed |-> i]
  BY DEF IsVenv, NoVenv
<1> DEFINE j == [i EXCEPT ![p] = e]
<1>w. PICK w : w = With(v, p, e)
  BY Zenon
<1>2. w = [exists |-> TRUE, installed |-> j]
  <2>1. w = [v EXCEPT !.installed[p] = e]
    BY Zenon, <1>w DEF With
  <2> QED BY Zenon, <1>1, <2>1
<1>3. j = [q \in Plugin |-> j[q]] /\ j[p] = e /\ \A q \in Plugin : q # p => j[q] = i[q]
  BY Zenon, <1>1
<1>4. IsVenv(w)
  BY Zenon, <1>2, <1>3 DEF IsVenv
<1>5. w.exists /\ w.installed = j /\ v.installed = i
  BY Zenon, <1>1, <1>2
<1> QED BY Zenon, <1>w, <1>3, <1>4, <1>5

\* A directory just made, or none.
LEMMA PlainVenvs == IsVenv(NoVenv) /\ ~NoVenv.exists /\ IsVenv(Fresh) /\ Fresh.exists
<1> DEFINE z == [p \in Plugin |-> 0]
<1>1. z = [p \in Plugin |-> z[p]]
  BY Zenon
<1>2. Fresh = [exists |-> TRUE, installed |-> z]
  BY Zenon DEF Fresh
<1>3. IsVenv(Fresh)
  BY Zenon, <1>1, <1>2 DEF IsVenv
<1> QED BY Zenon, <1>2, <1>3 DEF IsVenv, NoVenv

\* Whoever removes the directory is alone (venv.rs 505-522).
LEMMA Solo ==
  ASSUME EnvInv, Orderly, NEW p \in Plugin, NEW q \in Plugin, q # p, Wiping(p)
  PROVE  step[q] = "idle"
<1> USE DEF EnvInv, Core, Shape
<1>1. CASE manager = "down"
  BY Zenon, <1>1 DEF WhenDown, Wiping
<1>2. CASE manager = "starting"
  BY Zenon, <1>2 DEF Alone, Wiping
<1>3. CASE manager = "up"
  BY Zenon, <1>3 DEF WhenUp, AtMost
<1>4. CASE manager = "stopping"
  BY Zenon, <1>4 DEF WhenStopping, Busy, Wiping
<1> QED BY Zenon, <1>1, <1>2, <1>3, <1>4

\* What a plugin declares is not what stands for no metadata.
LEMMA DeclaredIsSome == NoMetadata \notin Declared
  BY DEF NoMetadata

\* A host that is down: what it finds on disk is what an older release left.
LEMMA InitInst == EnvInit => InstInv
<1> SUFFICES ASSUME EnvInit PROVE InstInv
  BY Zenon
<1>0. /\ step = [p \in Plugin |-> "idle"] /\ read = [p \in Plugin |-> 0] /\ stale = {}
      /\ declared \in [Plugin -> Declared] /\ Orderly
  BY Zenon DEF EnvInit, Orderly
<1>1. CASE venv = NoVenv /\ metadata = [p \in Plugin |-> NoMetadata] /\ built = [p \in Plugin |-> NoMetadata]
  <2>1. FileTypes
    BY Zenon, <1>0, <1>1, PlainVenvs DEF FileTypes
  <2> QED BY Zenon, <1>0, <1>1, <2>1
             DEF InstInv, WhenRebuilding, Rebuilding, Directory, Installed, Truthful, Unfollowed
<1>2. ASSUME NEW p \in Plugin,
             venv = [Fresh EXCEPT !.installed[p] = declared[p].req],
             metadata = [q \in Plugin |->
               IF q = p THEN [declared[p] EXCEPT !.manifest = NoSignal] ELSE NoMetadata],
             built = [q \in Plugin |-> IF q = p THEN declared[p] ELSE NoMetadata]
      PROVE  InstInv
  <2>1. IsVenv(venv) /\ venv.exists /\ venv.installed[p] = declared[p].req
    <3>1. PICK v : v = Fresh
      BY Zenon
    <3>2. IsVenv(v) /\ v.exists
      BY Zenon, <3>1, PlainVenvs
    <3>3. venv = With(v, p, declared[p].req)
      BY Zenon, <1>2, <3>1 DEF With
    <3> QED BY <3>2, <3>3, PipWrites
  <2>2. FileTypes
    BY Zenon, <1>0, <1>2, <2>1 DEF FileTypes
  <2>3. declared[p] \in [req : Nat, manifest : Nat \ {0}]
    BY Zenon, <1>0
  <2>4. metadata[p].req = declared[p].req /\ metadata[p].manifest = NoSignal
    BY Zenon, <1>2, <2>3
  <2>5. Truthful
    BY Zenon, <1>2, <2>1, <2>4 DEF Truthful, Has
  <2> QED BY Zenon, <1>0, <2>2, <2>5
             DEF InstInv, WhenRebuilding, Rebuilding, Directory, Installed, Unfollowed
<1> QED BY Zenon, <1>1, <1>2 DEF EnvInit

\* The manager and the workers come and go with the files as they are.
LEMMA SettledKeeps ==
  ASSUME InstInv, venv' = venv, metadata' = metadata, built' = built,
         \A p \in Plugin : p \in stale => p \in stale', ~Orderly' => stale' = Plugin,
         Orderly' => Orderly \/ \A p \in Plugin : step'[p] = "idle",
         declared' \in [Plugin -> Declared], read' = [p \in Plugin |-> read'[p]],
         \A p \in Plugin :
           \/ step'[p] \in {"idle", "ensure"}
           \/ step'[p] = step[p] /\ outcome'[p] = outcome[p] /\ read'[p] = read[p]
  PROVE  InstInv'
<1> USE DEF InstInv
<1>1. FileTypes'
  BY Zenon DEF FileTypes
<1>2. WhenRebuilding'
  BY Zenon DEF WhenRebuilding, Rebuilding
<1>3. Directory'
  BY Zenon DEF Directory
<1>4. Installed'
  BY Zenon DEF Installed, Rebuilding
<1>5. Truthful'
  BY Zenon DEF Truthful
<1> QED BY Zenon, <1>1, <1>2, <1>3, <1>4, <1>5 DEF Unfollowed

\* The others are where they were.
Elsewhere(p) ==
  \A q \in Plugin : q # p =>
    /\ step'[q] = step[q] /\ outcome'[q] = outcome[q] /\ read'[q] = read[q]
    /\ metadata'[q] = metadata[q] /\ built'[q] = built[q] /\ (q \in stale' <=> q \in stale)

\* A valid cache vouches for what is installed; one that is not makes what
\* metadata says void (venv.rs 207-245, 498-535).
LEMMA EnsureInst ==
  ASSUME EnvInv, InstInv, NEW p \in Plugin, Ensure(p)
  PROVE  InstInv'
<1> USE DEF InstInv
<1>1. /\ (Orderly' <=> Orderly) /\ step[p] = "ensure" /\ venv' = venv /\ metadata' = metadata /\ declared' = declared
      /\ step \in [Plugin -> Steps] /\ outcome \in [Plugin -> {"Reused", "Built", "SharedUpdate"}]
      /\ read = [q \in Plugin |-> read[q]]
      /\ declared[p] \in [req : Nat, manifest : Nat \ {0}]
  BY Zenon DEF Orderly, Ensure, files, EnvInv, Shape, FileTypes
<1>2. CASE Reuses(p)
  <2>1. /\ Valid(p) /\ built' = built /\ stale' = stale
        /\ step'[p] = "claim" /\ outcome'[p] = "Reused" /\ read'[p] = declared[p].req
        /\ read' = [q \in Plugin |-> read'[q]]
        /\ Elsewhere(p)
    BY Zenon, <1>1, <1>2 DEF Reuses, GoesTo, Elsewhere
  <2>2. FileTypes'
    BY Zenon, <1>1, <2>1 DEF FileTypes
  <2>3. WhenRebuilding'
    BY Zenon, <1>1, <2>1 DEF WhenRebuilding, Rebuilding, Elsewhere
  <2>4. Directory'
    BY <1>1, <2>1 DEF Directory, Elsewhere
  <2>5. Installed'
    <3>1. metadata[p].req = read'[p] /\ metadata[p] # NoMetadata
      BY <1>1, <2>1 DEF Valid, NoMetadata
    <3> QED BY <1>1, <2>1, <3>1 DEF Installed, Rebuilding, Elsewhere, Truthful
  <2>6. Truthful'
    BY Zenon, <1>1, <2>1 DEF Truthful
  <2> QED BY Zenon, <2>2, <2>3, <2>4, <2>5, <2>6, <1>1, <2>1 DEF Unfollowed
<1>3. CASE Rebuilds(p)
  <2>1. /\ step'[p] = "prepare" /\ outcome'[p] \in {"Built", "SharedUpdate"} /\ read' = read
        /\ outcome'[p] = "SharedUpdate" => venv.exists
        /\ p \in stale' /\ stale' = stale \cup {p} /\ built'[p] = NoMetadata
        /\ built' = [q \in Plugin |-> built'[q]]
        /\ Elsewhere(p)
    BY Zenon, <1>1, <1>3 DEF Rebuilds, GoesTo, Elsewhere, FileTypes
  <2>2. FileTypes'
    BY Zenon, <1>1, <2>1 DEF FileTypes
  <2>3. WhenRebuilding'
    BY <1>1, <2>1 DEF WhenRebuilding, Rebuilding, Elsewhere
  <2>4. Directory'
    BY <1>1, <2>1 DEF Directory, Elsewhere
  <2>5. Installed'
    BY Zenon, <1>1, <2>1 DEF Installed, Rebuilding, Elsewhere
  <2>6. Truthful'
    BY <1>1, <2>1 DEF Truthful, Elsewhere
  <2>7. Unfollowed'
    <3>1. ~Orderly => stale = Plugin
      BY Zenon DEF Unfollowed
    <3> QED BY <1>1, <2>1, <3>1 DEF Unfollowed
  <2> QED BY Zenon, <2>2, <2>3, <2>4, <2>5, <2>6, <2>7
<1> QED BY Zenon, <1>2, <1>3 DEF Ensure

\* What was installed goes with the directory (venv.rs 646-675).
LEMMA PrepareInst ==
  ASSUME EnvInv, InstInv, NEW p \in Plugin, PrepareDirectories(p)
  PROVE  InstInv'
<1> USE DEF InstInv
<1>1. /\ (Orderly' <=> Orderly) /\ step[p] = "prepare" /\ metadata' = metadata /\ declared' = declared /\ built' = built
      /\ read' = read /\ outcome' = outcome
      /\ step \in [Plugin -> Steps] /\ outcome[p] # "Reused" /\ p \in stale
  BY Zenon DEF Orderly, PrepareDirectories, EnvInv, Shape, WhenRebuilding, Rebuilding
<1>2. CASE outcome[p] = "SharedUpdate"
  <2>1. /\ venv' = venv /\ stale' = stale /\ step'[p] = "install" /\ (Orderly => venv.exists) /\ Elsewhere(p)
    BY Zenon, <1>1, <1>2 DEF PrepareDirectories, GoesTo, Elsewhere, Directory
  <2>2. FileTypes'
    BY Zenon, <1>1, <2>1 DEF FileTypes
  <2>3. WhenRebuilding'
    BY Zenon, <1>1, <2>1 DEF WhenRebuilding, Rebuilding, Elsewhere
  <2>4. Directory'
    BY Zenon, <1>1, <2>1 DEF Directory, Elsewhere
  <2>5. Installed'
    BY Zenon, <1>1, <2>1 DEF Installed, Rebuilding, Elsewhere
  <2>6. Truthful'
    BY Zenon, <1>1, <2>1 DEF Truthful
  <2> QED BY Zenon, <2>2, <2>3, <2>4, <2>5, <2>6, <1>1, <2>1 DEF Unfollowed
<1>3. CASE outcome[p] # "SharedUpdate"
  <2>1. /\ venv' = NoVenv /\ step'[p] = "create" /\ p \in stale'
        /\ stale' = stale \/ stale' = Plugin
        /\ \A q \in Plugin : q # p => step'[q] = step[q]
        /\ \A q \in Plugin : q \notin stale' => q \notin stale /\ ~venv.exists
    BY Zenon, <1>1, <1>3 DEF PrepareDirectories, GoesTo
  <2>2. Orderly => \A q \in Plugin : q # p => step'[q] = "idle"
    BY Zenon, <1>1, <1>3, <2>1, Solo DEF Wiping
  <2>3. FileTypes'
    BY Zenon, <1>1, <2>1, PlainVenvs DEF FileTypes
  <2>4. WhenRebuilding'
    BY Zenon, <1>1, <2>1 DEF WhenRebuilding, Rebuilding
  <2>5. Directory'
    BY Zenon, <1>1, <2>1, <2>2, PlainVenvs DEF Directory
  <2>6. Installed'
    BY Zenon, <1>1, <2>1, <2>2 DEF Installed, Rebuilding
  <2>7. Truthful'
    BY Zenon, <1>1, <2>1 DEF Truthful, Has
  <2> QED BY Zenon, <2>3, <2>4, <2>5, <2>6, <2>7, <1>1, <2>1 DEF Unfollowed
<1> QED BY Zenon, <1>2, <1>3

\* A new directory is one that no metadata speaks of (venv.rs, create_venv).
LEMMA CreateInst ==
  ASSUME EnvInv, InstInv, NEW p \in Plugin, CreateVenv(p)
  PROVE  InstInv'
<1> USE DEF InstInv
<1>1. /\ (Orderly' <=> Orderly) /\ step[p] = "create" /\ metadata' = metadata /\ declared' = declared /\ built' = built
      /\ read' = read /\ outcome' = outcome /\ stale' = stale
      /\ venv' = IF venv.exists THEN venv ELSE Fresh
      /\ step'[p] = "install" /\ \A q \in Plugin : q # p => step'[q] = step[q]
  BY Zenon DEF Orderly, CreateVenv, EnvInv, Shape, GoesTo, history
<1>2. Orderly => \A q \in Plugin : q # p => step'[q] = "idle"
  BY Zenon, <1>1, Solo DEF Wiping
<1>3. Orderly => ~venv.exists
  BY Zenon, <1>1 DEF Directory
<1>4. FileTypes'
  BY Zenon, <1>1, PlainVenvs DEF FileTypes
<1>5. WhenRebuilding'
  BY Zenon, <1>1 DEF WhenRebuilding, Rebuilding
<1>6. Directory'
  BY Zenon, <1>1, <1>2, <1>3, PlainVenvs DEF Directory
<1>7. Installed'
  BY Zenon, <1>1, <1>2 DEF Installed, Rebuilding
<1>8. Truthful'
  BY Zenon, <1>1, <1>3 DEF Truthful, Has, Unfollowed
<1> QED BY Zenon, <1>4, <1>5, <1>6, <1>7, <1>8, <1>1 DEF Unfollowed

\* pip installs for a plugin whose metadata tells nothing (venv.rs 723-812).
LEMMA StartsPipInst ==
  ASSUME EnvInv, InstInv, NEW p \in Plugin, StartsPip(p)
  PROVE  InstInv'
<1> USE DEF InstInv
<1>1. /\ (Orderly' <=> Orderly) /\ step[p] = "install" /\ metadata' = metadata /\ declared' = declared /\ built' = built
      /\ outcome' = outcome /\ stale' = stale /\ outcome[p] # "Reused" /\ p \in stale
      /\ built[p] = NoMetadata
      /\ read' = [q \in Plugin |-> read'[q]] /\ (declared[p].req # 0 => venv.exists) /\ IsVenv(venv)
      /\ Elsewhere(p) /\ read'[p] = declared[p].req
      /\ step \in [Plugin -> Steps]
  BY Zenon DEF Orderly, StartsPip, EnvInv, Shape, GoesTo, history, WhenRebuilding, Rebuilding, FileTypes, Directory,
         Elsewhere
<1>2. CASE declared[p].req = 0
  <2>1. venv' = venv /\ step'[p] = "claim"
    BY Zenon, <1>1, <1>2 DEF StartsPip, GoesTo
  <2>2. FileTypes'
    BY Zenon, <1>1, <2>1 DEF FileTypes
  <2>3. WhenRebuilding'
    BY Zenon, <1>1, <2>1 DEF WhenRebuilding, Rebuilding, Elsewhere
  <2>4. Directory'
    BY Zenon, <1>1, <2>1 DEF Directory, Elsewhere
  <2>5. Installed'
    BY Zenon, <1>1, <1>2, <2>1 DEF Installed, Rebuilding, Elsewhere
  <2>6. Truthful'
    BY Zenon, <1>1, <2>1 DEF Truthful
  <2> QED BY Zenon, <2>2, <2>3, <2>4, <2>5, <2>6, <1>1, <2>1 DEF Unfollowed
<1>3. CASE declared[p].req # 0
  <2>1. venv' = With(venv, p, 0) /\ step'[p] = "installing"
    BY Zenon, <1>1, <1>3 DEF StartsPip, GoesTo, With
  <2>2. IsVenv(venv') /\ venv'.exists /\ \A q \in Plugin : q # p => venv'.installed[q] = venv.installed[q]
    BY <1>1, <1>3, <2>1, PipWrites
  <2>3. FileTypes'
    BY Zenon, <1>1, <2>2 DEF FileTypes
  <2>4. WhenRebuilding'
    BY Zenon, <1>1, <2>1 DEF WhenRebuilding, Rebuilding, Elsewhere
  <2>5. Directory'
    BY Zenon, <1>1, <2>1, <2>2 DEF Directory, Elsewhere
  <2>6. Installed'
    BY <1>1, <2>1, <2>2 DEF Installed, Rebuilding, Elsewhere, Has
  <2>7. Truthful'
    BY Zenon, <1>1, <2>2 DEF Truthful, Has
  <2> QED BY Zenon, <2>3, <2>4, <2>5, <2>6, <2>7, <1>1, <2>1 DEF Unfollowed
<1> QED BY Zenon, <1>2, <1>3

\* What pip has installed is what it read (venv.rs 723-812).
LEMMA PipEndsInst ==
  ASSUME EnvInv, InstInv, NEW p \in Plugin, PipEnds(p)
  PROVE  InstInv'
<1> USE DEF InstInv
<1>1. /\ (Orderly' <=> Orderly) /\ step[p] = "installing" /\ metadata' = metadata /\ declared' = declared /\ built' = built
      /\ outcome' = outcome /\ stale' = stale /\ outcome[p] # "Reused" /\ p \in stale
      /\ built[p] = NoMetadata
      /\ read' = read /\ venv.exists /\ IsVenv(venv)
      /\ Elsewhere(p) /\ step'[p] = "claim"
      /\ step \in [Plugin -> Steps]
  BY Zenon DEF Orderly, PipEnds, EnvInv, Shape, GoesTo, history, WhenRebuilding, Rebuilding, FileTypes, Directory,
         Elsewhere
<1>2. venv' = With(venv, p, read[p])
  BY Zenon DEF PipEnds, With
<1>3. /\ IsVenv(venv') /\ venv'.exists /\ venv'.installed[p] = read[p]
      /\ \A q \in Plugin : q # p => venv'.installed[q] = venv.installed[q]
  BY <1>1, <1>2, PipWrites
<1>4. FileTypes'
  BY Zenon, <1>1, <1>3 DEF FileTypes
<1>5. WhenRebuilding'
  BY Zenon, <1>1 DEF WhenRebuilding, Rebuilding, Elsewhere
<1>6. Directory'
  BY Zenon, <1>1, <1>3 DEF Directory, Elsewhere
<1>7. Installed'
  BY <1>1, <1>3 DEF Installed, Rebuilding, Elsewhere, Has
<1>8. Truthful'
  BY Zenon, <1>1, <1>3 DEF Truthful, Has
<1> QED BY Zenon, <1>4, <1>5, <1>6, <1>7, <1>8, <1>1 DEF Unfollowed

\* Claiming the environment changes nothing in it (venv.rs 537-600).
LEMMA ClaimInst ==
  ASSUME EnvInv, InstInv, NEW p \in Plugin, RegisterOwner(p) \/ OwnersWritten(p)
  PROVE  InstInv'
<1> USE DEF InstInv
<1>1. /\ (Orderly' <=> Orderly) /\ step[p] \in {"claim", "claiming"} /\ metadata' = metadata /\ declared' = declared
      /\ built' = built /\ outcome' = outcome /\ stale' = stale /\ read' = read /\ venv' = venv
      /\ step'[p] \in {"claiming", AfterClaim(p)}
      /\ Elsewhere(p)
  BY Zenon DEF Orderly, RegisterOwner, OwnersWritten, EnvInv, Shape, GoesTo, history, Elsewhere
<1>2. step'[p] = "claiming" \/ (step'[p] = "ready" /\ outcome[p] = "Reused")
        \/ (step'[p] = "save" /\ outcome[p] # "Reused")
  BY Zenon, <1>1 DEF AfterClaim
<1>3. FileTypes'
  BY Zenon, <1>1 DEF FileTypes
<1>4. WhenRebuilding'
  BY Zenon, <1>1, <1>2 DEF WhenRebuilding, Rebuilding, Elsewhere
<1>5. Directory'
  BY Zenon, <1>1, <1>2 DEF Directory, Elsewhere
<1>6. Installed'
  BY Zenon, <1>1, <1>2 DEF Installed, Rebuilding, Elsewhere
<1>7. Truthful'
  BY Zenon, <1>1 DEF Truthful
<1> QED BY Zenon, <1>3, <1>4, <1>5, <1>6, <1>7, <1>1 DEF Unfollowed

\* save_metadata truncates the file and then writes what is declared by then
\* (venv.rs 537-556).
LEMMA SaveInst ==
  ASSUME EnvInv, InstInv, NEW p \in Plugin, SaveMetadata(p)
  PROVE  InstInv'
<1> USE DEF InstInv
<1>1. /\ (Orderly' <=> Orderly) /\ step[p] = "save" /\ declared' = declared /\ built' = built /\ built[p] = NoMetadata
      /\ outcome' = outcome /\ stale' = stale /\ read' = read /\ venv' = venv
      /\ step'[p] = "saving" /\ metadata'[p] = NoMetadata
      /\ metadata' = [q \in Plugin |-> metadata'[q]]
      /\ Elsewhere(p)
  BY Zenon DEF Orderly, SaveMetadata, EnvInv, Shape, GoesTo, history, Elsewhere, FileTypes, WhenRebuilding, Rebuilding
<1>3. FileTypes'
  BY Zenon, <1>1 DEF FileTypes
<1>4. WhenRebuilding'
  BY Zenon, <1>1 DEF WhenRebuilding, Rebuilding, Elsewhere
<1>5. Directory'
  BY Zenon, <1>1 DEF Directory, Elsewhere
<1>6. Installed'
  BY Zenon, <1>1 DEF Installed, Rebuilding, Elsewhere
<1>7. Truthful'
  BY Zenon, <1>1 DEF Truthful, Elsewhere
<1> QED BY Zenon, <1>3, <1>4, <1>5, <1>6, <1>7, <1>1 DEF Unfollowed

\* The metadata tells what is installed if the file that was hashed is the one
\* that was installed (venv.rs 537-556).
LEMMA WrittenInst ==
  ASSUME EnvInv, InstInv, NEW p \in Plugin, MetadataWritten(p)
  PROVE  InstInv'
<1> USE DEF InstInv
<1>0. PICK m \in draft[p] :
        /\ metadata' = [metadata EXCEPT ![p] = m]
        /\ built' = [built EXCEPT ![p] = m]
        /\ stale' = IF Orderly /\ m.req = read[p] THEN stale \ {p} ELSE stale
  BY Zenon DEF MetadataWritten, Writes
<1>1. /\ (Orderly' <=> Orderly) /\ step[p] = "saving" /\ declared' = declared
      /\ outcome' = outcome /\ read' = read /\ venv' = venv
      /\ step'[p] = "ready" /\ metadata'[p] = m /\ built'[p] = m
      /\ metadata' = [q \in Plugin |-> metadata'[q]]
      /\ built' = [q \in Plugin |-> built'[q]]
      /\ p \notin stale' => Orderly /\ m.req = read[p]
      /\ ~Orderly => stale' = stale
      /\ p \in stale /\ outcome[p] # "Reused"
      /\ Elsewhere(p)
  BY Zenon, <1>0 DEF Orderly, MetadataWritten, EnvInv, Shape, GoesTo, Elsewhere, FileTypes, WhenRebuilding, Rebuilding
<1>2. Orderly /\ read[p] # 0 => Has(venv, p, read[p])
  BY Zenon, <1>1 DEF Installed, Rebuilding
<1>3. FileTypes'
  BY Zenon, <1>1 DEF FileTypes
<1>4. WhenRebuilding'
  BY Zenon, <1>1 DEF WhenRebuilding, Rebuilding, Elsewhere
<1>5. Directory'
  BY Zenon, <1>1 DEF Directory, Elsewhere
<1>6. Installed'
  BY Zenon, <1>1, <1>2 DEF Installed, Rebuilding, Elsewhere
<1>7. Truthful'
  BY <1>1, <1>2 DEF Truthful, Elsewhere
<1> QED BY Zenon, <1>3, <1>4, <1>5, <1>6, <1>7, <1>1 DEF Unfollowed

\* A step that fails, and a crash, leave a directory that metadata is known not
\* to describe, or the one that was there.
LEMMA LeftInst ==
  ASSUME EnvInv, InstInv, NEW p \in Plugin, venv' \in LeftBy(p), stale' = StaleWith(venv'),
         metadata' = metadata, declared' = declared, built' = built,
         read' = [q \in Plugin |-> read'[q]], step'[p] = "idle",
         Orderly => Orderly', Orderly' => Orderly \/ \A q \in Plugin : step'[q] = "idle",
         \A q \in Plugin :
           \/ step'[q] = "idle"
           \/ step'[q] = step[q] /\ outcome'[q] = outcome[q] /\ read'[q] = read[q]
  PROVE  InstInv'
<1>1. CASE venv' = venv
  <2>1. stale' = stale
    BY Zenon, <1>1 DEF StaleWith
  <2>2. declared' \in [Plugin -> Declared] /\ (~Orderly' => stale' = Plugin)
    BY Zenon, <2>1 DEF InstInv, FileTypes, Unfollowed
  <2> QED BY Zenon, <1>1, <2>1, <2>2, SettledKeeps
<1>2. CASE venv' # venv
  <2>1. stale' = Plugin
    BY Zenon, <1>2 DEF StaleWith
  <2>2. IsVenv(venv')
    BY Zenon, PlainVenvs DEF LeftBy, Emptied, InstInv, FileTypes
  <2>3. Wiping(p)
    BY Zenon, <1>2 DEF LeftBy, Wiping
  <2>4. Orderly' => \A q \in Plugin : step'[q] = "idle"
    BY Zenon, <2>3, Solo
  <2> QED BY Zenon, <2>1, <2>2, <2>4
             DEF InstInv, FileTypes, WhenRebuilding, Rebuilding, Directory, Installed, Truthful, Unfollowed
<1> QED BY Zenon, <1>1, <1>2

\* Every step of ensure(), of the manager, of a fault or of an edit keeps what
\* metadata tells.
LEMMA StepInst ==
  ASSUME EnvInv, InstInv, [EnvNext]_envVars
  PROVE  InstInv'
<1> USE DEF EnvInv, Shape
<1>0. /\ read = [p \in Plugin |-> read[p]] /\ declared \in [Plugin -> Declared]
      /\ step \in [Plugin -> Steps]
  BY Zenon DEF InstInv, FileTypes
<1>a. ~Orderly => stale = Plugin
  BY Zenon DEF InstInv, Unfollowed
<1>1. CASE Start \/ Started \/ ShutdownAll \/ Released \/ Stopped
  <2>1. /\ venv' = venv /\ metadata' = metadata /\ built' = built /\ declared' = declared
        /\ step' = step /\ outcome' = outcome /\ read' = read
    BY Zenon, <1>1 DEF Start, Started, ShutdownAll, Released, Stopped, files, history
  <2>2. CASE ~Start
    <3>1. (stale' = stale /\ (Orderly <=> Orderly')) \/ (stale' = Plugin /\ ~Orderly')
      <4> HIDE DEF EnvInv, Shape
      <4>1. CASE Started \/ Stopped
        BY Zenon, <4>1 DEF Started, Stopped, history, Orderly
      <4>2. CASE ShutdownAll
        BY Zenon, <4>2 DEF ShutdownAll, Overtaken, Orderly
      <4>3. CASE Released
        <5>1. stale' = stale /\ manager' = manager /\ (ended' = "overtaken" <=> ended = "overtaken")
          BY Zenon, <4>3 DEF Released
        <5> QED BY Zenon, <5>1 DEF Orderly
      <4> QED BY Zenon, <1>1, <2>2, <4>1, <4>2, <4>3
    <3>2. /\ \A p \in Plugin : p \in stale => p \in stale'
          /\ ~Orderly' => stale' = Plugin
          /\ Orderly' => Orderly
      BY Zenon, <1>a, <3>1
    <3> QED BY Zenon, <1>0, <2>1, <3>2, SettledKeeps
  <2>3. CASE Start
    <3>1. stale' = stale /\ Orderly' /\ \A p \in Plugin : step[p] = "idle"
      BY Zenon, <2>3 DEF Start, Over, Quiet, Orderly, history
    <3> QED BY Zenon, <1>0, <2>1, <3>1, SettledKeeps
  <2> QED BY Zenon, <2>2, <2>3
<1>2. CASE Crash \/ Exits
  <2>0. HostEnds
    BY Zenon, <1>2 DEF Crash, Exits
  <2>1. PICK p \in Plugin : venv' \in LeftBy(p)
    BY Zenon, <2>0 DEF HostEnds
  <2>2. Orderly => Orderly'
    BY <1>2 DEF Crash, Exits, Orderly
  <2>3. /\ stale' = StaleWith(venv') /\ metadata' = metadata /\ declared' = declared /\ built' = built
        /\ read' = [q \in Plugin |-> read'[q]] /\ \A q \in Plugin : step'[q] = "idle"
    BY Zenon, <2>0 DEF HostEnds
  <2> QED BY Zenon, <2>1, <2>2, <2>3, LeftInst
<1>3. CASE RemovesVenv
  <2>1. /\ venv' = NoVenv /\ stale' = Plugin /\ step' = step /\ read' = read
        /\ metadata' = metadata /\ declared' = declared /\ built' = built
    BY Zenon, <1>3 DEF RemovesVenv, progress
  <2>2. \A q \in Plugin : step'[q] = "idle"
    BY Zenon, <1>3, <2>1 DEF RemovesVenv, Over, Quiet
  <2> QED BY Zenon, <2>1, <2>2, PlainVenvs
             DEF InstInv, FileTypes, WhenRebuilding, Rebuilding, Directory, Installed, Truthful, Unfollowed
<1>4. ASSUME NEW p \in Plugin, InitializePlugin(p) \/ RespawnsDead(p) PROVE InstInv'
  <2>1. /\ venv' = venv /\ metadata' = metadata /\ built' = built
        /\ declared' = declared /\ read' = read /\ outcome' = outcome
        /\ step' = [step EXCEPT ![p] = "ensure"]
    BY Zenon, <1>4 DEF InitializePlugin, RespawnsDead, GoesTo, files, history
  <2>2. \A q \in Plugin : step'[q] = "ensure" \/ step'[q] = step[q]
    BY Zenon, <1>0, <2>1
  <2>3. (stale' = stale /\ (Orderly <=> Orderly')) \/ (stale' = Plugin /\ ~Orderly')
    <3> HIDE DEF EnvInv, Shape
    <3>1. CASE InitializePlugin(p)
      BY Zenon, <3>1 DEF InitializePlugin, history, Orderly
    <3>2. CASE RespawnsDead(p)
      BY Zenon, <3>2 DEF RespawnsDead, InService, Overtaken, Orderly
    <3> QED BY Zenon, <1>4, <3>1, <3>2
  <2>4. /\ \A q \in Plugin : q \in stale => q \in stale'
        /\ ~Orderly' => stale' = Plugin
        /\ Orderly' => Orderly
    BY Zenon, <1>a, <2>3
  <2> QED BY Zenon, <1>0, <2>1, <2>2, <2>4, SettledKeeps
<1>5. ASSUME NEW p \in Plugin, ChildDies(p) PROVE InstInv'
  BY Zenon, <1>0, <1>a, <1>5, SettledKeeps DEF ChildDies, files, history, Orderly
<1>6. ASSUME NEW p \in Plugin, Launch(p) PROVE InstInv'
  <2>1. /\ venv' = venv /\ metadata' = metadata /\ built' = built /\ stale' = stale
        /\ declared' = declared /\ Done(p) /\ (Orderly <=> Orderly')
    BY Zenon, <1>6 DEF Launch, files, history, Orderly
  <2>2. /\ read' = [q \in Plugin |-> read'[q]] /\ step'[p] = "idle"
        /\ \A q \in Plugin : q # p => step'[q] = step[q] /\ outcome'[q] = outcome[q] /\ read'[q] = read[q]
    BY Zenon, <1>0, <2>1 DEF Done
  <2> QED BY Zenon, <1>0, <1>a, <2>1, <2>2, SettledKeeps
<1>7. ASSUME NEW p \in Plugin, EnsureFails(p) PROVE InstInv'
  <2>1. /\ venv' \in LeftBy(p) /\ stale' = StaleWith(venv') /\ metadata' = metadata
        /\ built' = built /\ declared' = declared /\ Done(p)
    BY Zenon, <1>7 DEF EnsureFails, Fails
  <2>2. /\ read' = [q \in Plugin |-> read'[q]] /\ step'[p] = "idle"
        /\ \A q \in Plugin : q # p => step'[q] = step[q] /\ outcome'[q] = outcome[q] /\ read'[q] = read[q]
    BY Zenon, <1>0, <2>1 DEF Done
  <2>3. Orderly <=> Orderly'
    BY Zenon, <1>7 DEF EnsureFails, Fails, Orderly
  <2> QED BY Zenon, <2>1, <2>2, <2>3, LeftInst
<1>8. ASSUME NEW p \in Plugin, ShutdownPlugin(p) PROVE InstInv'
  <2>1. /\ venv' = venv /\ metadata' = metadata /\ built' = built /\ stale' = stale
        /\ declared' = declared /\ read' = read /\ outcome' = outcome /\ step' = step
        /\ (Orderly <=> Orderly')
    BY Zenon, <1>8 DEF ShutdownPlugin, history, Orderly
  <2> QED BY Zenon, <1>0, <1>a, <2>1, SettledKeeps
<1>9. ASSUME NEW p \in Plugin, Edit(p) PROVE InstInv'
  <2>1. Orderly <=> Orderly'
    BY Zenon, <1>9 DEF Edit, progress, history, Orderly
  <2> QED BY <1>0, <1>a, <1>9, <2>1, SettledKeeps DEF Edit, progress, history
<1>10. CASE UNCHANGED envVars
  BY Zenon, <1>0, <1>a, <1>10, SettledKeeps DEF envVars, files, progress, history, Orderly
<1> QED
  BY Zenon, <1>1, <1>2, <1>3, <1>4, <1>5, <1>6, <1>7, <1>8, <1>9, <1>10, EnsureInst, PrepareInst,
     CreateInst, StartsPipInst, PipEndsInst, ClaimInst, SaveInst, WrittenInst DEF EnvNext

\* A plugin that ensure() has passed has the requirements it read installed: no
\* failed, timed-out or skipped install counts (venv.rs 537-556, 723-812).  Exempt
\* is a plugin whose metadata outlived the directory, a build that did not complete
\* or a shutdown that met a respawn, and that has not been built for since.
THEOREM InstalledWhenReady == EnvSpec => []ReadyIsInstalled
<1>1. EnvInit => EnvInv /\ InstInv
  BY Zenon, InitEstablishes, InitInst
<1>2. EnvInv /\ InstInv /\ [EnvNext]_envVars => EnvInv' /\ InstInv'
  BY Zenon, StepPreserves, StepInst
<1>3. InstInv => ReadyIsInstalled
  BY Zenon DEF InstInv, Installed, Unfollowed, ReadyIsInstalled, Has
<1> QED BY <1>1, <1>2, <1>3, PTL DEF EnvSpec

\* ensure() builds for a plugin only if there is no directory, or its files are not
\* those it was last built for, or that build did not complete (venv.rs 207-245,
\* 337-350).
THEOREM BuildsOnlyWhenNeeded == EnvSpec => NoThrash
<1> DEFINE Needed ==
      \A p \in Plugin : step[p] = "ensure" /\ step'[p] = "prepare" =>
        ~venv.exists \/ built[p] # declared[p]
<1>1. EnvInit => EnvInv /\ InstInv
  BY Zenon, InitEstablishes, InitInst
<1>2. EnvInv /\ InstInv /\ [EnvNext]_envVars => EnvInv' /\ InstInv'
  BY Zenon, StepPreserves, StepInst
<1>3. EnvInv /\ InstInv /\ [EnvNext]_envVars => [Needed]_envVars
  <2> SUFFICES ASSUME EnvInv, InstInv, [EnvNext]_envVars, NEW p \in Plugin,
                      step[p] = "ensure", step'[p] = "prepare", venv.exists, built[p] = declared[p]
               PROVE  FALSE
    BY Zenon
  <2>1. Rebuilds(p)
    <3>1. step \in [Plugin -> Steps]
      BY Zenon DEF EnvInv, Shape
    <3> USE DEF GoesTo, Done, Fails
    <3>2. step' # step
      BY Zenon
    <3>3. EnvNext
      BY Zenon, <3>2 DEF envVars, progress
    <3>4. CASE Start \/ Started \/ ShutdownAll \/ Released \/ Stopped \/ RemovesVenv
      BY Zenon, <3>2, <3>4 DEF Start, Started, ShutdownAll, Released, Stopped, RemovesVenv, progress
    <3>5. CASE Crash \/ Exits
      <4>1. step'[p] = "idle"
        BY Zenon, <3>5 DEF Crash, Exits, HostEnds
      <4> QED BY <4>1
    <3>6. ASSUME NEW q \in Plugin, InitializePlugin(q) \/ ChildDies(q) \/ RespawnsDead(q) PROVE FALSE
      BY <3>1, <3>6 DEF InitializePlugin, ChildDies, RespawnsDead
    <3>7. ASSUME NEW q \in Plugin, Ensure(q) PROVE Rebuilds(p)
      BY <3>1, <3>7 DEF Ensure, Reuses, Rebuilds
    <3>8. ASSUME NEW q \in Plugin, PrepareDirectories(q) \/ CreateVenv(q) \/ StartsPip(q) \/ PipEnds(q)
          PROVE  FALSE
      BY <3>1, <3>8 DEF PrepareDirectories, CreateVenv, StartsPip, PipEnds
    <3>9. ASSUME NEW q \in Plugin, RegisterOwner(q) \/ OwnersWritten(q) \/ SaveMetadata(q) \/ MetadataWritten(q)
          PROVE  FALSE
      BY <3>1, <3>9 DEF RegisterOwner, OwnersWritten, AfterClaim, SaveMetadata, MetadataWritten
    <3>10. ASSUME NEW q \in Plugin, Launch(q) \/ EnsureFails(q) PROVE FALSE
      BY <3>1, <3>10 DEF Launch, EnsureFails
    <3>11. ASSUME NEW q \in Plugin, ShutdownPlugin(q) \/ Edit(q) PROVE FALSE
      BY Zenon, <3>2, <3>11 DEF ShutdownPlugin, Edit, progress
    <3> QED BY Zenon, <3>3, <3>4, <3>5, <3>6, <3>7, <3>8, <3>9, <3>10, <3>11 DEF EnvNext
  <2>2. declared[p] \in Declared /\ built[p] # NoMetadata
    BY Zenon, DeclaredIsSome DEF InstInv, FileTypes
  <2>3. Valid(p)
    BY Zenon, <2>2 DEF InstInv, Truthful, Valid
  <2> QED BY Zenon, <2>1, <2>3 DEF Rebuilds
<1> QED BY <1>1, <1>2, <1>3, PTL DEF EnvSpec, NoThrash
=============================================================================
