------------------------ MODULE RegistryRestoreProofs ------------------------
(***************************************************************************)
(* What a crash and restore leave of a container, for any containers,      *)
(* names and goroutines and any number of errors and crashes: none is left *)
(* out, a dead one is never started, one that runs has a process, and what *)
(* is gone has left nothing behind.                                        *)
(*                                                                         *)
(* Every step but a crash is about one container.  LocalKeeps shows that   *)
(* it keeps what RegistryInv says of the others; a lemma per action shows  *)
(* it for the container the step is about.                                 *)
(***************************************************************************)
EXTENDS ContainerRegistryProofs

\* What RegistryInv says of one container.
Ok(c) ==
    /\ OnDisk(c) /\ Claimed(c) /\ ProcessOk(c)
    /\ c \notin orphans => DeadOk(c) /\ LeftOk(c)

\* The step is about the container c.
Local(c) ==
    /\ \A d \in Ids \ {c} :
         /\ d \in containers' <=> d \in containers
         /\ d \in dead' <=> d \in dead
         /\ d \in running' <=> d \in running
         /\ d \in RemovalInProgress' <=> d \in RemovalInProgress
         /\ d \in RWLayer' <=> d \in RWLayer
         /\ d \in reap' <=> d \in reap
         /\ d \in layers' <=> d \in layers
         /\ d \in alive' <=> d \in alive
         /\ d \in event' <=> d \in event
         /\ d \in used' <=> d \in used
         /\ d \in lost' <=> d \in lost
         /\ boot'[d] = boot[d] /\ Name'[d] = Name[d] /\ disk'[d] = disk[d]
    /\ \A b \in Actors : act'[b] = act[b] \/ {act[b].id, act'[b].id} \subseteq {None, c}
    /\ loose \subseteq loose' /\ orphans \subseteq orphans'
    /\ \A n \in Names \ loose' :
         names'[n] = names[n] \/ {names[n], names'[n]} \subseteq {None, c}
    /\ \A n \in Names \ loose' :
         names'[n] = c => names[n] = c \/ Up \/ (boot[c] = "load" /\ n = disk[c].name)
    /\ boot'[c] = "load" => boot[c] = "load" /\ disk'[c] = disk[c]

\* A step about one container keeps the invariant if it does for that container.
LEMMA LocalKeeps ==
    ASSUME RegistryInv, NamesInv', NEW c \in Ids, Local(c), Ok(c)',
           \A a \in Actors : Client(a)' => Client(a) \/ Up,
           Up => boot'[c] \in {"none", "done", "skipped"}
    PROVE  RegistryInv'
<1>c. ASSUME NEW a \in Actors PROVE (Client(a) => Up)'
  <2>1. Client(a)' => Up
    BY Zenon DEF RegistryInv
  <2>2. Up => Up'
    BY Zenon DEF Local, Up
  <2> QED
    BY <2>1, <2>2, Zenon
<1> SUFFICES ASSUME NEW d \in Ids \ {c}
             PROVE  Ok(d)'
  BY <1>c, Zenon DEF RegistryInv, Ok
<1>0. /\ OnDisk(d) /\ Claimed(d) /\ ProcessOk(d) /\ (d \notin orphans => DeadOk(d) /\ LeftOk(d))
      /\ TypeOK /\ TypeOK' /\ d # None
  BY RegistryAssumption, Zenon DEF RegistryInv, NamesInv
<1>1. \A b \in Actors : /\ act'[b].id = d <=> act[b].id = d
                        /\ act[b].id = d => act'[b] = act[b]
  BY <1>0, Zenon DEF Local
<1>f. /\ d \in containers' <=> d \in containers
      /\ d \in dead' <=> d \in dead
      /\ d \in running' <=> d \in running
      /\ d \in RemovalInProgress' <=> d \in RemovalInProgress
      /\ d \in RWLayer' <=> d \in RWLayer
      /\ d \in reap' <=> d \in reap
      /\ d \in layers' <=> d \in layers
      /\ d \in alive' <=> d \in alive
      /\ d \in event' <=> d \in event
      /\ d \in used' <=> d \in used
      /\ d \in lost' <=> d \in lost
      /\ boot'[d] = boot[d] /\ Name'[d] = Name[d] /\ disk'[d] = disk[d]
  BY Zenon DEF Local
<1>2. /\ \A b \in Actors : act[b].id = d =>
            /\ Creating(b)' <=> Creating(b)
            /\ Removing(b)' <=> Removing(b)
            /\ Renaming(b)' <=> Renaming(b)
      /\ \A b \in Actors : Saving(b, d)' <=> Saving(b, d)
      /\ \A b \in Actors : InRm(b, d)' <=> InRm(b, d)
      /\ Starting(d)' <=> Starting(d)
      /\ Loaded(d)' <=> Loaded(d)
      /\ d \notin orphans' => d \notin orphans
      /\ FailedCreate(d) => FailedCreate(d)'
  BY <1>0, <1>1, <1>f, Zenon DEF Local, FailedCreate, Creating, Removing, Renaming, Saving, InRm, Starting, Loaded
<1>3. SavedOk(d)'
  <2>n. PICK n : n = disk[d].name
    BY Zenon
  <2> SUFFICES ASSUME Loaded(d), n \notin loose'
               PROVE  (IF boot[d] = "load"
                       THEN names[n] = None /\ \A e \in Ids \ {d} : boot[e] = "load" => disk[e].name # n
                       ELSE /\ d \in containers \/ FailedCreate(d)
                            /\ names[n] = d
                            /\ \/ n = Name[d] /\ \A a \in Actors : ~Saving(a, d)
                               \/ \E a \in Actors : Saving(a, d) /\ act[a].name = n)'
    BY <1>2, <2>n, Zenon DEF SavedOk, Local, FailedCreate
  <2>1. n \notin loose /\ n \in Names /\ SavedOk(d) /\ boot'[d] = boot[d] /\ disk'[d] = disk[d]
    BY <1>0, <2>n, Zenon DEF Local, OnDisk, Loaded, Saves, Reserved
  <2>2. CASE boot[d] = "load"
    <3>1. /\ names[n] = None
          /\ \A e \in Ids \ {d} : boot[e] = "load" => disk[e].name # n
      BY <2>n, <2>1, <2>2, Zenon DEF SavedOk, FailedCreate
    <3>2. ~Up
      BY <2>2, Zenon DEF Up
    <3>3. names'[n] # c
      BY <2>1, <3>1, <3>2, RegistryAssumption, Zenon DEF Local
    <3>4. names'[n] = None
      BY <2>1, <3>1, <3>3, Zenon DEF Local
    <3>5. \A e \in Ids \ {d} : boot'[e] = "load" => disk'[e].name # n
      BY <3>1, Zenon DEF Local
    <3> QED
      BY <2>1, <2>2, <3>4, <3>5, Zenon
  <2>3. CASE boot[d] # "load"
    <3>1. /\ d \in containers \/ FailedCreate(d)
          /\ names[n] = d
          /\ \/ n = Name[d] /\ \A a \in Actors : ~Saving(a, d)
             \/ \E a \in Actors : Saving(a, d) /\ act[a].name = n
      BY <2>n, <2>1, <2>3, Zenon DEF SavedOk
    <3>2. names'[n] = d /\ (d \in containers' \/ FailedCreate(d)') /\ Name'[d] = Name[d]
      BY <1>0, <1>2, <1>f, <2>1, <3>1, Zenon DEF Local
    <3>3. \/ n = Name'[d] /\ \A a \in Actors : ~Saving(a, d)'
          \/ \E a \in Actors : Saving(a, d)' /\ act'[a].name = n
      BY <1>1, <1>2, <3>1, <3>2, Zenon DEF Saving
    <3> QED
      BY <2>1, <2>3, <3>2, <3>3, Zenon
  <2> QED
    BY <2>2, <2>3, Zenon
<1>4. OnDisk(d)'
  <2>1. ASSUME NEW a \in Actors, act[a].id = d, Reserved(Name[d], d) PROVE Reserved(Name[d], d)'
    <3>1. Name[d] \in Names
      <4>1. ActOk(a) /\ IdOk(d)
        BY Zenon DEF RegistryInv, NamesInv
      <4>2. d \in used
        BY <1>0, <2>1, <4>1, Zenon DEF ActOk
      <4> QED
        BY <4>1, <4>2, Zenon DEF IdOk
    <3>2. loose \subseteq loose' /\ c # None
      BY RegistryAssumption, Zenon DEF Local
    <3>3. Name[d] \notin loose' =>
            \/ names'[Name[d]] = names[Name[d]]
            \/ {names[Name[d]], names'[Name[d]]} \subseteq {None, c}
      BY <3>1, Zenon DEF Local
    <3> QED
      BY <1>0, <1>f, <2>1, <3>2, <3>3, Zenon DEF Reserved
  <2> QED
    BY <1>0, <1>1, <1>2, <1>3, <1>f, <2>1, Zenon DEF OnDisk
<1>5. Claimed(d)' /\ ProcessOk(d)'
  <2>1. ASSUME NEW a \in Actors, act'[a].id = d
        PROVE  /\ Creating(a)' <=> act'[a].by = "create" /\ ~Removing(a)'
               /\ act'[a].by = "claim" => Removing(a)' /\ d \in RemovalInProgress'
               /\ act'[a].by = "claim" =>
                     \A b \in Actors : act'[b].id = d /\ act'[b].by = "claim" => b = a
    BY <1>0, <1>1, <1>2, <1>f, <2>1, Zenon DEF Claimed
  <2>2. ProcessOk(d)'
    BY <1>0, <1>1, <1>2, <1>f, Zenon DEF ProcessOk
  <2> QED
    BY <2>1, <2>2, Zenon DEF Claimed
<1>6. ASSUME d \notin orphans' PROVE DeadOk(d)'
  <2>0. DeadOk(d)
    BY <1>0, <1>2, <1>6, Zenon
  <2>1. ASSUME NEW a \in Actors, act'[a].id = d, Removing(a)'
        PROVE  /\ ~Starting(d)'
               /\ act'[a].pc # "cleanup" \/ act'[a].by = "create" => d \notin running'
               /\ act'[a].by = "create" => d \notin containers' /\ boot'[d] = "none"
               /\ act'[a].by = "rm" => d \in dead'
    BY <1>1, <1>2, <1>f, <2>0, <2>1, Zenon DEF DeadOk
  <2> QED
    BY <1>2, <1>f, <2>0, <2>1, Zenon DEF DeadOk
<1>7. ASSUME d \notin orphans' PROVE LeftOk(d)'
  <2>0. LeftOk(d)
    BY <1>0, <1>2, <1>7, Zenon
  <2>1. LayerOk(d)'
    BY <1>1, <1>2, <2>0, <1>f, Zenon DEF LeftOk, LayerOk
  <2>2. TracedOk(d)'
    <3>1. ASSUME NEW n \in Names \ loose', names'[n] = d PROVE n \notin loose /\ names[n] = d
      BY <1>0, <3>1, Zenon DEF Local
    <3>2. disk'[d] # NoDir => \/ d \in containers'
                              \/ Loaded(d)' /\ boot'[d] \in {"load", "skipped"}
                              \/ \E a \in Actors : act'[a].id = d /\ act'[a].by = "create"
                              \/ disk'[d] = EmptyDir /\ d \in lost'
      BY <1>1, <1>2, <1>f, <2>0, Zenon DEF LeftOk, TracedOk
    <3>3. ASSUME NEW n \in Names \ loose', names'[n] = d, d \notin containers'
          PROVE  \E a \in Actors : /\ act'[a].id = d
                                   /\ \/ act'[a].by = "create" \/ act'[a].pc = "names"
                                      \/ Renaming(a)' /\ n \in {Name'[d], act'[a].name}
      <4>1. PICK a \in Actors : /\ act[a].id = d
                                /\ \/ act[a].by = "create" \/ act[a].pc = "names"
                                   \/ Renaming(a) /\ n \in {Name[d], act[a].name}
        BY <1>f, <2>0, <3>1, <3>3, Zenon DEF LeftOk, TracedOk
      <4> QED
        BY <1>1, <1>2, <1>f, <4>1, Zenon
    <3> QED
      BY <3>2, <3>3, Zenon DEF TracedOk
  <2>3. ASSUME NEW a \in Actors, act'[a].id = d, Removing(a)' PROVE Alone(a, d)'
    <3>1. Alone(a, d) /\ act'[a] = act[a]
      BY <1>1, <1>2, <2>0, <2>3, Zenon DEF LeftOk
    <3> QED
      BY <1>1, <1>2, <3>1, <1>f, Zenon DEF Alone
  <2>4. boot'[d] \in {"load", "sync", "remove"} => OneRemoval(d)'
    <3>1. boot'[d] \in {"load", "sync", "remove"} => OneRemoval(d)
      BY <2>0, <1>f, Zenon DEF LeftOk
    <3> QED
      BY <1>2, <3>1, <1>f, Zenon DEF OneRemoval
  <2> QED
    BY <2>1, <2>2, <2>3, <2>4, Zenon DEF LeftOk
<1> QED
  BY <1>4, <1>5, <1>6, <1>7, Zenon DEF Ok

-----------------------------------------------------------------------------
(* Steps without a goroutine *)

\* A process ends.
LEMMA TaskExitOk ==
    ASSUME RegistryInv, NamesInv', NEW c \in Ids, TaskExit(c)
    PROVE  RegistryInv'
<1>0. Ok(c)
  BY Zenon DEF RegistryInv, Ok
<1>1. /\ UNCHANGED <<containers, names, Name, dead, running, RemovalInProgress, RWLayer, lock,
                     reap, act, boot, disk, layers, used, orphans, loose, lost>>
      /\ c \in alive /\ c \notin alive' /\ c \in event'
      /\ alive' = alive \ {c} /\ event' = event \cup {c}
  BY Zenon DEF TaskExit, memVars, histVars
<1>2. Local(c)
  BY <1>1, Zenon DEF Local
<1>3. OnDisk(c)' /\ Claimed(c)'
  <2>1. OnDisk(c)'
    BY <1>0, <1>1, Zenon DEF Ok, OnDisk, SavedOk, Loaded, Creating, Saving, FailedCreate, Reserved
  <2>2. Claimed(c)'
    BY <1>0, <1>1, Zenon DEF Ok, Claimed, Creating, Removing
  <2> QED
    BY <2>1, <2>2, Zenon
<1>4. ProcessOk(c)'
  BY <1>0, <1>1, Zenon DEF Ok, ProcessOk, Creating
<1>5. ASSUME c \notin orphans PROVE DeadOk(c)'
  BY <1>0, <1>1, <1>5, Zenon DEF Ok, DeadOk, Loaded, Starting, Removing
<1>6. ASSUME c \notin orphans PROVE LeftOk(c)'
  <2>1. LayerOk(c)' /\ TracedOk(c)'
    BY <1>0, <1>1, <1>6, Zenon DEF Ok, LeftOk, LayerOk, TracedOk, Loaded, Renaming
  <2>2. \A a \in Actors : (act[a].id = c /\ Removing(a) => Alone(a, c))'
    BY <1>0, <1>1, <1>6, Zenon DEF Ok, LeftOk, Alone, Removing, InRm
  <2>3. (boot[c] \in {"load", "sync", "remove"} => OneRemoval(c))'
    BY <1>0, <1>1, <1>6, Zenon DEF Ok, LeftOk, OneRemoval, Removing, InRm
  <2> QED
    BY <2>1, <2>2, <2>3, Zenon DEF LeftOk
<1>7. /\ \A a \in Actors : Client(a)' => Client(a) \/ Up
      /\ Up => boot'[c] \in {"none", "done", "skipped"}
  BY <1>1, Zenon DEF Client, Creating, Renaming, Up
<1> QED
  BY <1>1, <1>2, <1>3, <1>4, <1>5, <1>6, <1>7, LocalKeeps, Zenon DEF Ok

\* autoRemove finds nothing to do.
LEMMA ReapGoneOk ==
    ASSUME RegistryInv, NamesInv', NEW c \in Ids, ReapGone(c)
    PROVE  RegistryInv'
<1>0. Ok(c)
  BY Zenon DEF RegistryInv, Ok
<1>1. /\ UNCHANGED <<containers, names, Name, dead, running, RemovalInProgress, RWLayer, lock,
                     act, boot, disk, layers, alive, event, used, orphans, loose, lost>>
      /\ c \notin reap' /\ reap' = reap \ {c}
  BY Zenon DEF ReapGone, memVars, diskVars, histVars
<1>2. Local(c)
  BY <1>1, Zenon DEF Local
<1>3. OnDisk(c)'
  BY <1>0, <1>1, Zenon DEF Ok, OnDisk, SavedOk, Loaded, Creating, Saving, FailedCreate, Reserved
<1>4. Claimed(c)' /\ ProcessOk(c)'
  BY <1>0, <1>1, Zenon DEF Ok, Claimed, ProcessOk, Creating, Removing
<1>5. ASSUME c \notin orphans PROVE DeadOk(c)'
  BY <1>0, <1>1, <1>5, Zenon DEF Ok, DeadOk, Loaded, Starting, Removing
<1>6. ASSUME c \notin orphans PROVE LeftOk(c)'
  <2>1. LayerOk(c)' /\ TracedOk(c)'
    BY <1>0, <1>1, <1>6, Zenon DEF Ok, LeftOk, LayerOk, TracedOk, Loaded, Renaming
  <2>2. \A a \in Actors : (act[a].id = c /\ Removing(a) => Alone(a, c))'
    BY <1>0, <1>1, <1>6, Zenon DEF Ok, LeftOk, Alone, Removing, InRm
  <2>3. (boot[c] \in {"load", "sync", "remove"} => OneRemoval(c))'
    BY <1>0, <1>1, <1>6, Zenon DEF Ok, LeftOk, OneRemoval, Removing, InRm
  <2> QED
    BY <2>1, <2>2, <2>3, Zenon DEF LeftOk
<1>7. /\ \A a \in Actors : Client(a)' => Client(a) \/ Up
      /\ Up => boot'[c] \in {"none", "done", "skipped"}
  BY <1>1, Zenon DEF Client, Creating, Renaming, Up
<1> QED
  BY <1>1, <1>2, <1>3, <1>4, <1>5, <1>6, <1>7, LocalKeeps, Zenon DEF Ok

\* restore moves a container on: it gives up on it, or finds nothing to start.
LEMMA BootMovesOn ==
    ASSUME RegistryInv, NamesInv', NEW c \in Ids, BootSyncError(c) \/ BootNoStart(c)
    PROVE  RegistryInv'
<1>0. Ok(c) /\ TypeOK
  BY Zenon DEF RegistryInv, NamesInv, Ok
<1>1. /\ UNCHANGED <<containers, names, Name, dead, running, RemovalInProgress, RWLayer, lock,
                     reap, act, disk, layers, alive, event, used, orphans, loose, lost>>
      /\ \A d \in Ids \ {c} : boot'[d] = boot[d]
      /\ boot[c] \in {"sync", "restart"} /\ boot'[c] \in {"done", "skipped"}
      /\ boot[c] = "sync" => boot'[c] = "skipped"
  BY <1>0, Zenon DEF BootSyncError, BootNoStart, memVars, diskVars, histVars, TypeOK
<1>2. Local(c)
  BY <1>1, Zenon DEF Local
<1>3. OnDisk(c)'
  <2>1. SavedOk(c)'
    BY <1>0, <1>1, Zenon DEF Ok, OnDisk, SavedOk, Loaded, Saving, FailedCreate, Reserved
  <2> QED
    BY <1>0, <1>1, <2>1, Zenon DEF Ok, OnDisk, Creating, Reserved
<1>4. Claimed(c)' /\ ProcessOk(c)'
  BY <1>0, <1>1, Zenon DEF Ok, Claimed, ProcessOk, Creating, Removing
<1>5. ASSUME c \notin orphans PROVE DeadOk(c)'
  BY <1>0, <1>1, <1>5, Zenon DEF Ok, DeadOk, Loaded, Starting, Removing
<1>6. ASSUME c \notin orphans PROVE LeftOk(c)'
  <2>1. LayerOk(c)' /\ TracedOk(c)'
    BY <1>0, <1>1, <1>6, Zenon DEF Ok, LeftOk, LayerOk, TracedOk, Loaded, Renaming
  <2>2. \A a \in Actors : (act[a].id = c /\ Removing(a) => Alone(a, c))'
    BY <1>0, <1>1, <1>6, Zenon DEF Ok, LeftOk, Alone, Removing, InRm
  <2> QED
    BY <1>1, <2>1, <2>2, Zenon DEF LeftOk
<1>7. /\ \A a \in Actors : Client(a)' => Client(a) \/ Up
      /\ Up => boot'[c] \in {"none", "done", "skipped"}
  BY <1>1, Zenon DEF Client, Creating, Renaming, Up
<1> QED
  BY <1>1, <1>2, <1>3, <1>4, <1>5, <1>6, <1>7, LocalKeeps, Zenon DEF Ok

\* GetLayerByID fails: the layer has nobody any more.
LEMMA BootNoLayerOk ==
    ASSUME RegistryInv, NamesInv', NEW c \in Ids, BootNoLayer(c)
    PROVE  RegistryInv'
<1>0. Ok(c)
  BY Zenon DEF RegistryInv, Ok
<1>1. /\ UNCHANGED <<containers, names, Name, dead, running, RemovalInProgress, RWLayer, lock,
                     reap, act, boot, disk, layers, alive, event, used, orphans, loose>>
      /\ lost' = lost \cup {c}
  BY Zenon DEF BootNoLayer, memVars, diskVars
<1>2. Local(c)
  BY <1>1, Zenon DEF Local
<1>3. OnDisk(c)'
  BY <1>0, <1>1, Zenon DEF Ok, OnDisk, SavedOk, Loaded, Creating, Saving, FailedCreate, Reserved
<1>4. Claimed(c)' /\ ProcessOk(c)'
  BY <1>0, <1>1, Zenon DEF Ok, Claimed, ProcessOk, Creating, Removing
<1>5. ASSUME c \notin orphans PROVE DeadOk(c)'
  BY <1>0, <1>1, <1>5, Zenon DEF Ok, DeadOk, Loaded, Starting, Removing
<1>6. ASSUME c \notin orphans PROVE LeftOk(c)'
  <2>1. LayerOk(c)' /\ TracedOk(c)'
    BY <1>0, <1>1, <1>6, Zenon DEF Ok, LeftOk, LayerOk, TracedOk, Loaded, Renaming
  <2>2. \A a \in Actors : (act[a].id = c /\ Removing(a) => Alone(a, c))'
    BY <1>0, <1>1, <1>6, Zenon DEF Ok, LeftOk, Alone, Removing, InRm
  <2>3. (boot[c] \in {"load", "sync", "remove"} => OneRemoval(c))'
    BY <1>0, <1>1, <1>6, Zenon DEF Ok, LeftOk, OneRemoval, Removing, InRm
  <2> QED
    BY <2>1, <2>2, <2>3, Zenon DEF LeftOk
<1>7. /\ \A a \in Actors : Client(a)' => Client(a) \/ Up
      /\ Up => boot'[c] \in {"none", "done", "skipped"}
  BY <1>1, Zenon DEF Client, Creating, Renaming, Up
<1> QED
  BY <1>1, <1>2, <1>3, <1>4, <1>5, <1>6, <1>7, LocalKeeps, Zenon DEF Ok

-----------------------------------------------------------------------------
(* Steps that save a container *)

\* What is in config.v2.json once it is replaced.
LEMMA WriteWhat ==
    ASSUME TypeOK, NEW c \in Ids, NEW n \in Names, WrittenAs(c, n)
    PROVE  /\ Loaded(c)' /\ disk'[c].name = n
           /\ disk'[c].dead = "yes" <=> c \in dead'
           /\ disk'[c].running = "no" <=> c \notin running'
<1> DEFINE r == [name |-> n, dead |-> YesNo(c \in dead'), running |-> YesNo(c \in running')]
<1>1. /\ r \in Saves /\ r.name = n
      /\ r.dead = "yes" <=> c \in dead'
      /\ r.running = "no" <=> c \notin running'
  BY Zenon DEF Saves, YesNo
<1>2. disk' = [disk EXCEPT ![c] = r]
  BY Zenon DEF WrittenAs
<1> HIDE DEF r
<1>3. disk'[c] = r
  BY <1>2, Zenon DEF TypeOK
<1> QED
  BY <1>1, <1>3, Zenon DEF Loaded

\* What CheckpointTo leaves on disk.
LEMMA SaveWrites ==
    ASSUME TypeOK, NEW c \in Ids, Name'[c] \in Names, TrySave(c)
    PROVE  /\ \A d \in Ids \ {c} : disk'[d] = disk[d]
           /\ disk'[c] = NoDir <=> disk[c] = NoDir
           /\ Loaded(c) => Loaded(c)'
           /\ \/ disk'[c] = disk[c]
              \/ /\ disk[c] # NoDir /\ Loaded(c)' /\ disk'[c].name = Name'[c]
                 /\ disk'[c].dead = "yes" <=> c \in dead'
                 /\ disk'[c].running = "no" <=> c \notin running'
<1>1. /\ \A d \in Ids \ {c} : disk'[d] = disk[d]
      /\ disk'[c] = NoDir <=> disk[c] = NoDir
      /\ Loaded(c) => Loaded(c)'
  <2>1. \A d \in Ids \ {c} : disk'[d] = disk[d]
    BY Zenon DEF TrySave, Saved, NotSaved, Written, WrittenAs, TypeOK
  <2> QED
    BY <2>1, TrySaveKeeps, Zenon DEF Loaded
<1>2. CASE Saved(c)
  BY <1>1, <1>2, WriteWhat, Zenon DEF Saved, Written
<1>3. CASE NotSaved(c)
  BY <1>1, <1>3, Zenon DEF NotSaved
<1> QED
  BY <1>2, <1>3, Zenon DEF TrySave

\* A container that is saved under the name it has.
LEMMA ResaveOk ==
    ASSUME RegistryInv, NEW c \in Ids, UNCHANGED <<names, loose, containers>>, Name'[c] = Name[c],
           disk'[c] = disk[c] \/ (disk[c] # NoDir /\ disk'[c].name = Name[c]),
           Loaded(c)' => disk'[c] # NoDir, disk'[c] = NoDir <=> disk[c] = NoDir,
           c \in containers \/ disk[c] = NoDir \/ (FailedCreate(c)' /\ Reserved(Name[c], c)),
           boot[c] # "load", boot'[c] # "load",
           \A a \in Actors : ~Saving(a, c) /\ ~Saving(a, c)'
    PROVE  SavedOk(c)'
<1>1. SavedOk(c) /\ (c \in containers => Name[c] \in loose \/ names[Name[c]] = c)
  BY Zenon DEF RegistryInv, OnDisk, NamesInv, OwnsItsName, Reserved
<1>2. CASE disk'[c] = disk[c]
  BY <1>1, <1>2, Zenon DEF SavedOk, Loaded
<1>3. CASE disk[c] # NoDir /\ disk'[c].name = Name[c]
  BY <1>1, <1>3, Zenon DEF SavedOk, Loaded, Reserved
<1> QED
  BY <1>2, <1>3, Zenon

\* Nobody renames or starts a container whose lock is free.
LEMMA LockFree ==
    ASSUME RegistryInv, NEW c \in Ids, lock[c] = None
    PROVE  /\ ~Starting(c)
           /\ \A a \in Actors : ~Saving(a, c)
           /\ \A a \in Actors : act[a].id = c => act[a].pc # "started" /\ ~Renaming(a)
<1>1. None \notin Actors /\ \A a \in Actors : ActOk(a)
  BY RegistryAssumption, Zenon DEF RegistryInv, NamesInv
<1>2. \A a \in Actors : act[a].id = c => act[a].pc # "started" /\ ~Renaming(a)
  <2>1. \A a \in Actors : act[a].pc = "started" \/ Renaming(a) => lock[act[a].id] = a
    BY <1>1, Zenon DEF ActOk
  <2> QED
    BY <1>1, <2>1
<1>3. ~Starting(c)
  BY <1>2, Zenon DEF Starting
<1>4. \A a \in Actors : ~Saving(a, c)
  BY <1>2, Zenon DEF Saving, Renaming
<1> QED
  BY <1>2, <1>3, <1>4, Zenon

\* What is known of a container.
LEMMA KnownOk ==
    ASSUME RegistryInv, NEW c \in Ids
    PROVE  /\ Ok(c) /\ IdOk(c) /\ TypeOK /\ c # None
           /\ \A a \in Actors : ActOk(a)
           /\ c \in containers \/ boot[c] # "none" => \A a \in Actors : act[a].id = c => ~Creating(a)
<1>1. Ok(c) /\ IdOk(c) /\ TypeOK /\ c # None /\ \A a \in Actors : ActOk(a)
  BY RegistryAssumption, Zenon DEF RegistryInv, NamesInv, Ok
<1> QED
  BY <1>1, ZenonT(60) DEF ActOk

\* handleContainerExit.
LEMMA HandleExitOk ==
    ASSUME RegistryInv, NamesInv', NEW c \in Ids, HandleExit(c)
    PROVE  RegistryInv'
<1>0. /\ Ok(c) /\ IdOk(c) /\ TypeOK
      /\ c \in containers \/ boot[c] # "none" => \A a \in Actors : act[a].id = c => ~Creating(a)
  BY KnownOk, Zenon
<1>1. /\ UNCHANGED <<containers, names, Name, dead, RemovalInProgress, RWLayer, lock,
                     act, boot, layers, alive, used, orphans, loose, lost>>
      /\ c \in event /\ c \notin event' /\ event' = event \ {c} /\ lock[c] = None
  BY Zenon DEF HandleExit, histVars
<1>2. \/ /\ c \in containers /\ c \notin alive /\ (c \in running \/ c \notin dead \cup RemovalInProgress)
         /\ running' = running \ {c} /\ TrySave(c)
         /\ reap' = IF c \in AutoRemoved THEN reap \cup {c} ELSE reap
      \/ /\ c \notin containers \/ c \in alive \/ c \notin running
         /\ UNCHANGED <<running, reap, disk>>
  BY Zenon DEF HandleExit
<1>3. CASE /\ c \notin containers \/ c \in alive \/ c \notin running
           /\ UNCHANGED <<running, reap, disk>>
  <2>2. Local(c)
    BY <1>1, <1>3, Zenon DEF Local
  <2>3. OnDisk(c)'
    BY <1>0, <1>1, <1>3, Zenon DEF Ok, OnDisk, SavedOk, Loaded, Creating, Saving, FailedCreate, Reserved
  <2>4. Claimed(c)'
    BY <1>0, <1>1, <1>3, Zenon DEF Ok, Claimed, Creating, Removing
  <2>p. ProcessOk(c)'
    <3>1. \A a \in Actors : act[a].id = c => act[a].pc # "started"
      BY <1>1, LockFree, Zenon
    <3> QED
      BY <1>0, <1>1, <1>3, <3>1, Zenon DEF Ok, ProcessOk, Creating
  <2>5. ASSUME c \notin orphans PROVE DeadOk(c)'
    BY <1>0, <1>1, <1>3, <2>5, Zenon DEF Ok, DeadOk, Loaded, Starting, Removing
  <2>6. ASSUME c \notin orphans PROVE LeftOk(c)'
    <3>1. LayerOk(c)' /\ TracedOk(c)'
      BY <1>0, <1>1, <1>3, <2>6, Zenon DEF Ok, LeftOk, LayerOk, TracedOk, Loaded, Renaming
    <3>2. \A a \in Actors : (act[a].id = c /\ Removing(a) => Alone(a, c))'
      BY <1>0, <1>1, <1>3, <2>6, Zenon DEF Ok, LeftOk, Alone, Removing, InRm
    <3>3. (boot[c] \in {"load", "sync", "remove"} => OneRemoval(c))'
      BY <1>0, <1>1, <1>3, <2>6, Zenon DEF Ok, LeftOk, OneRemoval, Removing, InRm
    <3> QED
      BY <3>1, <3>2, <3>3, Zenon DEF LeftOk
  <2>7. /\ \A a \in Actors : Client(a)' => Client(a) \/ Up
        /\ Up => boot'[c] \in {"none", "done", "skipped"}
    BY <1>1, Zenon DEF Client, Creating, Renaming, Up
  <2> QED
    BY <1>1, <2>2, <2>3, <2>4, <2>p, <2>5, <2>6, <2>7, LocalKeeps, Zenon DEF Ok
<1>4. CASE /\ c \in containers /\ c \notin alive /\ (c \in running \/ c \notin dead \cup RemovalInProgress)
           /\ running' = running \ {c} /\ TrySave(c)
           /\ reap' = IF c \in AutoRemoved THEN reap \cup {c} ELSE reap
  <2>0. /\ Name[c] \in Names /\ boot[c] # "load" /\ c \notin running'
        /\ \A a \in Actors : ~Saving(a, c) /\ (act[a].id = c => act[a].pc # "started" /\ ~Creating(a))
    BY <1>0, <1>1, <1>4, LockFree, Zenon DEF IdOk
  <2>1. /\ \A d \in Ids \ {c} : disk'[d] = disk[d]
        /\ disk'[c] = NoDir <=> disk[c] = NoDir
        /\ Loaded(c) => Loaded(c)'
        /\ \/ disk'[c] = disk[c]
           \/ /\ disk[c] # NoDir /\ Loaded(c)' /\ disk'[c].name = Name[c]
              /\ disk'[c].dead = "yes" <=> c \in dead
              /\ disk'[c].running = "no"
    BY <1>0, <1>1, <1>4, <2>0, SaveWrites, Zenon
  <2>2. Local(c)
    BY <1>1, <1>4, <2>0, <2>1, Zenon DEF Local
  <2>3. OnDisk(c)'
    <3>1. SavedOk(c)'
      <4>1. \A a \in Actors : ~Saving(a, c) /\ ~Saving(a, c)'
        BY <1>1, <2>0, Zenon DEF Saving
      <4>2. Loaded(c)' => disk'[c] # NoDir
        BY RegistryAssumption, Zenon DEF Loaded, Saves
      <4> QED
        BY <1>1, <1>4, <2>0, <2>1, <4>1, <4>2, ResaveOk, Zenon
    <3> QED
      BY <1>0, <1>1, <1>4, <2>0, <2>1, <3>1, Zenon DEF Ok, OnDisk, Creating, Reserved
  <2>4. Claimed(c)'
    BY <1>0, <1>1, Zenon DEF Ok, Claimed, Creating, Removing
  <2>p. ProcessOk(c)'
    BY <1>0, <1>1, <2>0, Zenon DEF Ok, ProcessOk, Creating
  <2>5. ASSUME c \notin orphans PROVE DeadOk(c)'
    BY <1>0, <1>1, <2>0, <2>1, <2>5, Zenon DEF Ok, DeadOk, Loaded, Starting, Removing
  <2>6. ASSUME c \notin orphans PROVE LeftOk(c)'
    <3>0. LeftOk(c) /\ DeadOk(c) /\ c \notin dead
      BY <1>0, <1>4, <2>6, Zenon DEF Ok, DeadOk
    <3>1. LayerOk(c)' /\ TracedOk(c)'
      BY <1>1, <1>4, <2>1, <3>0, Zenon DEF LeftOk, LayerOk, TracedOk, Renaming
    <3>2. ASSUME NEW a \in Actors, act'[a].id = c, Removing(a)' PROVE Alone(a, c)'
      <4>1. Alone(a, c) /\ act[a].by # "rm"
        BY <1>1, <3>0, <3>2, Zenon DEF LeftOk, DeadOk, Removing
      <4> QED
        BY <1>1, <4>1, Zenon DEF Alone, Removing, InRm
    <3>3. boot[c] \in {"load", "sync", "remove"} => OneRemoval(c)'
      <4>1. boot[c] \in {"load", "sync", "remove"} => OneRemoval(c)
        BY <3>0, Zenon DEF LeftOk
      <4> QED
        BY <1>1, <1>4, <2>0, <3>0, <4>1, Zenon DEF OneRemoval, Removing, InRm
    <3> QED
      BY <1>1, <3>1, <3>2, <3>3, Zenon DEF LeftOk
  <2>7. /\ \A a \in Actors : Client(a)' => Client(a) \/ Up
        /\ Up => boot'[c] \in {"none", "done", "skipped"}
    BY <1>1, Zenon DEF Client, Creating, Renaming, Up
  <2> QED
    BY <1>1, <2>2, <2>3, <2>4, <2>p, <2>5, <2>6, <2>7, LocalKeeps, Zenon DEF Ok
<1> QED
  BY <1>2, <1>3, <1>4, Zenon

\* What containerd says of a task is taken over, and restore's lists are made.
LEMMA ListedBoot ==
    ASSUME TypeOK, NEW c \in Ids, NEW isAlive \in BOOLEAN, Listed(c, isAlive)
    PROVE  /\ boot'[c] \in {"restart", "done", "remove"}
           /\ boot'[c] = "remove" => ~isAlive
           /\ \A d \in Ids \ {c} : boot'[d] = boot[d]
<1>1. PICK b \in {"restart", "done", "remove"} :
          boot' = [boot EXCEPT ![c] = b] /\ (b = "remove" => ~isAlive)
  BY Zenon DEF Listed
<1> QED
  BY <1>1, Zenon DEF TypeOK

\* The second loop of restore.
LEMMA BootSyncOk ==
    ASSUME RegistryInv, NamesInv', NEW c \in Ids, BootSync(c) \/ BootStatusError(c)
    PROVE  RegistryInv'
<1>0. /\ Ok(c) /\ IdOk(c) /\ TypeOK
      /\ c \in containers \/ boot[c] # "none" => \A a \in Actors : act[a].id = c => ~Creating(a)
  BY KnownOk, Zenon
<1>1. /\ UNCHANGED <<containers, names, Name, dead, RemovalInProgress, RWLayer, lock,
                     act, layers, event, used, orphans, loose, lost>>
      /\ lock[c] = None /\ boot[c] = "sync"
  BY Zenon DEF BootSync, BootStatusError, histVars
<1>2. /\ boot'[c] \in {"restart", "done", "remove"}
      /\ \A d \in Ids \ {c} : boot'[d] = boot[d]
  <2>1. CASE BootSync(c)
    <3>1. PICK b \in BOOLEAN : b = IsAlive(c)
      BY Zenon DEF IsAlive
    <3> QED
      BY <1>0, <2>1, <3>1, ListedBoot, Zenon DEF BootSync
  <2>2. CASE BootStatusError(c)
    BY <1>0, <2>2, ListedBoot, Zenon DEF BootStatusError
  <2> QED
    BY <2>1, <2>2, Zenon
<1>3. /\ Name[c] \in Names /\ (c \in containers \/ disk[c] = NoDir)
      /\ \A a \in Actors : ~Saving(a, c) /\ (act[a].id = c => act[a].pc # "started" /\ ~Creating(a))
  BY <1>0, <1>1, LockFree, Zenon DEF IdOk, Ok, OnDisk, Reserved
<1>4. /\ \A d \in Ids \ {c} : disk'[d] = disk[d]
      /\ disk'[c] = NoDir <=> disk[c] = NoDir
      /\ Loaded(c) => Loaded(c)'
      /\ \/ disk'[c] = disk[c]
         \/ /\ disk[c] # NoDir /\ Loaded(c)' /\ disk'[c].name = Name[c]
            /\ disk'[c].dead = "yes" <=> c \in dead
            /\ disk'[c].running = "no" <=> c \notin running'
  <2>1. CASE BootSync(c)
    BY <1>0, <1>1, <1>3, <2>1, SaveWrites, Zenon DEF BootSync
  <2>2. CASE BootStatusError(c)
    <3>1. CASE disk' = disk
      BY <3>1, Zenon DEF Loaded
    <3>2. CASE disk[c] # NoDir /\ Written(c)
      <4> DEFINE r == [name |-> Name'[c], dead |-> YesNo(c \in dead'),
                       running |-> YesNo(c \in running')]
      <4>0. NoDir \notin Saves
        BY RegistryAssumption, Zenon DEF Saves
      <4>1. /\ r \in Saves /\ r.name = Name[c]
            /\ r.dead = "yes" <=> c \in dead
            /\ r.running = "no" <=> c \notin running'
        BY <1>1, <1>3, Zenon DEF Saves, YesNo
      <4>2. disk' = [disk EXCEPT ![c] = r]
        BY <3>2, Zenon DEF Written, WrittenAs
      <4> HIDE DEF r
      <4>3. disk'[c] = r /\ \A d \in Ids \ {c} : disk'[d] = disk[d]
        BY <1>0, <4>2, Zenon DEF TypeOK
      <4> QED
        BY <3>2, <4>0, <4>1, <4>3, Zenon DEF Loaded
    <3> QED
      BY <2>2, <3>1, <3>2, Zenon DEF BootStatusError
  <2> QED
    BY <2>1, <2>2, Zenon
<1>5. /\ \A d \in Ids \ {c} : /\ d \in running' <=> d \in running
                              /\ d \in alive' <=> d \in alive
                              /\ d \in reap' <=> d \in reap
      /\ c \in running' => c \in running /\ c \in alive'
      /\ c \in alive' => c \in alive
      /\ c \in reap' => c \in reap \/ (c \in running /\ c \in alive /\ c \notin alive' /\ c \notin running')
  BY Zenon DEF BootSync, BootStatusError, IsAlive
<1>6. Local(c)
  BY <1>1, <1>2, <1>4, <1>5, Zenon DEF Local
<1>7. OnDisk(c)'
  <2>1. SavedOk(c)'
    <3>1. \A a \in Actors : ~Saving(a, c) /\ ~Saving(a, c)'
      BY <1>1, <1>3, Zenon DEF Saving
    <3>2. Loaded(c)' => disk'[c] # NoDir
      BY RegistryAssumption, Zenon DEF Loaded, Saves
    <3> QED
      BY <1>1, <1>2, <1>3, <1>4, <3>1, <3>2, ResaveOk, Zenon
  <2> QED
    BY <1>0, <1>1, <1>3, <1>4, <2>1, Zenon DEF Ok, OnDisk, Creating, Reserved
<1>8. Claimed(c)'
  BY <1>0, <1>1, Zenon DEF Ok, Claimed, Creating, Removing
<1>9. ProcessOk(c)'
  BY <1>0, <1>1, <1>3, <1>5, Zenon DEF Ok, ProcessOk, Creating
<1>10. ASSUME c \notin orphans PROVE DeadOk(c)'
  BY <1>0, <1>1, <1>2, <1>3, <1>4, <1>5, <1>10, Zenon DEF Ok, DeadOk, Loaded, Starting, Removing
<1>11. ASSUME c \notin orphans PROVE LeftOk(c)'
  <2>0. LeftOk(c) /\ OneRemoval(c) /\ (c \in dead => c \notin running)
    BY <1>0, <1>1, <1>11, Zenon DEF Ok, DeadOk, LeftOk
  <2>1. LayerOk(c)' /\ TracedOk(c)'
    BY <1>1, <1>3, <1>4, <2>0, Zenon DEF LeftOk, LayerOk, TracedOk, Renaming
  <2>2. ASSUME NEW a \in Actors, act'[a].id = c, Removing(a)' PROVE Alone(a, c)'
    <3>1. Alone(a, c) /\ act[a].by # "rm"
      BY <1>1, <2>0, <2>2, Zenon DEF LeftOk, Alone, Removing
    <3> QED
      BY <1>1, <3>1, Zenon DEF Alone, Removing, InRm
  <2>3. OneRemoval(c)'
    BY <1>1, <1>2, <1>5, <2>0, Zenon DEF OneRemoval, Removing, InRm
  <2> QED
    BY <2>1, <2>2, <2>3, Zenon DEF LeftOk
<1>12. /\ \A a \in Actors : Client(a)' => Client(a) \/ Up
       /\ ~Up
  BY <1>1, Zenon DEF Client, Creating, Renaming, Up
<1> QED
  BY <1>1, <1>6, <1>7, <1>8, <1>9, <1>10, <1>11, <1>12, LocalKeeps, Zenon DEF Ok

\* The first loop of restore.
LEMMA BootRegisterOk ==
    ASSUME RegistryInv, NamesInv', NEW c \in Ids, BootRegister(c)
    PROVE  RegistryInv'
<1>0. /\ Ok(c) /\ TypeOK /\ c # None /\ boot[c] = "load" /\ Loaded(c) /\ c \notin containers
      /\ c \in used /\ \A a \in Actors : act[a].id # c
  BY KnownOk, Zenon DEF IdOk, BootRegister
<1>n. PICK n \in Names : n = disk[c].name
  BY <1>0, Zenon DEF Loaded, Saves
<1>1. /\ UNCHANGED <<RemovalInProgress, lock, reap, act, layers, alive, event, used, orphans, loose, lost>>
      /\ Name'[c] = n /\ \A d \in Ids \ {c} : Name'[d] = Name[d]
      /\ dead' = IF disk[c].dead = "yes" THEN dead \cup {c} ELSE dead
      /\ running' = IF disk[c].running = "yes" THEN running \cup {c} ELSE running
      /\ RWLayer' = IF c \in layers \ lost THEN RWLayer \cup {c} ELSE RWLayer
  BY <1>0, <1>n, Zenon DEF BootRegister, histVars, TypeOK
<1>2. \/ /\ Free(n, c) /\ names' = ReserveName(names, n, c) /\ containers' = containers \cup {c}
         /\ TrySave(c)
      \/ ~Free(n, c) /\ UNCHANGED <<names, containers, disk>> /\ boot'[c] = "skipped"
  BY <1>0, <1>n, Zenon DEF BootRegister, TrySave, TypeOK
<1>3. boot'[c] \in {"sync", "skipped"} /\ \A d \in Ids \ {c} : boot'[d] = boot[d]
  BY <1>0, Zenon DEF BootRegister, TypeOK
<1>4. /\ n \notin loose => names[n] = None
      /\ c \notin orphans => \A m \in Names \ loose : names[m] # c
  BY <1>0, <1>n, Zenon DEF Ok, OnDisk, SavedOk, LeftOk, TracedOk, FailedCreate, Reserved
<1>5. /\ \A d \in Ids \ {c} : disk'[d] = disk[d]
      /\ disk'[c] = NoDir <=> disk[c] = NoDir
      /\ Loaded(c)'
      /\ \/ disk'[c] = disk[c]
         \/ /\ disk'[c].name = n
            /\ disk'[c].dead = "yes" <=> c \in dead'
            /\ disk'[c].running = "no" <=> c \notin running'
  <2>1. CASE TrySave(c)
    BY <1>0, <1>1, <2>1, SaveWrites, Zenon
  <2>2. CASE disk' = disk
    BY <1>0, <2>2, Zenon DEF Loaded
  <2> QED
    BY <1>2, <2>1, <2>2, Zenon
<1>6. /\ \A d \in Ids \ {c} : d \in containers' <=> d \in containers
      /\ \A m \in Names \ {n} : names'[m] = names[m]
      /\ names'[n] = names[n] \/ (names[n] = None /\ names'[n] = c)
  BY <1>0, <1>2, Zenon DEF ReserveName, TypeOK
<1>7. Local(c)
  BY <1>0, <1>n, <1>1, <1>3, <1>5, <1>6, Zenon DEF Local
<1>8. n \notin loose => c \in containers' /\ names'[n] = c
  BY <1>0, <1>2, <1>4, Zenon DEF Free, ReserveName, TypeOK
<1>9. OnDisk(c)'
  <2>1. SavedOk(c)'
    BY <1>0, <1>n, <1>1, <1>3, <1>5, <1>8, Zenon DEF SavedOk, Saving, FailedCreate
  <2>2. boot'[c] = "sync" => c \in containers'
    BY <1>2
  <2> QED
    BY <1>0, <1>1, <1>3, <2>1, <2>2, Zenon DEF OnDisk
<1>10. Claimed(c)' /\ ProcessOk(c)'
  BY <1>0, <1>1, <1>3, Zenon DEF Claimed, ProcessOk
<1>11. ASSUME c \notin orphans PROVE DeadOk(c)'
  <2>1. c \notin dead /\ c \notin running /\ (disk[c].dead = "yes" => disk[c].running = "no")
    BY <1>0, <1>11, Zenon DEF Ok, DeadOk
  <2>2. c \in dead' <=> disk[c].dead = "yes"
    BY <1>1, <2>1, Zenon
  <2>3. disk[c].running = "no" => c \notin running'
    BY <1>1, <2>1
  <2>4. ~Starting(c)'
    BY <1>0, <1>1, Zenon DEF Starting
  <2> QED
    BY <1>0, <1>1, <1>3, <1>5, <2>1, <2>2, <2>3, <2>4, Zenon DEF DeadOk
<1>12. ASSUME c \notin orphans PROVE LeftOk(c)'
  <2>0. LeftOk(c) /\ OneRemoval(c)
    BY <1>0, <1>12, Zenon DEF Ok, LeftOk
  <2>1. LayerOk(c)'
    BY <1>1, <1>5, Zenon DEF LayerOk
  <2>2. TracedOk(c)'
    <3>1. c \in containers' \/ (boot'[c] = "skipped" /\ names' = names)
      BY <1>2, Zenon
    <3> QED
      BY <1>1, <1>4, <1>5, <1>12, <3>1, Zenon DEF TracedOk
  <2>3. OneRemoval(c)'
    BY <1>0, <1>1, <1>3, <2>0, Zenon DEF OneRemoval, InRm
  <2> QED
    BY <1>0, <1>1, <2>1, <2>2, <2>3, Zenon DEF LeftOk
<1>13. /\ \A a \in Actors : Client(a)' => Client(a) \/ Up
       /\ ~Up
  BY <1>0, <1>1, Zenon DEF Client, Creating, Renaming, Up
<1> QED
  BY <1>1, <1>7, <1>9, <1>10, <1>11, <1>12, <1>13, LocalKeeps, Zenon DEF Ok

-----------------------------------------------------------------------------
(* Create *)

\* A goroutine goes on with its container.
LEMMA GoesOn ==
    ASSUME TypeOK, NEW a \in Actors, NEW pc, Goto(a, pc)
    PROVE  /\ \A b \in Actors \ {a} : act'[b] = act[b]
           /\ act'[a].pc = pc /\ act'[a].id = act[a].id /\ act'[a].name = act[a].name
           /\ act'[a].by = act[a].by /\ act'[a].rw = act[a].rw
<1>1. act[a] \in Acts
  BY Zenon DEF TypeOK
<1> QED
  BY <1>1, Zenon DEF TypeOK, Goto, Acts

\* A goroutine returns.
LEMMA Returns ==
    ASSUME TypeOK, NEW a \in Actors, act' = [act EXCEPT ![a] = Idle]
    PROVE  /\ \A b \in Actors \ {a} : act'[b] = act[b]
           /\ act'[a].pc = "idle" /\ act'[a].id = None
BY IdleAct, Zenon DEF TypeOK

\* What the other goroutines do.
LEMMA Others ==
    ASSUME NEW a \in Actors, NEW c, \A b \in Actors \ {a} : act'[b] = act[b]
    PROVE  \A b \in Actors \ {a} : /\ Creating(b)' <=> Creating(b)
                                   /\ Removing(b)' <=> Removing(b)
                                   /\ Renaming(b)' <=> Renaming(b)
                                   /\ Saving(b, c)' <=> Saving(b, c)
                                   /\ InRm(b, c)' <=> InRm(b, c)
                                   /\ Client(b)' <=> Client(b)
<1> SUFFICES ASSUME NEW b \in Actors \ {a}, act'[b] = act[b]
             PROVE  /\ Creating(b)' <=> Creating(b)
                    /\ Removing(b)' <=> Removing(b)
                    /\ Renaming(b)' <=> Renaming(b)
                    /\ Saving(b, c)' <=> Saving(b, c)
                    /\ InRm(b, c)' <=> InRm(b, c)
                    /\ Client(b)' <=> Client(b)
  BY Zenon
<1>1. /\ Creating(b)' <=> Creating(b)
      /\ Removing(b)' <=> Removing(b)
      /\ Renaming(b)' <=> Renaming(b)
      /\ Saving(b, c)' <=> Saving(b, c)
  BY Zenon DEF Creating, Removing, Saving, Renaming
<1> QED
  BY <1>1, Zenon DEF Client, InRm

\* A start is under way if it was, unless the goroutine that moves starts one.
LEMMA OthersStart ==
    ASSUME NEW a \in Actors, NEW c, \A b \in Actors \ {a} : act'[b] = act[b],
           act'[a].pc # "started"
    PROVE  Starting(c)' => Starting(c)
<1> SUFFICES ASSUME NEW b \in Actors, act'[b].id = c, act'[b].pc = "started"
             PROVE  Starting(c)
  BY Zenon DEF Starting
<1>1. b # a
  BY Zenon
<1> QED
  BY <1>1, Zenon DEF Starting

\* A name is reserved for a new container.
LEMMA CreateOk ==
    ASSUME RegistryInv, NamesInv', NEW a \in Actors, NEW c \in Ids, NEW n \in Names, Create(a, c, n)
    PROVE  RegistryInv'
<1>0. /\ Ok(c) /\ IdOk(c) /\ TypeOK /\ c # None /\ \A b \in Actors : ActOk(b)
      /\ act[a] = Idle /\ c \notin used /\ names[n] = None /\ Up
  BY KnownOk, Zenon DEF Create
<1>1. /\ UNCHANGED <<containers, dead, running, RemovalInProgress, RWLayer, lock, reap, boot, disk,
                     layers, alive, event, orphans, loose, lost>>
      /\ used' = used \cup {c}
      /\ \A d \in Ids \ {c} : Name'[d] = Name[d]
      /\ \A m \in Names \ {n} : names'[m] = names[m]
      /\ names'[n] = c
  BY <1>0, Zenon DEF Create, diskVars, ReserveName, TypeOK
<1>2. /\ \A b \in Actors \ {a} : act'[b] = act[b]
      /\ act'[a].pc = "create" /\ act'[a].id = c /\ act'[a].by = "create" /\ act[a].id = None
  BY <1>0, IdleAct, Zenon DEF Create, TypeOK, Idle
<1>3. /\ c \notin containers /\ boot[c] = "none" /\ disk[c] = NoDir
      /\ \A b \in Actors : act[b].id # c
  <2>1. \A b \in Actors : act[b].id = None \/ act[b].id \in used
    BY <1>0, Zenon DEF ActOk
  <2> QED
    BY <1>0, <2>1, Zenon DEF IdOk
<1>4. /\ Local(c) /\ ~Loaded(c) /\ ~Loaded(c)'
      /\ \A b \in Actors : act'[b].id = c => b = a
  <2>1. NoDir \notin Saves
    BY RegistryAssumption, Zenon DEF Saves
  <2>2. Local(c)
    BY <1>0, <1>1, <1>2, <1>3, Zenon DEF Local
  <2> QED
    BY <1>1, <1>2, <1>3, <2>1, <2>2, Zenon DEF Loaded
<1>5. Creating(a)' /\ ~Removing(a)' /\ ~Starting(c)'
  BY <1>2, <1>4, Zenon DEF Creating, Removing, Starting
<1>6. OnDisk(c)' /\ Claimed(c)' /\ ProcessOk(c)'
  <2>1. OnDisk(c)'
    BY <1>1, <1>2, <1>3, <1>4, <1>5, Zenon DEF OnDisk, SavedOk, FailedCreate, Reserved
  <2>2. Claimed(c)'
    BY <1>2, <1>4, <1>5, Zenon DEF Claimed
  <2>3. ProcessOk(c)'
    BY <1>0, <1>1, <1>2, <1>3, <1>4, Zenon DEF Ok, ProcessOk
  <2> QED
    BY <2>1, <2>2, <2>3, Zenon
<1>7. ASSUME c \notin orphans PROVE DeadOk(c)' /\ LeftOk(c)'
  <2>1. DeadOk(c)'
    BY <1>0, <1>1, <1>3, <1>4, <1>5, <1>7, Zenon DEF Ok, DeadOk
  <2>2. LayerOk(c)' /\ TracedOk(c)'
    BY <1>0, <1>1, <1>2, <1>3, <1>4, <1>7, Zenon DEF Ok, LeftOk, LayerOk, TracedOk
  <2> QED
    BY <1>1, <1>3, <1>4, <1>5, <2>1, <2>2, Zenon DEF LeftOk
<1>8. /\ \A b \in Actors : Client(b)' => Client(b) \/ Up
      /\ Up => boot'[c] \in {"none", "done", "skipped"}
  BY <1>0, <1>1, Zenon DEF Up
<1> QED
  BY <1>1, <1>4, <1>6, <1>7, <1>8, LocalKeeps, Zenon DEF Ok

\* newContainer fails with the name reserved: the container is nobody's.
LEMMA CreateFailsOk ==
    ASSUME RegistryInv, NamesInv', NEW c \in Ids, NEW n \in Names, CreateFails(c, n)
    PROVE  RegistryInv'
<1>0. /\ Ok(c) /\ IdOk(c) /\ TypeOK /\ c # None /\ \A b \in Actors : ActOk(b)
      /\ c \notin used /\ names[n] = None /\ Up
  BY KnownOk, Zenon DEF CreateFails
<1>1. /\ UNCHANGED <<containers, dead, running, RemovalInProgress, RWLayer, lock, reap, boot, act,
                     disk, layers, alive, event, loose, lost>>
      /\ used' = used \cup {c} /\ orphans' = orphans \cup {c}
      /\ \A d \in Ids \ {c} : Name'[d] = Name[d]
      /\ \A m \in Names \ {n} : names'[m] = names[m]
      /\ names'[n] = c
  BY <1>0, Zenon DEF CreateFails, diskVars, ReserveName, TypeOK
<1>2. /\ boot[c] = "none" /\ disk[c] = NoDir
      /\ \A b \in Actors : act[b].id # c
  <2>1. \A b \in Actors : act[b].id = None \/ act[b].id \in used
    BY <1>0, Zenon DEF ActOk
  <2> QED
    BY <1>0, <2>1, Zenon DEF IdOk
<1>3. Local(c)
  BY <1>0, <1>1, <1>2, Zenon DEF Local
<1>4. ~Loaded(c)'
  BY <1>1, <1>2, RegistryAssumption, Zenon DEF Loaded, Saves
<1>5. Ok(c)'
  <2>1. OnDisk(c)' /\ Claimed(c)'
    BY <1>1, <1>2, <1>4, Zenon DEF OnDisk, SavedOk, Claimed
  <2>2. ProcessOk(c)'
    BY <1>0, <1>1, <1>2, Zenon DEF Ok, ProcessOk
  <2> QED
    BY <1>1, <2>1, <2>2, Zenon DEF Ok
<1>6. /\ \A b \in Actors : Client(b)' => Client(b) \/ Up
      /\ Up => boot'[c] \in {"none", "done", "skipped"}
  BY <1>0, <1>1, Zenon DEF Up
<1> QED
  BY <1>3, <1>5, <1>6, LocalKeeps, Zenon

\* CreateLayer and MkdirAndChown.
LEMMA CreateGoesOk ==
    ASSUME RegistryInv, NamesInv', NEW a \in Actors, CreateLayer(a) \/ CreateRoot(a)
    PROVE  RegistryInv'
<1>a. act[a].pc \in {"create", "mkdir"} /\ Creating(a)
  BY Zenon DEF CreateLayer, CreateRoot, Creating
<1>c. PICK c \in Ids : c = act[a].id
  BY <1>a, AtWork, Zenon DEF RegistryInv
<1>0. /\ Ok(c) /\ TypeOK /\ c # None /\ ActOk(a)
      /\ c \notin containers /\ boot[c] = "none" /\ Reserved(Name[c], c)
      /\ \A b \in Actors \ {a} : act[b].id # c
  <2>1. Ok(c) /\ TypeOK /\ c # None /\ ActOk(a)
    BY KnownOk, Zenon
  <2> QED
    BY <1>a, <1>c, <2>1, Zenon DEF ActOk
<1>1. act[a].by = "create" /\ disk[c] = NoDir /\ c \notin running
  BY <1>0, <1>a, <1>c, Zenon DEF Ok, Claimed, OnDisk, ProcessOk, Reserved
<1>2. /\ \A b \in Actors \ {a} : act'[b] = act[b]
      /\ act'[a].id = c /\ act'[a].by = "create"
      /\ act'[a].pc \in {"mkdir", "register", "cleanup"}
  BY <1>0, <1>c, <1>1, GoesOn, Zenon DEF CreateLayer, CreateRoot
<1>3. /\ UNCHANGED <<containers, names, Name, dead, running, RemovalInProgress, lock, reap, boot,
                     alive, event, used, orphans, loose, lost>>
      /\ \A d \in Ids \ {c} : /\ disk'[d] = disk[d]
                              /\ d \in layers' <=> d \in layers
                              /\ d \in RWLayer' <=> d \in RWLayer
      /\ disk'[c] \in {NoDir, EmptyDir}
      /\ c \in layers' => c \in layers \/ c \in RWLayer'
      /\ c \in RWLayer => c \in RWLayer'
  BY <1>0, <1>c, <1>1, Zenon DEF CreateLayer, CreateRoot, memVars, histVars, TypeOK
<1>d. act'[a].pc = "mkdir" => disk'[c] = NoDir
  <2>1. CASE disk' = disk
    BY <1>1, <2>1, Zenon
  <2>2. CASE Goto(a, "register") \/ Goto(a, "cleanup")
    <3>1. act'[a].pc \in {"register", "cleanup"}
      BY <1>0, <2>2, GoesOn, Zenon
    <3> QED
      BY <3>1, Zenon
  <2> QED
    BY <2>1, <2>2, Zenon DEF CreateLayer, CreateRoot
<1>4. /\ Local(c) /\ ~Loaded(c)'
      /\ \A b \in Actors : act'[b].id = c => b = a
  <2>1. NoDir \notin Saves /\ EmptyDir \notin Saves
    BY RegistryAssumption, Zenon DEF Saves
  <2>2. Local(c)
    BY <1>0, <1>c, <1>2, <1>3, Zenon DEF Local
  <2>3. ~Loaded(c)'
    BY <1>3, <2>1, Zenon DEF Loaded
  <2>4. \A b \in Actors : act'[b].id = c => b = a
    BY <1>0, <1>2
  <2> QED
    BY <2>2, <2>3, <2>4, Zenon
<1>5. /\ Creating(a)' \/ (act'[a].pc = "cleanup" /\ Removing(a)' /\ ~Creating(a)')
      /\ Creating(a)' => ~Removing(a)'
      /\ act'[a].pc \notin {"create", "started"}
      /\ ~Starting(c)'
  <2>1. CASE act'[a].pc = "cleanup"
    BY <1>4, <2>1, Zenon DEF Creating, Removing, Starting
  <2>2. CASE act'[a].pc = "mkdir"
    BY <1>4, <2>2, Zenon DEF Creating, Removing, Starting
  <2>3. CASE act'[a].pc = "register"
    BY <1>4, <2>3, Zenon DEF Creating, Removing, Starting
  <2> QED
    BY <1>2, <2>1, <2>2, <2>3, Zenon
<1>6. OnDisk(c)' /\ Claimed(c)' /\ ProcessOk(c)'
  <2>1. OnDisk(c)'
    BY <1>d, <1>2, <1>3, <1>0, <1>4, <1>5, Zenon DEF OnDisk, SavedOk, FailedCreate, Reserved
  <2>2. Claimed(c)'
    BY <1>2, <1>4, <1>5, Zenon DEF Claimed
  <2>3. ProcessOk(c)'
    BY <1>0, <1>1, <1>3, <1>4, <1>5, Zenon DEF ProcessOk
  <2> QED
    BY <2>1, <2>2, <2>3, Zenon
<1>7. ASSUME c \notin orphans PROVE DeadOk(c)' /\ LeftOk(c)'
  <2>1. DeadOk(c)'
    BY <1>0, <1>1, <1>2, <1>3, <1>4, <1>5, <1>7, Zenon DEF Ok, DeadOk
  <2>2. LayerOk(c)'
    <3>1. c \in layers \ lost => c \in RWLayer
      BY <1>0, <1>a, <1>c, <1>7, Zenon DEF Ok, LeftOk, LayerOk
    <3> QED
      BY <1>2, <1>3, <3>1, Zenon DEF LayerOk
  <2>3. TracedOk(c)'
    BY <1>2, Zenon DEF TracedOk
  <2>4. Removing(a)' => Alone(a, c)'
    BY <1>2, <1>4, <1>5, Zenon DEF Alone
  <2> QED
    BY <1>0, <1>3, <1>4, <2>1, <2>2, <2>3, <2>4, Zenon DEF LeftOk
<1>8. /\ \A b \in Actors : Client(b)' => Client(b) \/ Up
      /\ Up => boot'[c] \in {"none", "done", "skipped"}
  BY <1>0, <1>a, <1>3, Zenon DEF RegistryInv, Client
<1> QED
  BY <1>3, <1>4, <1>6, <1>7, <1>8, LocalKeeps, Zenon DEF Ok

\* register.
LEMMA RegisterOk ==
    ASSUME RegistryInv, NamesInv', NEW a \in Actors, Register(a)
    PROVE  RegistryInv'
<1>a. act[a].pc = "register" /\ Creating(a) /\ ~Removing(a)
  BY Zenon DEF Register, Creating, Removing
<1>c. PICK c \in Ids : c = act[a].id
  BY <1>a, AtWork, Zenon DEF RegistryInv
<1>0. /\ Ok(c) /\ TypeOK /\ c # None /\ Name[c] \in Names
      /\ c \notin containers /\ boot[c] = "none" /\ Reserved(Name[c], c)
      /\ \A b \in Actors \ {a} : act[b].id # c
  <2>1. Ok(c) /\ TypeOK /\ c # None /\ ActOk(a)
    BY KnownOk, Zenon
  <2>2. Name[c] \in Names
    BY <1>a, <1>c, AtWork, Zenon DEF RegistryInv
  <2> QED
    BY <1>a, <1>c, <2>1, <2>2, Zenon DEF ActOk
<1>1. act[a].by = "create" /\ c \notin running
  BY <1>0, <1>a, <1>c, Zenon DEF Ok, Claimed, ProcessOk
<1>3. /\ UNCHANGED <<names, Name, dead, running, RemovalInProgress, RWLayer, lock, reap, boot,
                     layers, alive, event, used, loose, lost>>
      /\ containers' = containers \cup {c} /\ orphans \subseteq orphans'
      /\ TrySave(c) \/ Unwritten(c) \/ HalfSaved(c, Name[c])
  BY <1>c, Zenon DEF Register, TrySave
<1>4. /\ \A d \in Ids \ {c} : disk'[d] = disk[d]
      /\ \A b \in Actors \ {a} : act'[b] = act[b]
      /\ act'[a].id \in {None, c}
      /\ Client(a)' => Client(a)
  <2>1. \A d \in Ids \ {c} : disk'[d] = disk[d]
    BY <1>0, <1>3, SavesOne, Zenon
  <2>2. \A b \in Actors \ {a} : act'[b] = act[b]
    BY <1>0, GoesOn, Returns, Zenon DEF Register
  <2>3. act'[a].id \in {None, c}
    BY <1>0, <1>c, GoesOn, Returns, Zenon DEF Register
  <2> QED
    BY <1>a, <2>1, <2>2, <2>3, Zenon DEF Client
<1>5. Local(c)
  BY <1>0, <1>c, <1>3, <1>4, Zenon DEF Local
<1>6. CASE /\ Saved(c) \/ Unwritten(c)
           /\ act' = [act EXCEPT ![a] = Idle] /\ orphans' = orphans
  <2>0. /\ \A b \in Actors : act'[b].id # c
        /\ ~Starting(c)'
    <3>1. \A b \in Actors : act'[b].id # c
      <4>1. act'[a].id = None
        BY <1>0, <1>6, Returns, Zenon
      <4> QED
        BY <1>0, <1>4, <4>1
    <3> QED
      BY <3>1, Zenon DEF Starting
  <2>1. \/ disk'[c] = disk[c]
        \/ /\ Loaded(c)' /\ disk'[c].name = Name[c]
           /\ disk'[c].dead = "yes" <=> c \in dead
           /\ disk'[c].running = "no" <=> c \notin running
    BY <1>0, <1>3, <1>6, WriteWhat, Zenon DEF Saved, Written, Unwritten
  <2>2. OnDisk(c)' /\ Claimed(c)' /\ ProcessOk(c)'
    <3>1. SavedOk(c)'
      <4>1. \A b \in Actors : ~Saving(b, c)' /\ ~Saving(b, c)
        BY <1>0, <1>a, <1>c, <2>0, Zenon DEF Saving
      <4>2. SavedOk(c)
        BY <1>0, Zenon DEF Ok, OnDisk
      <4> QED
        BY <1>0, <1>3, <2>1, <4>1, <4>2, Zenon DEF SavedOk, Reserved, Loaded
    <3>2. OnDisk(c)'
      BY <1>0, <1>3, <2>0, <3>1, Zenon DEF OnDisk
    <3>3. Claimed(c)' /\ ProcessOk(c)'
      BY <1>1, <1>3, <2>0, Zenon DEF Claimed, ProcessOk
    <3> QED
      BY <3>2, <3>3, Zenon
  <2>3. ASSUME c \notin orphans PROVE DeadOk(c)' /\ LeftOk(c)'
    <3>1. DeadOk(c)'
      <4>1. DeadOk(c)
        BY <1>0, <2>3, Zenon DEF Ok
      <4> QED
        BY <1>0, <1>1, <1>3, <2>0, <2>1, <4>1, Zenon DEF DeadOk, Loaded
    <3>2. c \in layers \ lost => c \in RWLayer
      BY <1>0, <1>a, <1>c, <2>3, Zenon DEF Ok, LeftOk, LayerOk
    <3>3. LayerOk(c)' /\ TracedOk(c)'
      <4>1. Loaded(c)' \/ disk'[c] = EmptyDir
        <5>1. disk[c] # NoDir /\ disk[c] \in Saves \cup {NoDir, EmptyDir}
          BY <1>0, <1>6, Zenon DEF Saved, Unwritten, TypeOK
        <5> QED
          BY <2>1, <5>1, Zenon DEF Loaded
      <4> QED
        BY <1>3, <3>2, <4>1, Zenon DEF LayerOk, TracedOk
    <3> QED
      BY <1>0, <1>3, <2>0, <3>1, <3>3, Zenon DEF LeftOk
  <2>4. Ok(c)'
    BY <1>6, <2>2, <2>3, Zenon DEF Ok
  <2> QED
    BY <1>0, <1>3, <1>4, <1>5, <2>4, LocalKeeps, Zenon DEF Client, Creating, Renaming
<1>7. CASE /\ NotSaved(c) \/ HalfSaved(c, Name[c])
           /\ Goto(a, "cleanup") /\ orphans' = orphans \cup {c}
  <2>0. /\ act'[a].pc = "cleanup" /\ act'[a].id = c /\ act'[a].by = "create"
        /\ Removing(a)' /\ ~Creating(a)'
        /\ \A b \in Actors : act'[b].id = c => b = a
    <3>1. act'[a].pc = "cleanup" /\ act'[a].id = c /\ act'[a].by = "create"
      BY <1>0, <1>c, <1>1, <1>7, GoesOn, Zenon
    <3>2. \A b \in Actors : act'[b].id = c => b = a
      BY <1>0, <1>4
    <3> QED
      BY <3>1, <3>2, Zenon DEF Removing, Creating
  <2>1. SavedOk(c)'
    <3>1. disk'[c] = disk[c] \/ (Loaded(c)' /\ disk'[c].name = Name[c])
      BY <1>0, <1>7, WriteWhat, Zenon DEF NotSaved, HalfSaved
    <3>2. \A b \in Actors : ~Saving(b, c)' /\ ~Saving(b, c)
      BY <1>0, <1>a, <1>c, <2>0, Zenon DEF Saving
    <3>3. SavedOk(c)
      BY <1>0, Zenon DEF Ok, OnDisk
    <3> QED
      BY <1>0, <1>3, <3>1, <3>2, <3>3, Zenon DEF SavedOk, Reserved, Loaded
  <2>2. OnDisk(c)' /\ Claimed(c)' /\ ProcessOk(c)'
    BY <1>0, <1>1, <1>3, <2>0, <2>1, Zenon DEF OnDisk, Claimed, ProcessOk
  <2>4. Ok(c)'
    BY <1>7, <2>2, Zenon DEF Ok
  <2> QED
    BY <1>0, <1>3, <1>4, <1>5, <2>4, LocalKeeps, Zenon DEF Client, Creating, Renaming
<1> QED
  BY <1>c, <1>6, <1>7, Zenon DEF Register

-----------------------------------------------------------------------------
(* Removal *)

\* containerRm or cleanupContainer returns.
LEMMA RmReturnActs ==
    ASSUME TypeOK, NEW a \in Actors, NEW c \in Ids, RmReturn(a, c)
    PROVE  /\ \A b \in Actors \ {a} : act'[b] = act[b]
           /\ act'[a].pc = "idle" /\ act'[a].id = None
           /\ \A d \in Ids \ {c} : /\ d \in RemovalInProgress' <=> d \in RemovalInProgress
                                   /\ boot'[d] = boot[d]
           /\ act[a].by = "claim" => c \notin RemovalInProgress'
           /\ act[a].by # "claim" => RemovalInProgress' = RemovalInProgress
           /\ boot[c] = "removing" => boot'[c] = "done"
           /\ boot[c] # "removing" => boot'[c] = boot[c]
<1>1. /\ \A b \in Actors \ {a} : act'[b] = act[b]
      /\ act'[a].pc = "idle" /\ act'[a].id = None
  BY Returns, Zenon DEF RmReturn
<1> QED
  BY <1>1, Zenon DEF RmReturn, TypeOK

\* What the return leaves of the container it is about.
LEMMA RmReturnOk ==
    ASSUME RegistryInv, NEW a \in Actors, NEW c \in Ids, InRm(a, c), RmReturn(a, c),
           UNCHANGED <<containers, Name, dead, running, lock, reap, alive, event, used, loose, lost>>,
           disk'[c] = disk[c] \/ (disk'[c] = EmptyDir /\ disk[c] # NoDir),
           names' = names \/ disk[c] = NoDir, orphans \subseteq orphans',
           act[a].by = "create" => c \in containers \/ c \in orphans' \/ disk[c] = NoDir,
           act[a].pc = "rm" => UNCHANGED <<RWLayer, layers>>
    PROVE  /\ OnDisk(c)' /\ Claimed(c)' /\ ProcessOk(c)'
           /\ c \notin orphans =>
                /\ DeadOk(c)'
                /\ \A b \in Actors : (act[b].id = c /\ Removing(b) => Alone(b, c))'
                /\ (boot[c] \in {"load", "sync", "remove"} => OneRemoval(c))'
           /\ \A b \in Actors : Client(b)' => Client(b)
           /\ Up => boot'[c] \in {"none", "done", "skipped"}
           /\ boot'[c] = "load" => boot[c] = "load"
           /\ boot[c] \in {"load", "skipped"} => boot'[c] = boot[c]
<1>0. /\ Ok(c) /\ TypeOK /\ c # None /\ act[a].id = c
      /\ act[a].pc = "rm" \/ Removing(a)
  BY KnownOk, Zenon DEF InRm
<1>1. /\ \A b \in Actors \ {a} : act'[b] = act[b]
      /\ act'[a].pc = "idle" /\ act'[a].id = None
      /\ act[a].by = "claim" => c \notin RemovalInProgress'
      /\ act[a].by # "claim" => RemovalInProgress' = RemovalInProgress
      /\ boot[c] = "removing" => boot'[c] = "done"
      /\ boot[c] # "removing" => boot'[c] = boot[c]
  BY <1>0, RmReturnActs, ZenonT(60)
<1>2. \A b \in Actors : act'[b].id = c =>
        /\ b # a /\ act[b].id = c /\ act'[b] = act[b]
        /\ Creating(b)' <=> Creating(b)
        /\ Removing(b)' <=> Removing(b)
  BY <1>0, <1>1, Zenon DEF Creating, Removing
<1>3. /\ \A b \in Actors : InRm(b, c)' => InRm(b, c) /\ b # a
      /\ \A b \in Actors : Saving(b, c)' <=> Saving(b, c)
      /\ Starting(c)' => Starting(c)
  <2>1. \A b \in Actors : InRm(b, c)' => InRm(b, c) /\ b # a
    BY <1>2, Zenon DEF InRm
  <2>2. ~Saving(a, c) /\ ~Saving(a, c)'
    BY <1>0, <1>1, Zenon DEF Saving, Removing
  <2>3. \A b \in Actors : Saving(b, c)' <=> Saving(b, c)
    BY <1>1, <2>2, Zenon DEF Saving
  <2>4. Starting(c)' => Starting(c)
    BY <1>2, Zenon DEF Starting
  <2> QED
    BY <2>1, <2>3, <2>4, Zenon
<1>4. OnDisk(c)'
  <2>1. SavedOk(c)'
    <3>1. CASE disk[c] = NoDir
      <4>1. ~Loaded(c)'
        BY <3>1, RegistryAssumption, Zenon DEF Loaded, Saves
      <4> QED
        BY <4>1, Zenon DEF SavedOk
    <3>3. CASE disk'[c] = EmptyDir
      <4>1. ~Loaded(c)'
        BY <3>3, RegistryAssumption, Zenon DEF Loaded, Saves
      <4> QED
        BY <4>1, Zenon DEF SavedOk
    <3>2. CASE names' = names /\ disk'[c] = disk[c] /\ disk[c] # NoDir
      <4>1. SavedOk(c) /\ (boot[c] = "load" <=> boot'[c] = "load")
        BY <1>0, <1>1, Zenon DEF Ok, OnDisk, Reserved
      <4>2. boot[c] # "load"
        BY <1>0, KnownOk, Zenon DEF IdOk
      <4>3. \A b \in Actors : Saving(b, c) => act'[b] = act[b]
        BY <1>1, <1>0, Zenon DEF Saving, Removing
      <4> QED
        <5>1. ASSUME FailedCreate(c) PROVE c \in containers \/ FailedCreate(c)'
          <6>1. CASE boot[c] = "none" /\ c \in orphans
            BY <1>1, <6>1, Zenon DEF FailedCreate
          <6>2. CASE \E b \in Actors : act[b].id = c /\ act[b].by = "create"
            <7>1. PICK b \in Actors : act[b].id = c /\ act[b].by = "create"
              BY <6>2, Zenon
            <7>2. boot[c] = "none" /\ boot'[c] = "none"
              BY <1>0, <1>1, <7>1, Zenon DEF Ok, OnDisk
            <7> QED
              BY <1>1, <3>2, <7>1, <7>2, Zenon DEF FailedCreate
          <6> QED
            BY <5>1, <6>1, <6>2, Zenon DEF FailedCreate
        <5> QED
          BY <1>3, <3>2, <4>1, <4>2, <4>3, <5>1, Zenon DEF SavedOk, Loaded
    <3> QED
      BY <3>1, <3>2, <3>3, Zenon
  <2> QED
    BY <1>0, <1>1, <1>2, <2>1, Zenon DEF Ok, OnDisk, Reserved
<1>5. Claimed(c)'
  <2> SUFFICES ASSUME NEW b \in Actors, act'[b].id = c
               PROVE  /\ Creating(b)' <=> act'[b].by = "create" /\ ~Removing(b)'
                      /\ act'[b].by = "claim" => Removing(b)' /\ c \in RemovalInProgress'
                      /\ act'[b].by = "claim" =>
                            \A e \in Actors : act'[e].id = c /\ act'[e].by = "claim" => e = b
    BY Zenon DEF Claimed
  <2>1. /\ Creating(b) <=> act[b].by = "create" /\ ~Removing(b)
        /\ act[b].by = "claim" => Removing(b) /\ c \in RemovalInProgress /\ act[a].by # "claim"
        /\ act[b].by = "claim" =>
              \A e \in Actors : act[e].id = c /\ act[e].by = "claim" => e = b
    BY <1>0, <1>2, Zenon DEF Ok, Claimed
  <2> QED
    BY <1>1, <1>2, <2>1, Zenon
<1>6. ProcessOk(c)'
  BY <1>0, <1>1, <1>2, Zenon DEF Ok, ProcessOk
<1>7. ASSUME c \notin orphans PROVE DeadOk(c)'
  <2>0. DeadOk(c) /\ (boot'[c] = "load" <=> boot[c] = "load") /\ (boot[c] = "none" => boot'[c] = "none")
    BY <1>0, <1>1, <1>7, Zenon DEF Ok
  <2>1. disk'[c] = disk[c] \/ ~Loaded(c)'
    BY RegistryAssumption, Zenon DEF Loaded, Saves
  <2> QED
    BY <1>2, <1>3, <2>0, <2>1, Zenon DEF DeadOk, Loaded
<1>8. ASSUME c \notin orphans, NEW b \in Actors, act'[b].id = c, Removing(b)' PROVE Alone(b, c)'
  <2>1. /\ Alone(b, c) /\ b # a /\ Removing(b) /\ act[b].id = c /\ act'[b] = act[b]
        /\ Removing(a) => Alone(a, c)
    BY <1>0, <1>2, <1>8, Zenon DEF Ok, LeftOk
  <2>2. act[a].pc = "rm"
    BY <1>0, <2>1, Zenon DEF Alone
  <2>3. act[b].by # "rm"
    BY <2>1, Zenon DEF Alone
  <2> QED
    BY <1>2, <2>1, <2>2, <2>3, Zenon DEF Alone
<1>9. ASSUME c \notin orphans, boot'[c] \in {"load", "sync", "remove"} PROVE OneRemoval(c)'
  <2>1. OneRemoval(c) /\ boot'[c] = boot[c]
    BY <1>0, <1>1, <1>9, Zenon DEF Ok, LeftOk
  <2>2. c \notin reap /\ \A b \in Actors : ~InRm(b, c)'
    BY <1>3, <2>1, Zenon DEF OneRemoval
  <2> QED
    BY <2>1, <2>2, Zenon DEF OneRemoval
<1>10. /\ \A b \in Actors : Client(b)' => Client(b)
       /\ Up => boot'[c] \in {"none", "done", "skipped"}
  BY <1>1, Zenon DEF Client, Creating, Renaming, Up
<1> QED
  BY <1>1, <1>4, <1>5, <1>6, <1>7, <1>8, <1>9, <1>10, Zenon

\* A removal looks its container up.
LEMMA RmGetOk ==
    ASSUME RegistryInv, NamesInv', NEW a \in Actors, NEW c \in Ids, RmGet(a, c)
    PROVE  RegistryInv'
<1>0. /\ Ok(c) /\ IdOk(c) /\ TypeOK /\ c # None /\ act[a] = Idle /\ c \in containers
      /\ Up \/ c \in reap
  BY KnownOk, Zenon DEF RmGet
<1>1. /\ UNCHANGED <<containers, names, Name, dead, running, RemovalInProgress, RWLayer, lock, boot,
                     disk, layers, alive, event, used, orphans, loose, lost>>
      /\ \A d \in Ids \ {c} : d \in reap' <=> d \in reap
      /\ c \in reap' => c \in reap /\ Up
      /\ ~Up => c \in reap
  BY Zenon DEF RmGet, memVars, diskVars, histVars
<1>2. /\ \A b \in Actors \ {a} : act'[b] = act[b]
      /\ act'[a].pc = "rm" /\ act'[a].id = c /\ act'[a].by = "rm" /\ act[a].id = None
  BY <1>0, IdleAct, Zenon DEF RmGet, TypeOK, Idle
<1>3. Local(c)
  BY <1>0, <1>1, <1>2, Zenon DEF Local
<1>4. /\ ~Creating(a)' /\ ~Removing(a)' /\ ~Saving(a, c)' /\ ~Client(a)' /\ InRm(a, c)'
      /\ \A b \in Actors \ {a} : /\ Creating(b)' <=> Creating(b)
                                 /\ Removing(b)' <=> Removing(b)
                                 /\ Renaming(b)' <=> Renaming(b)
                                 /\ Saving(b, c)' <=> Saving(b, c)
                                 /\ InRm(b, c)' <=> InRm(b, c)
                                 /\ Client(b)' <=> Client(b)
      /\ Starting(c)' => Starting(c)
  <2>1. /\ ~Creating(a)' /\ ~Removing(a)' /\ ~Saving(a, c)' /\ ~Client(a)' /\ InRm(a, c)'
    BY <1>2, Zenon DEF Creating, Removing, Saving, Client, Renaming, InRm
  <2>2. act'[a].pc # "started"
    BY <1>2, Zenon
  <2>3. Starting(c)' => Starting(c)
    BY <1>2, <2>2, OthersStart, Zenon
  <2>4. \A b \in Actors \ {a} : /\ Creating(b)' <=> Creating(b)
                                /\ Removing(b)' <=> Removing(b)
                                /\ Renaming(b)' <=> Renaming(b)
                                /\ Saving(b, c)' <=> Saving(b, c)
                                /\ InRm(b, c)' <=> InRm(b, c)
                                /\ Client(b)' <=> Client(b)
    BY <1>2, Others, Zenon
  <2> QED
    BY <2>1, <2>3, <2>4, Zenon
<1>5. \A b \in Actors : /\ act[b].id = c => b # a /\ act'[b] = act[b]
                        /\ act'[b].id = c => b = a \/ (act'[b] = act[b] /\ act[b].id = c)
  BY <1>0, <1>2, Zenon
<1>6. OnDisk(c)'
  <2>1. SavedOk(c)'
    <3>1. SavedOk(c) /\ boot[c] # "load"
      BY <1>0, Zenon DEF Ok, OnDisk, IdOk, Reserved
    <3>2. \A b \in Actors : (Saving(b, c)' <=> Saving(b, c)) /\ (Saving(b, c) => act'[b] = act[b])
      BY <1>4, <1>5, Zenon DEF Saving
    <3> QED
      BY <1>0, <1>1, <3>1, <3>2, Zenon DEF SavedOk, Loaded
  <2> QED
    BY <1>0, <1>1, <1>2, <1>4, <1>5, <2>1, Zenon DEF Ok, OnDisk, Reserved
<1>7. Claimed(c)'
  BY <1>0, <1>1, <1>2, <1>4, <1>5, ZenonT(60) DEF Ok, Claimed
<1>8. ProcessOk(c)'
  BY <1>0, <1>1, <1>2, <1>4, <1>5, Zenon DEF Ok, ProcessOk
<1>9. ASSUME c \notin orphans PROVE DeadOk(c)'
  BY <1>0, <1>1, <1>4, <1>5, <1>9, Zenon DEF Ok, DeadOk, Loaded
<1>10. ASSUME c \notin orphans PROVE LeftOk(c)'
  <2>0. LeftOk(c)
    BY <1>0, <1>10, Zenon DEF Ok
  <2>1. LayerOk(c)'
    BY <1>1, <1>5, <2>0, Zenon DEF LeftOk, LayerOk, Loaded
  <2>2. TracedOk(c)'
    BY <1>0, <1>1, Zenon DEF TracedOk
  <2>3. ASSUME NEW b \in Actors, act'[b].id = c, Removing(b)' PROVE Alone(b, c)'
    <3>1. b # a /\ Removing(b) /\ act'[b] = act[b] /\ Alone(b, c)
      BY <1>4, <1>5, <2>0, <2>3, Zenon DEF LeftOk
    <3>2. act[b].by # "rm"
      <4>1. boot[c] = "removing" => ~Up
        BY Zenon DEF Up
      <4> QED
        BY <1>0, <3>1, <4>1, Zenon DEF Alone
    <3> QED
      BY <1>1, <1>4, <1>5, <3>1, <3>2, Zenon DEF Alone
  <2>4. ASSUME boot[c] \in {"load", "sync", "remove"} PROVE OneRemoval(c)'
    <3>1. OneRemoval(c) /\ ~Up
      BY <2>0, <2>4, Zenon DEF LeftOk, Up
    <3>2. c \in reap /\ c \notin reap' /\ \A b \in Actors : ~InRm(b, c)
      BY <1>1, <3>1, Zenon DEF OneRemoval
    <3>3. \A b \in Actors : InRm(b, c)' => b = a
      BY <1>4, <3>2, Zenon
    <3> QED
      BY <1>1, <3>1, <3>2, <3>3, Zenon DEF OneRemoval
  <2> QED
    BY <1>1, <2>1, <2>2, <2>3, <2>4, Zenon DEF LeftOk
<1>11. /\ \A b \in Actors : Client(b)' => Client(b) \/ Up
       /\ Up => boot'[c] \in {"none", "done", "skipped"}
  BY <1>1, <1>4, Zenon DEF Up
<1> QED
  BY <1>1, <1>3, <1>6, <1>7, <1>8, <1>9, <1>10, <1>11, LocalKeeps, Zenon DEF Ok

\* SetRemovalInProgress.
LEMMA RmClaimOk ==
    ASSUME RegistryInv, NamesInv', NEW a \in Actors, RmClaim(a)
    PROVE  RegistryInv'
<1>a. act[a].pc = "rm" /\ ~Removing(a) /\ ~Creating(a) /\ ~Renaming(a)
  BY Zenon DEF RmClaim, Removing, Creating, Renaming
<1>c. PICK c \in Ids : c = act[a].id
  BY <1>a, AtWork, Zenon DEF RegistryInv
<1>0. /\ Ok(c) /\ IdOk(c) /\ TypeOK /\ c # None /\ boot[c] # "load" /\ lock[c] = None
      /\ InRm(a, c) /\ act[a] \in Acts
  <2>1. Ok(c) /\ IdOk(c) /\ TypeOK /\ c # None
    BY KnownOk, Zenon
  <2> QED
    BY <1>a, <1>c, <2>1, Zenon DEF IdOk, InRm, RmClaim, TypeOK
<1>b. act[a].by = "rm"
  <2>1. act[a].by \in {"rm", "create", "claim"}
    BY <1>0, Zenon DEF Acts
  <2> QED
    BY <1>0, <1>a, <1>c, <2>1, Zenon DEF Ok, Claimed
<1>1. /\ UNCHANGED <<containers, names, Name, dead, running, RWLayer, lock, reap,
                     disk, layers, alive, event, used, orphans, loose, lost>>
  BY Zenon DEF RmClaim, diskVars, histVars
<1>2. CASE RmReturn(a, c)
  <2>1. /\ \A b \in Actors \ {a} : act'[b] = act[b]
        /\ act'[a].pc = "idle" /\ act'[a].id = None
        /\ RemovalInProgress' = RemovalInProgress
        /\ \A d \in Ids \ {c} : boot'[d] = boot[d]
    BY <1>0, <1>b, <1>2, RmReturnActs, Zenon
  <2>2. /\ OnDisk(c)' /\ Claimed(c)' /\ ProcessOk(c)'
        /\ c \notin orphans =>
             /\ DeadOk(c)'
             /\ \A b \in Actors : (act[b].id = c /\ Removing(b) => Alone(b, c))'
             /\ (boot[c] \in {"load", "sync", "remove"} => OneRemoval(c))'
        /\ \A b \in Actors : Client(b)' => Client(b)
        /\ Up => boot'[c] \in {"none", "done", "skipped"}
        /\ boot'[c] = "load" => boot[c] = "load"
        /\ boot[c] \in {"load", "skipped"} => boot'[c] = boot[c]
    <3>1. act[a].by # "create" /\ (act[a].pc = "rm" => UNCHANGED <<RWLayer, layers>>)
      BY <1>b, <1>1, Zenon
    <3> QED
      BY <1>0, <1>1, <1>2, <3>1, RmReturnOk, ZenonT(60)
  <2>3. Local(c)
    BY <1>c, <1>1, <2>1, <2>2, Zenon DEF Local
  <2>4. ASSUME c \notin orphans PROVE LayerOk(c)' /\ TracedOk(c)'
    <3>0. LayerOk(c) /\ TracedOk(c)
      BY <1>0, <2>4, Zenon DEF Ok, LeftOk
    <3>1. \A b \in Actors : act[b].pc \in {"layer", "names"} \/ act[b].by = "create" \/ Renaming(b) =>
             act'[b] = act[b] /\ (Renaming(b)' <=> Renaming(b))
      <4>1. \A b \in Actors \ {a} : Renaming(b)' <=> Renaming(b)
        BY <2>1, Others, Zenon
      <4> QED
        BY <1>a, <1>b, <2>1, <4>1, Zenon
    <3>2. LayerOk(c)'
      BY <1>1, <2>2, <3>0, <3>1, Zenon DEF LayerOk, Loaded
    <3>3. TracedOk(c)'
      BY <1>1, <2>2, <3>0, <3>1, ZenonT(60) DEF TracedOk, Loaded
    <3> QED
      BY <3>2, <3>3, Zenon
  <2> QED
    BY <1>1, <2>2, <2>3, <2>4, LocalKeeps, Zenon DEF Ok, LeftOk
<1>3. CASE /\ c \notin RemovalInProgress /\ c \in containers /\ boot' = boot
           /\ RemovalInProgress' = RemovalInProgress \cup {c}
           /\ act' = [act EXCEPT ![a].pc = "cleanup", ![a].by = "claim"]
  <2>1. /\ \A b \in Actors \ {a} : act'[b] = act[b]
        /\ act'[a].pc = "cleanup" /\ act'[a].id = c /\ act'[a].by = "claim"
    BY <1>0, <1>c, <1>3, Zenon DEF Acts, TypeOK
  <2>2. /\ Removing(a)' /\ ~Creating(a)' /\ ~Saving(a, c)' /\ ~Client(a)' /\ InRm(a, c)'
        /\ ~Saving(a, c) /\ act'[a].pc \notin {"started", "create", "mkdir"}
    BY <1>a, <2>1, Zenon DEF Creating, Removing, Saving, Client, Renaming, InRm
  <2>3. /\ \A b \in Actors : act'[b].id = c => b = a \/ (act'[b] = act[b] /\ act[b].id = c)
        /\ \A b \in Actors \ {a} : /\ Creating(b)' <=> Creating(b)
                                   /\ Removing(b)' <=> Removing(b)
                                   /\ Renaming(b)' <=> Renaming(b)
                                   /\ Saving(b, c)' <=> Saving(b, c)
                                   /\ InRm(b, c)' <=> InRm(b, c)
                                   /\ Client(b)' <=> Client(b)
        /\ ~Starting(c)'
    <3>1. \A b \in Actors \ {a} : /\ Creating(b)' <=> Creating(b)
                                  /\ Removing(b)' <=> Removing(b)
                                  /\ Renaming(b)' <=> Renaming(b)
                                  /\ Saving(b, c)' <=> Saving(b, c)
                                  /\ InRm(b, c)' <=> InRm(b, c)
                                  /\ Client(b)' <=> Client(b)
      BY <2>1, Others, Zenon
    <3>2. ~Starting(c)'
      BY <1>0, <2>1, <2>2, OthersStart, LockFree, Zenon
    <3> QED
      BY <2>1, <3>1, <3>2, Zenon
  <2>4. Local(c)
    BY <1>c, <1>1, <1>3, <2>1, Zenon DEF Local
  <2>5. OnDisk(c)'
    <3>1. SavedOk(c)'
      <4>1. SavedOk(c)
        BY <1>0, Zenon DEF Ok, OnDisk, Reserved
      <4>2. \A b \in Actors : (Saving(b, c)' <=> Saving(b, c)) /\ (Saving(b, c) => act'[b] = act[b])
        BY <2>1, <2>2, <2>3, Zenon
      <4> QED
        BY <1>0, <1>1, <1>3, <4>1, <4>2, Zenon DEF SavedOk, Loaded, FailedCreate
    <3> QED
      BY <1>0, <1>1, <1>3, <2>1, <2>2, <2>3, <3>1, Zenon DEF Ok, OnDisk
  <2>6. Claimed(c)'
    <3>1. \A b \in Actors : act[b].id = c => act[b].by # "claim"
      BY <1>0, <1>3, Zenon DEF Ok, Claimed
    <3>2. ASSUME NEW b \in Actors, act'[b].id = c
          PROVE  /\ Creating(b)' <=> act'[b].by = "create" /\ ~Removing(b)'
                 /\ act'[b].by = "claim" => Removing(b)' /\ c \in RemovalInProgress'
                 /\ act'[b].by = "claim" => b = a
      <4>0. c \in RemovalInProgress'
        BY <1>3, Zenon
      <4>1. CASE b = a
        <5>1. ~Creating(b)' /\ Removing(b)' /\ act'[b].by = "claim"
          BY <2>1, <2>2, <4>1, Zenon
        <5> QED
          BY <4>0, <4>1, <5>1, Zenon
      <4>2. CASE b # a
        BY <1>0, <2>3, <3>1, <3>2, <4>2, Zenon DEF Ok, Claimed
      <4> QED
        BY <4>1, <4>2, Zenon
    <3> QED
      BY <3>2, Zenon DEF Claimed
  <2>7. ProcessOk(c)'
    BY <1>0, <1>1, <1>3, <2>2, <2>3, Zenon DEF Ok, ProcessOk
  <2>8. ASSUME c \notin orphans PROVE \A b \in Actors : act'[b].id = c /\ Removing(b)' => b = a
    <3> SUFFICES ASSUME NEW b \in Actors \ {a}, act[b].id = c, Removing(b)
                 PROVE  FALSE
      BY <2>3, Zenon
    <3>0. act[b].by \in {"rm", "create", "claim"}
      BY <1>0, Zenon DEF TypeOK, Acts
    <3>1. act[b].by # "claim"
      BY <1>0, <1>3, Zenon DEF Ok, Claimed
    <3>2. act[b].by # "create"
      BY <1>0, <1>3, <2>8, Zenon DEF Ok, DeadOk
    <3>3. act[b].by # "rm"
      BY <1>0, <2>8, Zenon DEF Ok, LeftOk, Alone
    <3> QED
      BY <3>0, <3>1, <3>2, <3>3, Zenon
  <2>9. ASSUME c \notin orphans PROVE DeadOk(c)'
    <3>0. DeadOk(c)
      BY <1>0, <2>9, Zenon DEF Ok
    <3>1. ASSUME NEW b \in Actors, act'[b].id = c, Removing(b)'
          PROVE  b = a /\ act'[b].pc = "cleanup" /\ act'[b].by = "claim"
      BY <2>1, <2>8, <2>9, <3>1, Zenon
    <3> QED
      BY <1>1, <1>3, <2>3, <3>0, <3>1, Zenon DEF DeadOk, Loaded
  <2>10. ASSUME c \notin orphans PROVE LeftOk(c)'
    <3>0. LeftOk(c)
      BY <1>0, <2>10, Zenon DEF Ok
    <3>1. \A b \in Actors : act[b].pc \in {"layer", "names"} \/ act[b].by = "create" \/ Renaming(b) =>
             act'[b] = act[b] /\ (Renaming(b)' <=> Renaming(b))
      BY <1>a, <1>b, <2>1, <2>3, Zenon
    <3>2. LayerOk(c)' /\ TracedOk(c)'
      BY <1>1, <1>3, <3>0, <3>1, Zenon DEF LeftOk, LayerOk, TracedOk, Loaded
    <3>3. Alone(a, c)'
      BY <2>1, <2>8, <2>10, Zenon DEF Alone
    <3>4. boot[c] \in {"load", "sync", "remove"} => OneRemoval(c)'
      <4>1. boot[c] \in {"load", "sync", "remove"} => OneRemoval(c)
        BY <3>0, Zenon DEF LeftOk
      <4>2. \A b \in Actors : InRm(b, c)' <=> InRm(b, c)
        BY <1>0, <2>2, <2>3, Zenon
      <4> QED
        BY <1>1, <1>3, <4>1, <4>2, Zenon DEF OneRemoval
    <3> QED
      BY <1>3, <2>8, <2>10, <3>2, <3>3, <3>4, Zenon DEF LeftOk
  <2>11. /\ \A b \in Actors : Client(b)' => Client(b) \/ Up
         /\ Up => boot'[c] \in {"none", "done", "skipped"}
    BY <1>3, <2>2, <2>3, Zenon DEF Up
  <2> QED
    BY <1>1, <2>4, <2>5, <2>6, <2>7, <2>9, <2>10, <2>11, LocalKeeps, Zenon DEF Ok
<1> QED
  BY <1>c, <1>2, <1>3, Zenon DEF RmClaim

\* cleanupContainer goes on.
LEMMA RmGoesOn ==
    ASSUME RegistryInv, NEW a \in Actors, NEW c \in Ids, act[a].id = c, Removing(a),
           \A b \in Actors \ {a} : act'[b] = act[b],
           Removing(a)', act'[a].id = c, act'[a].by = act[a].by,
           UNCHANGED <<names, Name, running, RemovalInProgress, reap, boot, alive, event, used,
                       orphans, loose, lost>>,
           \A d \in Ids \ {c} : /\ d \in containers' <=> d \in containers
                                /\ d \in dead' <=> d \in dead
                                /\ d \in RWLayer' <=> d \in RWLayer
                                /\ d \in layers' <=> d \in layers
                                /\ disk'[d] = disk[d],
           c \in containers' => c \in containers,
           c \in containers => c \in containers' \/ disk'[c] = NoDir,
           disk[c] = NoDir => disk'[c] = NoDir,
           SavedOk(c)'
    PROVE  /\ Local(c) /\ OnDisk(c)' /\ Claimed(c)' /\ ProcessOk(c)'
           /\ \A b \in Actors : Client(b)' => Client(b)
           /\ Up => boot'[c] \in {"none", "done", "skipped"}
           /\ \A b \in Actors \ {a} : Renaming(b)' <=> Renaming(b)
           /\ ~Renaming(a)
           /\ c \notin orphans =>
                /\ ~Starting(c)'
                /\ \A b \in Actors : act'[b].id = c /\ Removing(b)' => b = a
                /\ act[a].by = "rm" => /\ boot[c] = "removing" /\ c \notin reap
                                       /\ \A b \in Actors : InRm(b, c)' => b = a
                /\ (boot[c] \in {"load", "sync", "remove"} => OneRemoval(c))'
<1>0. /\ Ok(c) /\ TypeOK /\ c # None /\ boot[c] # "load" /\ act[a] \in Acts /\ InRm(a, c)
  <2>1. Ok(c) /\ IdOk(c) /\ TypeOK /\ c # None
    BY KnownOk, Zenon
  <2> QED
    BY <2>1, Zenon DEF IdOk, InRm, TypeOK
<1>1. \A b \in Actors \ {a} : /\ Creating(b)' <=> Creating(b)
                              /\ Removing(b)' <=> Removing(b)
                              /\ Renaming(b)' <=> Renaming(b)
                              /\ Saving(b, c)' <=> Saving(b, c)
                              /\ InRm(b, c)' <=> InRm(b, c)
                              /\ Client(b)' <=> Client(b)
  BY Others, Zenon
<1>2. \A b \in Actors : act'[b].id = c => b = a \/ (act'[b] = act[b] /\ act[b].id = c)
  BY Zenon
<1>3. /\ ~Creating(a)' /\ ~Client(a)' /\ ~Renaming(a) /\ InRm(a, c)' /\ ~Creating(a)
      /\ act'[a].pc # "started" /\ act'[a].pc # "create" /\ act'[a].pc # "mkdir"
  <2>1. InRm(a, c)'
    BY Zenon DEF InRm
  <2>2. ~Creating(a)' /\ ~Renaming(a) /\ ~Creating(a) /\ ~Renaming(a)'
    BY DEF Creating, Removing, Renaming
  <2>3. /\ act'[a].pc # "started" /\ act'[a].pc # "create" /\ act'[a].pc # "mkdir"
        /\ act'[a].pc # "rename"
    BY Zenon DEF Removing
  <2> QED
    BY <2>1, <2>2, <2>3, Zenon DEF Client
<1>4. Local(c)
  BY <1>0, Zenon DEF Local
<1>5. OnDisk(c)'
  <2>1. ASSUME NEW b \in Actors, act'[b].id = c
        PROVE  /\ act'[b].pc \in {"create", "mkdir"} => disk'[c] = NoDir
               /\ \/ c \in containers' \/ disk'[c] = NoDir
                  \/ act'[b].by = "create" /\ Reserved(Name[c], c)'
               /\ act'[b].by = "create" => boot'[c] = "none"
    <3>1. CASE b = a
      BY <1>0, <1>3, <3>1, Zenon DEF Ok, OnDisk, Reserved
    <3>2. CASE b # a
      BY <1>0, <1>2, <2>1, <3>2, Zenon DEF Ok, OnDisk, Reserved
    <3> QED
      BY <3>1, <3>2, Zenon
  <2>2. boot'[c] \notin {"none", "load", "done", "skipped"} => c \in containers' \/ disk'[c] = NoDir
    BY <1>0, Zenon DEF Ok, OnDisk
  <2> QED
    BY <2>1, <2>2, Zenon DEF OnDisk
<1>6. Claimed(c)'
  <2>1. ASSUME NEW b \in Actors, act'[b].id = c
        PROVE  /\ Creating(b)' <=> act'[b].by = "create" /\ ~Removing(b)'
               /\ act'[b].by = "claim" => Removing(b)' /\ c \in RemovalInProgress'
               /\ act[b].id = c /\ act'[b].by = act[b].by
    <3>1. CASE b = a
      BY <1>0, <1>3, <3>1, Zenon DEF Ok, Claimed
    <3>2. CASE b # a
      BY <1>0, <1>1, <1>2, <2>1, <3>2, Zenon DEF Ok, Claimed
    <3> QED
      BY <3>1, <3>2, Zenon
  <2>2. \A b, e \in Actors : /\ act[b].id = c /\ act[b].by = "claim"
                            /\ act[e].id = c /\ act[e].by = "claim" => e = b
    BY <1>0, Zenon DEF Ok, Claimed
  <2>3. ASSUME NEW b \in Actors, act'[b].id = c, act'[b].by = "claim",
               NEW e \in Actors, act'[e].id = c, act'[e].by = "claim"
        PROVE  e = b
    BY <2>1, <2>2, <2>3, Zenon
  <2> QED
    BY <2>1, <2>3, ZenonT(60) DEF Claimed
<1>7. ProcessOk(c)'
  BY <1>0, <1>1, <1>2, <1>3, Zenon DEF Ok, ProcessOk
<1>8. /\ \A b \in Actors : Client(b)' => Client(b)
      /\ Up => boot'[c] \in {"none", "done", "skipped"}
  BY <1>1, <1>3, Zenon DEF Up
<1>9. ASSUME c \notin orphans
      PROVE  /\ ~Starting(c)'
             /\ \A b \in Actors : act'[b].id = c /\ Removing(b)' => b = a
             /\ act[a].by = "rm" => /\ boot[c] = "removing" /\ c \notin reap
                                    /\ \A b \in Actors : InRm(b, c)' => b = a
             /\ boot[c] \in {"load", "sync", "remove"} => OneRemoval(c)'
  <2>0. DeadOk(c) /\ LeftOk(c) /\ Alone(a, c)
    BY <1>0, <1>9, Zenon DEF Ok, LeftOk
  <2>1. ~Starting(c)'
    BY <1>3, <2>0, OthersStart, Zenon DEF DeadOk
  <2>2. \A b \in Actors : act'[b].id = c /\ Removing(b)' => b = a
    BY <1>1, <1>2, <2>0, Zenon DEF Alone
  <2>3. act[a].by = "rm" => /\ boot[c] = "removing" /\ c \notin reap
                            /\ \A b \in Actors : InRm(b, c)' => b = a
    BY <1>1, <2>0, Zenon DEF Alone
  <2>4. ASSUME boot[c] \in {"load", "sync", "remove"} PROVE OneRemoval(c)'
    <3>0. OneRemoval(c)
      BY <2>0, <2>4, Zenon DEF LeftOk
    <3>1. c \in RemovalInProgress
      <4>1. act[a].by \in {"rm", "create", "claim"}
        BY <1>0, Zenon DEF Acts
      <4>2. act[a].by # "rm"
        BY <2>3, <2>4, Zenon
      <4>3. act[a].by # "create"
        BY <2>0, <2>4, Zenon DEF DeadOk
      <4> QED
        BY <1>0, <4>1, <4>2, <4>3, Zenon DEF Ok, Claimed
    <3>2. \A b \in Actors : InRm(b, c)' <=> InRm(b, c)
      BY <1>0, <1>1, <1>3, Zenon
    <3> QED
      BY <3>0, <3>1, <3>2, Zenon DEF OneRemoval
  <2> QED
    BY <2>1, <2>2, <2>3, <2>4, Zenon
<1> QED
  BY <1>1, <1>3, <1>4, <1>5, <1>6, <1>7, <1>8, <1>9, Zenon

\* A goroutine in cleanupContainer.
LEMMA InCleanup ==
    ASSUME RegistryInv, NEW a \in Actors, NEW c, c = act[a].id,
           act[a].pc \in {"cleanup", "dead", "layer", "root", "forget", "names"}
    PROVE  /\ c \in Ids /\ Ok(c) /\ IdOk(c) /\ ActOk(a) /\ TypeOK /\ c # None /\ boot[c] # "load"
           /\ Removing(a) /\ InRm(a, c) /\ ~Renaming(a) /\ ~Creating(a) /\ ~Saving(a, c)
           /\ c \in containers \/ disk[c] = NoDir \/ (act[a].by = "create" /\ Reserved(Name[c], c))
           /\ c \notin orphans => DeadOk(c) /\ LeftOk(c) /\ Alone(a, c)
           /\ Name[c] \in Names
<1>1. Removing(a) /\ act[a].pc # "idle"
  BY Zenon DEF Removing
<1>2. c \in Ids /\ Name[c] \in Names /\ ActOk(a)
  BY <1>1, AtWork, Zenon DEF RegistryInv
<1>3. Ok(c) /\ IdOk(c) /\ TypeOK /\ c # None
  BY <1>2, KnownOk, Zenon
<1>4. ~Renaming(a) /\ ~Creating(a) /\ ~Saving(a, c) /\ InRm(a, c)
  BY <1>1 DEF Removing, Renaming, Creating, Saving, InRm
<1>5. /\ boot[c] # "load"
      /\ c \in containers \/ disk[c] = NoDir \/ (act[a].by = "create" /\ Reserved(Name[c], c))
  BY <1>3, <1>4, Zenon DEF IdOk, Ok, OnDisk
<1>6. c \notin orphans => DeadOk(c) /\ LeftOk(c) /\ Alone(a, c)
  BY <1>1, <1>3, Zenon DEF Ok, LeftOk
<1> QED
  BY <1>1, <1>2, <1>3, <1>4, <1>5, <1>6, Zenon

\* What is on disk stays, with its name.
LEMMA SavedStays ==
    ASSUME RegistryInv, NEW a \in Actors, NEW c \in Ids, boot[c] # "load",
           UNCHANGED <<names, Name, loose, containers, boot, orphans>>, disk'[c] = disk[c],
           \A b \in Actors \ {a} : act'[b] = act[b], ~Saving(a, c), ~Saving(a, c)',
           act[a].id = c /\ act[a].by = "create" => act'[a].id = c /\ act'[a].by = "create"
    PROVE  SavedOk(c)'
<1>1. SavedOk(c)
  BY Zenon DEF RegistryInv, OnDisk, Reserved
<1>2. \A b \in Actors : (Saving(b, c)' <=> Saving(b, c)) /\ (Saving(b, c) => act'[b] = act[b])
  BY Zenon DEF Saving
<1>3. FailedCreate(c) => FailedCreate(c)'
  BY Zenon DEF FailedCreate
<1> QED
  BY <1>1, <1>2, <1>3, Zenon DEF SavedOk, Loaded

\* A directory and its names stay with the container or whoever cleans up after it.
LEMMA TracedStays ==
    ASSUME NEW c \in Ids, TracedOk(c),
           c \in containers => c \in containers', lost' = lost,
           \/ disk'[c] \in {disk[c], NoDir} \/ c \in containers
           \/ \E b \in Actors : act[b].id = c /\ act[b].by = "create",
           boot[c] \in {"load", "skipped"} => boot'[c] = boot[c],
           names' = names, loose' = loose, Name'[c] = Name[c],
           \A b \in Actors : act[b].id = c =>
              /\ act[b].by = "create" => act'[b].id = c /\ act'[b].by = "create"
              /\ act[b].pc = "names" => act'[b].id = c /\ act'[b].pc = "names"
              /\ Renaming(b) => act'[b].id = c /\ Renaming(b)' /\ act'[b].name = act[b].name
    PROVE  TracedOk(c)'
<1>1. disk'[c] # NoDir => \/ c \in containers'
                          \/ Loaded(c)' /\ boot'[c] \in {"load", "skipped"}
                          \/ \E a \in Actors : act'[a].id = c /\ act'[a].by = "create"
                          \/ disk'[c] = EmptyDir /\ c \in lost'
  <2>1. CASE c \in containers \/ \E b \in Actors : act[b].id = c /\ act[b].by = "create"
    BY <2>1, Zenon
  <2>2. CASE disk'[c] = NoDir
    BY <2>2, Zenon
  <2>3. CASE disk'[c] = disk[c]
    BY <2>1, <2>3, Zenon DEF TracedOk, Loaded
  <2> QED
    BY <2>1, <2>2, <2>3, Zenon
<1>2. ASSUME NEW n \in Names \ loose', names'[n] = c, c \notin containers'
      PROVE  \E a \in Actors : /\ act'[a].id = c
                               /\ \/ act'[a].by = "create" \/ act'[a].pc = "names"
                                  \/ Renaming(a)' /\ n \in {Name'[c], act'[a].name}
  <2>1. PICK a \in Actors : /\ act[a].id = c
                            /\ \/ act[a].by = "create" \/ act[a].pc = "names"
                               \/ Renaming(a) /\ n \in {Name[c], act[a].name}
    BY <1>2, Zenon DEF TracedOk
  <2> QED
    BY <2>1, Zenon
<1> QED
  BY <1>1, <1>2, Zenon DEF TracedOk

\* A layer stays with the container or with the goroutine that releases it.
LEMMA LayerStays ==
    ASSUME NEW c \in Ids, LayerOk(c),
           c \in layers' => c \in layers, c \in RWLayer => c \in RWLayer', lost' = lost,
           c \in containers => c \in containers',
           boot[c] = "load" => boot'[c] = "load", disk'[c] = disk[c] \/ Loaded(c)',
           \A b \in Actors : act[b].id = c =>
              /\ act[b].by = "create" => act'[b].id = c /\ act'[b].by = "create"
              /\ act[b].pc = "layer" => act'[b] = act[b]
    PROVE  LayerOk(c)'
<1> SUFFICES ASSUME c \in layers' \ lost' PROVE LayerOk(c)'
  BY Zenon DEF LayerOk
<1>1. \/ c \in RWLayer' \/ boot'[c] = "load"
      \/ \E a \in Actors : act'[a].id = c /\ act'[a].pc = "layer" /\ act'[a].rw = "yes"
  BY Zenon DEF LayerOk
<1>2. \/ Loaded(c)' \/ (disk'[c] = EmptyDir /\ c \in containers')
      \/ \E a \in Actors : act'[a].id = c /\ act'[a].by = "create"
  BY Zenon DEF LayerOk, Loaded
<1> QED
  BY <1>1, <1>2, Zenon DEF LayerOk

\* cleanupContainer of a container that runs, and of one that does not.
LEMMA RmStopOk ==
    ASSUME RegistryInv, NamesInv', NEW a \in Actors, RmStop(a)
    PROVE  RegistryInv'
<1>c. PICK c : c = act[a].id
  BY Zenon
<1>0. /\ c \in Ids /\ Ok(c) /\ TypeOK /\ c # None /\ boot[c] # "load" /\ act[a].pc = "cleanup"
      /\ Removing(a) /\ InRm(a, c) /\ ~Renaming(a) /\ ~Creating(a) /\ ~Saving(a, c)
      /\ c \in containers \/ disk[c] = NoDir \/ (act[a].by = "create" /\ Reserved(Name[c], c))
      /\ c \notin orphans => DeadOk(c) /\ LeftOk(c) /\ Alone(a, c)
  <2>1. act[a].pc = "cleanup"
    BY Zenon DEF RmStop
  <2> QED
    BY <1>c, <2>1, InCleanup, Zenon
<1>1. UNCHANGED <<containers, names, Name, dead, running, RWLayer, lock, reap, disk, layers, used,
                  orphans, loose, lost>>
  BY Zenon DEF RmStop, histVars
<1>2. CASE c \notin running /\ Goto(a, "dead") /\ UNCHANGED <<RemovalInProgress, boot, alive, event>>
  <2>1. /\ \A b \in Actors \ {a} : act'[b] = act[b]
        /\ act'[a].pc = "dead" /\ act'[a].id = c /\ act'[a].by = act[a].by
    BY <1>0, <1>c, <1>2, GoesOn, Zenon
  <2>2. Removing(a)' /\ ~Saving(a, c)'
    BY <2>1, Zenon DEF Removing, Saving
  <2>3. SavedOk(c)'
    BY <1>0, <1>1, <1>2, <2>1, <2>2, SavedStays, Zenon
  <2>4. /\ Local(c) /\ OnDisk(c)' /\ Claimed(c)' /\ ProcessOk(c)'
        /\ \A b \in Actors : Client(b)' => Client(b)
        /\ Up => boot'[c] \in {"none", "done", "skipped"}
        /\ \A b \in Actors \ {a} : Renaming(b)' <=> Renaming(b)
        /\ c \notin orphans =>
             /\ ~Starting(c)'
             /\ \A b \in Actors : act'[b].id = c /\ Removing(b)' => b = a
             /\ act[a].by = "rm" => /\ boot[c] = "removing" /\ c \notin reap
                                    /\ \A b \in Actors : InRm(b, c)' => b = a
             /\ (boot[c] \in {"load", "sync", "remove"} => OneRemoval(c))'
    BY <1>c, <1>0, <1>1, <1>2, <2>1, <2>2, <2>3, RmGoesOn, Zenon
  <2>5. ASSUME c \notin orphans PROVE DeadOk(c)'
    <3>1. ASSUME NEW b \in Actors, act'[b].id = c, Removing(b)'
          PROVE  /\ act'[b].by = "create" => c \notin containers' /\ boot'[c] = "none"
                 /\ act'[b].by = "rm" => c \in dead'
      <4>1. b = a
        BY <2>4, <2>5, <3>1, Zenon
      <4> QED
        BY <1>c, <1>0, <1>1, <1>2, <2>1, <2>5, <4>1, Zenon DEF DeadOk
    <3> QED
      BY <1>0, <1>1, <1>2, <2>4, <2>5, <3>1, Zenon DEF DeadOk, Loaded
  <2>6. ASSUME c \notin orphans PROVE LeftOk(c)'
    <3>1. \A b \in Actors : act[b].pc \in {"layer", "names"} \/ Renaming(b) =>
             act'[b] = act[b] /\ (Renaming(b)' <=> Renaming(b))
      BY <1>0, <2>1, <2>4, Zenon
    <3>2. \A b \in Actors : act[b].id = c => act'[b].id = c /\ act'[b].by = act[b].by
      BY <2>1, Zenon
    <3>w. /\ LayerOk(c) /\ TracedOk(c) /\ (Loaded(c) => Loaded(c)')
          /\ UNCHANGED <<boot, containers, disk, layers, RWLayer, names, loose, lost, Name>>
      BY <1>0, <1>1, <1>2, <2>6, Zenon DEF LeftOk, Loaded
    <3>3. LayerOk(c)'
      BY <1>0, <3>w, <3>1, <3>2, LayerStays, Zenon
    <3>4. TracedOk(c)'
      BY <1>0, <3>w, <3>1, <3>2, TracedStays, Zenon
    <3>5. Alone(a, c)'
      <4>1. act'[a].pc \notin {"layer", "root", "forget", "names"}
        BY <2>1, Zenon
      <4>2. boot' = boot /\ reap' = reap
        BY <1>1, <1>2, Zenon
      <4> QED
        BY <2>1, <2>4, <2>6, <4>1, <4>2, Zenon DEF Alone
    <3> QED
      BY <2>4, <2>6, <3>3, <3>4, <3>5, Zenon DEF LeftOk
  <2> QED
    BY <1>0, <1>1, <2>4, <2>5, <2>6, LocalKeeps, Zenon DEF Ok
<1>3. CASE c \in running /\ Up /\ RmReturn(a, c) /\ UNCHANGED <<alive, event>>
  <2>1. /\ \A b \in Actors \ {a} : act'[b] = act[b]
        /\ act'[a].pc = "idle" /\ act'[a].id = None
        /\ \A d \in Ids \ {c} : /\ d \in RemovalInProgress' <=> d \in RemovalInProgress
                                /\ boot'[d] = boot[d]
    BY <1>0, <1>3, RmReturnActs, Zenon
  <2>2. /\ OnDisk(c)' /\ Claimed(c)' /\ ProcessOk(c)'
        /\ c \notin orphans =>
             /\ DeadOk(c)'
             /\ \A b \in Actors : (act[b].id = c /\ Removing(b) => Alone(b, c))'
             /\ (boot[c] \in {"load", "sync", "remove"} => OneRemoval(c))'
        /\ \A b \in Actors : Client(b)' => Client(b)
        /\ Up => boot'[c] \in {"none", "done", "skipped"}
        /\ boot'[c] = "load" => boot[c] = "load"
        /\ boot[c] \in {"load", "skipped"} => boot'[c] = boot[c]
    <3>1. act[a].by = "create" => c \in orphans'
      BY <1>c, <1>0, <1>1, <1>3, Zenon DEF DeadOk
    <3>2. orphans \subseteq orphans' /\ (act[a].pc = "rm" => UNCHANGED <<RWLayer, layers>>)
      BY <1>1, Zenon
    <3> QED
      BY <1>0, <1>1, <1>3, <3>1, <3>2, RmReturnOk, ZenonT(60)
  <2>3. Local(c)
    BY <1>c, <1>1, <1>3, <2>1, <2>2, Zenon DEF Local
  <2>4. ASSUME c \notin orphans PROVE LayerOk(c)' /\ TracedOk(c)'
    <3>0. LayerOk(c) /\ TracedOk(c) /\ act[a].by # "create"
      BY <1>c, <1>0, <1>3, <2>4, Zenon DEF LeftOk, DeadOk
    <3>1. \A b \in Actors : act[b].pc \in {"layer", "names"} \/ act[b].by = "create" \/ Renaming(b) =>
             act'[b] = act[b] /\ (Renaming(b)' <=> Renaming(b))
      <4>1. \A b \in Actors \ {a} : Renaming(b)' <=> Renaming(b)
        BY <2>1, Others, Zenon
      <4> QED
        BY <1>0, <2>1, <3>0, <4>1, Zenon
    <3>2. LayerOk(c)'
      BY <1>1, <2>2, <3>0, <3>1, Zenon DEF LayerOk, Loaded
    <3>3. TracedOk(c)'
      BY <1>1, <2>2, <3>0, <3>1, ZenonT(60) DEF TracedOk, Loaded
    <3> QED
      BY <3>2, <3>3, Zenon
  <2> QED
    BY <1>0, <1>1, <2>2, <2>3, <2>4, LocalKeeps, Zenon DEF Ok, LeftOk
<1>4. CASE /\ c \in running /\ alive' = alive \ {c} /\ event' = event \cup {c}
           /\ UNCHANGED <<act, RemovalInProgress, boot>>
  <2>1. Local(c)
    BY <1>0, <1>1, <1>4, Zenon DEF Local
  <2>2. OnDisk(c)'
    BY <1>0, <1>1, <1>4, Zenon DEF Ok, OnDisk, SavedOk, Loaded, Creating, Saving, FailedCreate, Reserved
  <2>3. Claimed(c)' /\ ProcessOk(c)'
    BY <1>0, <1>1, <1>4, Zenon DEF Ok, Claimed, ProcessOk, Creating, Removing
  <2>4. ASSUME c \notin orphans PROVE DeadOk(c)'
    BY <1>0, <1>1, <1>4, <2>4, Zenon DEF DeadOk, Loaded, Starting, Removing
  <2>5. ASSUME c \notin orphans PROVE LeftOk(c)'
    <3>1. LayerOk(c)' /\ TracedOk(c)'
      BY <1>0, <1>1, <1>4, <2>5, Zenon DEF LeftOk, LayerOk, TracedOk, Loaded, Renaming
    <3>2. \A b \in Actors : (act[b].id = c /\ Removing(b) => Alone(b, c))'
      BY <1>0, <1>1, <1>4, <2>5, Zenon DEF LeftOk, Alone, Removing, InRm
    <3>3. boot[c] \notin {"load", "sync", "remove"}
      BY <1>0, <1>4, <2>5, Zenon DEF LeftOk, OneRemoval
    <3> QED
      BY <1>4, <3>1, <3>2, <3>3, Zenon DEF LeftOk
  <2>6. /\ \A b \in Actors : Client(b)' => Client(b) \/ Up
        /\ Up => boot'[c] \in {"none", "done", "skipped"}
    BY <1>0, <1>4, Zenon DEF Client, Creating, Renaming, Up
  <2> QED
    BY <1>0, <1>1, <2>1, <2>2, <2>3, <2>4, <2>5, <2>6, LocalKeeps, Zenon DEF Ok
<1> QED
  BY <1>c, <1>2, <1>3, <1>4, Zenon DEF RmStop

\* SetDead.
LEMMA RmDeadOk ==
    ASSUME RegistryInv, NamesInv', NEW a \in Actors, RmDead(a)
    PROVE  RegistryInv'
<1>c. PICK c : c = act[a].id
  BY Zenon
<1>0. /\ c \in Ids /\ Ok(c) /\ TypeOK /\ c # None /\ boot[c] # "load" /\ act[a].pc = "dead"
      /\ Removing(a) /\ InRm(a, c) /\ ~Renaming(a) /\ ~Creating(a) /\ ~Saving(a, c)
      /\ c \in containers \/ disk[c] = NoDir \/ (act[a].by = "create" /\ Reserved(Name[c], c))
      /\ c \notin orphans => DeadOk(c) /\ LeftOk(c) /\ Alone(a, c)
      /\ Name[c] \in Names /\ lock[c] = None
  <2>1. act[a].pc = "dead" /\ lock[c] = None
    BY <1>c, Zenon DEF RmDead
  <2> QED
    BY <1>c, <2>1, InCleanup, Zenon
<1>1. /\ UNCHANGED <<containers, names, Name, running, RemovalInProgress, lock, reap, boot,
                     layers, alive, event, used, orphans, loose, lost>>
      /\ dead' = dead \cup {c} /\ RWLayer' = RWLayer \ {c} /\ TrySave(c)
  BY <1>c, Zenon DEF RmDead, histVars
<1>2. /\ \A b \in Actors \ {a} : act'[b] = act[b]
      /\ act'[a].pc = "layer" /\ act'[a].id = c /\ act'[a].by = act[a].by
      /\ act'[a].rw = YesNo(c \in RWLayer)
  <2>1. act[a] \in Acts /\ act' = [act EXCEPT ![a].pc = "layer", ![a].rw = YesNo(c \in RWLayer)]
    BY <1>0, <1>c, Zenon DEF RmDead, TypeOK
  <2> QED
    BY <1>0, <1>c, <2>1, Zenon DEF TypeOK, Acts
<1>3. Removing(a)' /\ ~Saving(a, c)'
  BY <1>2, Zenon DEF Removing, Saving
<1>4. /\ \A d \in Ids \ {c} : disk'[d] = disk[d]
      /\ disk'[c] = NoDir <=> disk[c] = NoDir
      /\ Loaded(c) => Loaded(c)'
      /\ \/ disk'[c] = disk[c]
         \/ /\ disk[c] # NoDir /\ Loaded(c)' /\ disk'[c].name = Name[c]
            /\ disk'[c].dead = "yes" <=> c \in dead'
            /\ disk'[c].running = "no" <=> c \notin running
  BY <1>0, <1>1, SaveWrites, Zenon
<1>5. SavedOk(c)'
  <2>1. \A b \in Actors : ~Saving(b, c) /\ ~Saving(b, c)'
    <3>1. \A b \in Actors : ~Saving(b, c)
      BY <1>0, LockFree, Zenon
    <3> QED
      BY <1>2, <1>3, <3>1, Others, Zenon
  <2>2. Loaded(c)' => disk'[c] # NoDir
    BY RegistryAssumption, Zenon DEF Loaded, Saves
  <2>3. act[a].by = "create" => FailedCreate(c)'
    BY <1>2, Zenon DEF FailedCreate
  <2> QED
    BY <1>0, <1>1, <1>4, <2>1, <2>2, <2>3, ResaveOk, Zenon
<1>6. /\ Local(c) /\ OnDisk(c)' /\ Claimed(c)' /\ ProcessOk(c)'
      /\ \A b \in Actors : Client(b)' => Client(b)
      /\ Up => boot'[c] \in {"none", "done", "skipped"}
      /\ \A b \in Actors \ {a} : Renaming(b)' <=> Renaming(b)
      /\ c \notin orphans =>
           /\ ~Starting(c)'
           /\ \A b \in Actors : act'[b].id = c /\ Removing(b)' => b = a
           /\ act[a].by = "rm" => /\ boot[c] = "removing" /\ c \notin reap
                                  /\ \A b \in Actors : InRm(b, c)' => b = a
           /\ (boot[c] \in {"load", "sync", "remove"} => OneRemoval(c))'
  <2>1. \A d \in Ids \ {c} : /\ d \in containers' <=> d \in containers
                             /\ d \in dead' <=> d \in dead
                             /\ d \in RWLayer' <=> d \in RWLayer
                             /\ d \in layers' <=> d \in layers
                             /\ disk'[d] = disk[d]
    BY <1>1, <1>4, Zenon
  <2> QED
    BY <1>c, <1>0, <1>1, <1>2, <1>3, <1>4, <1>5, <2>1, RmGoesOn, Zenon
<1>7. ASSUME c \notin orphans PROVE DeadOk(c)'
  <2>0. DeadOk(c) /\ c \notin running /\ c \in dead'
    BY <1>c, <1>0, <1>1, <1>7, Zenon DEF DeadOk
  <2>1. ASSUME NEW b \in Actors, act'[b].id = c, Removing(b)'
        PROVE  act'[b].by = "create" => c \notin containers' /\ boot'[c] = "none"
    <3>1. b = a
      BY <1>6, <1>7, <2>1, Zenon
    <3> QED
      BY <1>c, <1>0, <1>1, <1>2, <2>0, <3>1, Zenon DEF DeadOk
  <2>2. Loaded(c)' /\ disk'[c].dead = "yes" => disk'[c].running = "no"
    BY <1>4, <2>0, Zenon DEF DeadOk, Loaded
  <2>3. ~Starting(c)' /\ c \notin running' /\ boot'[c] # "load"
    BY <1>0, <1>1, <1>6, <1>7, <2>0, Zenon
  <2> QED
    BY <2>0, <2>1, <2>2, <2>3, Zenon DEF DeadOk
<1>8. ASSUME c \notin orphans PROVE LeftOk(c)'
  <2>0. LayerOk(c) /\ TracedOk(c) /\ Alone(a, c)
    BY <1>0, <1>8, Zenon DEF LeftOk
  <2>1. LayerOk(c)'
    <3> SUFFICES ASSUME c \in layers \ lost PROVE LayerOk(c)'
      BY <1>1, Zenon DEF LayerOk
    <3>1. c \in RWLayer
      <4>1. \A b \in Actors : act[b].id = c /\ act[b].pc = "layer" => b = a
        BY <2>0, Zenon DEF Alone, Removing
      <4> QED
        BY <1>0, <2>0, <4>1, Zenon DEF LayerOk
    <3>2. act'[a].rw = "yes"
      BY <1>2, <3>1, Zenon DEF YesNo
    <3>3. \/ Loaded(c)' \/ (disk'[c] = EmptyDir /\ c \in containers')
          \/ \E b \in Actors : act'[b].id = c /\ act'[b].by = "create"
      BY <1>1, <1>2, <1>4, <2>0, Zenon DEF LayerOk
    <3> QED
      BY <1>2, <3>2, <3>3, Zenon DEF LayerOk
  <2>2. TracedOk(c)'
    <3>1. \A b \in Actors : act[b].id = c =>
              /\ act[b].by = "create" => act'[b].id = c /\ act'[b].by = "create"
              /\ act[b].pc = "names" => act'[b].id = c /\ act'[b].pc = "names"
              /\ Renaming(b) => act'[b].id = c /\ Renaming(b)' /\ act'[b].name = act[b].name
      BY <1>0, <1>2, <1>6, Zenon
    <3>2. \/ disk'[c] \in {disk[c], NoDir} \/ c \in containers
          \/ \E b \in Actors : act[b].id = c /\ act[b].by = "create"
      BY <1>c, <1>0, <1>4, Zenon
    <3> QED
      BY <1>0, <1>1, <2>0, <3>1, <3>2, TracedStays, Zenon
  <2>3. Alone(a, c)'
    <3>1. c \notin RWLayer' /\ act'[a].pc \notin {"root", "forget", "names"} /\ UNCHANGED <<boot, reap>>
      BY <1>1, <1>2, Zenon
    <3> QED
      BY <1>2, <1>6, <1>8, <3>1, Zenon DEF Alone
  <2> QED
    BY <1>6, <1>8, <2>1, <2>2, <2>3, Zenon DEF LeftOk
<1> QED
  BY <1>0, <1>1, <1>6, <1>7, <1>8, LocalKeeps, Zenon DEF Ok

\* The directory is gone, the container is forgotten.
LEMMA RmForgetOk ==
    ASSUME RegistryInv, NamesInv', NEW a \in Actors, RmForget(a)
    PROVE  RegistryInv'
<1>c. PICK c : c = act[a].id
  BY Zenon
<1>0. /\ c \in Ids /\ Ok(c) /\ TypeOK /\ c # None /\ boot[c] # "load" /\ act[a].pc = "forget"
      /\ Removing(a) /\ InRm(a, c) /\ ~Renaming(a) /\ ~Creating(a) /\ ~Saving(a, c)
      /\ c \notin orphans => DeadOk(c) /\ LeftOk(c) /\ Alone(a, c)
      /\ ActOk(a)
  <2>1. act[a].pc = "forget"
    BY Zenon DEF RmForget
  <2> QED
    BY <1>c, <2>1, InCleanup, Zenon
<1>1. /\ UNCHANGED <<names, Name, dead, running, RemovalInProgress, RWLayer, lock, reap, boot,
                     disk, layers, alive, event, used, orphans, loose, lost>>
      /\ containers' = containers \ {c}
      /\ disk[c] = NoDir
  BY <1>0, <1>c, Zenon DEF RmForget, diskVars, histVars, ActOk
<1>2. /\ \A b \in Actors \ {a} : act'[b] = act[b]
      /\ act'[a].pc = "names" /\ act'[a].id = c /\ act'[a].by = act[a].by
  BY <1>0, <1>c, GoesOn, Zenon DEF RmForget
<1>3. Removing(a)' /\ SavedOk(c)' /\ ~Loaded(c)'
  <2>1. ~Loaded(c)'
    BY <1>1, RegistryAssumption, Zenon DEF Loaded, Saves
  <2> QED
    BY <1>2, <2>1, Zenon DEF Removing, SavedOk, FailedCreate
<1>6. /\ Local(c) /\ OnDisk(c)' /\ Claimed(c)' /\ ProcessOk(c)'
      /\ \A b \in Actors : Client(b)' => Client(b)
      /\ Up => boot'[c] \in {"none", "done", "skipped"}
      /\ c \notin orphans =>
           /\ ~Starting(c)'
           /\ \A b \in Actors : act'[b].id = c /\ Removing(b)' => b = a
           /\ act[a].by = "rm" => /\ boot[c] = "removing" /\ c \notin reap
                                  /\ \A b \in Actors : InRm(b, c)' => b = a
           /\ (boot[c] \in {"load", "sync", "remove"} => OneRemoval(c))'
  <2>1. \A d \in Ids \ {c} : /\ d \in containers' <=> d \in containers
                             /\ d \in dead' <=> d \in dead
                             /\ d \in RWLayer' <=> d \in RWLayer
                             /\ d \in layers' <=> d \in layers
                             /\ disk'[d] = disk[d]
    BY <1>1, Zenon
  <2>2. /\ c \in containers' => c \in containers
        /\ disk'[c] = NoDir
    BY <1>1, Zenon
  <2> QED
    BY <1>c, <1>0, <1>1, <1>2, <1>3, <2>1, <2>2, RmGoesOn, Zenon
<1>7. ASSUME c \notin orphans PROVE DeadOk(c)'
  <2>0. DeadOk(c) /\ c \notin running
    BY <1>c, <1>0, <1>7, Zenon DEF DeadOk
  <2>1. ASSUME NEW b \in Actors, act'[b].id = c, Removing(b)'
        PROVE  /\ act'[b].by = "create" => c \notin containers' /\ boot'[c] = "none"
               /\ act'[b].by = "rm" => c \in dead'
    <3>1. b = a
      BY <1>6, <1>7, <2>1, Zenon
    <3> QED
      BY <1>c, <1>0, <1>1, <1>2, <2>0, <3>1, Zenon DEF DeadOk
  <2> QED
    BY <1>0, <1>1, <1>3, <1>6, <1>7, <2>0, <2>1, Zenon DEF DeadOk
<1>8. ASSUME c \notin orphans PROVE LeftOk(c)'
  <2>0. (c \notin layers \/ c \in lost) /\ c \notin RWLayer
    BY <1>0, <1>8, Zenon DEF Alone
  <2>1. LayerOk(c)' /\ TracedOk(c)'
    BY <1>1, <1>2, <2>0, Zenon DEF LayerOk, TracedOk
  <2>2. Alone(a, c)'
    <3>1. c \notin RWLayer' /\ (c \notin layers' \/ c \in lost') /\ UNCHANGED <<boot, reap>>
      BY <1>1, <2>0, Zenon
    <3> QED
      BY <1>2, <1>6, <1>8, <3>1, Zenon DEF Alone
  <2> QED
    BY <1>6, <1>8, <2>1, <2>2, Zenon DEF LeftOk
<1> QED
  BY <1>0, <1>1, <1>6, <1>7, <1>8, LocalKeeps, Zenon DEF Ok

\* A removal that fails gives back its claim; after a create it leaves an orphan.
LEMMA RmFailsOk ==
    ASSUME RegistryInv, NamesInv', NEW a \in Actors, NEW c \in Ids, c = act[a].id,
           act[a].pc \in {"layer", "root"}, RmFails(a, c),
           UNCHANGED <<containers, names, Name, dead, running, lock, reap, layers, alive, event,
                       used, loose, lost>>,
           \A d \in Ids \ {c} : disk'[d] = disk[d],
           \/ disk'[c] = disk[c]
           \/ disk'[c] = EmptyDir /\ disk[c] # NoDir /\ act[a].pc # "layer",
           \A d \in Ids \ {c} : d \in RWLayer' <=> d \in RWLayer,
           c \in RWLayer => c \in RWLayer',
           act[a].pc = "layer" => c \in RWLayer'
    PROVE  RegistryInv'
<1>0. /\ Ok(c) /\ TypeOK /\ c # None /\ boot[c] # "load"
      /\ Removing(a) /\ InRm(a, c) /\ ~Renaming(a)
      /\ c \in containers \/ disk[c] = NoDir \/ act[a].by = "create"
      /\ c \notin orphans => DeadOk(c) /\ LeftOk(c) /\ Alone(a, c)
  <2>1. act[a].pc \in {"cleanup", "dead", "layer", "root", "forget", "names"}
    BY Zenon
  <2> QED
    BY <2>1, InCleanup, Zenon
<1>f. /\ RmReturn(a, c) /\ orphans \subseteq orphans'
      /\ c \notin orphans' => c \notin orphans /\ act[a].by # "create"
      /\ act[a].by = "create" => c \in orphans'
      /\ act[a].pc # "rm" /\ act[a].pc # "names"
  BY Zenon DEF RmFails
<1>1. /\ \A b \in Actors \ {a} : act'[b] = act[b]
      /\ act'[a].pc = "idle" /\ act'[a].id = None
      /\ \A d \in Ids \ {c} : /\ d \in RemovalInProgress' <=> d \in RemovalInProgress
                              /\ boot'[d] = boot[d]
  BY <1>0, <1>f, RmReturnActs, ZenonT(60)
<1>2. /\ OnDisk(c)' /\ Claimed(c)' /\ ProcessOk(c)'
      /\ c \notin orphans =>
           /\ DeadOk(c)'
           /\ \A b \in Actors : (act[b].id = c /\ Removing(b) => Alone(b, c))'
           /\ (boot[c] \in {"load", "sync", "remove"} => OneRemoval(c))'
      /\ \A b \in Actors : Client(b)' => Client(b)
      /\ Up => boot'[c] \in {"none", "done", "skipped"}
      /\ boot'[c] = "load" => boot[c] = "load"
      /\ boot[c] \in {"load", "skipped"} => boot'[c] = boot[c]
  BY <1>0, <1>f, RmReturnOk, ZenonT(60)
<1>3. Local(c)
  BY <1>0, <1>f, <1>1, <1>2, ZenonT(60) DEF Local
<1>4. ASSUME c \notin orphans' PROVE LayerOk(c)' /\ TracedOk(c)'
  <2>0. LayerOk(c) /\ TracedOk(c) /\ act[a].by # "create" /\ Alone(a, c)
    BY <1>0, <1>f, <1>4, Zenon DEF LeftOk
  <2>1. \A b \in Actors \ {a} : Renaming(b)' <=> Renaming(b)
    BY <1>1, Others, Zenon
  <2>2. \A b \in Actors : act[b].id = c =>
              /\ act[b].by = "create" => act'[b].id = c /\ act'[b].by = "create"
              /\ act[b].pc = "names" => act'[b].id = c /\ act'[b].pc = "names"
              /\ Renaming(b) => act'[b].id = c /\ Renaming(b)' /\ act'[b].name = act[b].name
    BY <1>0, <1>f, <1>1, <2>0, <2>1, Zenon
  <2>3. TracedOk(c)'
    <3>1. disk'[c] \in {disk[c], NoDir} \/ c \in containers
      BY <1>0, <2>0, Zenon
    <3> QED
      BY <1>2, <2>0, <2>2, <3>1, TracedStays, Zenon
  <2>4. CASE act[a].pc = "layer"
    <3>1. c \in layers \ lost => \/ Loaded(c)' \/ (disk'[c] = EmptyDir /\ c \in containers')
                               \/ \E b \in Actors : act'[b].id = c /\ act'[b].by = "create"
      BY <2>0, <2>2, <2>4, Zenon DEF LayerOk, Loaded
    <3> QED
      BY <2>3, <2>4, <3>1, Zenon DEF LayerOk
  <2>5. CASE act[a].pc = "root"
    BY <2>0, <2>3, <2>5, Zenon DEF LayerOk, Alone
  <2> QED
    BY <2>4, <2>5, Zenon
<1> QED
  BY <1>f, <1>2, <1>3, <1>4, LocalKeeps, Zenon DEF Ok, LeftOk

\* ReleaseLayer.
LEMMA RmLayerOk ==
    ASSUME RegistryInv, NamesInv', NEW a \in Actors, RmLayer(a)
    PROVE  RegistryInv'
<1>c. PICK c : c = act[a].id
  BY Zenon
<1>0. /\ c \in Ids /\ Ok(c) /\ TypeOK /\ c # None /\ boot[c] # "load" /\ act[a].pc = "layer"
      /\ Removing(a) /\ InRm(a, c) /\ ~Renaming(a) /\ ~Creating(a) /\ ~Saving(a, c)
      /\ c \in containers \/ disk[c] = NoDir \/ (act[a].by = "create" /\ Reserved(Name[c], c))
      /\ c \notin orphans => DeadOk(c) /\ LeftOk(c) /\ Alone(a, c)
  <2>1. act[a].pc = "layer"
    BY Zenon DEF RmLayer
  <2> QED
    BY <1>c, <2>1, InCleanup, Zenon
<1>1. UNCHANGED <<containers, names, Name, dead, running, lock, reap, disk, alive, event, used, loose, lost>>
  BY Zenon DEF RmLayer
<1>2. CASE /\ layers' = IF act[a].rw = "yes" THEN layers \ {c} ELSE layers
           /\ Goto(a, "root") /\ UNCHANGED <<RWLayer, RemovalInProgress, boot, orphans>>
  <2>1. /\ \A b \in Actors \ {a} : act'[b] = act[b]
        /\ act'[a].pc = "root" /\ act'[a].id = c /\ act'[a].by = act[a].by
        /\ UNCHANGED <<RWLayer, RemovalInProgress, boot, orphans>>
    BY <1>0, <1>c, <1>2, GoesOn, Zenon
  <2>2. Removing(a)' /\ ~Saving(a, c)'
    BY <2>1, Zenon DEF Removing, Saving
  <2>3. SavedOk(c)'
    BY <1>0, <1>1, <2>1, <2>2, SavedStays, Zenon
  <2>4. \A d \in Ids \ {c} : /\ d \in containers' <=> d \in containers
                             /\ d \in dead' <=> d \in dead
                             /\ d \in RWLayer' <=> d \in RWLayer
                             /\ d \in layers' <=> d \in layers
                             /\ disk'[d] = disk[d]
    BY <1>1, <1>2, Zenon
  <2>6. /\ Local(c) /\ OnDisk(c)' /\ Claimed(c)' /\ ProcessOk(c)'
        /\ \A b \in Actors : Client(b)' => Client(b)
        /\ Up => boot'[c] \in {"none", "done", "skipped"}
        /\ \A b \in Actors \ {a} : Renaming(b)' <=> Renaming(b)
        /\ c \notin orphans =>
             /\ ~Starting(c)'
             /\ \A b \in Actors : act'[b].id = c /\ Removing(b)' => b = a
             /\ act[a].by = "rm" => /\ boot[c] = "removing" /\ c \notin reap
                                    /\ \A b \in Actors : InRm(b, c)' => b = a
             /\ (boot[c] \in {"load", "sync", "remove"} => OneRemoval(c))'
    BY <1>c, <1>0, <1>1, <2>1, <2>2, <2>3, <2>4, RmGoesOn, Zenon
  <2>7. ASSUME c \notin orphans PROVE DeadOk(c)'
    <3>0. DeadOk(c) /\ c \notin running
      BY <1>c, <1>0, <2>7, Zenon DEF DeadOk
    <3>1. ASSUME NEW b \in Actors, act'[b].id = c, Removing(b)'
          PROVE  /\ act'[b].by = "create" => c \notin containers' /\ boot'[c] = "none"
                 /\ act'[b].by = "rm" => c \in dead'
      <4>1. b = a
        BY <2>6, <2>7, <3>1, Zenon
      <4> QED
        BY <1>c, <1>0, <1>1, <2>1, <3>0, <4>1, Zenon DEF DeadOk
    <3> QED
      BY <1>0, <1>1, <2>1, <2>6, <2>7, <3>0, <3>1, Zenon DEF DeadOk, Loaded
  <2>8. ASSUME c \notin orphans PROVE LeftOk(c)'
    <3>0. LayerOk(c) /\ TracedOk(c) /\ Alone(a, c) /\ c \notin RWLayer
      BY <1>0, <2>8, Zenon DEF LeftOk, Alone
    <3>1. c \notin layers' \/ c \in lost'
      <4>1. CASE act[a].rw = "yes"
        BY <1>2, <4>1
      <4>2. CASE act[a].rw # "yes"
        <5>1. \A b \in Actors : act[b].id = c /\ act[b].pc = "layer" => b = a
          BY <3>0, Zenon DEF Alone, Removing
        <5>2. c \notin layers \/ c \in lost
          BY <1>0, <3>0, <4>2, <5>1, Zenon DEF LayerOk
        <5> QED
          BY <1>1, <1>2, <4>2, <5>2, Zenon
      <4> QED
        BY <4>1, <4>2, Zenon
    <3>2. TracedOk(c)'
      <4>1. act[a].pc # "names"
        BY <1>0, Zenon
      <4>2. \A b \in Actors : act[b].id = c =>
                /\ act[b].by = "create" => act'[b].id = c /\ act'[b].by = "create"
                /\ act[b].pc = "names" => act'[b].id = c /\ act'[b].pc = "names"
                /\ Renaming(b) => act'[b].id = c /\ Renaming(b)' /\ act'[b].name = act[b].name
        BY <1>0, <2>1, <2>6, <4>1, Zenon
      <4> QED
        BY <1>0, <1>1, <2>1, <3>0, <4>2, TracedStays, Zenon
    <3>3. Alone(a, c)'
      <4>1. c \notin RWLayer' /\ UNCHANGED <<boot, reap>>
        BY <1>1, <2>1, <3>0, Zenon
      <4> QED
        BY <2>1, <2>6, <2>8, <3>1, <4>1, Zenon DEF Alone
    <3>4. LayerOk(c)'
      BY <3>1, Zenon DEF LayerOk
    <3> QED
      BY <2>6, <2>8, <3>2, <3>3, <3>4, Zenon DEF LeftOk
  <2> QED
    BY <1>0, <2>1, <2>6, <2>7, <2>8, LocalKeeps, Zenon DEF Ok
<1>3. CASE RWLayer' = RWLayer \cup {c} /\ RmFails(a, c) /\ layers' = layers
  <2>1. /\ \A d \in Ids \ {c} : d \in RWLayer' <=> d \in RWLayer
        /\ c \in RWLayer'
    BY <1>3, Zenon
  <2>2. act[a].pc \in {"layer", "root"}
    BY <1>0, Zenon
  <2> QED
    BY <1>c, <1>0, <1>1, <1>3, <2>1, <2>2, RmFailsOk, Zenon
<1> QED
  BY <1>c, <1>2, <1>3, Zenon DEF RmLayer

\* EnsureRemoveAll.
LEMMA RmRootOk ==
    ASSUME RegistryInv, NamesInv', NEW a \in Actors, RmRoot(a)
    PROVE  RegistryInv'
<1>c. PICK c : c = act[a].id
  BY Zenon
<1>0. /\ c \in Ids /\ Ok(c) /\ TypeOK /\ c # None /\ boot[c] # "load" /\ act[a].pc = "root"
      /\ Removing(a) /\ InRm(a, c) /\ ~Renaming(a)
      /\ c \notin orphans => DeadOk(c) /\ LeftOk(c) /\ Alone(a, c)
  <2>1. act[a].pc = "root"
    BY Zenon DEF RmRoot
  <2> QED
    BY <1>c, <2>1, InCleanup, Zenon
<1>1. UNCHANGED <<containers, names, Name, dead, running, RWLayer, lock, reap, layers, alive, event,
                  used, loose, lost>>
  BY Zenon DEF RmRoot
<1>2. CASE /\ disk' = [disk EXCEPT ![c] = NoDir] /\ Goto(a, "forget")
           /\ UNCHANGED <<RemovalInProgress, boot, orphans>>
  <2>1. /\ \A b \in Actors \ {a} : act'[b] = act[b]
        /\ act'[a].pc = "forget" /\ act'[a].id = c /\ act'[a].by = act[a].by
        /\ UNCHANGED <<RemovalInProgress, boot, orphans>>
    BY <1>0, <1>c, <1>2, GoesOn, Zenon
  <2>2. disk'[c] = NoDir /\ \A d \in Ids \ {c} : disk'[d] = disk[d]
    BY <1>0, <1>2, Zenon DEF TypeOK
  <2>3. Removing(a)' /\ SavedOk(c)' /\ ~Loaded(c)'
    <3>1. ~Loaded(c)'
      BY <2>2, RegistryAssumption, Zenon DEF Loaded, Saves
    <3> QED
      BY <2>1, <3>1, Zenon DEF Removing, SavedOk, FailedCreate
  <2>6. /\ Local(c) /\ OnDisk(c)' /\ Claimed(c)' /\ ProcessOk(c)'
        /\ \A b \in Actors : Client(b)' => Client(b)
        /\ Up => boot'[c] \in {"none", "done", "skipped"}
        /\ \A b \in Actors \ {a} : Renaming(b)' <=> Renaming(b)
        /\ c \notin orphans =>
             /\ ~Starting(c)'
             /\ \A b \in Actors : act'[b].id = c /\ Removing(b)' => b = a
             /\ act[a].by = "rm" => /\ boot[c] = "removing" /\ c \notin reap
                                    /\ \A b \in Actors : InRm(b, c)' => b = a
             /\ (boot[c] \in {"load", "sync", "remove"} => OneRemoval(c))'
    <3>1. \A d \in Ids \ {c} : /\ d \in containers' <=> d \in containers
                               /\ d \in dead' <=> d \in dead
                               /\ d \in RWLayer' <=> d \in RWLayer
                               /\ d \in layers' <=> d \in layers
                               /\ disk'[d] = disk[d]
      BY <1>1, <2>2, Zenon
    <3>2. c \in containers' => c \in containers
      BY <1>1, Zenon
    <3> QED
      BY <1>c, <1>0, <1>1, <2>1, <2>2, <2>3, <3>1, <3>2, RmGoesOn, Zenon
  <2>7. ASSUME c \notin orphans PROVE DeadOk(c)'
    <3>0. DeadOk(c) /\ c \notin running
      BY <1>c, <1>0, <2>7, Zenon DEF DeadOk
    <3>1. ASSUME NEW b \in Actors, act'[b].id = c, Removing(b)'
          PROVE  /\ act'[b].by = "create" => c \notin containers' /\ boot'[c] = "none"
                 /\ act'[b].by = "rm" => c \in dead'
      <4>1. b = a
        BY <2>6, <2>7, <3>1, Zenon
      <4> QED
        BY <1>c, <1>0, <1>1, <2>1, <3>0, <4>1, Zenon DEF DeadOk
    <3> QED
      BY <1>0, <1>1, <2>1, <2>3, <2>6, <2>7, <3>0, <3>1, Zenon DEF DeadOk
  <2>8. ASSUME c \notin orphans PROVE LeftOk(c)'
    <3>0. TracedOk(c) /\ c \notin RWLayer /\ (c \notin layers \/ c \in lost)
      BY <1>0, <2>8, Zenon DEF LeftOk, Alone
    <3>1. TracedOk(c)'
      <4>1. act[a].pc # "names"
        BY <1>0, Zenon
      <4>2. \A b \in Actors : act[b].id = c =>
                /\ act[b].by = "create" => act'[b].id = c /\ act'[b].by = "create"
                /\ act[b].pc = "names" => act'[b].id = c /\ act'[b].pc = "names"
                /\ Renaming(b) => act'[b].id = c /\ Renaming(b)' /\ act'[b].name = act[b].name
        BY <1>0, <2>1, <2>6, <4>1, Zenon
      <4> QED
        BY <1>0, <1>1, <2>1, <2>2, <3>0, <4>2, TracedStays, Zenon
    <3>2. Alone(a, c)'
      <4>1. c \notin RWLayer' /\ (c \notin layers' \/ c \in lost') /\ UNCHANGED <<boot, reap>>
        BY <1>1, <2>1, <3>0, Zenon
      <4> QED
        BY <2>1, <2>6, <2>8, <4>1, Zenon DEF Alone
    <3>3. LayerOk(c)'
      BY <1>1, <3>0, Zenon DEF LayerOk
    <3> QED
      BY <2>6, <2>8, <3>1, <3>2, <3>3, Zenon DEF LeftOk
  <2> QED
    BY <1>0, <2>1, <2>6, <2>7, <2>8, LocalKeeps, Zenon DEF Ok
<1>3. CASE /\ RmFails(a, c) /\ disk[c] # NoDir
           /\ disk' \in {disk, [disk EXCEPT ![c] = EmptyDir]}
  <2>1. act[a].pc \in {"layer", "root"} /\ act[a].pc # "layer"
    BY <1>0, Zenon
  <2>2. /\ \A d \in Ids \ {c} : disk'[d] = disk[d]
        /\ disk'[c] = disk[c] \/ disk'[c] = EmptyDir
    BY <1>0, <1>3, Zenon DEF TypeOK
  <2> QED
    BY <1>c, <1>0, <1>1, <1>3, <2>1, <2>2, RmFailsOk, ZenonT(60)
<1> QED
  BY <1>c, <1>2, <1>3, Zenon DEF RmRoot

\* The names are released, the removal returns.
LEMMA RmNamesOk ==
    ASSUME RegistryInv, NamesInv', NEW a \in Actors, RmNames(a)
    PROVE  RegistryInv'
<1>c. PICK c : c = act[a].id
  BY Zenon
<1>0. /\ c \in Ids /\ Ok(c) /\ TypeOK /\ c # None /\ act[a].pc = "names" /\ InRm(a, c)
      /\ c \notin orphans => LeftOk(c) /\ Alone(a, c)
      /\ ActOk(a)
  <2>1. act[a].pc = "names"
    BY Zenon DEF RmNames
  <2> QED
    BY <1>c, <2>1, InCleanup, Zenon
<1>1. /\ UNCHANGED <<containers, Name, dead, running, RWLayer, lock, reap, disk, layers, alive, event,
                     used, orphans, loose, lost>>
      /\ RmReturn(a, c) /\ disk[c] = NoDir /\ act[a].pc # "rm"
      /\ \A n \in Names : names'[n] = IF names[n] = c THEN None ELSE names[n]
  BY <1>0, <1>c, Zenon DEF RmNames, diskVars, histVars, ActOk, DeleteNames
<1>2. /\ \A b \in Actors \ {a} : act'[b] = act[b]
      /\ act'[a].pc = "idle" /\ act'[a].id = None
      /\ \A d \in Ids \ {c} : /\ d \in RemovalInProgress' <=> d \in RemovalInProgress
                              /\ boot'[d] = boot[d]
  BY <1>0, <1>1, RmReturnActs, Zenon
<1>3. /\ OnDisk(c)' /\ Claimed(c)' /\ ProcessOk(c)'
      /\ c \notin orphans =>
           /\ DeadOk(c)'
           /\ \A b \in Actors : (act[b].id = c /\ Removing(b) => Alone(b, c))'
           /\ (boot[c] \in {"load", "sync", "remove"} => OneRemoval(c))'
      /\ \A b \in Actors : Client(b)' => Client(b)
      /\ Up => boot'[c] \in {"none", "done", "skipped"}
      /\ boot'[c] = "load" => boot[c] = "load"
  BY <1>0, <1>1, RmReturnOk, Zenon
<1>4. Local(c)
  <2>1. /\ \A n \in Names : names'[n] = names[n] \/ {names[n], names'[n]} \subseteq {None, c}
        /\ \A n \in Names : names'[n] # c
    BY <1>0, <1>1, Zenon
  <2> QED
    BY <1>c, <1>1, <1>2, <1>3, <2>1, Zenon DEF Local
<1>5. ASSUME c \notin orphans PROVE LayerOk(c)' /\ TracedOk(c)'
  <2>1. c \notin layers' \/ c \in lost'
    BY <1>0, <1>1, <1>5, Zenon DEF Alone
  <2>2. \A n \in Names : names'[n] # c
    BY <1>0, <1>1, Zenon
  <2> QED
    BY <1>1, <2>1, <2>2, Zenon DEF LayerOk, TracedOk
<1> QED
  BY <1>0, <1>1, <1>3, <1>4, <1>5, LocalKeeps, Zenon DEF Ok, LeftOk

-----------------------------------------------------------------------------
(* Rename *)

\* A rename looks its container up.
LEMMA RenameGetOk ==
    ASSUME RegistryInv, NamesInv', NEW a \in Actors, NEW c \in Ids, NEW n \in Names,
           RenameGet(a, c, n)
    PROVE  RegistryInv'
<1>0. /\ Ok(c) /\ IdOk(c) /\ TypeOK /\ c # None /\ act[a] = Idle /\ c \in containers /\ Up
  BY KnownOk, Zenon DEF RenameGet
<1>1. UNCHANGED <<containers, names, Name, dead, running, RemovalInProgress, RWLayer, lock, reap, boot,
                  disk, layers, alive, event, used, orphans, loose, lost>>
  BY Zenon DEF RenameGet, memVars, diskVars, histVars
<1>2. /\ \A b \in Actors \ {a} : act'[b] = act[b]
      /\ act'[a].pc = "rename" /\ act'[a].id = c /\ act'[a].by = "rm" /\ act[a].id = None
  BY <1>0, IdleAct, Zenon DEF RenameGet, TypeOK, Idle
<1>3. Local(c)
  BY <1>0, <1>1, <1>2, Zenon DEF Local
<1>4. /\ ~Creating(a)' /\ ~Removing(a)' /\ ~Saving(a, c)' /\ ~Saving(a, c) /\ ~InRm(a, c)' /\ ~InRm(a, c)
      /\ act'[a].pc # "started"
  BY <1>0, <1>2, Zenon DEF Creating, Removing, Saving, InRm
<1>5. \A b \in Actors \ {a} : /\ Creating(b)' <=> Creating(b)
                              /\ Removing(b)' <=> Removing(b)
                              /\ Renaming(b)' <=> Renaming(b)
                              /\ Saving(b, c)' <=> Saving(b, c)
                              /\ InRm(b, c)' <=> InRm(b, c)
                              /\ Client(b)' <=> Client(b)
  BY <1>2, Others, Zenon
<1>6. /\ \A b \in Actors : /\ act[b].id = c => b # a /\ act'[b] = act[b]
                           /\ act'[b].id = c => b = a \/ (act'[b] = act[b] /\ act[b].id = c)
                           /\ InRm(b, c)' <=> InRm(b, c)
      /\ Starting(c)' => Starting(c)
      /\ Loaded(c)' <=> Loaded(c)
  <2>1. Starting(c)' => Starting(c)
    BY <1>2, <1>4, OthersStart, Zenon
  <2> QED
    BY <1>0, <1>1, <1>2, <1>4, <1>5, <2>1, Zenon DEF Loaded
<1>7. OnDisk(c)'
  <2>1. SavedOk(c)'
    BY <1>0, <1>1, <1>2, <1>4, SavedStays, Zenon DEF IdOk
  <2> QED
    BY <1>0, <1>1, <1>2, <1>5, <1>6, <2>1, Zenon DEF Ok, OnDisk, Reserved
<1>8. Claimed(c)'
  BY <1>0, <1>1, <1>2, <1>4, <1>5, <1>6, ZenonT(60) DEF Ok, Claimed
<1>9. ProcessOk(c)'
  BY <1>0, <1>1, <1>4, <1>5, <1>6, Zenon DEF Ok, ProcessOk
<1>10. ASSUME c \notin orphans PROVE DeadOk(c)'
  BY <1>0, <1>1, <1>4, <1>5, <1>6, <1>10, Zenon DEF Ok, DeadOk
<1>11. ASSUME c \notin orphans PROVE LeftOk(c)'
  <2>0. LeftOk(c)
    BY <1>0, <1>11, Zenon DEF Ok
  <2>1. LayerOk(c)'
    BY <1>1, <1>6, <2>0, LayerStays, Zenon DEF LeftOk
  <2>2. TracedOk(c)'
    BY <1>0, <1>1, Zenon DEF TracedOk
  <2>3. ASSUME NEW b \in Actors, act'[b].id = c, Removing(b)' PROVE Alone(b, c)'
    <3>1. b # a /\ Removing(b) /\ act'[b] = act[b] /\ Alone(b, c)
      BY <1>4, <1>5, <1>6, <2>0, <2>3, Zenon DEF LeftOk
    <3> QED
      BY <1>1, <1>4, <1>5, <1>6, <3>1, Zenon DEF Alone
  <2>4. (boot[c] \in {"load", "sync", "remove"} => OneRemoval(c))'
    BY <1>1, <1>6, <2>0, Zenon DEF LeftOk, OneRemoval
  <2> QED
    BY <2>1, <2>2, <2>3, <2>4, Zenon DEF LeftOk
<1>12. /\ \A b \in Actors : Client(b)' => Client(b) \/ Up
       /\ Up => boot'[c] \in {"none", "done", "skipped"}
  BY <1>0, <1>1, Zenon DEF Up
<1> QED
  BY <1>1, <1>3, <1>7, <1>8, <1>9, <1>10, <1>11, <1>12, LocalKeeps, Zenon DEF Ok

\* Who renames a container is not at work on it in another way, and nobody else has
\* its lock.  What the rename does to the rest of the container's state.
LEMMA RenameActs ==
    ASSUME RegistryInv, NEW a \in Actors, NEW c \in Ids, c = act[a].id,
           act[a].pc \in {"rename", "save", "sandbox"},
           \A b \in Actors \ {a} : act'[b] = act[b],
           \/ act'[a].id = None /\ act'[a].pc = "idle"
           \/ act'[a].id = c /\ act'[a].pc \in {"save", "sandbox"} /\ act'[a].by = act[a].by,
           UNCHANGED <<containers, dead, running, RemovalInProgress, RWLayer, reap, boot, layers,
                       alive, event, used, orphans, lost>>,
           \A d \in Ids \ {c} : disk'[d] = disk[d] /\ Name'[d] = Name[d],
           disk'[c] = NoDir <=> disk[c] = NoDir,
           \/ disk'[c] = disk[c]
           \/ /\ Loaded(c)'
              /\ disk'[c].dead = "yes" <=> c \in dead
              /\ disk'[c].running = "no" <=> c \notin running,
           loose \subseteq loose',
           \A n \in Names \ loose' : names'[n] = names[n] \/ {names[n], names'[n]} \subseteq {None, c},
           SavedOk(c)'
    PROVE  /\ Local(c) /\ OnDisk(c)' /\ Claimed(c)' /\ ProcessOk(c)'
           /\ \A b \in Actors : Client(b)' => Client(b) \/ Up
           /\ Up => boot'[c] \in {"none", "done", "skipped"}
           /\ c \notin orphans => /\ DeadOk(c)' /\ LayerOk(c)' /\ TracedOk(c)
                                  /\ (TracedOk(c)' => LeftOk(c)')
           /\ act[a].by # "create"
<1>0. /\ Ok(c) /\ TypeOK /\ c # None /\ boot[c] # "load" /\ Up
      /\ ~Creating(a) /\ ~Removing(a) /\ ~InRm(a, c) /\ act[a].by = "rm"
  <2>1. Ok(c) /\ IdOk(c) /\ TypeOK /\ c # None
    BY KnownOk, Zenon
  <2>2. ~Creating(a) /\ ~Removing(a) /\ act[a].pc # "rm" /\ Client(a)
    BY Zenon DEF Creating, Removing, Client, Renaming
  <2>3. act[a].by \in {"rm", "create", "claim"}
    BY <2>1, Zenon DEF TypeOK, Acts
  <2>4. act[a].by = "rm"
    BY <2>1, <2>2, <2>3, Zenon DEF Ok, Claimed
  <2>5. Up
    BY <2>2, Zenon DEF RegistryInv
  <2> QED
    BY <2>1, <2>2, <2>4, <2>5, Zenon DEF IdOk, InRm
<1>1. \A b \in Actors \ {a} : /\ Creating(b)' <=> Creating(b)
                              /\ Removing(b)' <=> Removing(b)
                              /\ Renaming(b)' <=> Renaming(b)
                              /\ Saving(b, c)' <=> Saving(b, c)
                              /\ InRm(b, c)' <=> InRm(b, c)
                              /\ Client(b)' <=> Client(b)
  BY Others, Zenon
<1>2. /\ act'[a].id = c => ~Creating(a)' /\ ~Removing(a)' /\ act'[a].by = "rm"
      /\ ~InRm(a, c)' /\ act'[a].pc # "started" /\ act'[a].id \in {None, c}
      /\ act'[a].pc # "create" /\ act'[a].pc # "mkdir"
  <2>1. CASE act'[a].id = None /\ act'[a].pc = "idle"
    BY <1>0, <2>1, Zenon DEF InRm
  <2>2. CASE act'[a].id = c /\ act'[a].pc \in {"save", "sandbox"} /\ act'[a].by = act[a].by
    BY <1>0, <2>2, Zenon DEF InRm, Creating, Removing
  <2> QED
    BY <2>1, <2>2, Zenon
<1>3. /\ \A b \in Actors : /\ act'[b].id = c => b = a \/ (act'[b] = act[b] /\ act[b].id = c)
                           /\ act[b].id = c /\ b # a => act'[b] = act[b]
                           /\ InRm(b, c)' <=> InRm(b, c)
      /\ Starting(c)' => Starting(c)
  <2>1. Starting(c)' => Starting(c)
    BY <1>2, OthersStart, Zenon
  <2> QED
    BY <1>0, <1>1, <1>2, <2>1, Zenon
<1>4. Local(c)
  BY <1>0, <1>2, Zenon DEF Local
<1>5. OnDisk(c)'
  <2>1. c \in containers \/ disk[c] = NoDir
    BY <1>0, Zenon DEF Ok, OnDisk, Reserved
  <2> QED
    BY <1>0, <1>2, <1>3, <2>1, Zenon DEF Ok, OnDisk, Reserved
<1>6. Claimed(c)'
  <2>1. ASSUME NEW b \in Actors, act'[b].id = c
        PROVE  /\ Creating(b)' <=> act'[b].by = "create" /\ ~Removing(b)'
               /\ act'[b].by = "claim" => Removing(b)' /\ c \in RemovalInProgress'
               /\ act[b].id = c /\ act'[b].by = act[b].by
    <3>1. CASE b = a
      BY <1>0, <1>2, <2>1, <3>1, Zenon
    <3>2. CASE b # a
      BY <1>0, <1>1, <1>3, <2>1, <3>2, Zenon DEF Ok, Claimed
    <3> QED
      BY <3>1, <3>2, Zenon
  <2>2. \A b, e \in Actors : /\ act[b].id = c /\ act[b].by = "claim"
                            /\ act[e].id = c /\ act[e].by = "claim" => e = b
    BY <1>0, Zenon DEF Ok, Claimed
  <2>3. ASSUME NEW b \in Actors, act'[b].id = c, act'[b].by = "claim",
               NEW e \in Actors, act'[e].id = c, act'[e].by = "claim"
        PROVE  e = b
    BY <2>1, <2>2, <2>3, Zenon
  <2> QED
    BY <2>1, <2>3, Zenon DEF Claimed
<1>7. ProcessOk(c)'
  BY <1>0, <1>1, <1>2, <1>3, Zenon DEF Ok, ProcessOk
<1>8. ASSUME c \notin orphans PROVE DeadOk(c)'
  <2>0. DeadOk(c)
    BY <1>0, <1>8, Zenon DEF Ok
  <2>1. Loaded(c)' /\ disk'[c].dead = "yes" => disk'[c].running = "no" /\ c \in dead
    <3>1. CASE disk'[c] = disk[c]
      BY <1>0, <2>0, <3>1, Zenon DEF DeadOk, Loaded
    <3>2. CASE /\ disk'[c].dead = "yes" <=> c \in dead
               /\ disk'[c].running = "no" <=> c \notin running
      BY <2>0, <3>2, Zenon DEF DeadOk
    <3> QED
      BY <3>1, <3>2, Zenon
  <2>2. ASSUME NEW b \in Actors, act'[b].id = c, Removing(b)'
        PROVE  b # a /\ act[b].id = c /\ Removing(b) /\ act'[b] = act[b]
    BY <1>1, <1>2, <1>3, <2>2, Zenon
  <2> QED
    BY <1>3, <2>0, <2>1, <2>2, ZenonT(60) DEF DeadOk
<1>9. ASSUME c \notin orphans PROVE LayerOk(c)' /\ TracedOk(c) /\ (TracedOk(c)' => LeftOk(c)')
  <2>0. LeftOk(c)
    BY <1>0, <1>9, Zenon DEF Ok
  <2>1. LayerOk(c)'
    <3>1. act[a].pc # "layer"
      BY Zenon
    <3> QED
      BY <1>0, <1>3, <2>0, <3>1, LayerStays, Zenon DEF LeftOk
  <2>2. ASSUME NEW b \in Actors, act'[b].id = c, Removing(b)' PROVE Alone(b, c)'
    <3>1. b # a /\ Removing(b) /\ act'[b] = act[b] /\ Alone(b, c)
      BY <1>1, <1>2, <1>3, <2>0, <2>2, Zenon DEF LeftOk
    <3> QED
      BY <1>1, <1>2, <1>3, <3>1, Zenon DEF Alone
  <2>3. (boot[c] \in {"load", "sync", "remove"} => OneRemoval(c))'
    BY <1>3, <2>0, Zenon DEF LeftOk, OneRemoval
  <2> QED
    BY <2>0, <2>1, <2>2, <2>3, Zenon DEF LeftOk
<1> QED
  BY <1>0, <1>4, <1>5, <1>6, <1>7, <1>8, <1>9, Zenon DEF Up

\* Rename takes the lock and reserves the new name.
LEMMA RenameReserveOk ==
    ASSUME RegistryInv, NamesInv', NEW a \in Actors, RenameReserve(a)
    PROVE  RegistryInv'
<1>a. act[a].pc = "rename" /\ act[a].pc \in {"rename", "save", "sandbox"} /\ ~Renaming(a)
  BY Zenon DEF RenameReserve, Renaming
<1>c. PICK c \in Ids : c = act[a].id
  BY <1>a, AtWork, Zenon DEF RegistryInv
<1>0. /\ Ok(c) /\ IdOk(c) /\ TypeOK /\ c # None /\ lock[c] = None /\ boot[c] # "load"
      /\ act[a] \in Acts /\ ActOk(a) /\ Name[c] \in Names
  <2>1. Ok(c) /\ IdOk(c) /\ TypeOK /\ c # None /\ ActOk(a)
    BY KnownOk, Zenon
  <2>2. Name[c] \in Names
    BY <1>a, <1>c, AtWork, Zenon DEF RegistryInv
  <2> QED
    BY <1>c, <2>1, <2>2, Zenon DEF RenameReserve, IdOk, TypeOK
<1>1. /\ UNCHANGED <<containers, dead, running, RemovalInProgress, RWLayer, reap, boot, disk, layers,
                     alive, event, used, orphans, loose, lost>>
      /\ Loaded(c) => Loaded(c)'
  BY Zenon DEF RenameReserve, diskVars, histVars, Loaded
<1>2. \A b \in Actors : ~Saving(b, c) /\ (act[b].id = c => ~Renaming(b))
  BY <1>0, LockFree, Zenon
<1>3. CASE act' = [act EXCEPT ![a] = Idle] /\ UNCHANGED <<names, Name, lock>>
  <2>1. /\ \A b \in Actors \ {a} : act'[b] = act[b]
        /\ act'[a].id = None /\ act'[a].pc = "idle"
        /\ UNCHANGED <<names, Name, lock>>
    BY <1>0, <1>3, Returns, Zenon
  <2>2. SavedOk(c)'
    <3>1. ~Saving(a, c)'
      BY <2>1, Zenon DEF Saving
    <3>2. act[a].by # "create"
      BY <1>a, <1>c, <1>0, Zenon DEF Ok, Claimed, Creating, Removing
    <3> QED
      BY <1>0, <1>1, <1>2, <2>1, <3>1, <3>2, SavedStays, Zenon
  <2>3. /\ Local(c) /\ OnDisk(c)' /\ Claimed(c)' /\ ProcessOk(c)'
        /\ \A b \in Actors : Client(b)' => Client(b) \/ Up
        /\ Up => boot'[c] \in {"none", "done", "skipped"}
        /\ c \notin orphans => /\ DeadOk(c)' /\ LayerOk(c)' /\ TracedOk(c)
                               /\ (TracedOk(c)' => LeftOk(c)')
        /\ act[a].by # "create"
    BY <1>a, <1>c, <1>1, <2>1, <2>2, RenameActs, Zenon
  <2>4. ASSUME c \notin orphans PROVE TracedOk(c)'
    <3>0. TracedOk(c) /\ act[a].pc # "names"
      BY <1>a, <2>3, <2>4, Zenon
    <3>1. \A b \in Actors : act[b].id = c =>
              /\ act[b].by = "create" => act'[b].id = c /\ act'[b].by = "create"
              /\ act[b].pc = "names" => act'[b].id = c /\ act'[b].pc = "names"
              /\ Renaming(b) => act'[b].id = c /\ Renaming(b)' /\ act'[b].name = act[b].name
      BY <1>2, <2>1, <2>3, <3>0, Zenon
    <3> QED
      BY <1>1, <2>1, <3>0, <3>1, TracedStays, Zenon
  <2> QED
    BY <1>1, <2>3, <2>4, LocalKeeps, Zenon DEF Ok
<1>4. CASE /\ Free(act[a].name, c) /\ Name[c] # act[a].name
           /\ names' = ReserveName(names, act[a].name, c)
           /\ Name' = [Name EXCEPT ![c] = act[a].name]
           /\ act' = [act EXCEPT ![a].pc = "save", ![a].name = Name[c]]
  <2>n. PICK n \in Names : n = act[a].name
    BY <1>a, <1>c, <1>0, Zenon DEF ActOk
  <2>1. /\ \A b \in Actors \ {a} : act'[b] = act[b]
        /\ act'[a].id = c /\ act'[a].pc = "save" /\ act'[a].by = act[a].by /\ act'[a].name = Name[c]
    BY <1>0, <1>c, <1>4, Zenon DEF TypeOK, Acts
  <2>2. /\ Name'[c] = n /\ \A d \in Ids \ {c} : Name'[d] = Name[d]
        /\ names'[n] = c /\ names[n] \in {None, c}
        /\ \A m \in Names \ {n} : names'[m] = names[m]
    BY <1>0, <1>4, <2>n, Zenon DEF TypeOK, Free, ReserveName
  <2>3. Saving(a, c)' /\ Renaming(a)'
    BY <2>1, Zenon DEF Saving, Renaming
  <2>4. SavedOk(c)'
    <3> SUFFICES ASSUME NEW m, m = disk[c].name, Loaded(c), m \notin loose
                 PROVE  c \in containers /\ names'[m] = c /\ m = Name[c]
      BY <1>0, <1>1, <2>1, <2>3, Zenon DEF SavedOk, Loaded, FailedCreate
    <3>1. m \in Names
      BY Zenon DEF Loaded, Saves
    <3>2. names[m] = c /\ m = Name[c]
      BY <1>0, <1>2, Zenon DEF Ok, OnDisk, SavedOk
    <3>3. c \in containers
      <4>1. disk[c] # NoDir
        BY RegistryAssumption, Zenon DEF Loaded, Saves
      <4> QED
        BY <1>a, <1>c, <1>0, <4>1, Zenon DEF ActOk
    <3> QED
      BY <2>2, <3>1, <3>2, <3>3, Zenon
  <2>5. /\ Local(c) /\ OnDisk(c)' /\ Claimed(c)' /\ ProcessOk(c)'
        /\ \A b \in Actors : Client(b)' => Client(b) \/ Up
        /\ Up => boot'[c] \in {"none", "done", "skipped"}
        /\ c \notin orphans => /\ DeadOk(c)' /\ LayerOk(c)' /\ TracedOk(c)
                               /\ (TracedOk(c)' => LeftOk(c)')
        /\ act[a].by # "create"
    <3>1. \A m \in Names \ loose' : names'[m] = names[m] \/ {names[m], names'[m]} \subseteq {None, c}
      BY <2>2, Zenon
    <3>2. act'[a].pc \in {"save", "sandbox"}
      BY <2>1, Zenon
    <3> QED
      BY <1>a, <1>c, <1>1, <2>1, <2>2, <2>4, <3>1, <3>2, RenameActs, Zenon
  <2>6. ASSUME c \notin orphans PROVE TracedOk(c)'
    <3>0. TracedOk(c) /\ act[a].pc # "names"
      BY <1>a, <2>5, <2>6, Zenon
    <3>1. disk'[c] # NoDir => c \in containers'
      BY <1>a, <1>c, <1>0, <1>1, Zenon DEF ActOk
    <3>2. ASSUME NEW m \in Names \ loose', names'[m] = c, c \notin containers'
          PROVE  \E b \in Actors : /\ act'[b].id = c
                                   /\ \/ act'[b].by = "create" \/ act'[b].pc = "names"
                                      \/ Renaming(b)' /\ m \in {Name'[c], act'[b].name}
      <4>1. CASE m = n
        BY <2>1, <2>2, <2>3, <4>1, Zenon
      <4>2. CASE m # n
        <5>1. names[m] = c /\ m \in Names \ loose /\ c \notin containers
          BY <1>1, <2>2, <3>2, <4>2, Zenon
        <5>2. PICK b \in Actors : act[b].id = c /\ (act[b].by = "create" \/ act[b].pc = "names")
          BY <1>2, <3>0, <5>1, Zenon DEF TracedOk
        <5>3. b # a
          BY <2>5, <3>0, <5>2, Zenon
        <5> QED
          BY <2>1, <5>2, <5>3, Zenon
      <4> QED
        BY <4>1, <4>2, Zenon
    <3> QED
      BY <3>1, <3>2, Zenon DEF TracedOk
  <2> QED
    BY <1>1, <2>5, <2>6, LocalKeeps, Zenon DEF Ok
<1> QED
  BY <1>c, <1>3, <1>4, Zenon DEF RenameReserve

\* The state of a rename that has the lock.
LEMMA InRenameOk ==
    ASSUME RegistryInv, NEW a \in Actors, NEW c, c = act[a].id, Renaming(a)
    PROVE  /\ TypeOK /\ c \in Ids /\ Ok(c) /\ c # None /\ boot[c] # "load"
           /\ Name[c] \in Names /\ act[a].name \in Names /\ act[a].name # Name[c]
           /\ disk[c] # NoDir => c \in containers
           /\ c \in containers => Reserved(act[a].name, c) /\ Reserved(Name[c], c)
           /\ act[a].pc = "sandbox" => c \in containers
           /\ \A b \in Actors : b # a => ~Saving(b, c) /\ (act[b].id = c => ~Renaming(b))
           /\ act[a].pc \in {"rename", "save", "sandbox"}
<1>1. /\ TypeOK /\ c \in Ids /\ c # None /\ boot[c] # "load"
      /\ Name[c] \in Names /\ act[a].name \in Names /\ act[a].name # Name[c]
      /\ disk[c] # NoDir => c \in containers
      /\ c \in containers => Reserved(act[a].name, c) /\ Reserved(Name[c], c)
      /\ act[a].pc = "sandbox" => disk[c] # NoDir
      /\ \A b \in Actors \ {a} : act[b].id = c => ~Renaming(b)
  BY InRename, Zenon DEF RegistryInv
<1>2. Ok(c)
  BY <1>1, KnownOk, Zenon
<1>3. \A b \in Actors : b # a => ~Saving(b, c) /\ (act[b].id = c => ~Renaming(b))
  BY <1>1, Zenon DEF Saving, Renaming
<1>4. act[a].pc \in {"rename", "save", "sandbox"}
  BY Zenon DEF Renaming
<1> QED
  BY <1>1, <1>2, <1>3, <1>4, Zenon

\* The end of a rename, and its undoing, for the table of names.
LEMMA RenameTable ==
    ASSUME RegistryInv, NEW a \in Actors, NEW c, c = act[a].id, Renaming(a), NEW ns,
           RenameDone(a, c) \/ RenameUndo(a, c, ns)
    PROVE  /\ \A b \in Actors \ {a} : act'[b] = act[b]
           /\ act'[a].id = None /\ act'[a].pc = "idle"
           /\ \A b \in Actors : ~Saving(b, c)'
           /\ \A d \in Ids \ {c} : Name'[d] = Name[d]
           /\ \A n \in Names \ {act[a].name, Name[c]} : names'[n] = names[n]
           /\ RenameDone(a, c) =>
                 /\ names'[act[a].name] = None /\ names'[Name[c]] = names[Name[c]]
                 /\ Name' = Name
           /\ RenameUndo(a, c, ns) =>
                 /\ loose \subseteq loose'
                 /\ names'[Name[c]] = None /\ Name'[c] = act[a].name
                 /\ names[act[a].name] = c => names'[act[a].name] = c
                 /\ names'[act[a].name] # names[act[a].name] =>
                       names[act[a].name] = None /\ names'[act[a].name] = c
                 /\ c \in containers => loose' = loose \cup ns
                 /\ c \notin containers => act[a].name \in loose' /\ Name[c] \in loose'
<1>0. /\ TypeOK /\ c \in Ids /\ c # None
      /\ Name[c] \in Names /\ act[a].name \in Names /\ act[a].name # Name[c]
      /\ \A b \in Actors : b # a => ~Saving(b, c)
  BY InRenameOk, Zenon
<1>1. act' = [act EXCEPT ![a] = Idle]
  BY Zenon DEF RenameDone, RenameUndo
<1>2. /\ \A b \in Actors \ {a} : act'[b] = act[b]
      /\ act'[a].id = None /\ act'[a].pc = "idle"
  BY <1>0, <1>1, Returns, Zenon
<1>3. \A b \in Actors : ~Saving(b, c)'
  <2>1. ~Saving(a, c)'
    BY <1>0, <1>2, Zenon DEF Saving
  <2> QED
    BY <1>0, <1>2, <2>1, Others, Zenon
<1>4. ASSUME RenameDone(a, c)
      PROVE  /\ names'[act[a].name] = None /\ names'[Name[c]] = names[Name[c]]
             /\ Name' = Name
             /\ \A n \in Names \ {act[a].name, Name[c]} : names'[n] = names[n]
  BY <1>0, <1>4, Zenon DEF RenameDone, ReleaseName, TypeOK
<1>5. ASSUME RenameUndo(a, c, ns)
      PROVE  /\ names'[Name[c]] = None /\ Name'[c] = act[a].name
             /\ names[act[a].name] = c => names'[act[a].name] = c
             /\ names'[act[a].name] # names[act[a].name] =>
                   names[act[a].name] = None /\ names'[act[a].name] = c
             /\ c \in containers => loose' = loose \cup ns
             /\ c \notin containers => act[a].name \in loose' /\ Name[c] \in loose'
             /\ loose \subseteq loose'
             /\ \A d \in Ids \ {c} : Name'[d] = Name[d]
             /\ \A n \in Names \ {act[a].name, Name[c]} : names'[n] = names[n]
  <2>o. PICK old \in Names : old = act[a].name
    BY <1>0, Zenon
  <2>n. PICK new \in Names : new = Name[c]
    BY <1>0, Zenon
  <2>r. PICK t : t = ReserveName(names, old, c)
    BY Zenon
  <2>1. /\ names' = [t EXCEPT ![new] = None] /\ Name' = [Name EXCEPT ![c] = old]
        /\ loose' = loose \cup ns \cup (IF c \in containers THEN {} ELSE {old, new})
    BY <1>5, <2>o, <2>n, <2>r, Zenon DEF RenameUndo, ReleaseName
  <2>2. /\ t \in [Names -> Ids \cup {None}]
        /\ \A n \in Names \ {old} : t[n] = names[n]
        /\ t[old] = IF names[old] = None THEN c ELSE names[old]
    BY <1>0, <2>r, Zenon DEF ReserveName, TypeOK
  <2>3. old # new
    BY <1>0, <2>o, <2>n, Zenon
  <2>4. /\ names'[new] = None /\ \A n \in Names \ {old, new} : names'[n] = names[n]
        /\ names'[old] = t[old]
    BY <2>1, <2>2, <2>3, Zenon
  <2>5. /\ Name'[c] = old /\ \A d \in Ids \ {c} : Name'[d] = Name[d]
    BY <1>0, <2>1, Zenon DEF TypeOK
  <2>6. /\ c \in containers => loose' = loose \cup ns
        /\ c \notin containers => {old, new} \subseteq loose'
        /\ loose \subseteq loose'
    BY <2>1
  <2>7. /\ names[old] = c => names'[old] = c
        /\ names'[old] # names[old] => names[old] = None /\ names'[old] = c
    BY <1>0, <2>2, <2>4, Zenon
  <2> QED
    BY <2>o, <2>n, <2>4, <2>5, <2>6, <2>7
<1> QED
  BY <1>2, <1>3, <1>4, <1>5, Zenon

\* The first CheckpointTo of a rename.
LEMMA RenameSaveOk ==
    ASSUME RegistryInv, NamesInv', NEW a \in Actors, RenameSave(a)
    PROVE  RegistryInv'
<1>c. PICK c : c = act[a].id
  BY Zenon
<1>a. act[a].pc = "save" /\ Renaming(a) /\ act[a].pc # "names"
  BY Zenon DEF RenameSave, Renaming
<1>0. /\ TypeOK /\ c \in Ids /\ Ok(c) /\ c # None /\ boot[c] # "load"
      /\ Name[c] \in Names /\ act[a].name \in Names /\ act[a].name # Name[c]
      /\ disk[c] # NoDir => c \in containers
      /\ c \in containers => Reserved(act[a].name, c) /\ Reserved(Name[c], c)
      /\ \A b \in Actors : b # a => ~Saving(b, c) /\ (act[b].id = c => ~Renaming(b))
      /\ act[a].pc \in {"rename", "save", "sandbox"}
  BY <1>a, <1>c, InRenameOk, Zenon
<1>1. UNCHANGED <<containers, dead, running, RemovalInProgress, RWLayer, reap, boot, layers,
                  alive, event, used, orphans, lost>>
  BY Zenon DEF RenameSave
<1>2. ASSUME \/ Saved(c) /\ loose' = loose
             \/ Unwritten(c) /\ loose' = loose \cup {act[a].name},
             Name' = Name,
             \A b \in Actors \ {a} : act'[b] = act[b],
             \/ act'[a].id = None /\ act'[a].pc = "idle"
             \/ act'[a].id = c /\ act'[a].pc \in {"save", "sandbox"} /\ act'[a].by = act[a].by,
             \A b \in Actors : ~Saving(b, c)',
             \A n \in Names \ {act[a].name} : names'[n] = names[n],
             names'[act[a].name] \in {names[act[a].name], None}
      PROVE  RegistryInv'
  <2>1. /\ \A d \in Ids \ {c} : disk'[d] = disk[d]
        /\ disk'[c] = NoDir <=> disk[c] = NoDir
        /\ Loaded(c) => Loaded(c)'
        /\ \/ disk'[c] = disk[c]
           \/ /\ disk[c] # NoDir /\ Loaded(c)' /\ disk'[c].name = Name'[c]
              /\ disk'[c].dead = "yes" <=> c \in dead'
              /\ disk'[c].running = "no" <=> c \notin running'
    <3>1. CASE Saved(c)
      BY <1>0, <1>2, <3>1, SaveWrites, Zenon DEF TrySave
    <3>2. CASE Unwritten(c)
      BY <3>2, Zenon DEF Unwritten, Loaded
    <3> QED
      BY <1>2, <3>1, <3>2, Zenon
  <2>2. c \in containers /\ loose \subseteq loose'
    BY <1>0, <1>2, Zenon DEF Saved, Unwritten
  <2>3. SavedOk(c)'
    <3>1. CASE Saved(c) /\ loose' = loose
      <4>1. disk'[c].name = Name[c]
        BY <1>0, <1>2, <3>1, WriteWhat, Zenon DEF Saved, Written
      <4>2. Name[c] \in loose \/ names'[Name[c]] = c
        BY <1>0, <1>2, <2>2, Zenon DEF Reserved
      <4> QED
        BY <1>0, <1>1, <1>2, <2>2, <3>1, <4>1, <4>2, Zenon DEF SavedOk
    <3>2. CASE Unwritten(c) /\ loose' = loose \cup {act[a].name}
      <4>1. Saving(a, c)
        BY <1>a, <1>c, Zenon DEF Saving
      <4>2. Loaded(c) /\ disk[c].name \notin loose => disk[c].name = act[a].name
        BY <1>0, <4>1, Zenon DEF Ok, OnDisk, SavedOk
      <4>3. disk' = disk
        BY <3>2, Zenon DEF Unwritten
      <4> QED
        BY <3>2, <4>2, <4>3, Zenon DEF SavedOk, Loaded
    <3> QED
      BY <1>2, <3>1, <3>2, Zenon
  <2>4. \A n \in Names \ loose' : names'[n] = names[n] \/ {names[n], names'[n]} \subseteq {None, c}
    BY <1>0, <1>2, <2>2, Zenon DEF Reserved
  <2>5. /\ Local(c) /\ OnDisk(c)' /\ Claimed(c)' /\ ProcessOk(c)'
        /\ \A b \in Actors : Client(b)' => Client(b) \/ Up
        /\ Up => boot'[c] \in {"none", "done", "skipped"}
        /\ c \notin orphans => /\ DeadOk(c)' /\ LayerOk(c)' /\ TracedOk(c)
                               /\ (TracedOk(c)' => LeftOk(c)')
    <3>1. \/ disk'[c] = disk[c]
          \/ /\ Loaded(c)'
             /\ disk'[c].dead = "yes" <=> c \in dead
             /\ disk'[c].running = "no" <=> c \notin running
      BY <1>1, <2>1, Zenon
    <3>2. \A d \in Ids \ {c} : disk'[d] = disk[d] /\ Name'[d] = Name[d]
      BY <1>2, <2>1, Zenon
    <3> QED
      BY <1>c, <1>0, <1>1, <1>2, <2>1, <2>2, <2>3, <2>4, <3>1, <3>2, RenameActs, ZenonT(60)
  <2>6. TracedOk(c)'
    BY <1>1, <2>2, Zenon DEF TracedOk
  <2> QED
    BY <1>0, <1>1, <2>5, <2>6, LocalKeeps, Zenon DEF Ok
<1>3. CASE /\ Goto(a, "sandbox") /\ UNCHANGED <<names, Name, lock>>
           /\ \/ Saved(c) /\ loose' = loose
              \/ Unwritten(c) /\ loose' = loose \cup {act[a].name}
  <2>1. /\ \A b \in Actors \ {a} : act'[b] = act[b]
        /\ act'[a].id = c /\ act'[a].pc = "sandbox" /\ act'[a].by = act[a].by
    BY <1>0, <1>c, <1>3, GoesOn, Zenon
  <2>2. \A b \in Actors : ~Saving(b, c)'
    <3>1. ~Saving(a, c)'
      BY <2>1, Zenon DEF Saving
    <3> QED
      BY <1>0, <2>1, <3>1, Others, Zenon
  <2>3. act'[a].pc \in {"save", "sandbox"}
    BY <2>1, Zenon
  <2> QED
    BY <1>2, <1>3, <2>1, <2>2, <2>3, Zenon
<1>4. CASE /\ RenameDone(a, c)
           /\ \/ Saved(c) /\ loose' = loose
              \/ Unwritten(c) /\ loose' = loose \cup {act[a].name}
  <2>1. /\ \A b \in Actors \ {a} : act'[b] = act[b]
        /\ act'[a].id = None /\ act'[a].pc = "idle"
        /\ \A b \in Actors : ~Saving(b, c)'
        /\ \A n \in Names \ {act[a].name, Name[c]} : names'[n] = names[n]
        /\ names'[act[a].name] = None /\ names'[Name[c]] = names[Name[c]]
        /\ Name' = Name
    BY <1>a, <1>c, <1>4, RenameTable, Zenon
  <2> QED
    BY <1>2, <1>4, <2>1, Zenon
<1>5. ASSUME NEW ns, RenameUndo(a, c, ns),
             NotSaved(c) \/ (HalfSaved(c, Name[c]) /\ Name[c] \in ns)
      PROVE  RegistryInv'
  <2>1. /\ \A b \in Actors \ {a} : act'[b] = act[b]
        /\ act'[a].id = None /\ act'[a].pc = "idle"
        /\ \A b \in Actors : ~Saving(b, c)'
        /\ loose \subseteq loose'
        /\ \A d \in Ids \ {c} : Name'[d] = Name[d]
        /\ \A n \in Names \ {act[a].name, Name[c]} : names'[n] = names[n]
        /\ names'[Name[c]] = None /\ Name'[c] = act[a].name
        /\ names[act[a].name] = c => names'[act[a].name] = c
        /\ names'[act[a].name] # names[act[a].name] =>
              names[act[a].name] = None /\ names'[act[a].name] = c
        /\ c \notin containers => act[a].name \in loose' /\ Name[c] \in loose'
        /\ c \in containers => loose' = loose \cup ns
    <3>1. RenameDone(a, c) \/ RenameUndo(a, c, ns)
      BY <1>5, Zenon
    <3>2. /\ names'[Name[c]] = None /\ Name'[c] = act[a].name
          /\ names[act[a].name] = c => names'[act[a].name] = c
      BY <1>a, <1>c, <1>5, RenameTable, Zenon
    <3>4. names'[act[a].name] # names[act[a].name] =>
              names[act[a].name] = None /\ names'[act[a].name] = c
      BY <1>a, <1>c, <1>5, RenameTable, Zenon
    <3>5. /\ c \notin containers => act[a].name \in loose' /\ Name[c] \in loose'
          /\ c \in containers => loose' = loose \cup ns
          /\ loose \subseteq loose'
      BY <1>a, <1>c, <1>5, RenameTable, Zenon
    <3>3. /\ \A b \in Actors \ {a} : act'[b] = act[b]
          /\ act'[a].id = None /\ act'[a].pc = "idle"
          /\ \A b \in Actors : ~Saving(b, c)'
          /\ \A d \in Ids \ {c} : Name'[d] = Name[d]
          /\ \A n \in Names \ {act[a].name, Name[c]} : names'[n] = names[n]
      BY <1>a, <1>c, <3>1, RenameTable, ZenonT(60)
    <3> QED
      BY <3>2, <3>3, <3>4, <3>5, Zenon
  <2>2. /\ \A d \in Ids \ {c} : disk'[d] = disk[d]
        /\ disk'[c] = NoDir <=> disk[c] = NoDir
        /\ \/ disk'[c] = disk[c]
           \/ /\ Loaded(c)' /\ disk'[c].name = Name[c] /\ Name[c] \in loose'
              /\ disk'[c].dead = "yes" <=> c \in dead
              /\ disk'[c].running = "no" <=> c \notin running
    <3>1. CASE NotSaved(c)
      BY <3>1, Zenon DEF NotSaved
    <3>2. CASE HalfSaved(c, Name[c]) /\ Name[c] \in ns
      <4>1. /\ Loaded(c)' /\ disk'[c].name = Name[c]
            /\ disk'[c].dead = "yes" <=> c \in dead
            /\ disk'[c].running = "no" <=> c \notin running
        BY <1>0, <1>1, <3>2, WriteWhat, Zenon DEF HalfSaved
      <4>2. disk'[c] # NoDir /\ disk[c] # NoDir
        BY <3>2, <4>1, RegistryAssumption, Zenon DEF Loaded, Saves, HalfSaved
      <4>3. \A d \in Ids \ {c} : disk'[d] = disk[d]
        BY <1>0, <3>2, Zenon DEF HalfSaved, WrittenAs, TypeOK
      <4>4. Name[c] \in loose'
        BY <1>0, <2>1, <3>2, <4>2, Zenon
      <4> QED
        BY <4>1, <4>2, <4>3, <4>4, Zenon
    <3> QED
      BY <1>5, <3>1, <3>2, Zenon
  <2>3. SavedOk(c)'
    <3> SUFFICES ASSUME NEW m, m = disk[c].name, Loaded(c), m \notin loose, disk'[c] = disk[c]
                 PROVE  c \in containers /\ names'[m] = c /\ m = Name'[c]
      BY <1>0, <1>1, <2>1, <2>2, Zenon DEF SavedOk, Loaded
    <3>0. c \in containers
      <4>1. disk[c] # NoDir
        BY RegistryAssumption, Zenon DEF Loaded, Saves
      <4> QED
        BY <1>0, <4>1, Zenon
    <3>1. /\ names[m] = c
          /\ \/ m = Name[c] /\ \A b \in Actors : ~Saving(b, c)
             \/ \E b \in Actors : Saving(b, c) /\ act[b].name = m
      BY <1>0, Zenon DEF Ok, OnDisk, SavedOk
    <3>2. Saving(a, c)
      BY <1>a, <1>c, Zenon DEF Saving
    <3>3. m = act[a].name
      BY <1>0, <3>1, <3>2, Zenon
    <3> QED
      BY <2>1, <3>0, <3>1, <3>3, Zenon
  <2>4. \A n \in Names \ loose' : names'[n] = names[n] \/ {names[n], names'[n]} \subseteq {None, c}
    BY <1>0, <2>1, Zenon DEF Reserved
  <2>5. /\ Local(c) /\ OnDisk(c)' /\ Claimed(c)' /\ ProcessOk(c)'
        /\ \A b \in Actors : Client(b)' => Client(b) \/ Up
        /\ Up => boot'[c] \in {"none", "done", "skipped"}
        /\ c \notin orphans => /\ DeadOk(c)' /\ LayerOk(c)' /\ TracedOk(c)
                               /\ (TracedOk(c)' => LeftOk(c)')
        /\ act[a].by # "create"
    <3>1. \A d \in Ids \ {c} : disk'[d] = disk[d] /\ Name'[d] = Name[d]
      BY <2>1, <2>2, Zenon
    <3> QED
      BY <1>c, <1>0, <1>1, <2>1, <2>2, <2>3, <2>4, <3>1, RenameActs, ZenonT(60)
  <2>6. ASSUME c \notin orphans PROVE TracedOk(c)'
    <3>1. CASE c \in containers
      BY <1>1, <3>1, Zenon DEF TracedOk
    <3>2. CASE c \notin containers
      <4>1. disk'[c] = NoDir /\ TracedOk(c)
        BY <1>0, <2>2, <2>5, <2>6, <3>2, Zenon
      <4>2. ASSUME NEW n \in Names \ loose', names'[n] = c
            PROVE  \E b \in Actors : act'[b].id = c /\ (act'[b].by = "create" \/ act'[b].pc = "names")
        <5>1. n \notin loose /\ n \notin {act[a].name, Name[c]} /\ names[n] = c
          BY <2>1, <3>2, <4>2, Zenon
        <5>2. PICK b \in Actors : /\ act[b].id = c
                                  /\ \/ act[b].by = "create" \/ act[b].pc = "names"
                                     \/ Renaming(b) /\ n \in {Name[c], act[b].name}
          BY <3>2, <4>1, <5>1, Zenon DEF TracedOk
        <5>3. b # a
          BY <1>a, <2>5, <5>1, <5>2, Zenon
        <5> QED
          BY <1>0, <2>1, <5>2, <5>3, Zenon
      <4> QED
        BY <4>1, <4>2, Zenon DEF TracedOk
    <3> QED
      BY <3>1, <3>2, Zenon
  <2> QED
    BY <1>0, <1>1, <2>5, <2>6, LocalKeeps, Zenon DEF Ok
<1> QED
  <2>1. Name[c] \in {Name[c]}
    BY Zenon
  <2> QED
    BY <1>c, <1>3, <1>4, <1>5, <2>1, Zenon DEF RenameSave

\* The rest of a rename: the sandbox takes the new name or all is undone.
LEMMA RenameSandboxOk ==
    ASSUME RegistryInv, NamesInv', NEW a \in Actors, RenameSandbox(a)
    PROVE  RegistryInv'
<1>c. PICK c : c = act[a].id
  BY Zenon
<1>a. act[a].pc = "sandbox" /\ Renaming(a) /\ act[a].pc # "names" /\ act[a].pc # "save"
  BY Zenon DEF RenameSandbox, Renaming
<1>0. /\ TypeOK /\ c \in Ids /\ Ok(c) /\ c # None /\ boot[c] # "load"
      /\ Name[c] \in Names /\ act[a].name \in Names /\ act[a].name # Name[c]
      /\ c \in containers
      /\ Reserved(act[a].name, c) /\ Reserved(Name[c], c)
      /\ \A b \in Actors : b # a => ~Saving(b, c)
      /\ act[a].pc \in {"rename", "save", "sandbox"}
  BY <1>a, <1>c, InRenameOk, Zenon
<1>1. UNCHANGED <<containers, dead, running, RemovalInProgress, RWLayer, reap, boot, layers,
                  alive, event, used, orphans, lost>>
  BY Zenon DEF RenameSandbox
<1>s. /\ \A b \in Actors : ~Saving(b, c)
      /\ Loaded(c) /\ disk[c].name \notin loose => names[disk[c].name] = c /\ disk[c].name = Name[c]
  <2>1. ~Saving(a, c)
    BY <1>a, Zenon DEF Saving
  <2>2. \A b \in Actors : ~Saving(b, c)
    BY <1>0, <2>1, Zenon
  <2> QED
    BY <1>0, <2>2, Zenon DEF Ok, OnDisk, SavedOk, FailedCreate, Reserved
<1>2. ASSUME loose \subseteq loose',
             \A b \in Actors \ {a} : act'[b] = act[b],
             act'[a].id = None /\ act'[a].pc = "idle",
             \A b \in Actors : ~Saving(b, c)',
             \A d \in Ids \ {c} : Name'[d] = Name[d],
             \A n \in Names \ {act[a].name, Name[c]} : names'[n] = names[n],
             names'[act[a].name] \in {names[act[a].name], None, c},
             names'[act[a].name] = c => names[act[a].name] \in {None, c},
             names'[Name[c]] \in {names[Name[c]], None},
             \A d \in Ids \ {c} : disk'[d] = disk[d],
             disk'[c] = NoDir <=> disk[c] = NoDir,
             \/ disk'[c] = disk[c]
             \/ /\ Loaded(c)'
                /\ disk'[c].dead = "yes" <=> c \in dead
                /\ disk'[c].running = "no" <=> c \notin running,
             Loaded(c)' /\ disk'[c].name \notin loose' =>
                names'[disk'[c].name] = c /\ disk'[c].name = Name'[c]
      PROVE  RegistryInv'
  <2>1. SavedOk(c)'
    BY <1>0, <1>1, <1>2, Zenon DEF SavedOk, FailedCreate
  <2>2. \A n \in Names \ loose' : names'[n] = names[n] \/ {names[n], names'[n]} \subseteq {None, c}
    BY <1>0, <1>2, Zenon DEF Reserved
  <2>3. \A d \in Ids \ {c} : disk'[d] = disk[d] /\ Name'[d] = Name[d]
    BY <1>2, Zenon
  <2>4. /\ Local(c) /\ OnDisk(c)' /\ Claimed(c)' /\ ProcessOk(c)'
        /\ \A b \in Actors : Client(b)' => Client(b) \/ Up
        /\ Up => boot'[c] \in {"none", "done", "skipped"}
        /\ c \notin orphans => /\ DeadOk(c)' /\ LayerOk(c)' /\ TracedOk(c)
                               /\ (TracedOk(c)' => LeftOk(c)')
    BY <1>c, <1>0, <1>1, <1>2, <2>1, <2>2, <2>3, RenameActs, ZenonT(60)
  <2>5. TracedOk(c)'
    BY <1>0, <1>1, Zenon DEF TracedOk
  <2> QED
    BY <1>0, <1>1, <2>4, <2>5, LocalKeeps, Zenon DEF Ok
<1>3. CASE RenameDone(a, c) /\ UNCHANGED <<loose, disk, faults>>
  <2>1. /\ \A b \in Actors \ {a} : act'[b] = act[b]
        /\ act'[a].id = None /\ act'[a].pc = "idle"
        /\ \A b \in Actors : ~Saving(b, c)'
        /\ \A n \in Names \ {act[a].name, Name[c]} : names'[n] = names[n]
        /\ names'[act[a].name] = None /\ names'[Name[c]] = names[Name[c]]
        /\ UNCHANGED <<Name, loose>>
    BY <1>a, <1>c, <1>3, RenameTable, Zenon
  <2>2. disk' = disk /\ (Loaded(c)' <=> Loaded(c))
    BY <1>3, Zenon DEF Loaded
  <2>3. Loaded(c)' /\ disk'[c].name \notin loose' =>
                names'[disk'[c].name] = c /\ disk'[c].name = Name'[c]
    BY <1>s, <2>1, <2>2, Zenon
  <2>4. /\ names'[act[a].name] # c
        /\ names'[act[a].name] \in {names[act[a].name], None, c}
        /\ names'[Name[c]] \in {names[Name[c]], None}
        /\ loose \subseteq loose' /\ \A d \in Ids \ {c} : Name'[d] = Name[d]
    BY <1>0, <2>1, Zenon
  <2> QED
    BY <1>2, <2>1, <2>2, <2>3, <2>4, Zenon
<1>4. ASSUME NEW ns, RenameUndo(a, c, ns)
      PROVE  /\ \A b \in Actors \ {a} : act'[b] = act[b]
             /\ act'[a].id = None /\ act'[a].pc = "idle"
             /\ \A b \in Actors : ~Saving(b, c)'
             /\ loose \subseteq loose'
             /\ \A d \in Ids \ {c} : Name'[d] = Name[d]
             /\ \A n \in Names \ {act[a].name, Name[c]} : names'[n] = names[n]
             /\ names'[Name[c]] \in {names[Name[c]], None} /\ Name'[c] = act[a].name
             /\ names[act[a].name] = c => names'[act[a].name] = c
             /\ names'[act[a].name] \in {names[act[a].name], None, c}
             /\ names'[act[a].name] = c => names[act[a].name] \in {None, c}
             /\ ns \subseteq loose'
  <2>1. /\ \A b \in Actors \ {a} : act'[b] = act[b]
        /\ act'[a].id = None /\ act'[a].pc = "idle"
        /\ \A b \in Actors : ~Saving(b, c)'
        /\ loose \subseteq loose'
        /\ \A d \in Ids \ {c} : Name'[d] = Name[d]
        /\ \A n \in Names \ {act[a].name, Name[c]} : names'[n] = names[n]
        /\ names'[Name[c]] = None /\ Name'[c] = act[a].name
        /\ names[act[a].name] = c => names'[act[a].name] = c
        /\ names'[act[a].name] # names[act[a].name] =>
              names[act[a].name] = None /\ names'[act[a].name] = c
        /\ c \in containers => loose' = loose \cup ns
    BY <1>a, <1>c, <1>4, RenameTable, ZenonT(60)
  <2>2. ns \subseteq loose'
    BY <1>0, <2>1, Zenon
  <2>3. /\ names'[Name[c]] \in {names[Name[c]], None}
        /\ names'[act[a].name] \in {names[act[a].name], None, c}
        /\ names'[act[a].name] = c => names[act[a].name] \in {None, c}
    BY <2>1, Zenon
  <2> QED
    BY <2>1, <2>2, <2>3, Zenon
<1>5. CASE RenameUndo(a, c, {}) /\ Saved(c)
  <2>1. /\ Name'[c] = act[a].name /\ loose \subseteq loose'
        /\ names[act[a].name] = c => names'[act[a].name] = c
    BY <1>4, <1>5, Zenon
  <2>2. /\ \A d \in Ids \ {c} : disk'[d] = disk[d]
        /\ disk'[c] = NoDir <=> disk[c] = NoDir
        /\ Loaded(c) => Loaded(c)'
        /\ \/ disk'[c] = disk[c]
           \/ /\ disk[c] # NoDir /\ Loaded(c)' /\ disk'[c].name = Name'[c]
              /\ disk'[c].dead = "yes" <=> c \in dead'
              /\ disk'[c].running = "no" <=> c \notin running'
    BY <1>0, <1>5, <2>1, SaveWrites, Zenon DEF TrySave
  <2>3. disk'[c].name = act[a].name
    BY <1>0, <1>5, <2>1, WriteWhat, Zenon DEF Saved, Written
  <2>4. Loaded(c)' /\ disk'[c].name \notin loose' =>
                names'[disk'[c].name] = c /\ disk'[c].name = Name'[c]
    BY <1>0, <2>1, <2>3, Zenon DEF Reserved
  <2>5. \/ disk'[c] = disk[c]
        \/ /\ Loaded(c)'
           /\ disk'[c].dead = "yes" <=> c \in dead
           /\ disk'[c].running = "no" <=> c \notin running
    BY <1>1, <2>2, Zenon
  <2> QED
    BY <1>2, <1>4, <1>5, <2>2, <2>4, <2>5, Zenon
<1>6. CASE RenameUndo(a, c, {Name[c]}) /\ NotSaved(c)
  <2>1. disk' = disk /\ (Loaded(c)' <=> Loaded(c))
    BY <1>6, Zenon DEF NotSaved, Loaded
  <2>2. Name[c] \in loose' /\ loose \subseteq loose'
    BY <1>4, <1>6, Zenon
  <2>3. Loaded(c)' => disk'[c].name \in loose'
    BY <1>s, <2>1, <2>2, Zenon
  <2>4. \A d \in Ids \ {c} : disk'[d] = disk[d]
    BY <2>1, Zenon
  <2> QED
    BY <1>2, <1>4, <1>6, <2>1, <2>3, <2>4, Zenon
<1> QED
  BY <1>c, <1>3, <1>5, <1>6, Zenon DEF RenameSandbox

-----------------------------------------------------------------------------
(* start, and what restore starts *)

\* A task is created and started with the container locked.
LEMMA StartTaskOk ==
    ASSUME RegistryInv, NamesInv', NEW a \in Actors, NEW c \in Ids, StartTask(a, c) \/ BootStart(a, c)
    PROVE  RegistryInv'
<1>0. /\ Ok(c) /\ IdOk(c) /\ TypeOK /\ c # None /\ act[a] = Idle /\ lock[c] = None
      /\ c \notin running /\ c \notin RemovalInProgress /\ c \notin dead
      /\ c \in containers \/ boot[c] = "restart"
  BY KnownOk, Zenon DEF StartTask, BootStart, NewTask, NoStart
<1>1. /\ UNCHANGED <<containers, names, Name, dead, running, RemovalInProgress, RWLayer, reap,
                     disk, layers, event, used, orphans, loose, lost>>
      /\ alive' = alive \cup {c}
  BY Zenon DEF StartTask, BootStart, NewTask, memVars, histVars
<1>2. /\ \A b \in Actors \ {a} : act'[b] = act[b]
      /\ act'[a].pc = "started" /\ act'[a].id = c /\ act'[a].by = "rm" /\ act[a].id = None
  <2>1. act' = [act EXCEPT ![a] = [Idle EXCEPT !.pc = "started", !.id = c]]
    BY Zenon DEF StartTask, BootStart, NewTask
  <2> QED
    BY <1>0, <2>1, IdleAct, Zenon DEF TypeOK, Idle
<1>3. /\ boot[c] # "load" /\ boot'[c] # "load" /\ boot'[c] \notin {"load", "sync", "remove"}
      /\ \A d \in Ids \ {c} : boot'[d] = boot[d]
      /\ boot[c] \in {"load", "skipped"} => boot'[c] = boot[c]
      /\ Up => boot'[c] \in {"none", "done", "skipped"}
      /\ boot'[c] = boot[c] \/ boot[c] = "restart"
  <2>1. CASE StartTask(a, c)
    <3>1. boot[c] \in {"none", "done", "skipped"} /\ boot' = boot
      BY <2>1, Zenon DEF StartTask, Up
    <3> QED
      BY <3>1
  <2>2. CASE BootStart(a, c)
    <3>1. boot[c] = "restart" /\ boot' = [boot EXCEPT ![c] = "starting"]
      BY <2>2, Zenon DEF BootStart
    <3>2. boot'[c] = "starting" /\ \A d \in Ids \ {c} : boot'[d] = boot[d]
      BY <1>0, <3>1, Zenon DEF TypeOK
    <3>3. ~Up
      BY <3>1, Zenon DEF Up
    <3> QED
      BY <3>1, <3>2, <3>3, Zenon
  <2> QED
    BY <2>1, <2>2, Zenon
<1>4. Local(c)
  BY <1>0, <1>1, <1>2, <1>3, Zenon DEF Local
<1>5. /\ ~Creating(a)' /\ ~Removing(a)' /\ ~Saving(a, c)' /\ ~Client(a)'
      /\ \A b \in Actors \ {a} : /\ Creating(b)' <=> Creating(b)
                                 /\ Removing(b)' <=> Removing(b)
                                 /\ Renaming(b)' <=> Renaming(b)
                                 /\ Saving(b, c)' <=> Saving(b, c)
                                 /\ Client(b)' <=> Client(b)
  <2>1. ~Creating(a)' /\ ~Removing(a)' /\ ~Saving(a, c)' /\ ~Client(a)'
    BY <1>2, Zenon DEF Creating, Removing, Saving, Client, Renaming
  <2>2. \A b \in Actors \ {a} : /\ Creating(b)' <=> Creating(b)
                                /\ Removing(b)' <=> Removing(b)
                                /\ Renaming(b)' <=> Renaming(b)
                                /\ Saving(b, c)' <=> Saving(b, c)
                                /\ InRm(b, c)' <=> InRm(b, c)
                                /\ Client(b)' <=> Client(b)
    BY <1>2, Others, Zenon
  <2> QED
    BY <2>1, <2>2, Zenon
<1>6. \A b \in Actors : /\ act[b].id = c => b # a /\ act'[b] = act[b]
                        /\ act'[b].id = c => b = a \/ (act'[b] = act[b] /\ act[b].id = c)
  BY <1>0, <1>2, Zenon
<1>7. OnDisk(c)'
  <2>2. c \in containers \/ disk[c] = NoDir
    BY <1>0, Zenon DEF Ok, OnDisk
  <2>1. SavedOk(c)'
    <3>1. SavedOk(c) /\ NoDir \notin Saves
      BY <1>0, RegistryAssumption, Zenon DEF Ok, OnDisk, Saves
    <3>2. \A b \in Actors : (Saving(b, c)' <=> Saving(b, c)) /\ (Saving(b, c) => act'[b] = act[b])
      BY <1>5, <1>6, Zenon DEF Saving
    <3> QED
      BY <1>1, <1>3, <2>2, <3>1, <3>2, Zenon DEF SavedOk, Loaded
  <2>3. ASSUME NEW b \in Actors, act'[b].id = c
        PROVE  /\ act'[b].pc \in {"create", "mkdir"} => disk'[c] = NoDir
               /\ act'[b].by = "create" => boot'[c] = "none"
    <3>1. CASE b = a
      BY <1>2, <3>1, Zenon
    <3>2. CASE b # a
      <4>1. /\ act[b].pc \in {"create", "mkdir"} => disk[c] = NoDir
            /\ act[b].by = "create" => boot[c] = "none"
            /\ act'[b] = act[b]
        BY <1>0, <1>6, <2>3, <3>2, Zenon DEF Ok, OnDisk
      <4> QED
        BY <1>1, <1>3, <4>1
    <3> QED
      BY <3>1, <3>2, Zenon
  <2> QED
    BY <1>1, <2>1, <2>2, <2>3, Zenon DEF OnDisk
<1>8. Claimed(c)'
  BY <1>0, <1>1, <1>2, <1>5, <1>6, Zenon DEF Ok, Claimed
<1>9. ProcessOk(c)'
  BY <1>0, <1>1, <1>2, <1>5, <1>6, Zenon DEF Ok, ProcessOk
<1>10. ASSUME c \notin orphans, NEW b \in Actors, act'[b].id = c PROVE ~Removing(b)'
  <2>1. CASE b = a
    BY <1>5, <2>1, Zenon
  <2>2. CASE b # a
    <3>1. act[b].id = c /\ Claimed(c) /\ DeadOk(c) /\ (Removing(b)' <=> Removing(b))
      BY <1>0, <1>5, <1>6, <1>10, <2>2, Zenon DEF Ok
    <3>2. act[b].by # "claim"
      BY <1>0, <3>1, Zenon DEF Claimed
    <3>3. Removing(b) => act[b].by # "create" /\ act[b].by # "rm"
      BY <1>0, <3>1, Zenon DEF DeadOk
    <3>4. act[b].by \in {"rm", "claim", "create"}
      BY <1>0, Zenon DEF TypeOK, Acts
    <3> QED
      BY <3>1, <3>2, <3>3, <3>4, Zenon
  <2> QED
    BY <2>1, <2>2, Zenon
<1>11. ASSUME c \notin orphans PROVE DeadOk(c)'
  <2>1. Loaded(c)' => disk[c].dead # "yes"
    BY <1>0, <1>1, <1>3, <1>11, Zenon DEF Ok, DeadOk, Loaded
  <2> QED
    BY <1>0, <1>1, <1>3, <1>10, <1>11, <2>1, Zenon DEF DeadOk
<1>12. ASSUME c \notin orphans PROVE LeftOk(c)'
  <2>0. LayerOk(c) /\ TracedOk(c)
    BY <1>0, <1>12, Zenon DEF Ok, LeftOk
  <2>1. LayerOk(c)'
    BY <1>1, <1>3, <1>6, <2>0, LayerStays, Zenon DEF Loaded
  <2>2. TracedOk(c)'
    <3>1. \A b \in Actors : act[b].id = c =>
              /\ act[b].by = "create" => act'[b].id = c /\ act'[b].by = "create"
              /\ act[b].pc = "names" => act'[b].id = c /\ act'[b].pc = "names"
              /\ Renaming(b) => act'[b].id = c /\ Renaming(b)' /\ act'[b].name = act[b].name
      BY <1>5, <1>6, Zenon
    <3> QED
      BY <1>1, <1>3, <2>0, <3>1, TracedStays, Zenon
  <2> QED
    BY <1>3, <1>10, <1>12, <2>1, <2>2, Zenon DEF LeftOk
<1>13. \A b \in Actors : Client(b)' => Client(b) \/ Up
  BY <1>5, Zenon
<1> QED
  BY <1>1, <1>3, <1>4, <1>7, <1>8, <1>9, <1>11, <1>12, <1>13, LocalKeeps, Zenon DEF Ok


\* The start is recorded and saved.
LEMMA StartSaveOk ==
    ASSUME RegistryInv, NamesInv', NEW a \in Actors, StartSave(a)
    PROVE  RegistryInv'
<1>c. PICK c \in Ids : c = act[a].id
  <2>1. NamesInv
    BY Zenon DEF RegistryInv
  <2> QED
    BY <2>1, AtWork, Zenon DEF StartSave
<1>0. /\ Ok(c) /\ IdOk(c) /\ TypeOK /\ c # None /\ ActOk(a) /\ act[a].pc = "started"
      /\ \A b \in Actors : ActOk(b)
  BY KnownOk, Zenon DEF StartSave
<1>s. Starting(c) /\ ~Creating(a) /\ ~Removing(a) /\ ~Saving(a, c) /\ ~Renaming(a) /\ ~InRm(a, c)
  BY <1>c, <1>0, Zenon DEF Starting, Creating, Removing, Saving, Renaming, InRm
<1>l. /\ c \in used /\ Name[c] \in Names /\ boot[c] # "load" /\ lock[c] = a
      /\ act[a].by # "create"
      /\ c \in containers \/ disk[c] = NoDir
      /\ c \in alive \cup event
  <2>1. c \in used /\ lock[c] = a
    BY <1>c, <1>0, Zenon DEF ActOk
  <2>2. Name[c] \in Names /\ boot[c] # "load"
    BY <1>c, <1>0, <2>1, Zenon DEF IdOk
  <2>3. act[a].by # "create"
    BY <1>c, <1>0, <1>s, Zenon DEF Ok, Claimed
  <2>4. c \in containers \/ disk[c] = NoDir
    BY <1>c, <1>0, <2>3, Zenon DEF Ok, OnDisk
  <2>5. c \in alive \cup event
    BY <1>c, <1>0, Zenon DEF Ok, ProcessOk
  <2> QED
    BY <2>1, <2>2, <2>3, <2>4, <2>5, Zenon
<1>b. /\ \A b \in Actors : ~Saving(b, c)
      /\ \A b \in Actors : act[b].id = c => ~Creating(b)
  <2>1. ASSUME NEW b \in Actors, act[b].id = c PROVE ~Creating(b)
    BY <1>c, <1>0, <1>s, <2>1, Zenon DEF ActOk
  <2>2. ASSUME NEW b \in Actors, act[b].id = c, b # a PROVE ~Renaming(b)
    BY <1>0, <1>l, <2>2, Zenon DEF ActOk
  <2>3. ASSUME NEW b \in Actors PROVE ~Saving(b, c)
    BY <1>s, <2>2, Zenon DEF Saving, Renaming
  <2> QED
    BY <2>1, <2>3, Zenon
<1>1. /\ UNCHANGED <<containers, names, Name, dead, RemovalInProgress, RWLayer, reap,
                     layers, alive, event, used, orphans, loose, lost>>
      /\ running' = running \cup {c} /\ TrySave(c)
  BY <1>c, Zenon DEF StartSave, histVars
<1>2. /\ \A b \in Actors \ {a} : act'[b] = act[b]
      /\ act'[a].pc = "idle" /\ act'[a].id = None
  BY <1>0, Returns, Zenon DEF StartSave
<1>3. /\ boot'[c] # "load"
      /\ \A d \in Ids \ {c} : boot'[d] = boot[d]
      /\ boot'[c] = boot[c] \/ (boot[c] = "starting" /\ boot'[c] = "done")
      /\ boot[c] = "skipped" => boot'[c] = boot[c]
      /\ Up => boot'[c] \in {"none", "done", "skipped"}
  <2>1. boot' = [boot EXCEPT ![c] = IF boot[c] = "starting" THEN "done" ELSE boot[c]]
    BY <1>c, Zenon DEF StartSave
  <2>2. \A d \in Ids \ {c} : boot'[d] = boot[d]
    BY <1>0, <2>1, Zenon DEF TypeOK
  <2>3. boot'[c] = IF boot[c] = "starting" THEN "done" ELSE boot[c]
    BY <1>0, <2>1, Zenon DEF TypeOK
  <2>4. Up => boot[c] \in {"none", "done", "skipped"}
    BY Zenon DEF Up
  <2> QED
    BY <1>l, <2>2, <2>3, <2>4
<1>4. /\ \A d \in Ids \ {c} : disk'[d] = disk[d]
      /\ disk'[c] = NoDir <=> disk[c] = NoDir
      /\ Loaded(c) => Loaded(c)'
      /\ \/ disk'[c] = disk[c]
         \/ /\ disk[c] # NoDir /\ Loaded(c)' /\ disk'[c].name = Name[c]
            /\ disk'[c].dead = "yes" <=> c \in dead
  <2>1. Name'[c] \in Names /\ Name'[c] = Name[c] /\ dead' = dead
    BY <1>1, <1>l, Zenon
  <2>2. /\ \A d \in Ids \ {c} : disk'[d] = disk[d]
        /\ disk'[c] = NoDir <=> disk[c] = NoDir
        /\ Loaded(c) => Loaded(c)'
        /\ \/ disk'[c] = disk[c]
           \/ /\ disk[c] # NoDir /\ Loaded(c)' /\ disk'[c].name = Name'[c]
              /\ disk'[c].dead = "yes" <=> c \in dead'
    BY <1>0, <1>1, <2>1, SaveWrites, Zenon
  <2> QED
    BY <2>1, <2>2, Zenon
<1>5. Local(c)
  BY <1>c, <1>0, <1>1, <1>2, <1>3, <1>4, Zenon DEF Local
<1>6. /\ ~Creating(a)' /\ ~Removing(a)' /\ ~Saving(a, c)' /\ ~Client(a)' /\ ~InRm(a, c)'
      /\ \A b \in Actors \ {a} : /\ Creating(b)' <=> Creating(b)
                                 /\ Removing(b)' <=> Removing(b)
                                 /\ Renaming(b)' <=> Renaming(b)
                                 /\ Saving(b, c)' <=> Saving(b, c)
                                 /\ InRm(b, c)' <=> InRm(b, c)
                                 /\ Client(b)' <=> Client(b)
  <2>1. ~Creating(a)' /\ ~Removing(a)' /\ ~Saving(a, c)' /\ ~Client(a)' /\ ~InRm(a, c)'
    BY <1>2, Zenon DEF Creating, Removing, Saving, Client, Renaming, InRm
  <2>2. \A b \in Actors \ {a} : /\ Creating(b)' <=> Creating(b)
                                /\ Removing(b)' <=> Removing(b)
                                /\ Renaming(b)' <=> Renaming(b)
                                /\ Saving(b, c)' <=> Saving(b, c)
                                /\ InRm(b, c)' <=> InRm(b, c)
                                /\ Client(b)' <=> Client(b)
    BY <1>2, Others, Zenon
  <2> QED
    BY <2>1, <2>2, Zenon
<1>7. \A b \in Actors : act'[b].id = c => b # a /\ act'[b] = act[b] /\ act[b].id = c
  BY <1>0, <1>2, Zenon
<1>8. OnDisk(c)'
  <2>1. SavedOk(c)'
    <3>1. \A b \in Actors : ~Saving(b, c) /\ ~Saving(b, c)'
      BY <1>b, <1>6, Zenon
    <3>2. /\ Name'[c] = Name[c] /\ (Loaded(c)' => disk'[c] # NoDir)
          /\ disk'[c] = disk[c] \/ (disk[c] # NoDir /\ disk'[c].name = Name[c])
          /\ disk'[c] = NoDir <=> disk[c] = NoDir
          /\ UNCHANGED <<names, loose, containers>>
      <4>1. NoDir \notin Saves
        BY RegistryAssumption, Zenon DEF Saves
      <4>2. Loaded(c)' => disk'[c] # NoDir
        BY <4>1, Zenon DEF Loaded
      <4> QED
        BY <1>1, <1>4, <4>2, Zenon
    <3> QED
      BY <1>l, <1>3, <3>1, <3>2, ResaveOk, Zenon
  <2>2. \A b \in Actors : act'[b].id = c => ~Creating(b)' /\ act'[b].pc \notin {"create", "mkdir"}
    BY <1>b, <1>6, <1>7, Zenon DEF Creating
  <2>3. ASSUME NEW b \in Actors, act'[b].id = c, act'[b].by = "create" PROVE boot'[c] = "none"
    <3>1. boot[c] = "none"
      BY <1>0, <1>7, <2>3, Zenon DEF Ok, OnDisk
    <3> QED
      BY <1>3, <3>1
  <2> QED
    BY <1>1, <1>4, <1>l, <2>1, <2>2, <2>3, Zenon DEF OnDisk
<1>9. Claimed(c)'
  BY <1>0, <1>1, <1>6, <1>7, Zenon DEF Ok, Claimed
<1>10. ProcessOk(c)'
  <2>1. \A b \in Actors : act'[b].id = c => ~Creating(b)'
    BY <1>b, <1>6, <1>7, Zenon
  <2> QED
    BY <1>1, <1>l, <2>1, Zenon DEF ProcessOk
<1>11. ASSUME c \notin orphans
       PROVE  /\ c \notin dead
              /\ \A b \in Actors : act'[b].id = c => ~Removing(b)'
  <2>1. DeadOk(c)
    BY <1>0, <1>11, Zenon DEF Ok
  <2>2. c \notin dead /\ \A b \in Actors : act[b].id = c => ~Removing(b)
    BY <1>s, <2>1, Zenon DEF DeadOk
  <2> QED
    BY <1>6, <1>7, <2>2, Zenon
<1>12. ASSUME c \notin orphans PROVE DeadOk(c)'
  <2>1. Loaded(c)' => disk'[c].dead # "yes"
    <3>1. Loaded(c) => disk[c].dead # "yes"
      BY <1>0, <1>l, <1>11, <1>12, Zenon DEF Ok, DeadOk
    <3>2. disk'[c] = disk[c] => (Loaded(c)' <=> Loaded(c))
      BY Zenon DEF Loaded
    <3> QED
      BY <1>4, <1>11, <1>12, <3>1, <3>2, Zenon
  <2> QED
    BY <1>1, <1>3, <1>11, <1>12, <2>1, Zenon DEF DeadOk
<1>13. ASSUME c \notin orphans PROVE LeftOk(c)'
  <2>0. LeftOk(c)
    BY <1>0, <1>13, Zenon DEF Ok
  <2>1. LayerOk(c)'
    <3>1. \A b \in Actors : act[b].id = c =>
              /\ act[b].by = "create" => act'[b].id = c /\ act'[b].by = "create"
              /\ act[b].pc = "layer" => act'[b] = act[b]
      BY <1>0, <1>l, <1>2, Zenon
    <3>2. /\ LayerOk(c) /\ (c \in layers' => c \in layers) /\ (c \in RWLayer => c \in RWLayer')
          /\ lost' = lost /\ (c \in containers => c \in containers')
      BY <1>1, <2>0, Zenon DEF LeftOk
    <3> QED
      BY <1>l, <1>4, <3>1, <3>2, LayerStays, Zenon
  <2>2. TracedOk(c)'
    <3>1. \A b \in Actors : act[b].id = c =>
              /\ act[b].by = "create" => act'[b].id = c /\ act'[b].by = "create"
              /\ act[b].pc = "names" => act'[b].id = c /\ act'[b].pc = "names"
              /\ Renaming(b) => act'[b].id = c /\ Renaming(b)' /\ act'[b].name = act[b].name
      BY <1>0, <1>l, <1>2, <1>s, <1>6, Zenon
    <3>2. /\ TracedOk(c) /\ (c \in containers => c \in containers')
          /\ disk'[c] \in {disk[c], NoDir} \/ c \in containers
          /\ lost' = lost
          /\ boot[c] \in {"load", "skipped"} => boot'[c] = boot[c]
          /\ names' = names /\ loose' = loose /\ Name'[c] = Name[c]
      BY <1>1, <1>3, <1>4, <1>l, <2>0, Zenon DEF LeftOk
    <3> QED
      BY <3>1, <3>2, TracedStays, Zenon
  <2>3. ASSUME boot'[c] \in {"load", "sync", "remove"} PROVE OneRemoval(c)'
    <3>1. OneRemoval(c)
      BY <1>3, <2>0, <2>3 DEF LeftOk
    <3>2. c \notin reap /\ \A b \in Actors : ~InRm(b, c)
      BY <1>l, <3>1, Zenon DEF OneRemoval
    <3>3. c \notin reap' /\ \A b \in Actors : ~InRm(b, c)'
      BY <1>1, <1>6, <3>2, Zenon
    <3> QED
      BY <1>1, <3>1, <3>3, Zenon DEF OneRemoval
  <2> QED
    BY <1>11, <1>13, <2>1, <2>2, <2>3, Zenon DEF LeftOk
<1>14. \A b \in Actors : Client(b)' => Client(b) \/ Up
  BY <1>6, Zenon
<1> QED
  BY <1>1, <1>3, <1>5, <1>8, <1>9, <1>10, <1>12, <1>13, <1>14, LocalKeeps, Zenon DEF Ok


\* restore removes a container: its goroutine asks for it, or goes straight to
\* cleanupContainer with one that is dead.
LEMMA BootRemoveOk ==
    ASSUME RegistryInv, NamesInv', NEW a \in Actors, NEW c \in Ids, BootRemove(a, c)
    PROVE  RegistryInv'
<1>0. /\ Ok(c) /\ IdOk(c) /\ TypeOK /\ c # None /\ act[a] = Idle /\ boot[c] = "remove" /\ act[a].id = None
  BY KnownOk, IdleAct, Zenon DEF BootRemove
<1>1. /\ UNCHANGED <<containers, names, Name, dead, running, RemovalInProgress, RWLayer, lock, reap,
                     disk, layers, alive, event, used, loose, lost>>
      /\ orphans' = orphans \cup ({c} \cap dead \cap RemovalInProgress)
  BY Zenon DEF BootRemove, memVars, diskVars
<1>2. /\ \A b \in Actors \ {a} : act'[b] = act[b]
      /\ \/ act' = act
         \/ /\ act'[a].id = c /\ act'[a].by = "rm"
            /\ act'[a].pc = IF c \in dead THEN "cleanup" ELSE "rm"
  <2>1. CASE c \in dead \/ c \in containers
    <3>1. act' = [act EXCEPT ![a] = [Idle EXCEPT !.id = c, !.pc = IF c \in dead THEN "cleanup" ELSE "rm"]]
      BY <2>1, Zenon DEF BootRemove
    <3>2. \A b \in Actors \ {a} : act'[b] = act[b]
      BY <1>0, <3>1, Zenon DEF TypeOK
    <3>3. act'[a] = [Idle EXCEPT !.id = c, !.pc = IF c \in dead THEN "cleanup" ELSE "rm"]
      BY <1>0, <3>1, Zenon DEF TypeOK
    <3>4. /\ act'[a].id = c /\ act'[a].by = "rm"
          /\ act'[a].pc = IF c \in dead THEN "cleanup" ELSE "rm"
      BY <3>3, Zenon DEF Idle
    <3> QED
      BY <3>2, <3>4, Zenon
  <2>2. CASE ~(c \in dead \/ c \in containers)
    BY <2>2, Zenon DEF BootRemove
  <2> QED
    BY <2>1, <2>2, Zenon
<1>3. /\ boot'[c] \in {"removing", "done"} /\ \A d \in Ids \ {c} : boot'[d] = boot[d]
      /\ act' # act => boot'[c] = "removing"
  <2>1. \/ boot' = [boot EXCEPT ![c] = "removing"]
        \/ boot' = [boot EXCEPT ![c] = "done"] /\ act' = act
    BY Zenon DEF BootRemove
  <2> QED
    BY <1>0, <2>1, Zenon DEF TypeOK
<1>b. boot'[c] \notin {"load", "sync", "remove"} /\ boot'[c] # "load"
  BY <1>3
<1>u. ~Up
  BY <1>0, Zenon DEF Up
<1>4. Local(c)
  <2>1. \A b \in Actors : act'[b] = act[b] \/ {act[b].id, act'[b].id} \subseteq {None, c}
    BY <1>0, <1>2, Zenon
  <2> QED
    BY <1>0, <1>1, <1>3, <1>b, <2>1, Zenon DEF Local
<1>5. /\ act' # act => ~Creating(a)' /\ ~Saving(a, c)' /\ ~Client(a)' /\ act'[a].pc # "started"
      /\ \A b \in Actors \ {a} : /\ Creating(b)' <=> Creating(b)
                                 /\ Removing(b)' <=> Removing(b)
                                 /\ Renaming(b)' <=> Renaming(b)
                                 /\ Saving(b, c)' <=> Saving(b, c)
                                 /\ InRm(b, c)' <=> InRm(b, c)
                                 /\ Client(b)' <=> Client(b)
      /\ ~Creating(a) /\ ~Saving(a, c) /\ ~Client(a) /\ act[a].pc = "idle" /\ ~Removing(a)
  <2>1. act' # act => act'[a].pc \in {"cleanup", "rm"}
    BY <1>2
  <2>2. act' # act => ~Creating(a)' /\ ~Saving(a, c)' /\ ~Client(a)' /\ act'[a].pc # "started"
    BY <2>1 DEF Creating, Saving, Client, Renaming
  <2>3. \A b \in Actors \ {a} : /\ Creating(b)' <=> Creating(b)
                                /\ Removing(b)' <=> Removing(b)
                                /\ Renaming(b)' <=> Renaming(b)
                                /\ Saving(b, c)' <=> Saving(b, c)
                                /\ InRm(b, c)' <=> InRm(b, c)
                                /\ Client(b)' <=> Client(b)
    BY <1>2, Others, Zenon
  <2>4. act[a].pc = "idle"
    BY <1>0, IdleAct, Zenon
  <2>5. ~Creating(a) /\ ~Saving(a, c) /\ ~Client(a) /\ ~Removing(a)
    BY <2>4, Zenon DEF Creating, Saving, Client, Renaming, Removing
  <2> QED
    BY <2>2, <2>3, <2>4, <2>5, Zenon
<1>6. /\ ~Creating(a)' /\ ~Saving(a, c)' /\ ~Client(a)' /\ act'[a].pc # "started"
      /\ Starting(c)' => Starting(c)
  <2>1. ~Creating(a)' /\ ~Saving(a, c)' /\ ~Client(a)' /\ act'[a].pc # "started"
    <3>1. CASE act' = act
      BY <1>5, <3>1, Zenon DEF Creating, Saving, Client, Renaming
    <3> QED
      BY <1>5, <3>1, Zenon
  <2>2. Starting(c)' => Starting(c)
    BY <1>2, <2>1, OthersStart, Zenon
  <2> QED
    BY <2>1, <2>2, Zenon
<1>7. \A b \in Actors : /\ act[b].id = c => b # a /\ act'[b] = act[b]
                        /\ act'[b].id = c => b = a \/ (act'[b] = act[b] /\ act[b].id = c)
  BY <1>0, <1>2, Zenon
<1>8. OnDisk(c)'
  <2>1. SavedOk(c)'
    <3>1. SavedOk(c)
      BY <1>0, Zenon DEF Ok, OnDisk, Reserved
    <3>2. \A b \in Actors : (Saving(b, c)' <=> Saving(b, c)) /\ (Saving(b, c) => act'[b] = act[b])
      BY <1>5, <1>6, <1>7, Zenon DEF Saving
    <3>3. boot[c] # "load" /\ (Loaded(c)' <=> Loaded(c)) /\ (Loaded(c) => disk[c] # NoDir)
      BY <1>0, <1>1, RegistryAssumption, Zenon DEF Loaded, Saves
    <3>4. c \in containers \/ disk[c] = NoDir
      BY <1>0, Zenon DEF Ok, OnDisk
    <3> QED
      BY <1>1, <1>b, <3>1, <3>2, <3>3, <3>4, Zenon DEF SavedOk
  <2>2. c \in containers \/ disk[c] = NoDir
    BY <1>0, Zenon DEF Ok, OnDisk
  <2>4. \A b \in Actors : act'[b].id = c => act'[b].by # "create"
    <3>1. \A b \in Actors : act[b].id = c => act[b].by # "create"
      BY <1>0, Zenon DEF Ok, OnDisk
    <3>2. act'[a].id = c => act'[a].by # "create"
      BY <1>0, <1>2, Zenon
    <3> QED
      BY <1>7, <3>1, <3>2, Zenon
  <2>3. \A b \in Actors : act'[b].id = c => (act'[b].pc \in {"create", "mkdir"} => disk[c] = NoDir)
    BY <1>0, <1>6, <1>7, Zenon DEF Ok, OnDisk, Creating, Reserved
  <2> QED
    BY <1>1, <2>1, <2>2, <2>3, <2>4, Zenon DEF OnDisk
<1>9. Claimed(c)'
  <2>1. act'[a].id = c => act'[a].by = "rm"
    BY <1>0, <1>2, Zenon
  <2> QED
    BY <1>0, <1>1, <1>5, <1>6, <1>7, <2>1, ZenonT(60) DEF Ok, Claimed
<1>10. ProcessOk(c)'
  <2>1. c \in containers /\ c \in running => c \in alive \cup event
    BY <1>0, Zenon DEF Ok, ProcessOk
  <2> QED
    BY <1>0, <1>1, <1>5, <1>6, <1>7, <2>1, Zenon DEF Ok, ProcessOk
<1>11. ASSUME c \notin orphans' PROVE DeadOk(c)'
  <2>0. DeadOk(c)
    BY <1>0, <1>1, <1>11, Zenon DEF Ok
  <2>1. act'[a].id = c /\ Removing(a)' => c \in dead /\ act'[a].by = "rm"
    <3>1. act'[a].id = c => act'[a].by = "rm" /\ (c \notin dead => act'[a].pc = "rm")
      BY <1>0, <1>2, Zenon
    <3> QED
      BY <3>1, Zenon DEF Removing
  <2>2. c \in dead => c \notin running /\ ~Starting(c)
    BY <2>0, Zenon DEF DeadOk
  <2>3. ASSUME NEW b \in Actors, act'[b].id = c, Removing(b)'
        PROVE  /\ ~Starting(c)'
               /\ act'[b].pc # "cleanup" \/ act'[b].by = "create" => c \notin running'
               /\ act'[b].by = "create" => c \notin containers' /\ boot'[c] = "none"
               /\ act'[b].by = "rm" => c \in dead'
    <3>1. CASE b = a
      BY <1>1, <1>6, <2>1, <2>2, <2>3, <3>1, Zenon
    <3>2. CASE b # a
      <4>1. act'[b] = act[b] /\ act[b].id = c /\ Removing(b)
        BY <1>5, <1>7, <2>3, <3>2, Zenon
      <4>2. act[b].by # "create"
        BY <1>0, <2>0, <4>1, Zenon DEF DeadOk
      <4> QED
        BY <1>1, <1>6, <2>0, <4>1, <4>2, Zenon DEF DeadOk
    <3> QED
      BY <3>1, <3>2, Zenon
  <2>4. /\ Loaded(c)' <=> Loaded(c)
        /\ Loaded(c) /\ disk[c].dead = "yes" => disk[c].running = "no" /\ c \in dead
    BY <1>0, <1>1, <2>0, Zenon DEF DeadOk, Loaded
  <2> QED
    BY <1>1, <1>b, <1>6, <2>2, <2>3, <2>4, Zenon DEF DeadOk
<1>12. ASSUME c \notin orphans' PROVE LeftOk(c)'
  <2>0. /\ LayerOk(c) /\ TracedOk(c) /\ OneRemoval(c)
        /\ \A b \in Actors : act[b].id = c /\ Removing(b) => Alone(b, c)
        /\ c \in dead => c \notin RemovalInProgress
    BY <1>0, <1>1, <1>12, Zenon DEF Ok, LeftOk
  <2>1. LayerOk(c)'
    <3>1. boot[c] # "load" /\ (Loaded(c) => Loaded(c)')
      BY <1>0, <1>1, Zenon DEF Loaded
    <3> QED
      BY <1>1, <1>7, <2>0, <3>1, LayerStays, Zenon
  <2>2. TracedOk(c)'
    <3>1. \A b \in Actors : act[b].id = c =>
              /\ act[b].by = "create" => act'[b].id = c /\ act'[b].by = "create"
              /\ act[b].pc = "names" => act'[b].id = c /\ act'[b].pc = "names"
              /\ Renaming(b) => act'[b].id = c /\ Renaming(b)' /\ act'[b].name = act[b].name
      BY <1>5, <1>7, Zenon
    <3>2. boot[c] \notin {"load", "skipped"}
      BY <1>0
    <3> QED
      BY <1>1, <2>0, <3>1, <3>2, TracedStays, Zenon
  <2>3. ASSUME NEW b \in Actors, act'[b].id = c, Removing(b)' PROVE Alone(b, c)'
    <3>1. CASE c \in dead
      <4>1. c \notin reap /\ \A e \in Actors : ~InRm(e, c)
        BY <2>0, <3>1, Zenon DEF OneRemoval
      <4>2. \A e \in Actors : act'[e].id = c /\ Removing(e)' => e = a
        BY <1>5, <1>7, <4>1, Zenon DEF InRm
      <4>3. \A e \in Actors : InRm(e, c)' => e = a
        BY <1>5, <4>1, Zenon
      <4>4. b = a /\ act'[a].pc = "cleanup" /\ boot'[c] = "removing"
        BY <1>0, <1>2, <1>3, <2>3, <3>1, <4>2
      <4> QED
        BY <1>1, <4>1, <4>2, <4>3, <4>4, Zenon DEF Alone
    <3>2. CASE c \notin dead
      <4>1. ~(act'[a].id = c /\ Removing(a)')
        <5>1. act'[a].id = c => act'[a].pc = "rm"
          BY <1>0, <1>2, <3>2, Zenon
        <5> QED
          BY <5>1, Zenon DEF Removing
      <4>2. b # a /\ act'[b] = act[b] /\ act[b].id = c /\ Removing(b) /\ Alone(b, c)
        BY <1>5, <1>7, <2>0, <2>3, <4>1, Zenon
      <4>3. act[b].by # "rm"
        BY <1>0, <4>2 DEF Alone
      <4>4. \A e \in Actors : act'[e].id = c /\ Removing(e)' => e = b
        BY <1>5, <1>7, <4>1, <4>2, Zenon DEF Alone
      <4> QED
        BY <1>1, <4>2, <4>3, <4>4, Zenon DEF Alone
    <3> QED
      BY <3>1, <3>2, Zenon
  <2> QED
    BY <1>b, <2>1, <2>2, <2>3, Zenon DEF LeftOk
<1>13. /\ \A b \in Actors : Client(b)' => Client(b) \/ Up
       /\ Up => boot'[c] \in {"none", "done", "skipped"}
  BY <1>5, <1>6, <1>u, Zenon
<1> QED
  BY <1>4, <1>8, <1>9, <1>10, <1>11, <1>12, <1>13, LocalKeeps, Zenon DEF Ok


-----------------------------------------------------------------------------
(* A crash *)

\* The daemon dies: what was saved is read again, and a create that was not over is
\* left behind.
LEMMA CrashOk ==
    ASSUME RegistryInv, NamesInv', Crash
    PROVE  RegistryInv'
<1>0. TypeOK
  BY Zenon DEF RegistryInv, NamesInv
<1>1. /\ containers' = {} /\ dead' = {} /\ running' = {} /\ RemovalInProgress' = {} /\ RWLayer' = {}
      /\ reap' = {} /\ event' = {}
      /\ \A n \in Names : names'[n] = None
      /\ \A c \in Ids : boot'[c] = IF Loaded(c)' THEN "load" ELSE "none"
      /\ UNCHANGED <<Name, layers, alive, used, loose>>
      /\ orphans \subseteq orphans'
      /\ \A c \in Ids \ orphans' : \A a \in Actors : ~(act[a].id = c /\ act[a].by = "create")
  BY Zenon DEF Crash
<1>c. ASSUME NEW c \in Ids
      PROVE  /\ \/ disk'[c] = disk[c]
                \/ /\ Loaded(c) /\ disk'[c] = EmptyDir
                   /\ \E a \in Actors : act[a].id = c /\ act[a].pc = "root"
             /\ c \in lost /\ ~Loaded(c)' => c \in lost'
             /\ c \in containers /\ disk'[c] = EmptyDir => c \in lost'
             /\ c \in lost' => ~Loaded(c)'
  <2>1. NoDir \notin Saves /\ EmptyDir \notin Saves
    BY RegistryAssumption, Zenon DEF Saves
  <2> QED
    BY <2>1, Zenon DEF Crash, Loaded
<1>2. \A b \in Actors : act'[b].id = None /\ act'[b].pc = "idle"
  BY IdleAct, Zenon DEF Crash
<1>3. \A b \in Actors : ~Client(b)'
  BY <1>2, Zenon DEF Client, Creating, Renaming
<1>4. ASSUME NEW c \in Ids
      PROVE  /\ OnDisk(c)' /\ Claimed(c)' /\ ProcessOk(c)'
             /\ c \notin orphans' => DeadOk(c)' /\ LeftOk(c)'
  <2>0. /\ c # None /\ \A b \in Actors : act'[b].id # c
        /\ Loaded(c)' => Loaded(c) /\ disk'[c] = disk[c]
        /\ Loaded(c)' <=> boot'[c] = "load"
        /\ boot'[c] \in {"none", "load"}
        /\ OnDisk(c) /\ (c \notin orphans => DeadOk(c) /\ LeftOk(c))
        /\ NoDir \notin Saves /\ EmptyDir \notin Saves /\ NoDir # EmptyDir
        /\ disk[c] \in Saves \cup {NoDir, EmptyDir}
    <3>1. c # None /\ \A b \in Actors : act'[b].id # c
      BY <1>2, RegistryAssumption, Zenon
    <3>2. NoDir \notin Saves /\ EmptyDir \notin Saves /\ NoDir # EmptyDir
      BY RegistryAssumption, Zenon DEF Saves
    <3>3. /\ Loaded(c)' => Loaded(c) /\ disk'[c] = disk[c]
          /\ Loaded(c)' <=> boot'[c] = "load"
          /\ boot'[c] \in {"none", "load"}
      BY <1>1, <1>c, <3>2 DEF Loaded
    <3>4. OnDisk(c) /\ (c \notin orphans => DeadOk(c) /\ LeftOk(c))
      BY Zenon DEF RegistryInv
    <3>5. disk[c] \in Saves \cup {NoDir, EmptyDir}
      BY <1>0, Zenon DEF TypeOK
    <3> QED
      BY <3>1, <3>2, <3>3, <3>4, <3>5, Zenon
  <2>s. \A b \in Actors : ~Saving(b, c)' /\ ~InRm(b, c)'
    BY <2>0, Zenon DEF Saving, InRm
  <2>t. ~Starting(c)'
    BY <2>0, Zenon DEF Starting
  <2>1. SavedOk(c)'
    <3>n. PICK n : n = disk'[c].name
      BY Zenon
    <3> SUFFICES ASSUME Loaded(c)', n \notin loose
                 PROVE  names'[n] = None /\ \A d \in Ids \ {c} : boot'[d] = "load" => disk'[d].name # n
      BY <1>1, <2>0, <3>n, Zenon DEF SavedOk
    <3>1. n \in Names /\ Loaded(c) /\ n = disk[c].name
      BY <2>0, <3>n, Zenon DEF Loaded, Saves
    <3>2. ASSUME NEW d \in Ids \ {c}, boot'[d] = "load", disk'[d].name = n
          PROVE  FALSE
      <4>1. Loaded(d) /\ disk[d].name = n /\ d # None
        <5>1. Loaded(d)' /\ EmptyDir \notin Saves
          BY <1>1, <2>0, <3>2
        <5>2. disk'[d] = disk[d]
          BY <1>c, <5>1, Zenon DEF Loaded
        <5> QED
          BY <3>2, <5>1, <5>2, RegistryAssumption, Zenon DEF Loaded
      <4>2. SavedOk(c) /\ SavedOk(d)
        BY <2>0, Zenon DEF RegistryInv, OnDisk
      <4>3. CASE boot[c] = "load"
        <5>1. names[n] = None /\ boot[d] # "load"
          BY <3>1, <4>1, <4>2, <4>3, Zenon DEF SavedOk
        <5>2. names[n] = d
          BY <4>1, <4>2, <5>1, Zenon DEF SavedOk
        <5> QED
          BY <4>1, <5>1, <5>2, Zenon
      <4>4. CASE boot[c] # "load"
        <5>1. names[n] = c
          BY <3>1, <4>2, <4>4, Zenon DEF SavedOk
        <5>2. names[n] = d \/ names[n] = None
          BY <4>1, <4>2, Zenon DEF SavedOk
        <5> QED
          BY <2>0, <5>1, <5>2, Zenon
      <4> QED
        BY <4>3, <4>4, Zenon
    <3> QED
      BY <1>1, <3>1, <3>2, Zenon
  <2>2. OnDisk(c)'
    BY <2>0, <2>1, Zenon DEF OnDisk
  <2>3. Claimed(c)' /\ ProcessOk(c)'
    BY <1>1, <2>0, Zenon DEF Claimed, ProcessOk
  <2>4. ASSUME c \notin orphans' PROVE DeadOk(c)' /\ LeftOk(c)'
    <3>0. /\ DeadOk(c) /\ LayerOk(c) /\ TracedOk(c)
          /\ \A b \in Actors : ~(act[b].id = c /\ act[b].by = "create")
      BY <1>1, <2>0, <2>4, Zenon DEF LeftOk
    <3>1. DeadOk(c)'
      BY <1>1, <2>0, <2>t, <3>0, Zenon DEF DeadOk
    <3>2. ASSUME disk[c] # NoDir, ~Loaded(c)'
          PROVE  disk'[c] = EmptyDir /\ c \in lost'
      <4>1. CASE Loaded(c)
        <5>1. disk'[c] = EmptyDir /\ \E a \in Actors : act[a].id = c /\ act[a].pc = "root"
          BY <1>c, <3>2, <4>1, Zenon DEF Loaded
        <5>2. c \in containers
          BY <2>0, <3>0, <3>2, <5>1, Zenon DEF OnDisk
        <5> QED
          BY <1>c, <5>1, <5>2, Zenon
      <4>2. CASE ~Loaded(c)
        <5>1. disk[c] = EmptyDir /\ disk'[c] = EmptyDir
          BY <1>c, <2>0, <3>2, <4>2, Zenon DEF Loaded
        <5>2. c \in containers \/ c \in lost
          BY <3>0, <3>2, <4>2, Zenon DEF TracedOk
        <5> QED
          BY <1>c, <3>2, <5>1, <5>2, Zenon
      <4> QED
        BY <4>1, <4>2, Zenon
    <3>3. LayerOk(c)'
      <4> SUFFICES ASSUME c \in layers, c \notin lost'
                   PROVE  Loaded(c)'
        BY <1>1, <2>0, Zenon DEF LayerOk
      <4>1. c \in lost => Loaded(c)'
        BY <1>c, Zenon
      <4>2. c \notin lost => disk[c] # NoDir
        BY <2>0, <3>0, Zenon DEF LayerOk, Loaded
      <4> QED
        BY <3>2, <4>1, <4>2, Zenon
    <3>4. TracedOk(c)'
      <4>1. disk'[c] # NoDir => (Loaded(c)' /\ boot'[c] = "load") \/ (disk'[c] = EmptyDir /\ c \in lost')
        BY <1>c, <2>0, <3>2, Zenon DEF Loaded
      <4>2. \A n \in Names : names'[n] # c
        BY <1>1, <2>0, Zenon
      <4> QED
        BY <4>1, <4>2, Zenon DEF TracedOk
    <3>5. OneRemoval(c)'
      BY <1>1, <2>s, Zenon DEF OneRemoval
    <3> QED
      BY <2>0, <3>1, <3>3, <3>4, <3>5, Zenon DEF LeftOk
  <2> QED
    BY <2>2, <2>3, <2>4, Zenon
<1> QED
  BY <1>3, <1>4, Zenon DEF RegistryInv

-----------------------------------------------------------------------------
(* The invariant *)

\* Initially there are no containers.
LEMMA RegistryInit == Init => RegistryInv
<1> SUFFICES ASSUME Init PROVE RegistryInv
  BY Zenon
<1>0. NamesInv
  BY NamesInit, Zenon
<1>1. /\ containers = {} /\ dead = {} /\ running = {} /\ layers = {} /\ event = {} /\ alive = {}
      /\ \A a \in Actors : act[a].id = None /\ act[a].pc = "idle"
      /\ \A n \in Names : names[n] = None
      /\ \A c \in Ids : disk[c] = NoDir /\ boot[c] = "none"
  BY IdleAct, Zenon DEF Init
<1>2. \A a \in Actors : ~Client(a)
  BY <1>1, Zenon DEF Client, Creating, Renaming
<1>3. ASSUME NEW c \in Ids
      PROVE  OnDisk(c) /\ Claimed(c) /\ ProcessOk(c) /\ DeadOk(c) /\ LeftOk(c)
  <2>1. /\ c # None /\ ~Loaded(c) /\ disk[c] = NoDir /\ NoDir # EmptyDir
        /\ \A a \in Actors : act[a].id # c
        /\ \A n \in Names : names[n] # c
        /\ boot[c] = "none"
    BY <1>1, RegistryAssumption, Zenon DEF Loaded, Saves
  <2>2. OnDisk(c) /\ Claimed(c) /\ ProcessOk(c)
    BY <1>1, <2>1, Zenon DEF OnDisk, SavedOk, Claimed, ProcessOk, FailedCreate, Reserved
  <2>3. DeadOk(c)
    BY <1>1, <2>1, Zenon DEF DeadOk
  <2>4. LeftOk(c)
    BY <1>1, <2>1, Zenon DEF LeftOk, LayerOk, TracedOk
  <2> QED
    BY <2>2, <2>3, <2>4, Zenon
<1> QED
  BY <1>0, <1>2, <1>3, Zenon DEF RegistryInv

\* A step that changes nothing.
LEMMA RegistryStutters ==
    ASSUME RegistryInv, NamesInv', UNCHANGED vars
    PROVE  RegistryInv'
<1>1. /\ UNCHANGED <<containers, names, Name, dead, running, RemovalInProgress, RWLayer, lock, reap,
                     act, boot, disk, layers, alive, event, used, orphans, loose, lost>>
  BY Zenon DEF vars, memVars, diskVars, histVars
<1>2. /\ \A b \in Actors : /\ Creating(b)' <=> Creating(b)
                           /\ Removing(b)' <=> Removing(b)
                           /\ Renaming(b)' <=> Renaming(b)
                           /\ Client(b)' <=> Client(b)
      /\ \A b \in Actors, c \in Ids : /\ Saving(b, c)' <=> Saving(b, c)
                                      /\ InRm(b, c)' <=> InRm(b, c)
      /\ \A c \in Ids : (Starting(c)' <=> Starting(c)) /\ (Loaded(c)' <=> Loaded(c))
      /\ Up' <=> Up
  BY <1>1, Zenon DEF Creating, Removing, Renaming, Client, Saving, InRm, Starting, Loaded, Up
<1>3. \A b \in Actors : (Client(b) => Up)'
  BY <1>2, Zenon DEF RegistryInv
<1>4. ASSUME NEW c \in Ids PROVE OnDisk(c)' /\ Claimed(c)' /\ ProcessOk(c)'
  <2>0. OnDisk(c) /\ Claimed(c) /\ ProcessOk(c)
    BY Zenon DEF RegistryInv
  <2>1. SavedOk(c)'
    BY <1>1, <1>2, <2>0, Zenon DEF OnDisk, SavedOk, FailedCreate, Reserved
  <2>2. OnDisk(c)'
    BY <1>1, <1>2, <2>0, <2>1, Zenon DEF OnDisk, Reserved
  <2>3. Claimed(c)'
    BY <1>1, <1>2, <2>0, Zenon DEF Claimed
  <2>4. ProcessOk(c)'
    BY <1>1, <1>2, <2>0, Zenon DEF ProcessOk
  <2> QED
    BY <2>2, <2>3, <2>4, Zenon
<1>5. ASSUME NEW c \in Ids \ orphans' PROVE DeadOk(c)' /\ LeftOk(c)'
  <2>0. DeadOk(c) /\ LeftOk(c)
    BY <1>1, Zenon DEF RegistryInv
  <2>1. DeadOk(c)'
    BY <1>1, <1>2, <2>0, Zenon DEF DeadOk
  <2>2. LayerOk(c)' /\ TracedOk(c)'
    BY <1>1, <1>2, <2>0, Zenon DEF LeftOk, LayerOk, TracedOk
  <2>3. ASSUME NEW b \in Actors, act'[b].id = c, Removing(b)' PROVE Alone(b, c)'
    <3>1. Alone(b, c)
      BY <1>1, <1>2, <2>0, <2>3, Zenon DEF LeftOk
    <3> QED
      BY <1>1, <1>2, <3>1, Zenon DEF Alone
  <2>4. boot'[c] \in {"load", "sync", "remove"} => OneRemoval(c)'
    <3>1. boot'[c] \in {"load", "sync", "remove"} => OneRemoval(c)
      BY <1>1, <2>0, Zenon DEF LeftOk
    <3> QED
      BY <1>1, <1>2, <3>1, Zenon DEF OneRemoval
  <2> QED
    BY <2>1, <2>2, <2>3, <2>4, Zenon DEF LeftOk
<1> QED
  BY <1>3, <1>4, <1>5, Zenon DEF RegistryInv

\* Every step keeps the invariant.
LEMMA RegistryStep == RegistryInv /\ [Next]_vars => RegistryInv'
<1> SUFFICES ASSUME RegistryInv, [Next]_vars PROVE RegistryInv'
  BY Zenon
<1>0. NamesInv'
  <2>1. NamesInv
    BY Zenon DEF RegistryInv
  <2> QED
    BY <2>1, NamesStep, Zenon
<1>1. ASSUME NEW a \in Actors, Step(a) PROVE RegistryInv'
  <2>1. CASE CreateLayer(a) \/ CreateRoot(a) \/ Register(a)
    BY <1>0, <2>1, CreateGoesOk, RegisterOk, Zenon
  <2>2. CASE RenameReserve(a) \/ RenameSave(a) \/ RenameSandbox(a)
    BY <1>0, <2>2, RenameReserveOk, RenameSaveOk, RenameSandboxOk, Zenon
  <2>3. CASE RmClaim(a) \/ RmStop(a) \/ RmDead(a) \/ RmLayer(a)
    BY <1>0, <2>3, RmClaimOk, RmStopOk, RmDeadOk, RmLayerOk, Zenon
  <2>4. CASE RmRoot(a) \/ RmForget(a) \/ RmNames(a) \/ StartSave(a)
    BY <1>0, <2>4, RmRootOk, RmForgetOk, RmNamesOk, StartSaveOk, Zenon
  <2> QED
    BY <1>1, <2>1, <2>2, <2>3, <2>4, Zenon DEF Step
<1>2. ASSUME NEW a \in Actors, NEW c \in Ids,
             \/ \E n \in Names : Create(a, c, n) \/ RenameGet(a, c, n)
             \/ RmGet(a, c) \/ StartTask(a, c) \/ BootStart(a, c) \/ BootRemove(a, c)
      PROVE  RegistryInv'
  BY <1>0, <1>2, CreateOk, RenameGetOk, RmGetOk, StartTaskOk, BootRemoveOk, Zenon
<1>3. ASSUME NEW c \in Ids,
             \/ ReapGone(c) \/ TaskExit(c) \/ HandleExit(c)
             \/ \E n \in Names : CreateFails(c, n)
             \/ BootNoLayer(c) \/ BootRegister(c) \/ BootSync(c) \/ BootSyncError(c)
             \/ BootStatusError(c) \/ BootNoStart(c)
      PROVE  RegistryInv'
  BY <1>0, <1>3, CreateFailsOk, ReapGoneOk, TaskExitOk, HandleExitOk, BootNoLayerOk, BootRegisterOk,
     BootSyncOk, BootMovesOn, Zenon
<1>4. CASE Crash
  BY <1>0, <1>4, CrashOk, Zenon
<1>5. CASE UNCHANGED vars
  BY <1>0, <1>5, RegistryStutters, Zenon
<1> QED
  BY <1>1, <1>2, <1>3, <1>4, <1>5, Zenon DEF Next

\* What the daemon has in memory of its containers, what is on disk of them, their
\* processes and layers, and the goroutines at work on them stay consistent through
\* create, rename, start, exit, removal, their errors, a crash at any point and
\* restore (create.go, rename.go, delete.go, monitor.go, restore of daemon.go).
THEOREM RegistryInvariant == Spec => []RegistryInv
BY RegistryInit, RegistryStep, PTL DEF Spec

\* restore never drops a container whose configuration it read: no two directories
\* claim one name, at whatever point the daemon died (registerName and register in
\* restore, daemon.go), those that the clean-up of a failed create saved included, but
\* for the names that a rename left on disk and gave up.
THEOREM NobodyIsLeftOut == Spec => []NobodyLeftOut
<1>1. RegistryInv => NobodyLeftOut
  BY Zenon DEF RegistryInv, OnDisk, SavedOk, NobodyLeftOut, FailedCreate, Reserved
<1> QED
  BY <1>1, RegistryInvariant, PTL

\* A container saved as dead is neither running nor about to be started, though
\* SetDead and the save of it in cleanupContainer (delete.go) run against starts,
\* exits, crashes and restore, but for one that a failed create left behind.
THEOREM SavedDeadStaysDead == Spec => []DeadOnDisk
<1>1. RegistryInv => DeadOnDisk
  <2> SUFFICES ASSUME RegistryInv, NEW c \in Ids \ orphans, Loaded(c), disk[c].dead = "yes"
               PROVE  c \notin running /\ \A a \in Actors : act[a].pc = "started" => act[a].id # c
    BY Zenon DEF DeadOnDisk
  <2>1. DeadOk(c)
    BY Zenon DEF RegistryInv
  <2> QED
    BY <2>1, Zenon DEF DeadOk, Starting
<1> QED
  BY <1>1, RegistryInvariant, PTL

\* Once restore is over, a container the daemon reports as running has a process or
\* an exit that is still to be handled, also when the process ended while no daemon
\* ran (the second loop of restore, daemon.go), but for one restore gave up on.
THEOREM ARunningContainerHasAProcess == Spec => []RunningHasProcess
<1>1. RegistryInv => RunningHasProcess
  <2> SUFFICES ASSUME RegistryInv, Up, NEW c \in containers, c \in running
               PROVE  c \in alive \cup event \/ boot[c] = "skipped"
    BY Zenon DEF RunningHasProcess
  <2>1. c \in Ids
    BY Zenon DEF RegistryInv, NamesInv, TypeOK
  <2>2. ProcessOk(c) /\ boot[c] # "sync"
    BY <2>1, Zenon DEF RegistryInv, Up
  <2> QED
    BY <2>2, Zenon DEF ProcessOk
<1> QED
  BY <1>1, RegistryInvariant, PTL

\* A container that is gone, with nobody at work on it, has left no layer, directory
\* or name behind: cleanupContainer (delete.go) releases each of them exactly when
\* it should, after any errors, retries and crashes.  Excepted are creates that failed
\* (orphans), names a rename lost (loose), layers and empty directories restore does not
\* see again (lost), and containers restore gave up on.
THEOREM NothingIsLeftBehind == Spec => []NothingLeftBehind
<1>1. RegistryInv => NothingLeftBehind
  <2> SUFFICES ASSUME RegistryInv, Up, NEW c \in used, c \notin containers, c \notin orphans, ~Busy(c)
               PROVE  /\ \/ disk[c] = NoDir \/ boot[c] = "skipped"
                         \/ disk[c] = EmptyDir /\ c \in lost
                      /\ c \notin layers \/ boot[c] = "skipped" \/ c \in lost
                      /\ \A n \in Names \ loose : names[n] # c
    BY Zenon DEF NothingLeftBehind
  <2>1. c \in Ids
    BY Zenon DEF RegistryInv, NamesInv, TypeOK
  <2>2. LayerOk(c) /\ TracedOk(c) /\ boot[c] # "load" /\ \A a \in Actors : act[a].id # c
    BY <2>1, Zenon DEF RegistryInv, LeftOk, Up, Busy
  <2>3. disk[c] = NoDir \/ boot[c] = "skipped" \/ (disk[c] = EmptyDir /\ c \in lost)
    BY <2>2, Zenon DEF TracedOk
  <2>4. NoDir \notin Saves
    BY RegistryAssumption, Zenon DEF Saves
  <2>5. c \notin layers \/ boot[c] = "skipped" \/ c \in lost
    BY <2>2, <2>3, <2>4, Zenon DEF LayerOk, Loaded
  <2>6. \A n \in Names \ loose : names[n] # c
    BY <2>2, Zenon DEF TracedOk
  <2> QED
    BY <2>3, <2>5, <2>6, Zenon
<1> QED
  BY <1>1, RegistryInvariant, PTL


=============================================================================
