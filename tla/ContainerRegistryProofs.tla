----------------------- MODULE ContainerRegistryProofs -----------------------
(***************************************************************************)
(* A container owns its name, for any containers, names and goroutines and *)
(* any number of errors and crashes.  One lemma per action.  Most actions  *)
(* leave names, locks and the list of containers alone (Steady); the       *)
(* others change them for one container (Elsewhere).                       *)
(***************************************************************************)
EXTENDS ContainerRegistry, TLAPS

\* The goroutine a, and no other, goes on.
Moved(a) == act' \in [Actors -> Acts] /\ \A b \in Actors \ {a} : act'[b] = act[b]

\* Idle is a state of a goroutine.
LEMMA IdleAct ==
    /\ Idle \in Acts /\ Idle.pc = "idle" /\ Idle.id = None /\ Idle.name = None
    /\ Idle.by = "rm" /\ Idle.rw = "no"
BY Zenon DEF Idle, Acts

\* A goroutine returns.
LEMMA ReturnMoves ==
    ASSUME TypeOK, NEW a \in Actors, act' = [act EXCEPT ![a] = Idle]
    PROVE  Moved(a) /\ act'[a].pc = "idle" /\ act'[a].id = None
BY IdleAct, Zenon DEF TypeOK, Moved

\* A goroutine goes on with its container.
LEMMA GotoMoves ==
    ASSUME TypeOK, NEW a \in Actors,
           NEW pc \in {"mkdir", "register", "sandbox", "cleanup", "dead", "layer", "root",
                       "forget", "names"},
           Goto(a, pc)
    PROVE  Moved(a) /\ act'[a].pc = pc /\ act'[a].id = act[a].id /\ act'[a].name = act[a].name
<1>1. act[a] \in Acts
  BY Zenon DEF TypeOK
<1> QED
  BY <1>1, Zenon DEF TypeOK, Goto, Moved, Acts

\* A removal returns.
LEMMA RmReturnMoves ==
    ASSUME TypeOK, NEW a \in Actors, NEW c \in Ids, RmReturn(a, c)
    PROVE  /\ Moved(a) /\ act'[a].pc = "idle" /\ act'[a].id = None
           /\ RemovalInProgress' \subseteq Ids
           /\ boot' \in [Ids -> {"none", "load", "sync", "restart", "starting", "remove",
                                 "removing", "done", "skipped"}]
           /\ \A d \in Ids : \/ boot'[d] = boot[d]
                             \/ boot[d] \notin {"none", "load"} /\ boot'[d] \notin {"none", "load"}
<1>1. Moved(a) /\ act'[a].pc = "idle" /\ act'[a].id = None
  BY ReturnMoves, Zenon DEF RmReturn
<1> QED
  BY <1>1, Zenon DEF RmReturn, TypeOK

\* config.v2.json is replaced in a directory that is there.
LEMMA WriteKeeps ==
    ASSUME TypeOK, NEW c \in Ids, NEW n \in Names, disk[c] # NoDir, WrittenAs(c, n)
    PROVE  /\ disk' \in [Ids -> Saves \cup {NoDir, EmptyDir}]
           /\ \A d \in Ids : /\ disk'[d] = NoDir <=> disk[d] = NoDir
                             /\ Loaded(d) => disk'[d] \in Saves
           /\ \A d \in Ids \ {c} : disk'[d] = disk[d]
<1> DEFINE r == [name |-> n, dead |-> YesNo(c \in dead'), running |-> YesNo(c \in running')]
<1>1. r \in Saves
  BY Zenon DEF Saves, YesNo
<1>2. NoDir \notin Saves
  BY RegistryAssumption, Zenon DEF Saves
<1>3. disk' = [disk EXCEPT ![c] = r]
  BY Zenon DEF WrittenAs
<1> HIDE DEF r
<1> QED
  BY <1>1, <1>2, <1>3, Zenon DEF TypeOK, Loaded

\* CheckpointTo keeps a directory or its absence.
LEMMA TrySaveKeeps ==
    ASSUME TypeOK, NEW c \in Ids, Name'[c] \in Names, TrySave(c)
    PROVE  /\ disk' \in [Ids -> Saves \cup {NoDir, EmptyDir}] /\ faults' \in 0 .. MaxFaults
           /\ \A d \in Ids : /\ disk'[d] = NoDir <=> disk[d] = NoDir
                             /\ Loaded(d) => disk'[d] \in Saves
<1>1. CASE Saved(c)
  <2>1. disk[c] # NoDir /\ WrittenAs(c, Name'[c]) /\ faults' = faults
    BY <1>1, Zenon DEF Saved, Written
  <2> QED
    BY <2>1, WriteKeeps, Zenon DEF TypeOK
<1>2. CASE NotSaved(c)
  <2>1. faults' \in 0 .. MaxFaults
    BY <1>2, RegistryAssumption DEF NotSaved, Fault, TypeOK
  <2> QED
    BY <1>2, <2>1, Zenon DEF NotSaved, TypeOK, Loaded
<1> QED
  BY <1>1, <1>2, Zenon DEF TrySave

\* CheckpointTo writes the file of one container, whatever it returns.
LEMMA SavesOne ==
    ASSUME TypeOK, NEW c \in Ids, Name'[c] \in Names, Name[c] \in Names,
           TrySave(c) \/ Unwritten(c) \/ HalfSaved(c, Name[c])
    PROVE  /\ disk' \in [Ids -> Saves \cup {NoDir, EmptyDir}] /\ faults' \in 0 .. MaxFaults
           /\ \A d \in Ids : /\ disk'[d] = NoDir <=> disk[d] = NoDir
                             /\ Loaded(d) => disk'[d] \in Saves
           /\ \A d \in Ids \ {c} : disk'[d] = disk[d]
<1>1. CASE TrySave(c)
  <2>1. \A d \in Ids \ {c} : disk'[d] = disk[d]
    BY <1>1, Zenon DEF TrySave, Saved, NotSaved, Written, WrittenAs, TypeOK
  <2> QED
    BY <1>1, <2>1, TrySaveKeeps, Zenon
<1>2. CASE Unwritten(c)
  <2>1. faults' \in 0 .. MaxFaults
    BY <1>2, RegistryAssumption DEF Unwritten, Fault, TypeOK
  <2> QED
    BY <1>2, <2>1, Zenon DEF Unwritten, TypeOK, Loaded
<1>3. CASE HalfSaved(c, Name[c])
  <2>1. faults' \in 0 .. MaxFaults
    BY <1>3, RegistryAssumption DEF HalfSaved, Fault, TypeOK
  <2> QED
    BY <1>3, <2>1, WriteKeeps, Zenon DEF HalfSaved
<1> QED
  BY <1>1, <1>2, <1>3, Zenon

-----------------------------------------------------------------------------
\* The names, the locks and the list of containers stay, and so do directories.
Steady ==
    /\ UNCHANGED <<containers, names, Name, lock, used>> /\ loose \subseteq loose'
    /\ \A d \in Ids : /\ disk'[d] = NoDir <=> disk[d] = NoDir
                      /\ Loaded(d) /\ boot[d] = "load" => disk'[d] \in Saves
                      /\ \/ boot'[d] = boot[d]
                         \/ boot[d] \notin {"none", "load"} /\ boot'[d] \notin {"none", "load"}

\* A goroutine that is new to a container is so by way of the list or of restore.
Known(b) ==
    \/ act'[b].id \in {None, act[b].id} \cup containers
    \/ act'[b].id \in Ids /\ boot[act'[b].id] \notin {"none", "load"}

\* A steady step keeps the invariant if its goroutine keeps what it rests on.
LEMMA SteadyKeeps ==
    ASSUME NamesInv, TypeOK', Steady,
           \A b \in Actors : act'[b] = act[b] \/ (Known(b) /\ ActOk(b)')
    PROVE  NamesInv'
<1>0. /\ TypeOK /\ \A b \in Actors : ActOk(b)
      /\ \A c \in Ids : IdOk(c)
  BY Zenon DEF NamesInv
<1>1. OwnsItsName' /\ \A c \in Ids, n \in Names : Reserved(n, c) => Reserved(n, c)'
  BY Zenon DEF NamesInv, OwnsItsName, Steady, Reserved
<1>2. ASSUME NEW c \in Ids
      PROVE  /\ (c \in containers \/ boot[c] \notin {"none", "load"}) =>
                   \A b \in Actors : ~(Creating(b) /\ act[b].id = c)
             /\ (\A b \in Actors : act[b].id # c) /\ c \notin containers /\ boot[c] = "load" =>
                   \A b \in Actors : act'[b].id # c
  <2>1. \A b \in Actors : Creating(b) => act[b].id \notin containers /\ boot[act[b].id] = "none"
    BY <1>0, Zenon DEF ActOk
  <2>2. c # None
    BY RegistryAssumption, Zenon
  <2> QED
    BY <2>1, <2>2, Zenon DEF Known
<1>3. ASSUME NEW c \in Ids
      PROVE  IdOk(c)'
  <2>1. IdOk(c)
    BY <1>0, Zenon
  <2> QED
    BY <1>2, <2>1, Zenon DEF IdOk, Steady, Loaded
<1>4. ASSUME NEW a \in Actors
      PROVE  ActOk(a)'
  <2>1. CASE act'[a] = act[a]
    <3>1. ActOk(a)
      BY <1>0, Zenon
    <3>2. Creating(a) => act[a].id \in Ids /\ act[a].id # None
      BY <3>1, RegistryAssumption, <1>0 DEF ActOk, Creating, TypeOK
    <3>3. Creating(a) => \A b \in Actors \ {a} : act'[b].id # act[a].id
      <4> SUFFICES ASSUME Creating(a), NEW b \in Actors \ {a}
                   PROVE  act'[b].id # act[a].id
        BY Zenon
      <4>1. /\ act[a].id \notin containers /\ boot[act[a].id] = "none"
            /\ act[b].id # act[a].id /\ act[a].id # None
        BY <3>1, <3>2, Zenon DEF ActOk
      <4> QED
        BY <4>1, Zenon DEF Known
    <3>4. act[a].pc # "idle" => act[a].id \in Ids
      BY <3>1, <1>0 DEF ActOk, TypeOK
    <3> QED
      BY <2>1, <3>1, <3>3, <3>4 DEF ActOk, Steady, Creating, Renaming, Reserved
  <2> QED
    BY <2>1, Zenon
<1> QED
  BY <1>1, <1>3, <1>4, Zenon DEF NamesInv

\* All but the container c are as they were.
Elsewhere(c) ==
    /\ used \subseteq used' /\ used' \subseteq used \cup {c}
    /\ \A d \in Ids \ {c} :
         /\ d \in containers' <=> d \in containers
         /\ boot'[d] = boot[d] /\ Name'[d] = Name[d] /\ lock'[d] = lock[d] /\ disk'[d] = disk[d]
         /\ \A n \in Names : Reserved(n, d) => Reserved(n, d)'

\* A step about one container keeps the invariant if it does for that container and
\* the goroutines at work on it.
LEMMA ElsewhereKeeps ==
    ASSUME NamesInv, TypeOK', NEW c \in Ids, Elsewhere(c), IdOk(c)',
           (c \in containers => Reserved(Name[c], c))',
           \A b \in Actors : \/ act'[b] = act[b] /\ act[b].id # c
                             \/ act'[b].id \in {None, c} /\ ActOk(b)'
    PROVE  NamesInv'
<1>0. /\ TypeOK /\ OwnsItsName /\ \A b \in Actors : ActOk(b)
      /\ \A d \in Ids : IdOk(d)
  BY Zenon DEF NamesInv
<1>1. ASSUME NEW d \in Ids \ {c}
      PROVE  IdOk(d)' /\ (d \in containers' => Reserved(Name[d], d)')
  <2>1. IdOk(d) /\ (d \in containers => Reserved(Name[d], d))
    BY <1>0, Zenon DEF OwnsItsName, Reserved
  <2>2. d # None
    BY RegistryAssumption, Zenon
  <2> QED
    BY <2>1, <2>2, Zenon DEF IdOk, Elsewhere, Loaded
<1>2. OwnsItsName'
  BY <1>1, Zenon DEF OwnsItsName, Reserved, TypeOK
<1>3. ASSUME NEW a \in Actors
      PROVE  ActOk(a)'
  <2>1. CASE act'[a] = act[a] /\ act[a].id # c
    <3>1. ActOk(a) /\ (act[a].pc # "idle" => act[a].id \in Ids \ {c} /\ act[a].id # None)
      BY <1>0, <2>1, RegistryAssumption DEF ActOk, TypeOK
    <3>2. Creating(a) => \A b \in Actors \ {a} : act'[b].id # act[a].id
      BY <2>1, <3>1 DEF ActOk, Creating
    <3>3. act[a].pc # "idle" => IdOk(act[a].id)
      BY <1>0, <3>1, Zenon
    <3> QED
      BY <2>1, <3>1, <3>2, <3>3 DEF ActOk, IdOk, Elsewhere, Creating, Renaming
  <2> QED
    BY <2>1, Zenon
<1> QED
  BY <1>0, <1>1, <1>2, <1>3, Zenon DEF NamesInv

\* What is known of a goroutine at work.
LEMMA AtWork ==
    ASSUME NamesInv, NEW a \in Actors, act[a].pc # "idle"
    PROVE  /\ TypeOK /\ ActOk(a) /\ IdOk(act[a].id) /\ act[a] \in Acts
           /\ act[a].id \in Ids /\ act[a].id \in used /\ Name[act[a].id] \in Names
<1>1. TypeOK /\ ActOk(a) /\ act[a].id \in used
  BY Zenon DEF NamesInv, ActOk
<1>2. act[a].id \in Ids
  BY <1>1, Zenon DEF TypeOK
<1>3. IdOk(act[a].id)
  BY <1>2, Zenon DEF NamesInv
<1> QED
  BY <1>1, <1>2, <1>3, Zenon DEF IdOk, TypeOK

-----------------------------------------------------------------------------
(* The steady steps *)

\* CreateLayer.
LEMMA CreateLayerKeeps ==
    ASSUME NamesInv, NEW a \in Actors, CreateLayer(a)
    PROVE  NamesInv'
<1> DEFINE c == act[a].id
<1>0. /\ TypeOK /\ ActOk(a) /\ IdOk(c) /\ act[a] \in Acts
      /\ c \in Ids /\ c \in used /\ Name[c] \in Names
  BY AtWork, Zenon DEF CreateLayer
<1>1. Moved(a) /\ act[a].pc = "create" /\ act'[a].pc \in {"mkdir", "cleanup"} /\ act'[a].id = c
  BY <1>0, GotoMoves, Zenon DEF CreateLayer
<1>2. Steady
  BY <1>0, <1>1, Zenon DEF CreateLayer, Steady, TypeOK, Loaded, memVars, diskVars, histVars
<1>3. TypeOK'
  BY <1>0, <1>1, RegistryAssumption
     DEF CreateLayer, TypeOK, Moved, memVars, diskVars, histVars, Fault
<1>4. Known(a) /\ ActOk(a)'
  BY <1>0, <1>1, <1>2, Zenon DEF Known, ActOk, IdOk, Steady, Creating, Renaming, Reserved, Moved
<1> QED
  BY <1>1, <1>2, <1>3, <1>4, SteadyKeeps, Zenon DEF Moved

\* GetContainer of rename.
LEMMA RenameGetKeeps ==
    ASSUME NamesInv, NEW a \in Actors, NEW c \in Ids, NEW n \in Names, RenameGet(a, c, n)
    PROVE  NamesInv'
<1> DEFINE r == [Idle EXCEPT !.pc = "rename", !.id = c, !.name = n]
<1>0. TypeOK /\ IdOk(c) /\ c \in containers
  BY Zenon DEF NamesInv, RenameGet
<1>a. r \in Acts /\ r.pc = "rename" /\ r.id = c /\ r.name = n
  BY Zenon DEF Idle, Acts
<1>b. act' = [act EXCEPT ![a] = r]
  BY Zenon DEF RenameGet
<1> HIDE DEF r
<1>1. /\ Moved(a) /\ act'[a].pc = "rename" /\ act'[a].id = c /\ act'[a].name = n
  BY <1>0, <1>a, <1>b, Zenon DEF Moved, TypeOK
<1>2. Steady
  BY <1>0, <1>1, Zenon DEF RenameGet, Steady, TypeOK, Loaded, memVars, diskVars, histVars
<1>3. TypeOK'
  BY <1>0, <1>1, RegistryAssumption, Zenon
     DEF RenameGet, TypeOK, Moved, memVars, diskVars, histVars
<1>4. Known(a) /\ ActOk(a)'
  BY <1>0, <1>1, <1>2, Zenon DEF Known, ActOk, IdOk, Steady, Creating, Renaming, Reserved, Moved
<1> QED
  BY <1>1, <1>2, <1>3, <1>4, SteadyKeeps, Zenon DEF Moved

\* GetContainer of containerRm.
LEMMA RmGetKeeps ==
    ASSUME NamesInv, NEW a \in Actors, NEW c \in Ids, RmGet(a, c)
    PROVE  NamesInv'
<1> DEFINE r == [Idle EXCEPT !.pc = "rm", !.id = c]
<1>0. TypeOK /\ IdOk(c) /\ c \in containers
  BY Zenon DEF NamesInv, RmGet
<1>a. r \in Acts /\ r.pc = "rm" /\ r.id = c
  BY Zenon DEF Idle, Acts
<1>b. act' = [act EXCEPT ![a] = r]
  BY Zenon DEF RmGet
<1> HIDE DEF r
<1>1. /\ Moved(a) /\ act'[a].pc = "rm" /\ act'[a].id = c
  BY <1>0, <1>a, <1>b, Zenon DEF Moved, TypeOK
<1>2. Steady
  BY <1>0, <1>1, Zenon DEF RmGet, Steady, TypeOK, Loaded, memVars, diskVars, histVars
<1>3. TypeOK'
  BY <1>0, <1>1, RegistryAssumption, Zenon DEF RmGet, TypeOK, Moved, memVars, diskVars, histVars
<1>4. Known(a) /\ ActOk(a)'
  BY <1>0, <1>1, <1>2, Zenon DEF Known, ActOk, IdOk, Steady, Creating, Renaming, Reserved, Moved
<1> QED
  BY <1>1, <1>2, <1>3, <1>4, SteadyKeeps, Zenon DEF Moved

\* autoRemove finds the container removed.
LEMMA ReapGoneKeeps ==
    ASSUME NamesInv, NEW c \in Ids, ReapGone(c)
    PROVE  NamesInv'
<1>0. TypeOK
  BY Zenon DEF NamesInv
<1>1. act' = act
  BY Zenon DEF ReapGone
<1>2. Steady
  BY <1>0, <1>1, Zenon DEF ReapGone, Steady, TypeOK, Loaded, memVars, diskVars, histVars
<1>3. TypeOK'
  BY <1>0, <1>1, RegistryAssumption, Zenon
     DEF ReapGone, TypeOK, Moved, memVars, diskVars, histVars
<1> QED
  BY <1>1, <1>2, <1>3, SteadyKeeps, Zenon

\* SetRemovalInProgress.
LEMMA RmClaimKeeps ==
    ASSUME NamesInv, NEW a \in Actors, RmClaim(a)
    PROVE  NamesInv'
<1> DEFINE c == act[a].id
<1>0. /\ TypeOK /\ ActOk(a) /\ IdOk(c) /\ act[a] \in Acts
      /\ c \in Ids /\ c \in used /\ Name[c] \in Names
  BY AtWork, Zenon DEF RmClaim
<1>a. ASSUME RmReturn(a, c)
      PROVE  /\ Moved(a) /\ RemovalInProgress' \subseteq Ids
             /\ boot' \in [Ids -> {"none", "load", "sync", "restart", "starting", "remove",
                                   "removing", "done", "skipped"}]
             /\ \A d \in Ids : \/ boot'[d] = boot[d]
                               \/ boot[d] \notin {"none", "load"} /\ boot'[d] \notin {"none", "load"}
             /\ \/ act'[a].pc = "idle" /\ act'[a].id = None
  BY <1>0, <1>a, RmReturnMoves, Zenon
<1>b. ASSUME act' = [act EXCEPT ![a].pc = "cleanup", ![a].by = "claim"]
      PROVE  Moved(a) /\ act'[a].pc = "cleanup" /\ act'[a].id = c
  BY <1>0, <1>b, Zenon DEF TypeOK, Moved, Acts
<1>1. /\ Moved(a) /\ RemovalInProgress' \subseteq Ids
      /\ boot' \in [Ids -> {"none", "load", "sync", "restart", "starting", "remove",
                            "removing", "done", "skipped"}]
      /\ \A d \in Ids : \/ boot'[d] = boot[d]
                        \/ boot[d] \notin {"none", "load"} /\ boot'[d] \notin {"none", "load"}
      /\ \/ act'[a].pc = "idle" /\ act'[a].id = None
         \/ act'[a].pc = "cleanup" /\ act'[a].id = c
  BY <1>0, <1>a, <1>b, Zenon DEF TypeOK, Moved, RmClaim
<1>2. Steady
  BY <1>0, <1>1, Zenon DEF RmClaim, Steady, TypeOK, Loaded, memVars, diskVars, histVars
<1>3. TypeOK'
  BY <1>0, <1>1, RegistryAssumption, Zenon DEF RmClaim, TypeOK, Moved, memVars, diskVars, histVars
<1>4. Known(a) /\ ActOk(a)'
  BY <1>0, <1>1, <1>2, Zenon DEF Known, ActOk, IdOk, Steady, Creating, Renaming, Reserved, Moved
<1> QED
  BY <1>1, <1>2, <1>3, <1>4, SteadyKeeps, Zenon DEF Moved

\* A running container is refused or killed.
LEMMA RmStopKeeps ==
    ASSUME NamesInv, NEW a \in Actors, RmStop(a)
    PROVE  NamesInv'
<1> DEFINE c == act[a].id
<1>0. /\ TypeOK /\ ActOk(a) /\ IdOk(c) /\ act[a] \in Acts
      /\ c \in Ids /\ c \in used /\ Name[c] \in Names
  BY AtWork, Zenon DEF RmStop
<1>a. RmReturn(a, c) \/ (act' = act /\ act[a].pc = "cleanup") \/ Goto(a, "dead")
  BY Zenon DEF RmStop
<1>1. /\ Moved(a) /\ RemovalInProgress' \subseteq Ids
      /\ boot' \in [Ids -> {"none", "load", "sync", "restart", "starting", "remove",
                            "removing", "done", "skipped"}]
      /\ \A d \in Ids : \/ boot'[d] = boot[d]
                        \/ boot[d] \notin {"none", "load"} /\ boot'[d] \notin {"none", "load"}
      /\ \/ act'[a].pc = "idle" /\ act'[a].id = None
         \/ act'[a].pc \in {"cleanup", "dead"} /\ act'[a].id = c
  BY <1>0, <1>a, RmReturnMoves, GotoMoves, Zenon DEF RmStop, TypeOK, Moved
<1>2. Steady
  BY <1>0, <1>1, Zenon DEF RmStop, Steady, TypeOK, Loaded, memVars, diskVars, histVars
<1>3. TypeOK'
  BY <1>0, <1>1, RegistryAssumption, Zenon DEF RmStop, TypeOK, Moved, memVars, diskVars, histVars
<1>4. Known(a) /\ ActOk(a)'
  BY <1>0, <1>1, <1>2, Zenon DEF Known, ActOk, IdOk, Steady, Creating, Renaming, Reserved, Moved
<1> QED
  BY <1>1, <1>2, <1>3, <1>4, SteadyKeeps, Zenon DEF Moved

\* The container is marked dead.
LEMMA RmDeadKeeps ==
    ASSUME NamesInv, NEW a \in Actors, RmDead(a)
    PROVE  NamesInv'
<1> DEFINE c == act[a].id
<1>0. /\ TypeOK /\ ActOk(a) /\ IdOk(c) /\ act[a] \in Acts
      /\ c \in Ids /\ c \in used /\ Name[c] \in Names
  BY AtWork, Zenon DEF RmDead
<1>a. act' = [act EXCEPT ![a].pc = "layer", ![a].rw = YesNo(c \in RWLayer)]
  BY Zenon DEF RmDead
<1>b. YesNo(c \in RWLayer) \in {"yes", "no"}
  BY Zenon DEF YesNo
<1>1. Moved(a) /\ act'[a].pc = "layer" /\ act'[a].id = c
  BY <1>0, <1>a, <1>b, Zenon DEF TypeOK, Moved, Acts
<1>2. /\ disk' \in [Ids -> Saves \cup {NoDir, EmptyDir}] /\ faults' \in 0 .. MaxFaults
      /\ \A d \in Ids : /\ disk'[d] = NoDir <=> disk[d] = NoDir
                        /\ Loaded(d) => disk'[d] \in Saves
  BY <1>0, TrySaveKeeps, Zenon DEF RmDead
<1>3. Steady
  BY <1>0, <1>1, <1>2, Zenon DEF RmDead, Steady, TypeOK, Loaded, memVars, diskVars, histVars
<1>4. TypeOK'
  BY <1>0, <1>1, <1>2, RegistryAssumption, Zenon
     DEF RmDead, TypeOK, Moved, memVars, diskVars, histVars
<1>5. Known(a) /\ ActOk(a)'
  BY <1>0, <1>1, <1>2, <1>3, Zenon
     DEF Known, ActOk, IdOk, Steady, Creating, Renaming, Reserved, Moved
<1> QED
  BY <1>1, <1>3, <1>4, <1>5, SteadyKeeps, Zenon DEF Moved

\* ReleaseLayer.
LEMMA RmLayerKeeps ==
    ASSUME NamesInv, NEW a \in Actors, RmLayer(a)
    PROVE  NamesInv'
<1> DEFINE c == act[a].id
<1>0. /\ TypeOK /\ ActOk(a) /\ IdOk(c) /\ act[a] \in Acts
      /\ c \in Ids /\ c \in used /\ Name[c] \in Names
  BY AtWork, Zenon DEF RmLayer
<1>a. RmReturn(a, c) \/ Goto(a, "root")
  BY Zenon DEF RmLayer, RmFails
<1>1. /\ Moved(a) /\ RemovalInProgress' \subseteq Ids
      /\ boot' \in [Ids -> {"none", "load", "sync", "restart", "starting", "remove",
                            "removing", "done", "skipped"}]
      /\ \A d \in Ids : \/ boot'[d] = boot[d]
                        \/ boot[d] \notin {"none", "load"} /\ boot'[d] \notin {"none", "load"}
      /\ \/ act'[a].pc = "idle" /\ act'[a].id = None
         \/ act'[a].pc = "root" /\ act'[a].id = c
  BY <1>0, <1>a, RmReturnMoves, GotoMoves, Zenon DEF RmLayer, RmFails, TypeOK, Moved
<1>2. Steady
  BY <1>0, <1>1, Zenon DEF RmLayer, Steady, TypeOK, Loaded
<1>3. TypeOK'
  <2>1. faults' \in 0 .. MaxFaults
    BY <1>0, RegistryAssumption DEF RmLayer, RmFails, Fault, TypeOK
  <2>2. orphans' \subseteq Ids /\ layers' \subseteq Ids /\ RWLayer' \subseteq Ids
    BY <1>0, Zenon DEF RmLayer, RmFails, TypeOK
  <2> QED
    BY <1>0, <1>1, <2>1, <2>2, Zenon DEF RmLayer, TypeOK, Moved
<1>4. Known(a) /\ ActOk(a)'
  BY <1>0, <1>1, <1>2, Zenon DEF Known, ActOk, IdOk, Steady, Creating, Renaming, Reserved, Moved
<1> QED
  BY <1>1, <1>2, <1>3, <1>4, SteadyKeeps, Zenon DEF Moved

\* A process ends.
LEMMA TaskExitKeeps ==
    ASSUME NamesInv, NEW c \in Ids, TaskExit(c)
    PROVE  NamesInv'
<1>0. TypeOK
  BY Zenon DEF NamesInv
<1>1. act' = act
  BY Zenon DEF TaskExit
<1>2. Steady
  BY <1>0, <1>1, Zenon DEF TaskExit, Steady, TypeOK, Loaded, memVars, diskVars, histVars
<1>3. TypeOK'
  BY <1>0, <1>1, RegistryAssumption, Zenon
     DEF TaskExit, TypeOK, Moved, memVars, diskVars, histVars
<1> QED
  BY <1>1, <1>2, <1>3, SteadyKeeps, Zenon

\* handleContainerExit.
LEMMA HandleExitKeeps ==
    ASSUME NamesInv, NEW c \in Ids, HandleExit(c)
    PROVE  NamesInv'
<1>0. TypeOK /\ (c \in containers => Name[c] \in Names)
  BY Zenon DEF NamesInv, IdOk
<1>1. act' = act /\ Name' = Name
  BY Zenon DEF HandleExit
<1>2. /\ disk' \in [Ids -> Saves \cup {NoDir, EmptyDir}] /\ faults' \in 0 .. MaxFaults
      /\ \A d \in Ids : /\ disk'[d] = NoDir <=> disk[d] = NoDir
                        /\ Loaded(d) => disk'[d] \in Saves
  BY <1>0, <1>1, TrySaveKeeps, Zenon DEF HandleExit, TypeOK, Loaded
<1>3. Steady
  BY <1>0, <1>1, <1>2, Zenon DEF HandleExit, Steady, TypeOK, Loaded, memVars, diskVars, histVars
<1>4. TypeOK'
  BY <1>0, <1>1, <1>2, RegistryAssumption, Zenon
     DEF HandleExit, TypeOK, Moved, memVars, diskVars, histVars
<1> QED
  BY <1>1, <1>3, <1>4, SteadyKeeps, Zenon

\* restore asks containerd for the task.
LEMMA BootSyncKeeps ==
    ASSUME NamesInv, NEW c \in Ids, BootSync(c)
    PROVE  NamesInv'
<1>0. TypeOK /\ IdOk(c) /\ boot[c] \notin {"none", "load"} /\ c \in used /\ Name[c] \in Names
  BY Zenon DEF NamesInv, IdOk, BootSync
<1>1. /\ act' = act /\ boot' \in [Ids -> {"none", "load", "sync", "restart", "starting", "remove",
                                       "removing", "done", "skipped"}]
      /\ \A d \in Ids : boot'[d] = boot[d] \/ (d = c /\ boot'[d] \notin {"none", "load"})
  BY <1>0, Zenon DEF BootSync, Listed, TypeOK
<1>2. /\ disk' \in [Ids -> Saves \cup {NoDir, EmptyDir}] /\ faults' \in 0 .. MaxFaults
      /\ \A d \in Ids : /\ disk'[d] = NoDir <=> disk[d] = NoDir
                        /\ Loaded(d) => disk'[d] \in Saves
  BY <1>0, TrySaveKeeps, Zenon DEF BootSync
<1>3. Steady
  BY <1>0, <1>1, <1>2, Zenon DEF BootSync, Steady, TypeOK, Loaded, memVars, diskVars, histVars
<1>4. TypeOK'
  BY <1>0, <1>1, <1>2, RegistryAssumption, Zenon
     DEF BootSync, TypeOK, Moved, memVars, diskVars, histVars
<1> QED
  BY <1>1, <1>3, <1>4, SteadyKeeps, Zenon

\* restore gives up on a container.
LEMMA BootSyncErrorKeeps ==
    ASSUME NamesInv, NEW c \in Ids, BootSyncError(c)
    PROVE  NamesInv'
<1>0. TypeOK /\ IdOk(c) /\ boot[c] \notin {"none", "load"} /\ c \in used /\ Name[c] \in Names
  BY Zenon DEF NamesInv, IdOk, BootSyncError
<1>1. act' = act /\ boot' = [boot EXCEPT ![c] = "skipped"]
  BY Zenon DEF BootSyncError
<1>2. Steady
  BY <1>0, <1>1, Zenon DEF BootSyncError, Steady, TypeOK, Loaded, memVars, diskVars, histVars
<1>3. TypeOK'
  BY <1>0, <1>1, RegistryAssumption
     DEF BootSyncError, TypeOK, Moved, memVars, diskVars, histVars, Fault
<1> QED
  BY <1>1, <1>2, <1>3, SteadyKeeps, Zenon

\* An error of Status is only logged.
LEMMA BootStatusErrorKeeps ==
    ASSUME NamesInv, NEW c \in Ids, BootStatusError(c)
    PROVE  NamesInv'
<1>0. TypeOK /\ IdOk(c) /\ boot[c] \notin {"none", "load"} /\ c \in used /\ Name[c] \in Names
  BY Zenon DEF NamesInv, IdOk, BootStatusError
<1>1. /\ act' = act /\ boot' \in [Ids -> {"none", "load", "sync", "restart", "starting", "remove",
                                       "removing", "done", "skipped"}]
      /\ \A d \in Ids : boot'[d] = boot[d] \/ (d = c /\ boot'[d] \notin {"none", "load"})
  BY <1>0, Zenon DEF BootStatusError, Listed, TypeOK
<1>2. /\ disk' \in [Ids -> Saves \cup {NoDir, EmptyDir}] /\ faults' \in 0 .. MaxFaults
      /\ \A d \in Ids : /\ disk'[d] = NoDir <=> disk[d] = NoDir
                        /\ Loaded(d) => disk'[d] \in Saves
  <2>1. disk' = disk \/ (disk[c] # NoDir /\ WrittenAs(c, Name[c]))
    BY Zenon DEF BootStatusError, Written
  <2>2. faults' \in 0 .. MaxFaults
    BY <1>0, RegistryAssumption DEF BootStatusError, Fault, TypeOK
  <2> QED
    BY <1>0, <2>1, <2>2, WriteKeeps, Zenon DEF TypeOK, Loaded
<1>3. Steady
  BY <1>0, <1>1, <1>2, Zenon
     DEF BootStatusError, Steady, TypeOK, Loaded, memVars, diskVars, histVars
<1>4. TypeOK'
  BY <1>0, <1>1, <1>2, RegistryAssumption, Zenon
     DEF BootStatusError, TypeOK, Moved, memVars, diskVars, histVars
<1> QED
  BY <1>1, <1>3, <1>4, SteadyKeeps, Zenon

\* A container that is not to be started.
LEMMA BootNoStartKeeps ==
    ASSUME NamesInv, NEW c \in Ids, BootNoStart(c)
    PROVE  NamesInv'
<1>0. TypeOK /\ IdOk(c) /\ boot[c] \notin {"none", "load"} /\ c \in used /\ Name[c] \in Names
  BY Zenon DEF NamesInv, IdOk, BootNoStart
<1>1. act' = act /\ boot' = [boot EXCEPT ![c] = "done"]
  BY Zenon DEF BootNoStart
<1>2. Steady
  BY <1>0, <1>1, Zenon DEF BootNoStart, Steady, TypeOK, Loaded, memVars, diskVars, histVars
<1>3. TypeOK'
  BY <1>0, <1>1, RegistryAssumption, Zenon
     DEF BootNoStart, TypeOK, Moved, memVars, diskVars, histVars
<1> QED
  BY <1>1, <1>2, <1>3, SteadyKeeps, Zenon

\* GetLayerByID fails.
LEMMA BootNoLayerKeeps ==
    ASSUME NamesInv, NEW c \in Ids, BootNoLayer(c)
    PROVE  NamesInv'
<1>0. TypeOK
  BY Zenon DEF NamesInv
<1>1. act' = act /\ boot' = boot /\ lost' \subseteq Ids
  BY <1>0, Zenon DEF BootNoLayer, TypeOK
<1>2. Steady
  BY <1>0, <1>1, Zenon DEF BootNoLayer, Steady, TypeOK, Loaded, memVars, diskVars
<1>3. TypeOK'
  <2>1. faults' \in 0 .. MaxFaults
    BY <1>0, RegistryAssumption DEF BootNoLayer, Fault, TypeOK
  <2> QED
    BY <1>0, <1>1, <2>1, Zenon DEF BootNoLayer, TypeOK, memVars, diskVars
<1> QED
  BY <1>1, <1>2, <1>3, SteadyKeeps, Zenon

\* removeContainers.
LEMMA BootRemoveKeeps ==
    ASSUME NamesInv, NEW a \in Actors, NEW c \in Ids, BootRemove(a, c)
    PROVE  NamesInv'
<1>0. TypeOK /\ IdOk(c) /\ boot[c] \notin {"none", "load"} /\ c \in used /\ Name[c] \in Names
  BY Zenon DEF NamesInv, IdOk, BootRemove
<1>a. ASSUME NEW pc \in {"cleanup", "rm"},
             act' = [act EXCEPT ![a] = [Idle EXCEPT !.id = c, !.pc = pc]]
      PROVE  Moved(a) /\ act'[a].pc = pc /\ act'[a].id = c
  BY <1>0, <1>a, Zenon DEF Idle, Acts, Moved, TypeOK
<1>b. \/ act' = act
      \/ act' = [act EXCEPT ![a] = [Idle EXCEPT !.id = c, !.pc = "cleanup"]]
      \/ act' = [act EXCEPT ![a] = [Idle EXCEPT !.id = c, !.pc = "rm"]]
  BY Zenon DEF BootRemove
<1>1. /\ Moved(a) /\ ActOk(a)
      /\ act' = act \/ (act'[a].pc \in {"cleanup", "rm"} /\ act'[a].id = c)
  BY <1>0, <1>a, <1>b, Zenon DEF TypeOK, Moved, NamesInv
<1>2. Steady
  BY <1>0, <1>1, Zenon DEF BootRemove, Steady, TypeOK, Loaded, memVars, diskVars, histVars
<1>3. TypeOK'
  BY <1>0, <1>1, RegistryAssumption, Zenon
     DEF BootRemove, TypeOK, Moved, memVars, diskVars, histVars
<1>4. act'[a] = act[a] \/ (Known(a) /\ ActOk(a)')
  BY <1>0, <1>1, <1>2, Zenon DEF Known, ActOk, IdOk, Steady, Creating, Renaming, Reserved, Moved
<1> QED
  BY <1>1, <1>2, <1>3, <1>4, SteadyKeeps, Zenon DEF Moved

-----------------------------------------------------------------------------
(* Steps about one container *)

\* Create reserves a free name for a new container.
LEMMA CreateKeeps ==
    ASSUME NamesInv, NEW a \in Actors, NEW c \in Ids, NEW n \in Names, Create(a, c, n)
    PROVE  NamesInv'
<1> DEFINE r == [Idle EXCEPT !.pc = "create", !.id = c, !.by = "create"]
<1>0. /\ TypeOK /\ IdOk(c) /\ c \notin used /\ names[n] = None /\ c # None
      /\ \A b \in Actors : ActOk(b) /\ act[b].id # c
  BY RegistryAssumption DEF NamesInv, Create, ActOk
<1>a. r \in Acts /\ r.pc = "create" /\ r.id = c
  BY Zenon DEF Idle, Acts
<1>b. act' = [act EXCEPT ![a] = r]
  BY Zenon DEF Create
<1> HIDE DEF r
<1>1. Moved(a) /\ act'[a].pc = "create" /\ act'[a].id = c
  BY <1>0, <1>a, <1>b, Zenon DEF Moved, TypeOK
<1>2. /\ names' = [names EXCEPT ![n] = c] /\ Name' = [Name EXCEPT ![c] = n]
      /\ used' = used \cup {c} /\ UNCHANGED <<containers, loose, lock, boot, disk>>
  BY <1>0, Zenon DEF Create, ReserveName, diskVars
<1>3. TypeOK'
  BY <1>0, <1>1, <1>2 DEF Create, TypeOK, Moved, diskVars
<1>4. Elsewhere(c)
  BY <1>0, <1>2, RegistryAssumption DEF Elsewhere, Reserved, TypeOK
<1>5. IdOk(c)' /\ c \notin containers' /\ Reserved(Name[c], c)'
  BY <1>0, <1>2, Zenon DEF IdOk, Loaded, Reserved, TypeOK
<1>6. ActOk(a)'
  BY <1>0, <1>1, <1>2, <1>5 DEF ActOk, IdOk, Creating, Renaming, Moved
<1> QED
  BY <1>0, <1>1, <1>3, <1>4, <1>5, <1>6, ElsewhereKeeps, Zenon DEF Moved

\* newContainer fails with the name reserved.
LEMMA CreateFailsKeeps ==
    ASSUME NamesInv, NEW c \in Ids, NEW n \in Names, CreateFails(c, n)
    PROVE  NamesInv'
<1>0. /\ TypeOK /\ IdOk(c) /\ c \notin used /\ names[n] = None /\ c # None
      /\ \A b \in Actors : ActOk(b) /\ act[b].id # c
  BY RegistryAssumption DEF NamesInv, CreateFails, ActOk
<1>1. /\ names' = [names EXCEPT ![n] = c] /\ Name' = [Name EXCEPT ![c] = n]
      /\ used' = used \cup {c} /\ orphans' = orphans \cup {c}
      /\ UNCHANGED <<containers, loose, lock, boot, act, disk>>
  BY <1>0, Zenon DEF CreateFails, ReserveName, diskVars
<1>2. TypeOK'
  <2>1. faults' \in 0 .. MaxFaults
    BY <1>0, RegistryAssumption DEF CreateFails, Fault, TypeOK
  <2> QED
    BY <1>0, <1>1, <2>1 DEF CreateFails, TypeOK, diskVars
<1>3. Elsewhere(c)
  BY <1>0, <1>1, RegistryAssumption DEF Elsewhere, Reserved, TypeOK
<1>4. IdOk(c)' /\ c \notin containers'
  BY <1>0, <1>1, Zenon DEF IdOk, Loaded, TypeOK
<1> QED
  BY <1>0, <1>1, <1>2, <1>3, <1>4, ElsewhereKeeps, Zenon

\* The directory of a new container.
LEMMA CreateRootKeeps ==
    ASSUME NamesInv, NEW a \in Actors, CreateRoot(a)
    PROVE  NamesInv'
<1>c. PICK c \in Ids : c = act[a].id
  BY AtWork, Zenon DEF CreateRoot
<1>0. /\ TypeOK /\ ActOk(a) /\ IdOk(c) /\ c \in Ids /\ c \in used /\ Creating(a)
      /\ act[a].pc = "mkdir"
  BY <1>c, AtWork, Zenon DEF CreateRoot, Creating
<1>1. Moved(a) /\ act'[a].pc \in {"register", "cleanup"} /\ act'[a].id = c
  BY <1>c, <1>0, GotoMoves, Zenon DEF CreateRoot
<1>2. /\ disk' \in {disk, [disk EXCEPT ![c] = EmptyDir]} /\ faults' \in 0 .. MaxFaults
      /\ UNCHANGED <<containers, names, Name, loose, lock, boot, used>>
  BY <1>c, <1>0, RegistryAssumption DEF CreateRoot, Fault, TypeOK, memVars, histVars
<1>3. TypeOK'
  BY <1>c, <1>0, <1>1, <1>2, Zenon DEF CreateRoot, TypeOK, Moved, memVars, histVars
<1>4. Elsewhere(c)
  BY <1>c, <1>0, <1>2, Zenon DEF Elsewhere, Reserved, TypeOK
<1>5. c \notin containers /\ boot[c] = "none" /\ \A b \in Actors \ {a} : act[b].id # c
  BY <1>c, <1>0, Zenon DEF ActOk
<1>6. IdOk(c)' /\ c \notin containers'
  BY <1>c, <1>0, <1>2, <1>5, Zenon DEF IdOk
<1>7. ActOk(a)'
  BY <1>c, <1>0, <1>1, <1>2, <1>5, Zenon DEF ActOk, Creating, Renaming, Reserved, Moved
<1> QED
  BY <1>c, <1>0, <1>1, <1>3, <1>4, <1>5, <1>6, <1>7, ElsewhereKeeps, Zenon DEF Moved

\* register: the container is in the list, and keeps the name its create reserved.
LEMMA RegisterKeeps ==
    ASSUME NamesInv, NEW a \in Actors, Register(a)
    PROVE  NamesInv'
<1>c. PICK c \in Ids : c = act[a].id
  BY AtWork, Zenon DEF Register
<1>0. /\ TypeOK /\ ActOk(a) /\ IdOk(c) /\ c \in Ids /\ c \in used /\ Name[c] \in Names
      /\ Creating(a)
  BY <1>c, AtWork, Zenon DEF Register, Creating
<1>1. /\ Moved(a)
      /\ \/ act'[a].pc = "idle" /\ act'[a].id = None
         \/ act'[a].pc = "cleanup" /\ act'[a].id = c
  BY <1>c, <1>0, GotoMoves, ReturnMoves, Zenon DEF Register
<1>2. /\ disk' \in [Ids -> Saves \cup {NoDir, EmptyDir}] /\ faults' \in 0 .. MaxFaults
      /\ \A d \in Ids : disk'[d] = NoDir <=> disk[d] = NoDir
      /\ \A d \in Ids \ {c} : disk'[d] = disk[d]
  <2>1. Name'[c] \in Names /\ (TrySave(c) \/ Unwritten(c) \/ HalfSaved(c, Name[c]))
    BY <1>c, <1>0, Zenon DEF Register, TrySave
  <2> QED
    BY <1>0, <2>1, SavesOne, Zenon
<1>3. /\ containers' = containers \cup {c}
      /\ UNCHANGED <<names, Name, loose, lock, boot, used>>
  BY <1>c, Zenon DEF Register
<1>4. TypeOK'
  BY <1>c, <1>0, <1>1, <1>2, <1>3, Zenon DEF Register, TypeOK, Moved
<1>5. Elsewhere(c)
  BY <1>c, <1>0, <1>2, <1>3, Zenon DEF Elsewhere, Reserved, TypeOK
<1>6. /\ boot[c] = "none" /\ Reserved(Name[c], c)
      /\ \A b \in Actors \ {a} : act[b].id # c
  BY <1>c, <1>0, Zenon DEF ActOk
<1>7. IdOk(c)' /\ Reserved(Name[c], c)'
  BY <1>c, <1>0, <1>3, <1>6, Zenon DEF IdOk, Reserved
<1>8. ActOk(a)'
  BY <1>c, <1>0, <1>1, <1>3, Zenon DEF ActOk, Creating, Renaming
<1> QED
  BY <1>c, <1>0, <1>1, <1>4, <1>5, <1>6, <1>7, <1>8, ElsewhereKeeps, Zenon DEF Moved

\* A rename takes the lock and the new name.
LEMMA RenameReserveKeeps ==
    ASSUME NamesInv, NEW a \in Actors, RenameReserve(a)
    PROVE  NamesInv'
<1>c. PICK c \in Ids, n \in Names : c = act[a].id /\ n = act[a].name
  BY AtWork, Zenon DEF RenameReserve, ActOk
<1>0. /\ TypeOK /\ OwnsItsName /\ ActOk(a) /\ IdOk(c) /\ act[a] \in Acts
      /\ c \in Ids /\ c \in used /\ Name[c] \in Names
      /\ act[a].pc = "rename" /\ lock[c] = None
      /\ disk[c] # NoDir => c \in containers
  BY <1>c, AtWork, Zenon DEF RenameReserve, NamesInv, ActOk
<1>1. CASE Name[c] = n \/ ~Free(n, c)
  <2>1. Moved(a) /\ act'[a].pc = "idle" /\ act'[a].id = None
    BY <1>c, <1>0, <1>1, ReturnMoves, Zenon DEF RenameReserve
  <2>2. Steady
    BY <1>c, <1>0, <1>1, Zenon DEF RenameReserve, Steady, TypeOK, Loaded, diskVars, histVars
  <2>3. TypeOK'
    BY <1>c, <1>0, <1>1, <2>1, Zenon DEF RenameReserve, TypeOK, Moved, diskVars, histVars
  <2>4. Known(a) /\ ActOk(a)'
    BY <2>1, Zenon DEF Known, ActOk, Creating, Renaming
  <2> QED
    BY <2>1, <2>2, <2>3, <2>4, SteadyKeeps, Zenon DEF Moved
<1>2. CASE ~(Name[c] = n \/ ~Free(n, c))
  <2>1. /\ names' = [names EXCEPT ![n] = c] /\ names[n] \in {None, c} /\ Name[c] # n
        /\ Name' = [Name EXCEPT ![c] = n] /\ lock' = [lock EXCEPT ![c] = a]
        /\ act' = [act EXCEPT ![a].pc = "save", ![a].name = Name[c]]
        /\ UNCHANGED <<containers, loose, used, boot, disk>>
    BY <1>c, <1>0, <1>2 DEF RenameReserve, Free, ReserveName, TypeOK, diskVars, histVars
  <2>2. /\ Moved(a) /\ act'[a].pc = "save" /\ act'[a].id = c /\ act'[a].name = Name[c]
    BY <1>c, <1>0, <2>1 DEF Moved, TypeOK, Acts
  <2>3. TypeOK'
    BY <1>c, <1>0, <2>1, <2>2, Zenon DEF RenameReserve, TypeOK, Moved, diskVars, histVars
  <2>4. Elsewhere(c)
    BY <1>c, <1>0, <2>1, RegistryAssumption DEF Elsewhere, Reserved, TypeOK
  <2>5. IdOk(c)' /\ Reserved(Name[c], c)'
    <3>1. \A b \in Actors : act'[b].id = act[b].id
      BY <1>c, <2>2, Zenon DEF Moved
    <3> QED
      BY <1>c, <1>0, <2>1, <3>1, Zenon DEF IdOk, Loaded, Reserved, TypeOK
  <2>6. ActOk(a)'
    <3>1. c \in containers => Name[c] \in loose' \/ names'[Name[c]] = c
      BY <1>c, <1>0, <2>1, Zenon DEF OwnsItsName, Reserved, TypeOK
    <3> QED
      BY <1>c, <1>0, <2>1, <2>2, <3>1 DEF ActOk, Creating, Renaming, TypeOK, Reserved
  <2>7. ASSUME NEW b \in Actors \ {a}, act[b].id = c
        PROVE  ActOk(b)'
    <3>1. ActOk(b) /\ b # None /\ act'[b] = act[b]
      BY <2>2, RegistryAssumption, Zenon DEF NamesInv, Moved
    <3>2. ~Creating(b) /\ ~Renaming(b) /\ act[b].pc # "started"
      BY <1>c, <1>0, <2>7, <3>1, Zenon DEF ActOk
    <3> QED
      BY <2>1, <2>7, <3>1, <3>2 DEF ActOk, Creating, Renaming
  <2> QED
    BY <1>c, <1>0, <2>2, <2>3, <2>4, <2>5, <2>6, <2>7, ElsewhereKeeps, Zenon DEF Moved
<1> QED
  BY <1>1, <1>2, Zenon

\* What is known of a rename that has its container's lock.
LEMMA InRename ==
    ASSUME NamesInv, NEW a \in Actors, Renaming(a)
    PROVE  LET c == act[a].id IN
           /\ TypeOK /\ IdOk(c) /\ c \in Ids /\ c \in used /\ c # None
           /\ Name[c] \in Names /\ act[a].name \in Names /\ act[a].name # Name[c]
           /\ disk[c] # NoDir => c \in containers
           /\ c \in containers => Reserved(act[a].name, c) /\ Reserved(Name[c], c)
           /\ act[a].pc = "sandbox" => disk[c] # NoDir
           /\ boot[c] # "load"
           /\ \A b \in Actors \ {a} : act[b].id = c =>
                 ActOk(b) /\ ~Creating(b) /\ ~Renaming(b) /\ act[b].pc # "started"
<1>c. PICK c \in Ids : c = act[a].id
  BY AtWork, Zenon DEF Renaming
<1>1. /\ TypeOK /\ OwnsItsName /\ ActOk(a) /\ IdOk(c) /\ c \in used /\ Name[c] \in Names
      /\ c # None
  BY <1>c, AtWork, RegistryAssumption, Zenon DEF Renaming, NamesInv
<1>2. /\ act[a].name \in Names /\ act[a].name # Name[c] /\ lock[c] = a
      /\ disk[c] # NoDir => c \in containers
      /\ c \in containers => Reserved(act[a].name, c) /\ Reserved(Name[c], c)
      /\ act[a].pc = "sandbox" => disk[c] # NoDir
      /\ boot[c] # "load"
  BY <1>c, <1>1, Zenon DEF ActOk, IdOk, OwnsItsName, Reserved
<1>3. ASSUME NEW b \in Actors \ {a}, act[b].id = c
      PROVE  ActOk(b) /\ ~Creating(b) /\ ~Renaming(b) /\ act[b].pc # "started"
  <2>1. ActOk(b)
    BY Zenon DEF NamesInv
  <2> QED
    BY <1>c, <1>2, <1>3, <2>1, Zenon DEF ActOk
<1> QED
  BY <1>c, <1>1, <1>2, <1>3, Zenon

\* A rename that gives up the lock and keeps the name the container has reserved
\* keeps the invariant.
LEMMA UnlockKeeps ==
    ASSUME NamesInv, TypeOK', NEW a \in Actors, Renaming(a), NEW c \in Ids, c = act[a].id,
           Elsewhere(c), act' = [act EXCEPT ![a] = Idle],
           UNCHANGED <<containers, boot, used>>, Name'[c] \in Names,
           disk'[c] = NoDir <=> disk[c] = NoDir,
           (c \in containers => Reserved(Name[c], c))'
    PROVE  NamesInv'
<1>1. Moved(a) /\ act'[a].pc = "idle" /\ act'[a].id = None
  BY ReturnMoves, Zenon DEF NamesInv
<1>2. IdOk(c)'
  BY InRename, Zenon DEF IdOk
<1>3. ActOk(a)'
  BY <1>1, Zenon DEF ActOk, Creating, Renaming
<1>4. ASSUME NEW b \in Actors \ {a}, act[b].id = c
      PROVE  ActOk(b)'
  <2>1. ActOk(b) /\ ~Creating(b) /\ ~Renaming(b) /\ act[b].pc # "started" /\ act'[b] = act[b]
    BY <1>1, <1>4, InRename, Zenon DEF Moved
  <2> QED
    BY <1>4, <2>1, SMTT(40) DEF ActOk, Creating, Renaming
<1> QED
  BY <1>1, <1>2, <1>3, <1>4, ElsewhereKeeps, Zenon DEF Moved

\* A rename that succeeds releases the old name; the container is known.
LEMMA RenameDoneKeeps ==
    ASSUME NamesInv, TypeOK', NEW a \in Actors, Renaming(a), NEW c \in Ids, c = act[a].id,
           RenameDone(a, c), loose \subseteq loose', UNCHANGED <<containers, boot, used>>,
           disk[c] # NoDir,
           \A d \in Ids : disk'[d] = NoDir <=> disk[d] = NoDir,
           \A d \in Ids \ {c} : disk'[d] = disk[d]
    PROVE  NamesInv'
<1> DEFINE old == act[a].name
<1>1. /\ TypeOK /\ old \in Names /\ old # Name[c] /\ Name[c] \in Names
      /\ Reserved(old, c) /\ Reserved(Name[c], c)
  BY InRename, Zenon
<1>2. /\ names' = [names EXCEPT ![old] = None] /\ lock' = [lock EXCEPT ![c] = None]
      /\ act' = [act EXCEPT ![a] = Idle] /\ Name' = Name
  BY Zenon DEF RenameDone, ReleaseName
<1> HIDE DEF old
<1>3. Elsewhere(c)
  BY <1>1, <1>2 DEF Elsewhere, Reserved, TypeOK
<1>4. Reserved(Name[c], c)'
  BY <1>1, <1>2, Zenon DEF Reserved, TypeOK
<1> QED
  BY <1>1, <1>2, <1>3, <1>4, UnlockKeeps, Zenon

\* A rename that fails puts the old name back, or both names are lost.
LEMMA RenameUndoKeeps ==
    ASSUME NamesInv, TypeOK', NEW a \in Actors, Renaming(a), NEW c \in Ids, c = act[a].id,
           NEW STATE ns, RenameUndo(a, c, ns), UNCHANGED <<containers, boot, used>>,
           \A d \in Ids : disk'[d] = NoDir <=> disk[d] = NoDir,
           \A d \in Ids \ {c} : disk'[d] = disk[d]
    PROVE  NamesInv'
<1> DEFINE old == act[a].name
           new == Name[c]
<1>1. /\ TypeOK /\ old \in Names /\ old # new /\ new \in Names /\ c # None
      /\ c \in containers => Reserved(old, c) /\ Reserved(new, c)
  BY InRename, Zenon
<1>2. /\ names' = ReleaseName(ReserveName(names, old, c), new)
      /\ Name' = [Name EXCEPT ![c] = old] /\ lock' = [lock EXCEPT ![c] = None]
      /\ act' = [act EXCEPT ![a] = Idle] /\ loose \subseteq loose'
      /\ c \notin containers => old \in loose' /\ new \in loose'
  BY Zenon DEF RenameUndo
<1> HIDE DEF old, new
<1>3. \A n \in Names : names'[n] = IF n = new THEN None
                                   ELSE IF n = old /\ names[n] = None THEN c ELSE names[n]
  BY <1>1, <1>2, Zenon DEF ReleaseName, ReserveName, TypeOK
<1>4. Elsewhere(c)
  <2>1. ASSUME NEW d \in Ids \ {c}, NEW n \in Names, Reserved(n, d)
        PROVE  Reserved(n, d)'
    <3>1. d # None
      BY RegistryAssumption, Zenon
    <3> QED
      BY <1>1, <1>2, <1>3, <2>1, <3>1, Zenon DEF Reserved
  <2> QED
    BY <1>1, <1>2, <2>1, Zenon DEF Elsewhere, TypeOK
<1>5. Name'[c] = old /\ (c \in containers => Reserved(Name[c], c))'
  BY <1>1, <1>2, <1>3, Zenon DEF Reserved, TypeOK
<1> QED
  BY <1>1, <1>2, <1>4, <1>5, UnlockKeeps, Zenon

\* What a rename does to the types.
LEMMA RenameTypes ==
    ASSUME NamesInv, NEW a \in Actors, RenameSave(a) \/ RenameSandbox(a)
    PROVE  /\ TypeOK' /\ UNCHANGED <<containers, boot, used>>
           /\ \A d \in Ids : disk'[d] = NoDir <=> disk[d] = NoDir
           /\ \A d \in Ids \ {act[a].id} : disk'[d] = disk[d]
<1>0. Renaming(a)
  BY Zenon DEF RenameSave, RenameSandbox, Renaming
<1>c. PICK c \in Ids : c = act[a].id
  BY <1>0, InRename, Zenon
<1>1. TypeOK /\ act[a].name \in Names /\ Name[c] \in Names /\ a \in Actors
  BY <1>0, <1>c, InRename, Zenon
<1>s. TrySave(c) \/ Unwritten(c) \/ HalfSaved(c, Name[c]) \/ UNCHANGED <<disk, faults>>
  BY <1>c, Zenon DEF RenameSave, RenameSandbox, TrySave
<1>2. CASE RenameDone(a, c)
  <2>1. Moved(a)
    BY <1>1, <1>2, ReturnMoves, Zenon DEF RenameDone
  <2>2. /\ names' \in [Names -> Ids \cup {None}] /\ lock' \in [Ids -> Actors \cup {None}]
        /\ Name' = Name
    BY <1>1, <1>2, Zenon DEF RenameDone, ReleaseName, TypeOK
  <2>3. loose' \subseteq Names
    BY <1>c, <1>1, <1>2, Zenon DEF RenameSave, RenameSandbox, RenameUndo, TypeOK
  <2>4. /\ disk' \in [Ids -> Saves \cup {NoDir, EmptyDir}] /\ faults' \in 0 .. MaxFaults
        /\ \A d \in Ids : disk'[d] = NoDir <=> disk[d] = NoDir
        /\ \A d \in Ids \ {c} : disk'[d] = disk[d]
    BY <1>1, <1>s, <2>2, SavesOne, Zenon DEF TypeOK
  <2> QED
    BY <1>c, <1>1, <2>1, <2>2, <2>3, <2>4, Zenon DEF RenameSave, RenameSandbox, TypeOK, Moved
<1>3. CASE RenameUndo(a, c, {}) \/ RenameUndo(a, c, {Name[c]})
  <2>1. Moved(a)
    BY <1>1, <1>3, ReturnMoves, Zenon DEF RenameUndo
  <2>2. /\ names' \in [Names -> Ids \cup {None}] /\ lock' \in [Ids -> Actors \cup {None}]
        /\ Name' \in [Ids -> Names \cup {None}] /\ loose' \subseteq Names
        /\ Name'[c] \in Names
    BY <1>1, <1>3 DEF RenameUndo, ReleaseName, ReserveName, TypeOK
  <2>4. /\ disk' \in [Ids -> Saves \cup {NoDir, EmptyDir}] /\ faults' \in 0 .. MaxFaults
        /\ \A d \in Ids : disk'[d] = NoDir <=> disk[d] = NoDir
        /\ \A d \in Ids \ {c} : disk'[d] = disk[d]
    BY <1>1, <1>s, <2>2, SavesOne, Zenon DEF TypeOK
  <2> QED
    BY <1>c, <1>1, <2>1, <2>2, <2>4, Zenon DEF RenameSave, RenameSandbox, TypeOK, Moved
<1>4. CASE /\ Goto(a, "sandbox") /\ UNCHANGED <<names, Name, lock>>
           /\ loose' \in {loose, loose \cup {act[a].name}}
  <2>1. Moved(a)
    BY <1>1, <1>4, GotoMoves, Zenon
  <2>2. /\ disk' \in [Ids -> Saves \cup {NoDir, EmptyDir}] /\ faults' \in 0 .. MaxFaults
        /\ \A d \in Ids : disk'[d] = NoDir <=> disk[d] = NoDir
        /\ \A d \in Ids \ {c} : disk'[d] = disk[d]
    BY <1>1, <1>s, <1>4, SavesOne, Zenon DEF TypeOK
  <2>3. loose' \subseteq Names
    BY <1>1, <1>4, Zenon DEF TypeOK
  <2> QED
    BY <1>c, <1>1, <1>4, <2>1, <2>2, <2>3, Zenon DEF RenameSave, RenameSandbox, TypeOK, Moved
<1> QED
  BY <1>c, <1>2, <1>3, <1>4, Zenon DEF RenameSave, RenameSandbox

\* The first CheckpointTo of a rename.
LEMMA RenameSaveKeeps ==
    ASSUME NamesInv, NEW a \in Actors, RenameSave(a)
    PROVE  NamesInv'
<1>0. Renaming(a) /\ act[a].pc = "save"
  BY Zenon DEF RenameSave, Renaming
<1>c. PICK c \in Ids : c = act[a].id
  BY <1>0, InRename, Zenon
<1>1. /\ TypeOK' /\ UNCHANGED <<containers, boot, used>>
      /\ \A d \in Ids : disk'[d] = NoDir <=> disk[d] = NoDir
      /\ \A d \in Ids \ {c} : disk'[d] = disk[d]
  BY <1>c, RenameTypes, Zenon
<1>2. CASE /\ Goto(a, "sandbox") /\ UNCHANGED <<names, Name, lock>>
           /\ loose \subseteq loose' /\ (Saved(c) \/ Unwritten(c))
  <2>1. /\ TypeOK /\ ActOk(a) /\ Name[c] \in Names
        /\ Moved(a) /\ act'[a].pc = "sandbox" /\ act'[a].id = c /\ act'[a].name = act[a].name
    BY <1>c, <1>0, <1>2, InRename, GotoMoves, Zenon DEF NamesInv
  <2>2. Steady
    <3>1. \A d \in Ids : Loaded(d) => disk'[d] \in Saves
      BY <1>2, <2>1, SavesOne, Zenon DEF TrySave
    <3> QED
      BY <1>1, <1>2, <3>1, Zenon DEF Steady
  <2>3. disk'[c] # NoDir
    BY <1>1, <1>2, Zenon DEF Saved, Unwritten
  <2>4. Known(a) /\ ActOk(a)'
    BY <1>c, <1>0, <1>1, <1>2, <2>1, <2>3, Zenon DEF Known, ActOk, Creating, Renaming, Reserved
  <2> QED
    BY <1>1, <2>1, <2>2, <2>4, SteadyKeeps, Zenon DEF Moved
<1>3. CASE RenameDone(a, c) /\ loose \subseteq loose' /\ (Saved(c) \/ Unwritten(c))
  BY <1>c, <1>0, <1>1, <1>3, RenameDoneKeeps, Zenon DEF Saved, Unwritten
<1>4. CASE RenameUndo(a, c, {})
  BY <1>c, <1>0, <1>1, <1>4, RenameUndoKeeps, Zenon
<1>5. CASE RenameUndo(a, c, {Name[c]})
  BY <1>c, <1>0, <1>1, <1>5, RenameUndoKeeps, Zenon
<1> QED
  BY <1>c, <1>2, <1>3, <1>4, <1>5, Zenon DEF RenameSave

\* The sandbox is renamed, or the rename is undone.
LEMMA RenameSandboxKeeps ==
    ASSUME NamesInv, NEW a \in Actors, RenameSandbox(a)
    PROVE  NamesInv'
<1>0. Renaming(a) /\ act[a].pc = "sandbox"
  BY Zenon DEF RenameSandbox, Renaming
<1>c. PICK c \in Ids : c = act[a].id
  BY <1>0, InRename, Zenon
<1>1. /\ TypeOK' /\ UNCHANGED <<containers, boot, used>>
      /\ \A d \in Ids : disk'[d] = NoDir <=> disk[d] = NoDir
      /\ \A d \in Ids \ {c} : disk'[d] = disk[d]
      /\ disk[c] # NoDir
  BY <1>c, <1>0, RenameTypes, InRename, Zenon
<1>2. CASE RenameDone(a, c) /\ loose' = loose
  BY <1>c, <1>0, <1>1, <1>2, RenameDoneKeeps, Zenon
<1>3. CASE RenameUndo(a, c, {})
  BY <1>c, <1>0, <1>1, <1>3, RenameUndoKeeps, Zenon
<1>4. CASE RenameUndo(a, c, {Name[c]})
  BY <1>c, <1>0, <1>1, <1>4, RenameUndoKeeps, Zenon
<1> QED
  BY <1>c, <1>2, <1>3, <1>4, Zenon DEF RenameSandbox

\* The directory of a container is removed: no rename has its lock.
LEMMA RmRootKeeps ==
    ASSUME NamesInv, NEW a \in Actors, RmRoot(a)
    PROVE  NamesInv'
<1>c. PICK c \in Ids : c = act[a].id
  BY AtWork, Zenon DEF RmRoot
<1>0. /\ TypeOK /\ OwnsItsName /\ ActOk(a) /\ IdOk(c) /\ c \in used /\ lock[c] = None
      /\ act[a].pc = "root"
  BY <1>c, AtWork, Zenon DEF RmRoot, NamesInv
<1>1. CASE disk' = [disk EXCEPT ![c] = NoDir] /\ Goto(a, "forget")
           /\ UNCHANGED <<RemovalInProgress, boot, faults, orphans>>
  <2>1. Moved(a) /\ act'[a].pc = "forget" /\ act'[a].id = c
    BY <1>c, <1>0, <1>1, GotoMoves, Zenon
  <2>2. /\ UNCHANGED <<containers, names, Name, loose, lock, used, boot>>
        /\ disk' \in [Ids -> Saves \cup {NoDir, EmptyDir}]
        /\ disk'[c] = NoDir /\ \A d \in Ids \ {c} : disk'[d] = disk[d]
    BY <1>0, <1>1, Zenon DEF RmRoot, TypeOK, histVars
  <2>3. TypeOK'
    BY <1>0, <1>1, <2>1, <2>2, Zenon DEF RmRoot, TypeOK, Moved, histVars
  <2>4. Elsewhere(c)
    BY <2>2, Zenon DEF Elsewhere, Reserved
  <2>5. c \in containers => Reserved(Name[c], c)
    BY <1>0, Zenon DEF OwnsItsName, Reserved
  <2>6. (c \in containers => Reserved(Name[c], c))'
    BY <2>2, <2>5, Zenon DEF Reserved
  <2>7. IdOk(c)'
    BY <1>c, <1>0, <2>2, Zenon DEF IdOk
  <2>8. ActOk(a)'
    BY <1>0, <2>1, <2>2, Zenon DEF ActOk, Creating, Renaming
  <2>9. ASSUME NEW b \in Actors \ {a}, act[b].id = c
        PROVE  ActOk(b)'
    <3>1. ActOk(b) /\ b # None /\ act'[b] = act[b]
      BY <2>1, RegistryAssumption, Zenon DEF NamesInv, Moved
    <3>2. ~Creating(b) /\ ~Renaming(b)
      BY <1>c, <1>0, <2>9, <3>1, Zenon DEF ActOk
    <3> QED
      BY <2>2, <2>9, <3>1, <3>2, Zenon DEF ActOk, Creating, Renaming
  <2> QED
    BY <2>1, <2>3, <2>4, <2>6, <2>7, <2>8, <2>9, ElsewhereKeeps, Zenon DEF Moved
<1>2. CASE /\ RmFails(a, c) /\ disk[c] # NoDir
           /\ disk' \in {disk, [disk EXCEPT ![c] = EmptyDir]}
  <2>1. /\ Moved(a) /\ act'[a].pc = "idle" /\ act'[a].id = None
        /\ RemovalInProgress' \subseteq Ids
        /\ boot' \in [Ids -> {"none", "load", "sync", "restart", "starting", "remove",
                              "removing", "done", "skipped"}]
        /\ \A d \in Ids : \/ boot'[d] = boot[d]
                          \/ boot[d] \notin {"none", "load"} /\ boot'[d] \notin {"none", "load"}
    BY <1>0, <1>2, RmReturnMoves, Zenon DEF RmFails
  <2>2. faults' \in 0 .. MaxFaults
    BY <1>0, <1>2, RegistryAssumption DEF RmFails, Fault, TypeOK
  <2>3. Steady
    <3>1. boot[c] # "load" /\ NoDir # EmptyDir
      BY <1>c, <1>0, RegistryAssumption, Zenon DEF IdOk
    <3>2. \A d \in Ids : /\ disk'[d] = NoDir <=> disk[d] = NoDir
                         /\ Loaded(d) /\ boot[d] = "load" => disk'[d] \in Saves
      BY <1>0, <1>2, <3>1, Zenon DEF TypeOK, Loaded
    <3> QED
      BY <2>1, <3>2, Zenon DEF RmRoot, Steady
  <2>4. TypeOK'
    <3>1. disk' \in [Ids -> Saves \cup {NoDir, EmptyDir}] /\ orphans' \subseteq Ids
      BY <1>0, <1>2, Zenon DEF RmFails, TypeOK
    <3> QED
      BY <1>0, <2>1, <2>2, <3>1, Zenon DEF RmRoot, TypeOK, Moved
  <2>5. Known(a) /\ ActOk(a)'
    BY <2>1, Zenon DEF Known, ActOk, Creating, Renaming
  <2> QED
    BY <2>1, <2>3, <2>4, <2>5, SteadyKeeps, Zenon DEF Moved
<1> QED
  BY <1>c, <1>1, <1>2, Zenon DEF RmRoot

\* The container is dropped from the list: its directory is gone.
LEMMA RmForgetKeeps ==
    ASSUME NamesInv, NEW a \in Actors, RmForget(a)
    PROVE  NamesInv'
<1>c. PICK c \in Ids : c = act[a].id
  BY AtWork, Zenon DEF RmForget
<1>0. /\ TypeOK /\ ActOk(a) /\ IdOk(c) /\ c \in used /\ act[a].pc = "forget" /\ disk[c] = NoDir
  BY <1>c, AtWork, Zenon DEF RmForget, ActOk
<1>1. Moved(a) /\ act'[a].pc = "names" /\ act'[a].id = c
  BY <1>c, <1>0, GotoMoves, Zenon DEF RmForget
<1>2. /\ UNCHANGED <<names, Name, loose, lock, used, boot, disk>>
      /\ containers' = containers \ {c}
  BY <1>c, Zenon DEF RmForget, histVars, diskVars
<1>3. TypeOK'
  BY <1>0, <1>1, <1>2, Zenon DEF RmForget, TypeOK, Moved, histVars, diskVars
<1>4. Elsewhere(c)
  BY <1>2, Zenon DEF Elsewhere, Reserved
<1>5. IdOk(c)' /\ c \notin containers'
  BY <1>c, <1>0, <1>2, Zenon DEF IdOk
<1>6. ActOk(a)'
  BY <1>0, <1>1, <1>2, Zenon DEF ActOk, Creating, Renaming
<1>7. ASSUME NEW b \in Actors \ {a}, act[b].id = c
      PROVE  ActOk(b)'
  <2>1. ActOk(b) /\ act'[b] = act[b]
    BY <1>1, Zenon DEF NamesInv, Moved
  <2>2. ~Creating(b)
    BY <1>c, <1>7, <2>1, Zenon DEF ActOk
  <2> QED
    BY <1>0, <1>2, <1>7, <2>1, <2>2, Zenon DEF ActOk, Creating, Renaming
<1> QED
  BY <1>1, <1>3, <1>4, <1>5, <1>6, <1>7, ElsewhereKeeps, Zenon DEF Moved

\* The names of a container are dropped: it is not in the list any more.
LEMMA RmNamesKeeps ==
    ASSUME NamesInv, NEW a \in Actors, RmNames(a)
    PROVE  NamesInv'
<1>c. PICK c \in Ids : c = act[a].id
  BY AtWork, Zenon DEF RmNames
<1>0. /\ TypeOK /\ ActOk(a) /\ IdOk(c) /\ c \in used /\ act[a].pc = "names"
      /\ c \notin containers /\ boot[c] # "load"
  BY <1>c, AtWork, Zenon DEF RmNames, ActOk, IdOk
<1>1. /\ Moved(a) /\ act'[a].pc = "idle" /\ act'[a].id = None
      /\ RemovalInProgress' \subseteq Ids
      /\ boot' \in [Ids -> {"none", "load", "sync", "restart", "starting", "remove",
                            "removing", "done", "skipped"}]
      /\ \A d \in Ids \ {c} : boot'[d] = boot[d]
      /\ boot'[c] # "load"
  <2>1. RmReturn(a, c)
    BY <1>c, Zenon DEF RmNames
  <2> QED
    BY <1>0, <2>1, RmReturnMoves, Zenon DEF RmReturn, TypeOK
<1>2. /\ UNCHANGED <<containers, Name, loose, lock, used, disk>>
      /\ names' \in [Names -> Ids \cup {None}]
      /\ \A n \in Names : names[n] # c => names'[n] = names[n]
  BY <1>c, <1>0, Zenon DEF RmNames, DeleteNames, TypeOK, histVars, diskVars
<1>3. TypeOK'
  BY <1>0, <1>1, <1>2, Zenon DEF RmNames, TypeOK, Moved, histVars, diskVars
<1>4. Elsewhere(c)
  BY <1>1, <1>2, Zenon DEF Elsewhere, Reserved
<1>5. IdOk(c)' /\ c \notin containers'
  BY <1>0, <1>1, <1>2, Zenon DEF IdOk
<1>6. ActOk(a)'
  BY <1>1, Zenon DEF ActOk, Creating, Renaming
<1>7. ASSUME NEW b \in Actors \ {a}, act[b].id = c
      PROVE  ActOk(b)'
  <2>1. ActOk(b) /\ act'[b] = act[b]
    BY <1>1, Zenon DEF NamesInv, Moved
  <2>2. ~Creating(b)
    BY <1>c, <1>7, <2>1, Zenon DEF ActOk
  <2> QED
    BY <1>0, <1>2, <1>7, <2>1, <2>2, Zenon DEF ActOk, Creating, Renaming
<1> QED
  BY <1>1, <1>3, <1>4, <1>5, <1>6, <1>7, ElsewhereKeeps, Zenon DEF Moved

\* A container is started, for a client or by restore: no rename has its lock.
LEMMA StartTaskKeeps ==
    ASSUME NamesInv, NEW a \in Actors, NEW c \in Ids, StartTask(a, c) \/ BootStart(a, c)
    PROVE  NamesInv'
<1> DEFINE r == [Idle EXCEPT !.pc = "started", !.id = c]
<1>0. /\ TypeOK /\ OwnsItsName /\ IdOk(c) /\ lock[c] = None /\ c \in used
      /\ c \in containers \/ (boot[c] = "restart" /\ boot'[c] # "load")
  BY Zenon DEF NamesInv, IdOk, StartTask, BootStart, NewTask, TypeOK
<1>a. r \in Acts /\ r.pc = "started" /\ r.id = c
  BY Zenon DEF Idle, Acts
<1>b. act' = [act EXCEPT ![a] = r]
  BY Zenon DEF StartTask, BootStart, NewTask
<1> HIDE DEF r
<1>1. Moved(a) /\ act'[a].pc = "started" /\ act'[a].id = c
  BY <1>0, <1>a, <1>b, Zenon DEF Moved, TypeOK
<1>2. /\ UNCHANGED <<containers, names, Name, loose, used, disk>>
      /\ lock' = [lock EXCEPT ![c] = a]
      /\ boot' \in [Ids -> {"none", "load", "sync", "restart", "starting", "remove",
                            "removing", "done", "skipped"}]
      /\ \A d \in Ids \ {c} : boot'[d] = boot[d]
      /\ boot'[c] # "load"
  BY <1>0, Zenon DEF StartTask, BootStart, NewTask, TypeOK, IdOk, memVars, histVars
<1>3. TypeOK'
  <2>1. alive' \subseteq Ids
    BY <1>0, Zenon DEF StartTask, BootStart, NewTask, TypeOK
  <2> QED
    BY <1>0, <1>1, <1>2, <2>1
       DEF StartTask, BootStart, NewTask, TypeOK, Moved, memVars, histVars
<1>4. Elsewhere(c)
  BY <1>0, <1>2, Zenon DEF Elsewhere, Reserved, TypeOK
<1>5. c \in containers => Reserved(Name[c], c)
  BY <1>0, Zenon DEF OwnsItsName, Reserved
<1>6. (c \in containers => Reserved(Name[c], c))'
  BY <1>2, <1>5, Zenon DEF Reserved
<1>7. IdOk(c)'
  BY <1>0, <1>2, Zenon DEF IdOk
<1>8. ActOk(a)'
  BY <1>0, <1>1, <1>2, Zenon DEF ActOk, Creating, Renaming, TypeOK
<1>9. ASSUME NEW b \in Actors \ {a}, act[b].id = c
      PROVE  ActOk(b)'
  <2>1. ActOk(b) /\ b # None /\ act'[b] = act[b]
    BY <1>1, RegistryAssumption, Zenon DEF NamesInv, Moved
  <2>2. ~Creating(b) /\ ~Renaming(b) /\ act[b].pc # "started"
    BY <1>0, <1>9, <2>1, Zenon DEF ActOk
  <2> QED
    BY <1>2, <1>9, <2>1, <2>2, Zenon DEF ActOk, Creating, Renaming
<1> QED
  BY <1>1, <1>3, <1>4, <1>6, <1>7, <1>8, <1>9, ElsewhereKeeps, Zenon DEF Moved

\* A start is saved and gives the lock up.
LEMMA StartSaveKeeps ==
    ASSUME NamesInv, NEW a \in Actors, StartSave(a)
    PROVE  NamesInv'
<1>c. PICK c \in Ids : c = act[a].id
  BY AtWork, Zenon DEF StartSave
<1>0. /\ TypeOK /\ OwnsItsName /\ ActOk(a) /\ IdOk(c) /\ c \in used /\ Name[c] \in Names
      /\ act[a].pc = "started" /\ lock[c] = a /\ boot[c] # "load"
  BY <1>c, AtWork, Zenon DEF StartSave, NamesInv, ActOk, IdOk
<1>1. Moved(a) /\ act'[a].pc = "idle" /\ act'[a].id = None
  BY <1>0, ReturnMoves, Zenon DEF StartSave
<1>2. /\ UNCHANGED <<containers, names, Name, loose, used>>
      /\ lock' = [lock EXCEPT ![c] = None]
      /\ boot' \in [Ids -> {"none", "load", "sync", "restart", "starting", "remove",
                            "removing", "done", "skipped"}]
      /\ \A d \in Ids \ {c} : boot'[d] = boot[d]
      /\ boot'[c] # "load"
      /\ boot'[c] # "none" => boot[c] # "none"
  BY <1>c, <1>0, Zenon DEF StartSave, TypeOK, histVars
<1>3. /\ disk' \in [Ids -> Saves \cup {NoDir, EmptyDir}] /\ faults' \in 0 .. MaxFaults
      /\ \A d \in Ids : disk'[d] = NoDir <=> disk[d] = NoDir
      /\ \A d \in Ids \ {c} : disk'[d] = disk[d]
  BY <1>c, <1>0, <1>2, SavesOne, Zenon DEF StartSave
<1>4. TypeOK'
  <2>1. running' \subseteq Ids
    BY <1>c, <1>0, Zenon DEF StartSave, TypeOK
  <2>2. UNCHANGED <<dead, RemovalInProgress, RWLayer, reap, layers, alive, event, orphans,
                    lost, crashes, liveRestore>>
    BY Zenon DEF StartSave, histVars
  <2> QED
    BY <1>0, <1>1, <1>2, <1>3, <2>1, <2>2, Zenon DEF TypeOK, Moved
<1>5. Elsewhere(c)
  BY <1>0, <1>2, <1>3, Zenon DEF Elsewhere, Reserved, TypeOK
<1>6. c \in containers => Reserved(Name[c], c)
  BY <1>0, Zenon DEF OwnsItsName, Reserved
<1>7. (c \in containers => Reserved(Name[c], c))'
  BY <1>2, <1>6, Zenon DEF Reserved
<1>8. IdOk(c)'
  BY <1>0, <1>2, <1>3, Zenon DEF IdOk
<1>9. ActOk(a)'
  BY <1>1, Zenon DEF ActOk, Creating, Renaming
<1>10. ASSUME NEW b \in Actors \ {a}, act[b].id = c
       PROVE  ActOk(b)'
  <2>1. ActOk(b) /\ act'[b] = act[b]
    BY <1>1, Zenon DEF NamesInv, Moved
  <2>2. ~Creating(b) /\ ~Renaming(b) /\ act[b].pc # "started"
    BY <1>c, <1>0, <1>10, <2>1, Zenon DEF ActOk
  <2> QED
    BY <1>2, <1>3, <1>10, <2>1, <2>2, Zenon DEF ActOk, Creating, Renaming
<1> QED
  BY <1>1, <1>4, <1>5, <1>7, <1>8, <1>9, <1>10, ElsewhereKeeps, Zenon DEF Moved

\* restore registers a container under the name it was saved with, or drops it.
LEMMA BootRegisterKeeps ==
    ASSUME NamesInv, NEW c \in Ids, BootRegister(c)
    PROVE  NamesInv'
<1>n. PICK n \in Names : n = disk[c].name
  BY Zenon DEF NamesInv, IdOk, BootRegister, Loaded, Saves
<1>0. /\ TypeOK /\ IdOk(c) /\ boot[c] = "load" /\ Loaded(c) /\ c \notin containers /\ c \in used
      /\ c # None /\ \A a \in Actors : act[a].id # c
  BY RegistryAssumption, Zenon DEF NamesInv, IdOk, BootRegister
<1>1. /\ UNCHANGED <<loose, used, lock, act>> /\ Name' = [Name EXCEPT ![c] = n]
      /\ boot' \in [Ids -> {"none", "load", "sync", "restart", "starting", "remove",
                            "removing", "done", "skipped"}]
      /\ \A d \in Ids \ {c} : boot'[d] = boot[d]
      /\ boot'[c] # "load"
  BY <1>n, <1>0, Zenon DEF BootRegister, TypeOK, histVars
<1>2. /\ disk' \in [Ids -> Saves \cup {NoDir, EmptyDir}] /\ faults' \in 0 .. MaxFaults
      /\ \A d \in Ids \ {c} : disk'[d] = disk[d]
  <2>1. TrySave(c) \/ UNCHANGED <<disk, faults>>
    BY Zenon DEF BootRegister, TrySave
  <2>2. Name'[c] \in Names /\ Name[c] \in Names
    BY <1>0, <1>1, Zenon DEF TypeOK, IdOk
  <2> QED
    BY <1>0, <2>1, <2>2, SavesOne, Zenon DEF TypeOK
<1>3. \/ UNCHANGED <<names, containers>>
      \/ /\ names' = [names EXCEPT ![n] = c] /\ containers' = containers \cup {c}
         /\ names[n] \in {None, c}
  BY <1>n, <1>0 DEF BootRegister, Free, ReserveName, TypeOK
<1>4. TypeOK'
  <2>1. dead' \subseteq Ids /\ running' \subseteq Ids /\ RWLayer' \subseteq Ids
    BY <1>0, Zenon DEF BootRegister, TypeOK
  <2>2. names' \in [Names -> Ids \cup {None}] /\ containers' \subseteq Ids
    BY <1>0, <1>3, Zenon DEF TypeOK
  <2>3. UNCHANGED <<RemovalInProgress, lock, reap, act, layers, alive, event, histVars>>
    BY Zenon DEF BootRegister
  <2>4. Name' \in [Ids -> Names \cup {None}]
    BY <1>0, <1>1, Zenon DEF TypeOK
  <2> QED
    BY <1>0, <1>1, <1>2, <2>1, <2>2, <2>3, <2>4, Zenon DEF TypeOK, histVars
<1>5. Elsewhere(c)
  <2>1. ASSUME NEW d \in Ids \ {c}, NEW m \in Names, Reserved(m, d)
        PROVE  Reserved(m, d)'
    <3>1. d # None
      BY RegistryAssumption, Zenon
    <3> QED
      BY <1>0, <1>1, <1>3, <2>1, <3>1, Zenon DEF Reserved, TypeOK
  <2> QED
    BY <1>0, <1>1, <1>2, <1>3, <2>1, Zenon DEF Elsewhere, TypeOK
<1>6. (c \in containers => Reserved(Name[c], c))'
  <2>1. Name'[c] = n
    BY <1>0, <1>1, Zenon DEF TypeOK
  <2>2. c \in containers' => names'[n] = c
    BY <1>0, <1>3, Zenon DEF TypeOK
  <2> QED
    BY <2>1, <2>2, Zenon DEF Reserved
<1>7. IdOk(c)'
  BY <1>0, <1>1, Zenon DEF IdOk, TypeOK
<1> QED
  BY <1>0, <1>1, <1>4, <1>5, <1>6, <1>7, ElsewhereKeeps, Zenon

\* The daemon dies: nobody is at work, and restore has to read what was saved.
LEMMA CrashKeeps ==
    ASSUME NamesInv, Crash
    PROVE  NamesInv'
<1>0. TypeOK /\ \A c \in Ids : IdOk(c)
  BY Zenon DEF NamesInv
<1>1. /\ \A a \in Actors : act'[a] = Idle
      /\ containers' = {} /\ UNCHANGED <<Name, used>>
      /\ \A c \in Ids : /\ boot'[c] = IF Loaded(c)' THEN "load" ELSE "none"
                        /\ disk'[c] = disk[c] \/ (Loaded(c) /\ disk'[c] = EmptyDir)
  BY Zenon DEF Crash
<1>2. TypeOK'
  <2>1. act' \in [Actors -> Acts]
    BY IdleAct, Zenon DEF Crash
  <2>2. orphans' \subseteq Ids /\ lost' \subseteq Ids
    BY <1>0, Zenon DEF Crash, TypeOK
  <2>3. crashes' \in 0 .. MaxCrashes
    BY <1>0, RegistryAssumption DEF Crash, TypeOK
  <2>4. disk' \in [Ids -> Saves \cup {NoDir, EmptyDir}]
    BY <1>0, Zenon DEF Crash, TypeOK
  <2> QED
    BY <1>0, <2>1, <2>2, <2>3, <2>4, Zenon DEF Crash, TypeOK
<1>3. OwnsItsName'
  BY <1>1, Zenon DEF OwnsItsName
<1>4. \A a \in Actors : ActOk(a)'
  BY <1>1, IdleAct, Zenon DEF ActOk, Creating, Renaming
<1>5. ASSUME NEW c \in Ids
      PROVE  IdOk(c)'
  <2>1. IdOk(c) /\ c # None /\ (Loaded(c) => disk[c] # NoDir)
    BY <1>0, RegistryAssumption, Zenon DEF Loaded, Saves
  <2> QED
    BY <1>1, <2>1, IdleAct, Zenon DEF IdOk, Loaded
<1> QED
  BY <1>2, <1>3, <1>4, <1>5, Zenon DEF NamesInv

-----------------------------------------------------------------------------
\* Initially there are no containers.
LEMMA NamesInit == Init => NamesInv
<1> SUFFICES ASSUME Init PROVE NamesInv
  BY Zenon
<1>1. TypeOK
  <2>1. act \in [Actors -> Acts]
    BY IdleAct, Zenon DEF Init
  <2> QED
    BY <2>1, RegistryAssumption DEF Init, TypeOK
<1>2. \A a \in Actors : ActOk(a)
  BY IdleAct, Zenon DEF Init, ActOk, Creating, Renaming
<1>3. \A c \in Ids : IdOk(c)
  BY Zenon DEF Init, IdOk
<1> QED
  BY <1>1, <1>2, <1>3, Zenon DEF Init, NamesInv, OwnsItsName

\* A step that changes nothing.
LEMMA StutterKeeps ==
    ASSUME NamesInv, UNCHANGED vars
    PROVE  NamesInv'
<1>1. Steady /\ TypeOK'
  BY Zenon DEF NamesInv, TypeOK, Steady, Loaded, vars, memVars, diskVars, histVars
<1>2. act' = act
  BY Zenon DEF vars
<1> QED
  BY <1>1, <1>2, SteadyKeeps, Zenon

\* Every step keeps the invariant.
LEMMA NamesStep == NamesInv /\ [Next]_vars => NamesInv'
<1> SUFFICES ASSUME NamesInv, [Next]_vars PROVE NamesInv'
  BY Zenon
<1>1. ASSUME NEW a \in Actors, Step(a) PROVE NamesInv'
  <2>1. CASE CreateLayer(a) \/ CreateRoot(a) \/ Register(a)
    BY <2>1, CreateLayerKeeps, CreateRootKeeps, RegisterKeeps, Zenon
  <2>2. CASE RenameReserve(a) \/ RenameSave(a) \/ RenameSandbox(a)
    BY <2>2, RenameReserveKeeps, RenameSaveKeeps, RenameSandboxKeeps, Zenon
  <2>3. CASE RmClaim(a) \/ RmStop(a) \/ RmDead(a) \/ RmLayer(a)
    BY <2>3, RmClaimKeeps, RmStopKeeps, RmDeadKeeps, RmLayerKeeps, Zenon
  <2>4. CASE RmRoot(a) \/ RmForget(a) \/ RmNames(a) \/ StartSave(a)
    BY <2>4, RmRootKeeps, RmForgetKeeps, RmNamesKeeps, StartSaveKeeps, Zenon
  <2> QED
    BY <1>1, <2>1, <2>2, <2>3, <2>4, Zenon DEF Step
<1>2. ASSUME NEW a \in Actors, NEW c \in Ids,
             \/ \E n \in Names : Create(a, c, n) \/ RenameGet(a, c, n)
             \/ RmGet(a, c) \/ StartTask(a, c) \/ BootStart(a, c) \/ BootRemove(a, c)
      PROVE  NamesInv'
  BY <1>2, CreateKeeps, RenameGetKeeps, RmGetKeeps, StartTaskKeeps, BootRemoveKeeps, Zenon
<1>3. ASSUME NEW c \in Ids,
             \/ ReapGone(c) \/ TaskExit(c) \/ HandleExit(c)
             \/ \E n \in Names : CreateFails(c, n)
             \/ BootNoLayer(c) \/ BootRegister(c) \/ BootSync(c) \/ BootSyncError(c)
             \/ BootStatusError(c) \/ BootNoStart(c)
      PROVE  NamesInv'
  BY <1>3, CreateFailsKeeps, BootNoLayerKeeps, ReapGoneKeeps, TaskExitKeeps, HandleExitKeeps, BootRegisterKeeps, BootSyncKeeps,
     BootSyncErrorKeeps, BootStatusErrorKeeps, BootNoStartKeeps, Zenon
<1>4. CASE Crash
  BY <1>4, CrashKeeps, Zenon
<1>5. CASE UNCHANGED vars
  BY <1>5, StutterKeeps, Zenon
<1> QED
  BY <1>1, <1>2, <1>3, <1>4, <1>5, Zenon DEF Next

\* The names the daemon holds stay consistent with its containers, their locks and
\* the goroutines that create, rename, start and remove them, through failures and
\* restarts (names.go, rename.go, delete.go, restore of daemon.go).
THEOREM NamesInvariant == Spec => []NamesInv
BY NamesInit, NamesStep, PTL DEF Spec

\* A container the daemon knows has its name reserved for it (reserveName and
\* releaseName of names.go), but for the names a failed rename lost.
THEOREM OwnsItsNameHolds == Spec => []OwnsItsName
<1>1. NamesInv => OwnsItsName
  BY Zenon DEF NamesInv
<1> QED
  BY <1>1, NamesInvariant, PTL

=============================================================================
