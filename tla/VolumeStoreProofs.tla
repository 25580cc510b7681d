-------------------------- MODULE VolumeStoreProofs --------------------------
(***************************************************************************)
(* What VolumeStore keeps true for every set of volumes, containers and    *)
(* clients, and any number of faults and restarts.  One lemma per action:  *)
(* what the step does to its process (Moved) and to the store, and from it *)
(* the conjuncts of the invariant; FrameKeeps has those about the others.  *)
(***************************************************************************)
EXTENDS VolumeStore, TLAPS

\* The step of a process p: the other processes, their containers and the volumes
\* whose name they have locked are as they were.
Frame(p) ==
    /\ \A q \in Procs \ {p} : act'[q] = act[q]
    /\ \A c \in Containers \ {p} : state'[c] = state[c] /\ inited'[c] = inited[c]
    /\ \A w \in Volumes : lock[w] \notin {None, p} =>
          lock'[w] = lock[w] /\ refs'[w] = refs[w] /\ (w \in driver => w \in driver')

\* What the invariant says of the other processes is kept.
LEMMA FrameKeeps ==
    ASSUME VolumesInv, NEW p \in Procs, Frame(p), TypeOK',
           p \in Containers => CtrOk(p)', LockOk(p)', VolumeInUse', RefsHaveOwner', RefsKnown'
    PROVE  VolumesInv'
<1>1. ASSUME NEW c \in Containers
      PROVE  CtrOk(c)'
  BY Zenon DEF VolumesInv, CtrOk, Frame, Procs
<1>2. ASSUME NEW q \in Procs
      PROVE  LockOk(q)'
  <2>1. CASE q = p
    BY <2>1, Zenon
  <2>2. CASE q # p
    <3>1. act'[q] = act[q] /\ LockOk(q) /\ q # None
      BY <2>2, VolumesAssumption, Zenon DEF Frame, VolumesInv, Procs
    <3> QED
      BY <2>2, <3>1, Zenon DEF LockOk, Frame
  <2> QED
    BY <2>1, <2>2, Zenon
<1> QED
  BY <1>1, <1>2, Zenon DEF VolumesInv

\* The process p, and no other, goes on.
Moved(p) == act' \in [Procs -> Acts] /\ \A q \in Procs \ {p} : act'[q] = act[q]

\* A mount point was made.
LEMMA SetVolumeMoves ==
    ASSUME TypeOK, NEW c \in Containers, NEW v \in Volumes, SetVolume(c, v)
    PROVE  Moved(c) /\ act'[c].pc = (IF act[c].pc = "record" THEN "next" ELSE act[c].pc)
<1> DEFINE r == [act[c] EXCEPT !.pc = IF @ = "record" THEN "next" ELSE @,
                               !.vol = None, !.todo = @ \ {v}]
<1>1. act[c] \in Acts /\ c \in Procs
  BY Zenon DEF TypeOK, Procs
<1>2. r \in Acts /\ r.pc = (IF act[c].pc = "record" THEN "next" ELSE act[c].pc)
  BY <1>1, Zenon DEF Acts
<1>3. act' = [act EXCEPT ![c] = r]
  BY Zenon DEF SetVolume
<1> HIDE DEF r
<1> QED
  BY <1>1, <1>2, <1>3, Zenon DEF TypeOK, Moved

\* A create failed: what it has is on the list of its process, or is left to the
\* clean-up.
Failed(c) ==
    /\ Moved(c)
    /\ \/ /\ act'[c].pc = "release" /\ act'[c].todo = inited[c]
          /\ state' = [state EXCEPT ![c] = "removing"]
       \/ act'[c].pc = "cleanup" /\ state' = [state EXCEPT ![c] = "cleanup"]

LEMMA CtrFailsMoves ==
    ASSUME TypeOK, NEW c \in Containers, NEW lost, CtrFails(c, lost)
    PROVE  Failed(c)
<1> DEFINE f == [Idle EXCEPT !.pc = "cleanup"]
           r == [Idle EXCEPT !.pc = "release", !.todo = inited[c]]
<1>1. /\ act \in [Procs -> Acts] /\ c \in Procs /\ f \in Acts /\ r \in Acts
      /\ f.pc = "cleanup" /\ r.pc = "release" /\ r.todo = inited[c]
  BY Zenon DEF TypeOK, Acts, Procs, Idle
<1>2. \/ act' = [act EXCEPT ![c] = f] /\ state' = [state EXCEPT ![c] = "cleanup"]
      \/ act' = [act EXCEPT ![c] = r] /\ state' = [state EXCEPT ![c] = "removing"]
  BY Zenon DEF CtrFails
<1> HIDE DEF f, r
<1> QED
  BY <1>1, <1>2, Zenon DEF Failed, Moved

\* A volume was not found, or its driver did not answer: what is known of it stays, or
\* is purged.
NotFound(v) ==
    /\ faults' \in 0 .. MaxFaults
    /\ \/ UNCHANGED <<names, refs, db, forgotten>>
       \/ /\ names' = names \ {v} /\ refs' = [refs EXCEPT ![v] = {}] /\ db' = db \ {v}
          /\ forgotten' = forgotten \cup {<<c, v>> : c \in refs[v]}

LEMMA NotFoundFaults ==
    ASSUME TypeOK, NEW v \in Volumes,
           GetMissing(v) \/ GetFails \/ (Fault /\ (Purge(v) \/ KeepsRecords))
    PROVE  NotFound(v)
<1>1. faults' \in 0 .. MaxFaults
  BY VolumesAssumption DEF TypeOK, GetMissing, GetFails, LookupNil, Fault
<1> QED
  BY <1>1, Zenon DEF NotFound, GetMissing, GetFails, Purge, PurgeCache, KeepsRecords

\* Then no volume in use is lost but those that are purged.
LEMMA NotFoundKeeps ==
    ASSUME TypeOK, VolumeInUse, RefsKnown, NEW v \in Volumes, NotFound(v),
           UNCHANGED <<inited, driver>>
    PROVE  /\ VolumeInUse' /\ RefsKnown'
           /\ refs' \in [Volumes -> SUBSET Containers] /\ names' \subseteq Volumes
           /\ db' \subseteq Volumes /\ forgotten' \subseteq Containers \X Volumes
           /\ \A w \in Volumes : refs'[w] \subseteq refs[w] /\ (w # v => refs'[w] = refs[w])
<1>1. CASE UNCHANGED <<names, refs, db, forgotten>>
  BY <1>1, Zenon DEF TypeOK, VolumeInUse, RefsKnown
<1>2. CASE /\ names' = names \ {v} /\ refs' = [refs EXCEPT ![v] = {}] /\ db' = db \ {v}
           /\ forgotten' = forgotten \cup {<<c, v>> : c \in refs[v]}
  <2>1. /\ refs' \in [Volumes -> SUBSET Containers] /\ names' \subseteq Volumes
        /\ db' \subseteq Volumes
        /\ \A w \in Volumes : refs'[w] \subseteq refs[w] /\ (w # v => refs'[w] = refs[w])
    BY <1>2, Zenon DEF TypeOK
  <2>2. forgotten' \subseteq Containers \X Volumes
    BY <1>2 DEF TypeOK
  <2>3. ASSUME NEW d \in Containers, NEW w \in inited[d]
        PROVE  <<d, w>> \in forgotten' \/ (d \in refs'[w] /\ w \in names' \cap driver)
    <3>0. w \in Volumes /\ (<<d, w>> \in forgotten \/ (d \in refs[w] /\ w \in names \cap driver))
      BY Zenon DEF TypeOK, VolumeInUse
    <3>1. CASE w = v
      BY <3>0, <3>1, <1>2
    <3>2. CASE w # v
      BY <3>0, <3>2, <2>1, <1>2, Zenon
    <3> QED
      BY <3>1, <3>2
  <2>4. VolumeInUse'
    BY <2>3, Zenon DEF VolumeInUse
  <2>5. RefsKnown'
    BY <1>2, <2>1, Zenon DEF RefsKnown, TypeOK
  <2> QED
    BY <2>1, <2>2, <2>4, <2>5, Zenon
<1> QED
  BY <1>1, <1>2, Zenon DEF NotFound

\* A removal is over, for whoever asked for it.
LEMMA RemovedMoves ==
    ASSUME TypeOK, NEW p \in Procs, Removed(p)
    PROVE  /\ Moved(p)
           /\ p \in Containers => act'[p].pc = "release" /\ act'[p].todo = act[p].todo
           /\ p \notin Containers => act'[p].pc \in {"prune", "idle"}
<1> DEFINE r(pc) == [act[p] EXCEPT !.pc = pc, !.vol = None]
<1>1. act[p] \in Acts /\ Idle \in Acts /\ Idle.pc = "idle"
  BY Zenon DEF TypeOK, Acts, Idle
<1>2. \A pc \in {"release", "prune"} : r(pc) \in Acts /\ r(pc).pc = pc /\ r(pc).todo = act[p].todo
  BY <1>1, Zenon DEF Acts
<1>3. \/ p \in Containers /\ act' = [act EXCEPT ![p] = r("release")]
      \/ p \notin Containers /\ act' = [act EXCEPT ![p] = r("prune")]
      \/ p \notin Containers /\ act' = [act EXCEPT ![p] = Idle]
  BY Zenon DEF Removed
<1> HIDE DEF r
<1> QED
  BY <1>1, <1>2, <1>3, Zenon DEF TypeOK, Moved

\* A process goes on with a volume.
LEMMA GoesOnMoves ==
    ASSUME TypeOK, NEW p \in Procs, NEW pc \in {"record", "remove", "purge"}, NEW v \in Volumes,
           \/ act' = [act EXCEPT ![p].pc = pc, ![p].vol = v]
           \/ act' = [act EXCEPT ![p].pc = pc] /\ act[p].vol = v
    PROVE  Moved(p) /\ act'[p].pc = pc /\ act'[p].vol = v /\ act'[p].todo = act[p].todo
<1>1. act[p] \in Acts
  BY Zenon DEF TypeOK
<1>2. CASE act' = [act EXCEPT ![p].pc = pc, ![p].vol = v]
  BY <1>1, <1>2, Zenon DEF TypeOK, Acts, Moved
<1>3. CASE act' = [act EXCEPT ![p].pc = pc] /\ act[p].vol = v
  BY <1>1, <1>3, Zenon DEF TypeOK, Acts, Moved
<1> QED
  BY <1>2, <1>3, Zenon

-----------------------------------------------------------------------------
(* The containers *)

\* create starts.
LEMMA CtrCreateKeeps ==
    ASSUME VolumesInv, NEW c \in Containers, NEW from \in SUBSET Volumes, CtrCreate(c, from)
    PROVE  VolumesInv'
<1> USE DEF CtrCreate, Idle
<1>1. TypeOK /\ c \in Procs
  BY Zenon DEF VolumesInv, Procs
<1>2. TypeOK'
  BY <1>1, VolumesAssumption, Zenon DEF TypeOK, Acts, Procs, storeVars
<1>3. Frame(c) /\ CtrOk(c)' /\ LockOk(c)'
  BY <1>1 DEF VolumesInv, CtrOk, LockOk, Frame, TypeOK, Procs, storeVars
<1>4. VolumeInUse' /\ RefsHaveOwner' /\ RefsKnown'
  BY <1>1, Zenon DEF VolumesInv, VolumeInUse, RefsHaveOwner, RefsKnown, TypeOK, storeVars
<1> QED
  BY <1>1, <1>2, <1>3, <1>4, FrameKeeps, Zenon

\* volumes.Create of a volume the store knows.
LEMMA CtrCreateKnownKeeps ==
    ASSUME VolumesInv, NEW c \in Containers, NEW v \in Volumes, CtrCreateKnown(c, v)
    PROVE  VolumesInv'
<1>0. /\ TypeOK /\ c \in Procs /\ CtrOk(c) /\ state[c] = "creating"
      /\ VolumeInUse /\ RefsHaveOwner /\ RefsKnown
  BY Zenon DEF VolumesInv, Procs, CtrCreateKnown, NextMount
<1>1. CASE CreateKnown(v, c) /\ SetVolume(c, v) /\ UNCHANGED <<state, faults>>
  <2>1. Moved(c) /\ act'[c].pc = "next"
    BY <1>0, <1>1, SetVolumeMoves, Zenon DEF CtrCreateKnown, NextMount
  <2>2. /\ v \in names \cap driver /\ refs' = [refs EXCEPT ![v] = @ \cup {c}]
        /\ inited' = [inited EXCEPT ![c] = @ \cup {v}]
        /\ mounted' = [mounted EXCEPT ![c] = @ \cup {v}]
        /\ UNCHANGED <<lock, names, db, driver, forgotten, state, leaked, faults, crashes>>
    BY <1>1, Zenon DEF CreateKnown, SetVolume, WithRef, CtrCreateKnown
  <2>3. TypeOK'
    BY <1>0, <2>1, <2>2, Zenon DEF TypeOK, Moved
  <2>4. Frame(c) /\ CtrOk(c)' /\ LockOk(c)'
    BY <1>0, <2>1, <2>2, Zenon DEF CtrCreateKnown, NextMount, TypeOK, Frame, Moved, CtrOk, LockOk
  <2>5. VolumeInUse' /\ RefsHaveOwner' /\ RefsKnown'
    BY <1>0, <2>2 DEF TypeOK, VolumeInUse, RefsHaveOwner, RefsKnown
  <2> QED
    BY <1>0, <2>3, <2>4, <2>5, FrameKeeps, Zenon
<1>2. CASE CtrFails(c, {}) /\ UNCHANGED <<storeVars, mounted, inited>> /\ faults' \in 0 .. MaxFaults
  <2>1. Failed(c) /\ leaked' = leaked
    BY <1>0, <1>2, CtrFailsMoves, Zenon DEF CtrFails
  <2>2. UNCHANGED <<lock, names, refs, db, driver, forgotten, mounted, inited, crashes>>
    BY <1>2, Zenon DEF CtrCreateKnown, storeVars
  <2>3. TypeOK'
    BY <1>0, <1>2, <2>1, <2>2, Zenon DEF TypeOK, Failed, Moved
  <2>4. Frame(c) /\ CtrOk(c)' /\ LockOk(c)'
    BY <1>0, <2>1, <2>2, Zenon DEF TypeOK, Failed, Frame, Moved, CtrOk, LockOk
  <2>5. VolumeInUse' /\ RefsHaveOwner' /\ RefsKnown'
    BY <1>0, <2>1, <2>2, Zenon DEF TypeOK, Failed, VolumeInUse, RefsHaveOwner, RefsKnown
  <2> QED
    BY <1>0, <2>3, <2>4, <2>5, FrameKeeps, Zenon
<1> QED
  BY <1>0, <1>1, <1>2, VolumesAssumption DEF CtrCreateKnown, Fault, TypeOK

\* A Create that goes on has forgotten what it knew of the volume, which no one uses.
LEMMA NoConflictNames ==
    ASSUME NEW v \in Volumes, NEW nil, NoConflict(v, nil)
    PROVE  names' = names \ {v} /\ db' \in {db, db \ {v}} /\ UNCHANGED <<refs, forgotten>>
BY Zenon DEF NoConflict

LEMMA NoConflictRefs ==
    ASSUME TypeOK, RefsKnown, NEW v \in Volumes, NEW nil, NoConflict(v, nil)
    PROVE  refs[v] = {}
BY Zenon DEF NoConflict, RefsKnown, TypeOK

LEMMA CreateFaults ==
    ASSUME TypeOK, NEW v \in Volumes, NEW p, CreateInDriver(v, p) \/ CreateFails(v)
    PROVE  faults' \in 0 .. MaxFaults
<1>1. faults \in 0 .. MaxFaults /\ (faults' = faults \/ Fault)
  BY Zenon DEF TypeOK, CreateInDriver, CreateFails
<1> QED
  BY <1>1, VolumesAssumption DEF Fault

\* volumes.Create of a new volume.
LEMMA CtrCreateNewKeeps ==
    ASSUME VolumesInv, NEW c \in Containers, NEW v \in Volumes, CtrCreateNew(c, v)
    PROVE  VolumesInv'
<1>0. TypeOK /\ c \in Procs /\ VolumeInUse /\ RefsHaveOwner /\ RefsKnown /\ CtrOk(c) /\ LockOk(c)
      /\ state[c] = "creating" /\ lock[v] = None /\ v \in act[c].todo
  BY Zenon DEF VolumesInv, Procs, CtrCreateNew, NextMount
<1>1. CASE /\ CreateInDriver(v, c) /\ act' = [act EXCEPT ![c].pc = "record", ![c].vol = v]
           /\ UNCHANGED <<state, leaked>>
  <2>1. Moved(c) /\ act'[c].pc = "record" /\ act'[c].vol = v
    BY <1>0, <1>1, GoesOnMoves, Zenon
  <2>2. /\ names' = names \ {v} /\ db' \in {db, db \ {v}} /\ UNCHANGED <<refs, forgotten>>
        /\ driver' = driver \cup {v} /\ lock' = [lock EXCEPT ![v] = c]
        /\ UNCHANGED <<state, mounted, inited, leaked, crashes>>
    BY <1>1, NoConflictNames, Zenon DEF CtrCreateNew, CreateInDriver, Acquire
  <2>3. refs[v] = {} /\ faults' \in 0 .. MaxFaults
    BY <1>0, <1>1, NoConflictRefs, CreateFaults, Zenon DEF CreateInDriver
  <2>4. TypeOK'
    BY <1>0, <1>1, <2>1, <2>2, <2>3, Zenon DEF TypeOK, Moved
  <2>5. Frame(c) /\ LockOk(c)' /\ CtrOk(c)'
    BY <1>0, <2>1, <2>2, <2>3, Zenon DEF TypeOK, Frame, Moved, LockOk, CtrOk
  <2>6. VolumeInUse' /\ RefsHaveOwner' /\ RefsKnown'
    BY <1>0, <2>1, <2>2, <2>3, Zenon DEF TypeOK, VolumeInUse, RefsHaveOwner, RefsKnown, CtrOk
  <2> QED
    BY <1>0, <2>4, <2>5, <2>6, FrameKeeps, Zenon
<1>2. CASE CreateFails(v) /\ CtrFails(c, {})
  <2>1. Failed(c) /\ leaked' = leaked
    BY <1>0, <1>2, CtrFailsMoves, Zenon DEF CtrFails
  <2>2. /\ names' = names \ {v} /\ db' \in {db, db \ {v}} /\ UNCHANGED <<refs, forgotten>>
        /\ UNCHANGED <<lock, driver, mounted, inited, crashes>>
    BY <1>2, NoConflictNames, Zenon DEF CtrCreateNew, CreateFails
  <2>3. refs[v] = {} /\ faults' \in 0 .. MaxFaults
    BY <1>0, <1>2, NoConflictRefs, CreateFaults, Zenon DEF CreateFails
  <2>4. TypeOK'
    BY <1>0, <1>2, <2>1, <2>2, <2>3, Zenon DEF TypeOK, Failed, Moved
  <2>5. Frame(c) /\ LockOk(c)' /\ CtrOk(c)'
    BY <1>0, <2>1, <2>2, <2>3, Zenon DEF TypeOK, Failed, Frame, Moved, LockOk, CtrOk
  <2>6. VolumeInUse' /\ RefsHaveOwner' /\ RefsKnown'
    BY <1>0, <2>1, <2>2, <2>3, Zenon DEF TypeOK, Failed, VolumeInUse, RefsHaveOwner, RefsKnown, CtrOk
  <2> QED
    BY <1>0, <2>4, <2>5, <2>6, FrameKeeps, Zenon
<1> QED
  BY <1>1, <1>2, Zenon DEF CtrCreateNew

\* The end of volumes.Create of a new volume.
LEMMA CtrRecordKeeps ==
    ASSUME VolumesInv, NEW c \in Containers, CtrRecord(c)
    PROVE  VolumesInv'
<1>0. TypeOK /\ c \in Procs /\ VolumeInUse /\ RefsHaveOwner /\ RefsKnown /\ CtrOk(c) /\ LockOk(c)
      /\ state[c] = "creating" /\ act[c].pc = "record"
  BY Zenon DEF VolumesInv, Procs, CtrRecord
<1> DEFINE v == act[c].vol
<1>v. v \in Volumes /\ lock[v] = c /\ refs[v] = {} /\ v \in driver
  BY <1>0, Zenon DEF LockOk
<1> HIDE DEF v
<1>w. [refs EXCEPT ![v] = {}] = refs
  BY <1>0, <1>v, Zenon DEF TypeOK
<1>1. CASE RecordCreate(v, c) /\ SetVolume(c, v) /\ UNCHANGED <<state, faults>>
  <2>1. Moved(c) /\ act'[c].pc = "next"
    BY <1>0, <1>v, <1>1, SetVolumeMoves, Zenon
  <2>2. /\ db' = db \cup {v} /\ names' = names \cup {v} /\ refs' = [refs EXCEPT ![v] = @ \cup {c}]
        /\ lock' = [lock EXCEPT ![v] = None]
        /\ inited' = [inited EXCEPT ![c] = @ \cup {v}]
        /\ mounted' = [mounted EXCEPT ![c] = @ \cup {v}]
        /\ UNCHANGED <<driver, forgotten, state, leaked, faults, crashes>>
    BY <1>w, <1>1, Zenon DEF CtrRecord, RecordCreate, SetVolume, WithRef, Unlock
  <2>3. TypeOK'
    BY <1>0, <1>1, <2>1, <2>2, <1>v DEF TypeOK, Moved
  <2>4. Frame(c) /\ LockOk(c)' /\ CtrOk(c)'
    BY <1>0, <2>1, <2>2, <1>v, Zenon DEF TypeOK, Frame, Moved, LockOk, CtrOk
  <2>5. VolumeInUse' /\ RefsHaveOwner' /\ RefsKnown'
    BY <1>0, <1>v, <2>1, <2>2 DEF TypeOK, VolumeInUse, RefsHaveOwner, RefsKnown, CtrOk
  <2> QED
    BY <1>0, <2>3, <2>4, <2>5, FrameKeeps, Zenon
<1>2. CASE RecordFails(v) /\ Fault /\ CtrFails(c, {}) /\ UNCHANGED <<mounted, inited>>
  <2>1. Failed(c) /\ leaked' = leaked
    BY <1>0, <1>2, CtrFailsMoves, Zenon DEF CtrFails
  <2>2. /\ refs' = refs /\ lock' = [lock EXCEPT ![v] = None] /\ faults' \in 0 .. MaxFaults
        /\ UNCHANGED <<names, db, driver, forgotten, mounted, inited, crashes>>
    BY <1>0, <1>v, <1>2, VolumesAssumption DEF TypeOK, CtrRecord, RecordFails, Unlock, Fault
  <2>3. TypeOK'
    BY <1>0, <1>2, <2>1, <2>2, <1>v, Zenon DEF TypeOK, Failed, Moved
  <2>4. Frame(c) /\ LockOk(c)' /\ CtrOk(c)'
    BY <1>0, <2>1, <2>2, <1>v, Zenon DEF TypeOK, Failed, Frame, Moved, LockOk, CtrOk
  <2>5. VolumeInUse' /\ RefsHaveOwner' /\ RefsKnown'
    BY <1>0, <2>1, <2>2, Zenon DEF TypeOK, Failed, VolumeInUse, RefsHaveOwner, RefsKnown, CtrOk
  <2> QED
    BY <1>0, <2>3, <2>4, <2>5, FrameKeeps, Zenon
<1>3. CASE /\ v \in Anonymous /\ Fault /\ RecordCreate(v, c) /\ CtrFails(c, {<<c, v>>})
           /\ UNCHANGED <<mounted, inited>>
  <2>1. Failed(c) /\ leaked' = leaked \cup {<<c, v>>}
    BY <1>0, <1>3, CtrFailsMoves, Zenon DEF CtrFails
  <2>2. /\ db' = db \cup {v} /\ names' = names \cup {v} /\ refs' = [refs EXCEPT ![v] = @ \cup {c}]
        /\ lock' = [lock EXCEPT ![v] = None]
        /\ UNCHANGED <<driver, forgotten, mounted, inited, crashes>>
    BY <1>w, <1>3, Zenon DEF CtrRecord, RecordCreate, WithRef, Unlock
  <2>3. faults' \in 0 .. MaxFaults
    BY <1>0, <1>3, VolumesAssumption DEF TypeOK, Fault
  <2>4. TypeOK'
    BY <1>0, <1>3, <2>1, <2>2, <2>3, <1>v DEF TypeOK, Failed, Moved
  <2>5. Frame(c) /\ LockOk(c)' /\ CtrOk(c)'
    BY <1>0, <2>1, <2>2, <2>3, <1>v, Zenon DEF TypeOK, Failed, Frame, Moved, LockOk, CtrOk
  <2>6. VolumeInUse' /\ RefsHaveOwner' /\ RefsKnown'
    <3>1. VolumeInUse' /\ RefsKnown'
      BY <1>0, <1>v, <2>2, Zenon DEF TypeOK, VolumeInUse, RefsKnown
    <3>2. \A w \in Volumes : \A d \in refs'[w] : d \in refs[w] \/ (d = c /\ w = v)
      BY <1>0, <1>v, <2>2, Zenon DEF TypeOK
    <3>3. \A d \in Containers : state[d] = "creating" \/ state'[d] = state[d]
            \/ state'[d] \in {"removing", "cleanup"}
      BY <1>0, <2>1, Zenon DEF TypeOK, Failed
    <3>4. \A d \in Containers : state[d] = "creating" =>
             state'[d] \in {"creating", "removing", "cleanup"}
      BY <1>0, <2>1, Zenon DEF TypeOK, Failed
    <3>5. RefsHaveOwner'
      BY <1>0, <2>1, <2>2, <3>2, <3>3, <3>4, Zenon DEF TypeOK, RefsHaveOwner
    <3> QED
      BY <3>1, <3>5
  <2> QED
    BY <1>0, <2>4, <2>5, <2>6, FrameKeeps, Zenon
<1> QED
  BY <1>1, <1>2, <1>3, Zenon DEF CtrRecord, v

\* create fails after registerMountPoints.
LEMMA CtrCreateFailsKeeps ==
    ASSUME VolumesInv, NEW c \in Containers, CtrCreateFails(c)
    PROVE  VolumesInv'
<1>0. TypeOK /\ c \in Procs /\ VolumeInUse /\ RefsHaveOwner /\ RefsKnown /\ CtrOk(c) /\ LockOk(c)
      /\ state[c] = "creating"
  BY Zenon DEF VolumesInv, Procs, CtrCreateFails
<1>1. Failed(c) /\ leaked' = leaked
  BY <1>0, CtrFailsMoves, Zenon DEF CtrCreateFails, CtrFails
<1>2. /\ faults' \in 0 .. MaxFaults
      /\ UNCHANGED <<lock, names, refs, db, driver, forgotten, mounted, inited, crashes>>
  BY <1>0, VolumesAssumption DEF TypeOK, CtrCreateFails, storeVars, Fault
<1>3. TypeOK'
  BY <1>0, <1>1, <1>2, Zenon DEF TypeOK, Failed, Moved
<1>4. Frame(c) /\ LockOk(c)' /\ CtrOk(c)'
  BY <1>0, <1>1, <1>2, Zenon DEF TypeOK, Failed, Frame, Moved, LockOk, CtrOk
<1>5. VolumeInUse' /\ RefsHaveOwner' /\ RefsKnown'
  BY <1>0, <1>1, <1>2, Zenon DEF TypeOK, Failed, VolumeInUse, RefsHaveOwner, RefsKnown, CtrOk
<1> QED
  BY <1>0, <1>3, <1>4, <1>5, FrameKeeps, Zenon

\* cleanupContainer of a failed create.
LEMMA CtrCleanupKeeps ==
    ASSUME VolumesInv, NEW c \in Containers, CtrCleanup(c)
    PROVE  VolumesInv'
<1>0. TypeOK /\ c \in Procs /\ VolumeInUse /\ RefsHaveOwner /\ RefsKnown /\ CtrOk(c) /\ LockOk(c)
      /\ act[c].pc = "cleanup"
  BY Zenon DEF VolumesInv, Procs, CtrCleanup
<1>1. UNCHANGED <<lock, names, refs, db, driver, forgotten, mounted, inited, crashes>>
  BY Zenon DEF CtrCleanup, storeVars
<1>2. faults' \in 0 .. MaxFaults
  BY <1>0, VolumesAssumption DEF TypeOK, CtrCleanup, Fault
<1> DEFINE r == [Idle EXCEPT !.pc = "release", !.todo = inited[c], !.opt = "yes"]
<1>a. /\ act \in [Procs -> Acts] /\ Idle \in Acts /\ r \in Acts
      /\ Idle.pc = "idle" /\ r.pc = "release" /\ r.todo = inited[c]
  BY <1>0, Zenon DEF TypeOK, Acts, Idle
<1>b. \/ /\ act' = [act EXCEPT ![c] = r]
         /\ state' = [state EXCEPT ![c] = "removing"] /\ leaked' = leaked
      \/ /\ act' = [act EXCEPT ![c] = Idle] /\ state' = [state EXCEPT ![c] = "failed"]
         /\ leaked' = leaked \cup {<<c, v>> : v \in inited[c]}
  BY Zenon DEF CtrCleanup
<1> HIDE DEF r
<1>3. \/ /\ Moved(c) /\ act'[c].pc = "release" /\ act'[c].todo = inited[c]
         /\ state' = [state EXCEPT ![c] = "removing"] /\ leaked' = leaked
      \/ /\ Moved(c) /\ act'[c].pc = "idle" /\ state' = [state EXCEPT ![c] = "failed"]
         /\ leaked' = leaked \cup {<<c, v>> : v \in inited[c]}
  BY <1>0, <1>a, <1>b, Zenon DEF Moved
<1>4. leaked' \subseteq Containers \X Volumes
  BY <1>0, <1>3 DEF TypeOK
<1>5. TypeOK'
  BY <1>0, <1>1, <1>2, <1>3, <1>4, Zenon DEF TypeOK, Moved
<1>6. Frame(c) /\ LockOk(c)' /\ CtrOk(c)'
  BY <1>0, <1>1, <1>3, Zenon DEF TypeOK, Frame, Moved, LockOk, CtrOk
<1>7. VolumeInUse' /\ RefsKnown'
  BY <1>0, <1>1, Zenon DEF TypeOK, VolumeInUse, RefsKnown
<1>8. RefsHaveOwner'
  <2> SUFFICES ASSUME NEW v \in Volumes, NEW d \in refs[v]
               PROVE  \/ /\ v \in inited[d]
                         /\ state'[d] \in {"creating", "cleanup", "created", "restored", "removing"}
                      \/ <<d, v>> \in leaked'
    BY <1>1, Zenon DEF RefsHaveOwner
  <2>1. d \in Containers /\ d \in Procs
    BY <1>0, Zenon DEF TypeOK, Procs
  <2>2. CASE d = c
    BY <1>0, <1>3, <2>1, <2>2 DEF TypeOK, RefsHaveOwner
  <2>3. CASE d # c
    BY <1>0, <1>3, <2>1, <2>3, Zenon DEF TypeOK, RefsHaveOwner, Moved
  <2> QED
    BY <2>2, <2>3
<1> QED
  BY <1>0, <1>5, <1>6, <1>7, <1>8, FrameKeeps, Zenon

\* Get of a mount point of --volumes-from.
LEMMA CtrFromKeeps ==
    ASSUME VolumesInv, NEW c \in Containers, NEW v \in Volumes, CtrFrom(c, v)
    PROVE  VolumesInv'
<1>0. /\ TypeOK /\ c \in Procs /\ CtrOk(c) /\ state[c] = "creating" /\ act[c].pc = "from"
      /\ VolumeInUse /\ RefsHaveOwner /\ RefsKnown /\ lock[v] = None
  BY Zenon DEF VolumesInv, Procs, CtrFrom
<1>a. UNCHANGED <<lock, driver, crashes>>
  BY Zenon DEF CtrFrom
<1>1. CASE GetFound(v, c) /\ SetVolume(c, v) /\ UNCHANGED <<db, state>>
  <2>1. Moved(c) /\ act'[c].pc = "from"
    BY <1>0, <1>1, SetVolumeMoves, Zenon
  <2>2. /\ v \in driver /\ names' = names \cup {v} /\ refs' = [refs EXCEPT ![v] = @ \cup {c}]
        /\ inited' = [inited EXCEPT ![c] = @ \cup {v}]
        /\ mounted' = [mounted EXCEPT ![c] = @ \cup {v}]
        /\ UNCHANGED <<db, forgotten, state, leaked, faults>>
    BY <1>1, Zenon DEF GetFound, SetVolume, WithRef
  <2>3. TypeOK'
    BY <1>0, <1>a, <2>1, <2>2, Zenon DEF TypeOK, Moved
  <2>4. Frame(c) /\ CtrOk(c)' /\ LockOk(c)'
    BY <1>0, <1>a, <2>1, <2>2, Zenon DEF TypeOK, Frame, Moved, CtrOk, LockOk
  <2>5. VolumeInUse' /\ RefsHaveOwner' /\ RefsKnown'
    BY <1>0, <1>a, <2>1, <2>2 DEF TypeOK, VolumeInUse, RefsHaveOwner, RefsKnown, Moved
  <2> QED
    BY <1>0, <2>3, <2>4, <2>5, FrameKeeps, Zenon
<1>2. CASE (GetMissing(v) \/ GetFails) /\ CtrFails(c, {}) /\ UNCHANGED <<mounted, inited>>
  <2>1. Failed(c) /\ leaked' = leaked /\ NotFound(v) /\ inited' = inited
    BY <1>0, <1>2, CtrFailsMoves, NotFoundFaults, Zenon DEF CtrFails
  <2>2. /\ VolumeInUse' /\ RefsKnown'
        /\ refs' \in [Volumes -> SUBSET Containers] /\ names' \subseteq Volumes
        /\ db' \subseteq Volumes /\ forgotten' \subseteq Containers \X Volumes
        /\ \A w \in Volumes : refs'[w] \subseteq refs[w] /\ (w # v => refs'[w] = refs[w])
    BY <1>0, <1>a, <2>1, NotFoundKeeps, Zenon
  <2>3. TypeOK'
    <3>1. state' \in [Containers -> {"none", "creating", "cleanup", "failed", "created",
                                     "restored", "removing", "gone"}]
      BY <1>0, <2>1, Zenon DEF TypeOK, Failed
    <3> QED
      BY <1>0, <1>2, <1>a, <2>1, <2>2, <3>1, Zenon DEF TypeOK, Failed, Moved, NotFound
  <2>4. Frame(c) /\ CtrOk(c)' /\ LockOk(c)'
    BY <1>0, <1>a, <2>1, <2>2, Zenon DEF TypeOK, Frame, Failed, Moved, CtrOk, LockOk
  <2>5. RefsHaveOwner'
    BY <1>0, <2>1, <2>2, Zenon DEF TypeOK, RefsHaveOwner, Failed
  <2> QED
    BY <1>0, <2>2, <2>3, <2>4, <2>5, FrameKeeps, Zenon
<1> QED
  BY <1>1, <1>2, Zenon DEF CtrFrom

\* The mount points of --volumes-from are there.
LEMMA CtrFromDoneKeeps ==
    ASSUME VolumesInv, NEW c \in Containers, CtrFromDone(c)
    PROVE  VolumesInv'
<1>0. TypeOK /\ c \in Procs /\ VolumeInUse /\ RefsHaveOwner /\ RefsKnown /\ CtrOk(c) /\ LockOk(c)
      /\ act[c].pc = "from" /\ state[c] = "creating"
  BY Zenon DEF VolumesInv, Procs, CtrFromDone
<1> DEFINE r == [act[c] EXCEPT !.pc = "next", !.todo = Mounts[c] \ mounted[c]]
<1>a. act \in [Procs -> Acts] /\ r \in Acts /\ r.pc = "next" /\ act' = [act EXCEPT ![c] = r]
  BY <1>0, VolumesAssumption, Zenon DEF TypeOK, Acts, CtrFromDone
<1> HIDE DEF r
<1>1. Moved(c) /\ act'[c].pc = "next"
  BY <1>0, <1>a, Zenon DEF Moved
<1>2. /\ UNCHANGED <<lock, names, refs, db, driver, forgotten, faults>>
      /\ UNCHANGED <<state, mounted, inited, leaked, crashes>>
  BY Zenon DEF CtrFromDone, storeVars, ctrVars
<1>3. TypeOK'
  BY <1>0, <1>1, <1>2, Zenon DEF TypeOK, Moved
<1>4. Frame(c) /\ LockOk(c)' /\ CtrOk(c)'
  BY <1>0, <1>1, <1>2, Zenon DEF TypeOK, Frame, Moved, LockOk, CtrOk
<1>5. VolumeInUse' /\ RefsHaveOwner' /\ RefsKnown'
  BY <1>0, <1>1, <1>2, Zenon DEF TypeOK, VolumeInUse, RefsHaveOwner, RefsKnown, CtrOk
<1> QED
  BY <1>0, <1>3, <1>4, <1>5, FrameKeeps, Zenon

\* The container is registered.
LEMMA CtrCreatedKeeps ==
    ASSUME VolumesInv, NEW c \in Containers, CtrCreated(c)
    PROVE  VolumesInv'
<1>0. TypeOK /\ c \in Procs /\ VolumeInUse /\ RefsHaveOwner /\ RefsKnown /\ CtrOk(c) /\ LockOk(c)
      /\ act[c].pc = "next"
  BY Zenon DEF VolumesInv, Procs, CtrCreated
<1>1. Moved(c) /\ act'[c].pc = "idle"
  BY <1>0, Zenon DEF TypeOK, CtrCreated, Idle, Acts, Moved
<1>2. /\ state[c] = "creating" /\ state' = [state EXCEPT ![c] = "created"]
      /\ UNCHANGED <<lock, names, refs, db, driver, forgotten, mounted, inited, leaked, faults, crashes>>
  BY Zenon DEF CtrCreated, storeVars
<1>3. TypeOK'
  BY <1>0, <1>1, <1>2, Zenon DEF TypeOK, Moved
<1>4. Frame(c) /\ LockOk(c)' /\ CtrOk(c)'
  BY <1>0, <1>1, <1>2, Zenon DEF TypeOK, Frame, Moved, LockOk, CtrOk
<1>5. VolumeInUse' /\ RefsHaveOwner' /\ RefsKnown'
  BY <1>0, <1>1, <1>2, Zenon DEF TypeOK, VolumeInUse, RefsHaveOwner, RefsKnown, CtrOk
<1> QED
  BY <1>0, <1>3, <1>4, <1>5, FrameKeeps, Zenon

\* lazyInitializeVolume.
LEMMA LazyInitKeeps ==
    ASSUME VolumesInv, NEW c \in Containers, NEW v \in Volumes, LazyInit(c, v)
    PROVE  VolumesInv'
<1>0. TypeOK /\ c \in Procs /\ VolumeInUse /\ RefsHaveOwner /\ RefsKnown /\ CtrOk(c) /\ LockOk(c)
      /\ state[c] \in {"created", "restored"} /\ lock[v] = None
  BY Zenon DEF VolumesInv, Procs, LazyInit
<1>a. /\ Moved(c) /\ act' = act
      /\ UNCHANGED <<lock, driver, mounted, leaked, crashes>>
  BY <1>0, Zenon DEF TypeOK, Moved, LazyInit
<1>1. CASE /\ GetFound(v, c) /\ inited' = [inited EXCEPT ![c] = @ \cup {v}]
           /\ UNCHANGED <<db, state>>
  <2>1. /\ v \in driver /\ names' = names \cup {v} /\ refs' = [refs EXCEPT ![v] = @ \cup {c}]
        /\ inited' = [inited EXCEPT ![c] = @ \cup {v}] /\ UNCHANGED <<db, faults, forgotten, state>>
    BY <1>1, Zenon DEF GetFound, WithRef
  <2>2. TypeOK'
    BY <1>0, <1>a, <2>1, Zenon DEF TypeOK, Moved
  <2>3. Frame(c) /\ LockOk(c)' /\ CtrOk(c)'
    BY <1>0, <1>a, <2>1, Zenon DEF TypeOK, Frame, Moved, LockOk, CtrOk
  <2>4. VolumeInUse' /\ RefsHaveOwner' /\ RefsKnown'
    BY <1>0, <1>a, <2>1 DEF TypeOK, VolumeInUse, RefsHaveOwner, RefsKnown, CtrOk
  <2> QED
    BY <1>0, <2>2, <2>3, <2>4, FrameKeeps, Zenon
<1>2. CASE /\ GetMissing(v) \/ GetFails
           /\ inited' = inited /\ state' = [state EXCEPT ![c] = "created"]
  <2>1. NotFound(v)
    BY <1>0, <1>2, NotFoundFaults, Zenon
  <2>2. /\ VolumeInUse' /\ RefsKnown'
        /\ refs' \in [Volumes -> SUBSET Containers] /\ names' \subseteq Volumes
        /\ db' \subseteq Volumes /\ forgotten' \subseteq Containers \X Volumes
        /\ \A w \in Volumes : refs'[w] \subseteq refs[w] /\ (w # v => refs'[w] = refs[w])
    BY <1>0, <1>2, <1>a, <2>1, NotFoundKeeps, Zenon
  <2>3. TypeOK'
    BY <1>0, <1>2, <1>a, <2>1, <2>2, Zenon DEF TypeOK, Moved, NotFound
  <2>4. Frame(c) /\ LockOk(c)' /\ CtrOk(c)'
    BY <1>0, <1>2, <1>a, <2>2, Zenon DEF TypeOK, Frame, Moved, LockOk, CtrOk
  <2>5. RefsHaveOwner'
    BY <1>0, <1>2, <1>a, <2>2, Zenon DEF TypeOK, RefsHaveOwner
  <2> QED
    BY <1>0, <2>2, <2>3, <2>4, <2>5, FrameKeeps, Zenon
<1> QED
  BY <1>1, <1>2, Zenon DEF LazyInit

\* LiveRestoreVolume fails.
LEMMA LiveRestoreKeeps ==
    ASSUME VolumesInv, NEW c \in Containers, NEW v \in Volumes, LiveRestore(c, v)
    PROVE  VolumesInv'
<1>0. TypeOK /\ c \in Procs /\ VolumeInUse /\ RefsHaveOwner /\ RefsKnown /\ CtrOk(c) /\ LockOk(c)
      /\ state[c] = "restored" /\ lock[v] = None
  BY Zenon DEF VolumesInv, Procs, LiveRestore
<1>a. /\ Moved(c) /\ act' = act /\ state' = [state EXCEPT ![c] = "created"]
      /\ UNCHANGED <<lock, driver, mounted, inited, leaked, crashes>>
  BY <1>0, Zenon DEF TypeOK, Moved, LiveRestore
<1>1. NotFound(v)
  BY <1>0, NotFoundFaults, Zenon DEF LiveRestore
<1>2. /\ VolumeInUse' /\ RefsKnown'
      /\ refs' \in [Volumes -> SUBSET Containers] /\ names' \subseteq Volumes
      /\ db' \subseteq Volumes /\ forgotten' \subseteq Containers \X Volumes
      /\ \A w \in Volumes : refs'[w] \subseteq refs[w] /\ (w # v => refs'[w] = refs[w])
  BY <1>0, <1>a, <1>1, NotFoundKeeps, Zenon
<1>3. TypeOK'
  BY <1>0, <1>a, <1>1, <1>2, Zenon DEF TypeOK, Moved, NotFound
<1>4. Frame(c) /\ LockOk(c)' /\ CtrOk(c)'
  BY <1>0, <1>a, <1>2, Zenon DEF TypeOK, Frame, Moved, LockOk, CtrOk
<1>5. RefsHaveOwner'
  BY <1>0, <1>a, <1>2, Zenon DEF TypeOK, RefsHaveOwner
<1> QED
  BY <1>0, <1>2, <1>3, <1>4, <1>5, FrameKeeps, Zenon

\* prepareMountPoints is done.
LEMMA PreparedKeeps ==
    ASSUME VolumesInv, NEW c \in Containers, Prepared(c)
    PROVE  VolumesInv'
<1>0. TypeOK /\ c \in Procs /\ VolumeInUse /\ RefsHaveOwner /\ RefsKnown /\ CtrOk(c) /\ LockOk(c)
      /\ state[c] = "restored"
  BY Zenon DEF VolumesInv, Procs, Prepared
<1>1. /\ Moved(c) /\ act' = act /\ state' = [state EXCEPT ![c] = "created"]
      /\ UNCHANGED <<lock, names, refs, db, driver, forgotten, mounted, inited, leaked, faults, crashes>>
  BY <1>0, Zenon DEF TypeOK, Prepared, Moved, storeVars
<1>2. TypeOK'
  BY <1>0, <1>1, Zenon DEF TypeOK, Moved
<1>3. Frame(c) /\ LockOk(c)' /\ CtrOk(c)'
  BY <1>0, <1>1, Zenon DEF TypeOK, Frame, Moved, LockOk, CtrOk
<1>4. VolumeInUse' /\ RefsHaveOwner' /\ RefsKnown'
  BY <1>0, <1>1, Zenon DEF TypeOK, VolumeInUse, RefsHaveOwner, RefsKnown, CtrOk
<1> QED
  BY <1>0, <1>2, <1>3, <1>4, FrameKeeps, Zenon

\* removeMountPoints starts.
LEMMA CtrRemoveKeeps ==
    ASSUME VolumesInv, NEW c \in Containers, NEW rm \in {"yes", "no"}, CtrRemove(c, rm)
    PROVE  VolumesInv'
<1>0. TypeOK /\ c \in Procs /\ VolumeInUse /\ RefsHaveOwner /\ RefsKnown /\ CtrOk(c) /\ LockOk(c)
      /\ state[c] = "created"
  BY Zenon DEF VolumesInv, Procs, CtrRemove
<1>1. Moved(c) /\ act'[c].pc = "release" /\ act'[c].todo = inited[c]
  BY <1>0, Zenon DEF TypeOK, CtrRemove, Idle, Acts, Moved
<1>2. /\ state' = [state EXCEPT ![c] = "removing"]
      /\ UNCHANGED <<lock, names, refs, db, driver, forgotten, mounted, inited, leaked, faults, crashes>>
  BY Zenon DEF CtrRemove, storeVars
<1>3. TypeOK'
  BY <1>0, <1>1, <1>2, Zenon DEF TypeOK, Moved
<1>4. Frame(c) /\ LockOk(c)' /\ CtrOk(c)'
  BY <1>0, <1>1, <1>2, Zenon DEF TypeOK, Frame, Moved, LockOk, CtrOk
<1>5. VolumeInUse' /\ RefsHaveOwner' /\ RefsKnown'
  BY <1>0, <1>1, <1>2, Zenon DEF TypeOK, VolumeInUse, RefsHaveOwner, RefsKnown, CtrOk
<1> QED
  BY <1>0, <1>3, <1>4, <1>5, FrameKeeps, Zenon

\* Release of one mount point.
LEMMA CtrReleaseKeeps ==
    ASSUME VolumesInv, NEW c \in Containers, NEW v \in Volumes, CtrRelease(c, v)
    PROVE  VolumesInv'
<1>0. TypeOK /\ c \in Procs /\ VolumeInUse /\ RefsHaveOwner /\ RefsKnown /\ CtrOk(c) /\ LockOk(c)
      /\ act[c].pc = "release" /\ lock[v] = None
  BY Zenon DEF VolumesInv, Procs, CtrRelease
<1> DEFINE g == [act[c] EXCEPT !.pc = "get", !.vol = v, !.todo = @ \ {v}]
           r == [act[c] EXCEPT !.todo = @ \ {v}]
<1>a. /\ c \in Procs /\ act \in [Procs -> Acts]
      /\ g \in Acts /\ g.pc = "get" /\ g.vol = v /\ g.todo = act[c].todo \ {v}
      /\ r \in Acts /\ r.pc = "release" /\ r.todo = act[c].todo \ {v}
  BY <1>0, Zenon DEF TypeOK, Acts
<1>b. act' = [act EXCEPT ![c] = g] \/ act' = [act EXCEPT ![c] = r]
  BY Zenon DEF CtrRelease
<1> HIDE DEF g, r
<1>1. /\ Moved(c) /\ act'[c].pc \in {"release", "get"} /\ act'[c].todo = act[c].todo \ {v}
      /\ act'[c].pc = "get" => act'[c].vol = v
  BY <1>a, <1>b, Zenon DEF TypeOK, Moved
<1>2. /\ refs' = [refs EXCEPT ![v] = @ \ {c}] /\ inited' = [inited EXCEPT ![c] = @ \ {v}]
      /\ forgotten' = forgotten \ {<<c, v>>}
      /\ UNCHANGED <<lock, names, db, driver, state, mounted, leaked, faults, crashes>>
  BY Zenon DEF CtrRelease, Release
<1>3. TypeOK'
  BY <1>0, <1>1, <1>2, Zenon DEF TypeOK, Moved
<1>4. Frame(c) /\ LockOk(c)' /\ CtrOk(c)'
  BY <1>0, <1>1, <1>2, Zenon DEF TypeOK, Frame, Moved, LockOk, CtrOk
<1>5. VolumeInUse' /\ RefsHaveOwner' /\ RefsKnown'
  BY <1>0, <1>1, <1>2, Zenon DEF TypeOK, VolumeInUse, RefsHaveOwner, RefsKnown, CtrOk
<1> QED
  BY <1>0, <1>3, <1>4, <1>5, FrameKeeps, Zenon

\* The container is gone.
LEMMA CtrGoneKeeps ==
    ASSUME VolumesInv, NEW c \in Containers, CtrGone(c)
    PROVE  VolumesInv'
<1>0. TypeOK /\ c \in Procs /\ VolumeInUse /\ RefsHaveOwner /\ RefsKnown /\ CtrOk(c) /\ LockOk(c)
      /\ act[c].pc = "release" /\ act[c].todo = {}
  BY Zenon DEF VolumesInv, Procs, CtrGone
<1>1. Moved(c) /\ act'[c].pc = "idle"
  BY <1>0, Zenon DEF TypeOK, CtrGone, Idle, Acts, Moved
<1>2. /\ state' = [state EXCEPT ![c] = "gone"]
      /\ UNCHANGED <<lock, names, refs, db, driver, forgotten, mounted, inited, leaked, faults, crashes>>
  BY Zenon DEF CtrGone, storeVars
<1>3. TypeOK'
  BY <1>0, <1>1, <1>2, Zenon DEF TypeOK, Moved
<1>4. Frame(c) /\ LockOk(c)' /\ CtrOk(c)'
  BY <1>0, <1>1, <1>2, Zenon DEF TypeOK, Frame, Moved, LockOk, CtrOk
<1>5. VolumeInUse' /\ RefsHaveOwner' /\ RefsKnown'
  BY <1>0, <1>1, <1>2, Zenon DEF TypeOK, VolumeInUse, RefsHaveOwner, RefsKnown, CtrOk
<1> QED
  BY <1>0, <1>3, <1>4, <1>5, FrameKeeps, Zenon

-----------------------------------------------------------------------------
(* The clients *)

\* A client asks for a removal.
LEMMA ClientCallKeeps ==
    ASSUME VolumesInv, NEW p \in Clients, NEW v \in Volumes, ClientCall(p, v)
    PROVE  VolumesInv'
<1>0. TypeOK /\ p \in Procs /\ VolumeInUse /\ RefsHaveOwner /\ RefsKnown /\ LockOk(p)
      /\ p \notin Containers
  BY VolumesAssumption, Zenon DEF VolumesInv, Procs, ClientCall
<1>1. Moved(p) /\ act'[p].pc = "get" /\ act'[p].vol = v
  BY <1>0, Zenon DEF TypeOK, ClientCall, Idle, Acts, Moved
<1>2. /\ UNCHANGED <<lock, names, refs, db, driver, forgotten, faults>>
      /\ UNCHANGED <<state, mounted, inited, leaked, crashes>>
  BY Zenon DEF ClientCall, storeVars, ctrVars
<1>3. TypeOK'
  BY <1>0, <1>1, <1>2, Zenon DEF TypeOK, Moved
<1>4. Frame(p) /\ LockOk(p)'
  BY <1>0, <1>1, <1>2, Zenon DEF TypeOK, Frame, Moved, LockOk
<1>5. VolumeInUse' /\ RefsHaveOwner' /\ RefsKnown'
  BY <1>0, <1>1, <1>2, Zenon DEF TypeOK, VolumeInUse, RefsHaveOwner, RefsKnown
<1> QED
  BY <1>0, <1>3, <1>4, <1>5, FrameKeeps, Zenon

\* volume create, up to the answer of the driver.
LEMMA ClientCreateKeeps ==
    ASSUME VolumesInv, NEW p \in Clients, NEW v \in Volumes, ClientCreate(p, v)
    PROVE  VolumesInv'
<1>0. TypeOK /\ p \in Procs /\ VolumeInUse /\ RefsHaveOwner /\ RefsKnown /\ LockOk(p)
      /\ act[p] = Idle /\ act[p].pc = "idle" /\ lock[v] = None /\ p \notin Containers
  BY VolumesAssumption DEF VolumesInv, Procs, ClientCreate, Idle
<1>a. UNCHANGED <<state, mounted, inited, leaked, crashes>>
  BY Zenon DEF ClientCreate, ctrVars
<1>1. CASE /\ CreateInDriver(v, p)
           /\ act' = [act EXCEPT ![p] = [Idle EXCEPT !.pc = "record", !.vol = v]]
  <2>1. Moved(p) /\ act'[p].pc = "record" /\ act'[p].vol = v
    BY <1>0, <1>1, Zenon DEF TypeOK, Idle, Acts, Moved
  <2>2. /\ names' = names \ {v} /\ db' \in {db, db \ {v}} /\ UNCHANGED <<refs, forgotten>>
        /\ driver' = driver \cup {v} /\ lock' = [lock EXCEPT ![v] = p]
        /\ refs[v] = {} /\ faults' \in 0 .. MaxFaults
    BY <1>0, <1>1, NoConflictNames, NoConflictRefs, CreateFaults, Zenon DEF CreateInDriver, Acquire
  <2>3. TypeOK'
    BY <1>0, <1>1, <1>a, <2>1, <2>2, Zenon DEF TypeOK, Moved
  <2>4. Frame(p) /\ LockOk(p)'
    BY <1>0, <1>a, <2>1, <2>2, Zenon DEF TypeOK, Frame, Moved, LockOk
  <2>5. VolumeInUse' /\ RefsHaveOwner' /\ RefsKnown'
    BY <1>0, <1>a, <2>1, <2>2, Zenon DEF TypeOK, VolumeInUse, RefsHaveOwner, RefsKnown
  <2> QED
    BY <1>0, <2>3, <2>4, <2>5, FrameKeeps, Zenon
<1>2. CASE CreateFails(v) /\ act' = act
  <2>1. Moved(p) /\ act' = act
    BY <1>0, <1>2, Zenon DEF TypeOK, Moved
  <2>2. /\ names' = names \ {v} /\ db' \in {db, db \ {v}} /\ UNCHANGED <<refs, forgotten>>
        /\ refs[v] = {} /\ faults' \in 0 .. MaxFaults /\ UNCHANGED <<lock, driver>>
    BY <1>0, <1>2, NoConflictNames, NoConflictRefs, CreateFaults, Zenon DEF CreateFails
  <2>3. TypeOK'
    BY <1>0, <1>2, <1>a, <2>1, <2>2, Zenon DEF TypeOK, Moved
  <2>4. Frame(p) /\ LockOk(p)'
    BY <1>0, <1>a, <2>1, <2>2, Zenon DEF TypeOK, Frame, Moved, LockOk
  <2>5. VolumeInUse' /\ RefsHaveOwner' /\ RefsKnown'
    BY <1>0, <1>a, <2>1, <2>2, Zenon DEF TypeOK, VolumeInUse, RefsHaveOwner, RefsKnown
  <2> QED
    BY <1>0, <2>3, <2>4, <2>5, FrameKeeps, Zenon
<1> QED
  BY <1>1, <1>2, Zenon DEF ClientCreate

\* The end of volume create.
LEMMA ClientRecordKeeps ==
    ASSUME VolumesInv, NEW p \in Clients, ClientRecord(p)
    PROVE  VolumesInv'
<1>0. TypeOK /\ p \in Procs /\ VolumeInUse /\ RefsHaveOwner /\ RefsKnown /\ LockOk(p)
      /\ act[p].pc = "record" /\ p \notin Containers
  BY VolumesAssumption, Zenon DEF VolumesInv, Procs, ClientRecord
<1> DEFINE v == act[p].vol
<1>v. v \in Volumes /\ lock[v] = p /\ refs[v] = {} /\ v \in driver
  BY <1>0, Zenon DEF LockOk
<1> HIDE DEF v
<1>w. [refs EXCEPT ![v] = {}] = refs
  BY <1>0, <1>v, Zenon DEF TypeOK
<1>x. /\ Moved(p) /\ act'[p].pc = "idle"
      /\ UNCHANGED <<driver, forgotten, state, mounted, inited, leaked, crashes>>
  BY <1>0, Zenon DEF TypeOK, ClientRecord, RecordCreate, RecordFails, ctrVars, Idle, Acts, Moved
<1>y. refs' = refs /\ lock' = [lock EXCEPT ![v] = None]
  BY <1>0, <1>w, Zenon DEF ClientRecord, RecordCreate, RecordFails, WithRef, Unlock, v
<1>z. /\ faults' \in 0 .. MaxFaults
      /\ names' \in {names, names \cup {v}} /\ db' \in {db, db \cup {v}}
  BY <1>0, VolumesAssumption DEF ClientRecord, RecordCreate, RecordFails, Fault, TypeOK, v
<1>1. TypeOK'
  BY <1>0, <1>v, <1>x, <1>y, <1>z, Zenon DEF TypeOK, Moved
<1>2. Frame(p) /\ LockOk(p)'
  BY <1>0, <1>v, <1>x, <1>y, Zenon DEF TypeOK, Frame, Moved, LockOk
<1>3. VolumeInUse' /\ RefsHaveOwner' /\ RefsKnown'
  BY <1>0, <1>x, <1>y, <1>z, Zenon DEF TypeOK, VolumeInUse, RefsHaveOwner, RefsKnown
<1> QED
  BY <1>0, <1>1, <1>2, <1>3, FrameKeeps, Zenon

\* A prune lists what it will remove.
LEMMA PruneKeeps ==
    ASSUME VolumesInv, NEW p \in Clients, Prune(p)
    PROVE  VolumesInv'
<1>0. TypeOK /\ p \in Procs /\ VolumeInUse /\ RefsHaveOwner /\ RefsKnown /\ LockOk(p)
      /\ p \notin Containers
  BY VolumesAssumption, Zenon DEF VolumesInv, Procs, Prune
<1> DEFINE r(listed) == [Idle EXCEPT !.pc = "prune", !.opt = "prune",
                              !.todo = {v \in listed : refs[v] = {}}]
<1>a. \A listed \in SUBSET Volumes : r(listed) \in Acts /\ r(listed).pc = "prune"
  BY Zenon DEF Idle, Acts
<1>b. /\ \E listed \in SUBSET Volumes : act' = [act EXCEPT ![p] = r(listed)]
      /\ p \in Procs /\ act \in [Procs -> Acts]
  BY <1>0, Zenon DEF Prune, TypeOK
<1> HIDE DEF r
<1>1. Moved(p) /\ act'[p].pc = "prune"
  BY <1>a, <1>b, Zenon DEF TypeOK, Moved
<1>2. /\ UNCHANGED <<lock, names, refs, db, driver, forgotten, faults>>
      /\ UNCHANGED <<state, mounted, inited, leaked, crashes>>
  BY Zenon DEF Prune, storeVars, ctrVars
<1>3. TypeOK'
  BY <1>0, <1>1, <1>2, Zenon DEF TypeOK, Moved
<1>4. Frame(p) /\ LockOk(p)'
  BY <1>0, <1>1, <1>2, Zenon DEF TypeOK, Frame, Moved, LockOk
<1>5. VolumeInUse' /\ RefsHaveOwner' /\ RefsKnown'
  BY <1>0, <1>1, <1>2, Zenon DEF TypeOK, VolumeInUse, RefsHaveOwner, RefsKnown
<1> QED
  BY <1>0, <1>3, <1>4, <1>5, FrameKeeps, Zenon

\* A prune goes on.
LEMMA PruneNextKeeps ==
    ASSUME VolumesInv, NEW p \in Clients, PruneNext(p)
    PROVE  VolumesInv'
<1>0. TypeOK /\ p \in Procs /\ VolumeInUse /\ RefsHaveOwner /\ RefsKnown /\ LockOk(p)
      /\ p \notin Containers
  BY VolumesAssumption, Zenon DEF VolumesInv, Procs, PruneNext
<1> DEFINE r(v) == [act[p] EXCEPT !.pc = "remove", !.vol = v, !.todo = @ \ {v}]
<1>a. p \in Procs /\ act \in [Procs -> Acts] /\ Idle \in Acts /\ Idle.pc = "idle"
  BY <1>0, Zenon DEF TypeOK, Idle, Acts
<1>b. \A v \in Volumes : r(v) \in Acts /\ r(v).pc = "remove" /\ r(v).vol = v
  BY <1>a, Zenon DEF Acts
<1>c. act' = [act EXCEPT ![p] = Idle] \/ \E v \in Volumes : act' = [act EXCEPT ![p] = r(v)]
  <2>1. act[p].todo \subseteq Volumes
    BY <1>a, Zenon DEF Acts
  <2> QED
    BY <2>1, Zenon DEF PruneNext
<1> HIDE DEF r
<1>1. /\ Moved(p) /\ act'[p].pc \in {"remove", "idle"}
      /\ act'[p].pc = "remove" => act'[p].vol \in Volumes
  BY <1>a, <1>b, <1>c DEF Moved
<1>2. /\ UNCHANGED <<lock, names, refs, db, driver, forgotten, faults>>
      /\ UNCHANGED <<state, mounted, inited, leaked, crashes>>
  BY Zenon DEF PruneNext, storeVars, ctrVars
<1>3. TypeOK'
  BY <1>0, <1>1, <1>2, Zenon DEF TypeOK, Moved
<1>4. Frame(p) /\ LockOk(p)'
  BY <1>0, <1>1, <1>2, Zenon DEF TypeOK, Frame, Moved, LockOk
<1>5. VolumeInUse' /\ RefsHaveOwner' /\ RefsKnown'
  BY <1>0, <1>1, <1>2, Zenon DEF TypeOK, VolumeInUse, RefsHaveOwner, RefsKnown
<1> QED
  BY <1>0, <1>3, <1>4, <1>5, FrameKeeps, Zenon

-----------------------------------------------------------------------------
(* Removal of a volume, by a client or a container *)

\* Get of VolumesService.Remove.
LEMMA RemoveGetKeeps ==
    ASSUME VolumesInv, NEW p \in Procs, RemoveGet(p)
    PROVE  VolumesInv'
<1>0. /\ TypeOK /\ VolumeInUse /\ RefsHaveOwner /\ RefsKnown /\ LockOk(p) /\ act[p].pc = "get"
      /\ p \in Containers => CtrOk(p)
  BY Zenon DEF VolumesInv, RemoveGet
<1> DEFINE v == act[p].vol
<1>v. v \in Volumes /\ lock[v] = None
  BY <1>0, Zenon DEF LockOk, RemoveGet
<1>c. UNCHANGED <<state, mounted, inited, leaked, crashes>>
  BY Zenon DEF RemoveGet, ctrVars
<1> HIDE DEF v
<1>1. CASE /\ v \in driver /\ names' = names \cup {v} /\ db' = db \cup {v}
          /\ act' = [act EXCEPT ![p].pc = "remove"] /\ UNCHANGED <<refs, forgotten, faults>>
  <2>1. Moved(p) /\ act'[p].pc = "remove" /\ act'[p].vol = v /\ act'[p].todo = act[p].todo
    BY <1>0, <1>v, <1>1, GoesOnMoves, Zenon DEF v
  <2>2. /\ names' = names \cup {v} /\ db' = db \cup {v}
        /\ UNCHANGED <<lock, driver, refs, forgotten, faults>>
    BY <1>1, Zenon DEF RemoveGet
  <2>3. TypeOK'
    BY <1>0, <1>v, <1>c, <2>1, <2>2, Zenon DEF TypeOK, Moved
  <2>4. Frame(p) /\ LockOk(p)' /\ (p \in Containers => CtrOk(p)')
    BY <1>0, <1>v, <1>c, <2>1, <2>2, Zenon DEF TypeOK, Frame, Moved, LockOk, CtrOk
  <2>5. VolumeInUse' /\ RefsHaveOwner' /\ RefsKnown'
    BY <1>0, <1>v, <1>c, <2>1, <2>2, Zenon DEF TypeOK, VolumeInUse, RefsHaveOwner, RefsKnown
  <2> QED
    BY <1>0, <2>3, <2>4, <2>5, FrameKeeps, Zenon
<1>2. CASE (GetMissing(v) \/ GetFails) /\ Removed(p)
  <2>1. /\ Moved(p) /\ NotFound(v) /\ UNCHANGED <<lock, driver>>
        /\ p \in Containers => act'[p].pc = "release" /\ act'[p].todo = act[p].todo
        /\ p \notin Containers => act'[p].pc \in {"prune", "idle"}
    BY <1>0, <1>v, <1>2, RemovedMoves, NotFoundFaults, Zenon DEF RemoveGet
  <2>2. /\ VolumeInUse' /\ RefsKnown'
        /\ refs' \in [Volumes -> SUBSET Containers] /\ names' \subseteq Volumes
        /\ db' \subseteq Volumes /\ forgotten' \subseteq Containers \X Volumes
        /\ \A w \in Volumes : refs'[w] \subseteq refs[w] /\ (w # v => refs'[w] = refs[w])
    BY <1>0, <1>v, <1>c, <2>1, NotFoundKeeps, Zenon
  <2>3. TypeOK'
    BY <1>0, <1>v, <1>c, <2>1, <2>2, Zenon DEF TypeOK, Moved, NotFound
  <2>4. Frame(p) /\ LockOk(p)' /\ (p \in Containers => CtrOk(p)')
    BY <1>0, <1>v, <1>c, <2>1, <2>2, Zenon DEF TypeOK, Frame, Moved, LockOk, CtrOk
  <2>5. RefsHaveOwner'
    BY <1>0, <1>v, <1>c, <2>1, <2>2, Zenon DEF TypeOK, RefsHaveOwner
  <2> QED
    BY <1>0, <2>2, <2>3, <2>4, <2>5, FrameKeeps, Zenon
<1> QED
  BY <1>1, <1>2, Zenon DEF RemoveGet, v

\* Remove of the store, up to the answer of the driver.
LEMMA RemoveKeeps ==
    ASSUME VolumesInv, NEW p \in Procs, Remove(p)
    PROVE  VolumesInv'
<1>0. /\ TypeOK /\ VolumeInUse /\ RefsHaveOwner /\ RefsKnown /\ LockOk(p) /\ act[p].pc = "remove"
      /\ p \in Containers => CtrOk(p)
  BY Zenon DEF VolumesInv, Remove
<1> DEFINE v == act[p].vol
<1>v. v \in Volumes /\ lock[v] = None
  BY <1>0, Zenon DEF LockOk, Remove
<1>c. UNCHANGED <<state, mounted, inited, leaked, crashes>>
  BY Zenon DEF Remove, ctrVars
<1> HIDE DEF v
<1>1. CASE RemoveInDriver(v, p) /\ faults' = faults /\ act' = [act EXCEPT ![p].pc = "purge"]
  <2>1. Moved(p) /\ act'[p].pc = "purge" /\ act'[p].vol = v /\ act'[p].todo = act[p].todo
    BY <1>0, <1>v, <1>1, GoesOnMoves, Zenon DEF v
  <2>2. /\ refs[v] = {} /\ driver' = driver \ {v} /\ lock' = [lock EXCEPT ![v] = p]
        /\ UNCHANGED <<names, refs, db, forgotten, faults>>
    BY <1>1, Zenon DEF RemoveInDriver, Acquire, KeepsRecords
  <2>3. TypeOK'
    BY <1>0, <1>v, <1>c, <2>1, <2>2, Zenon DEF TypeOK, Moved
  <2>4. Frame(p) /\ LockOk(p)' /\ (p \in Containers => CtrOk(p)')
    BY <1>0, <1>v, <1>c, <2>1, <2>2, Zenon DEF TypeOK, Frame, Moved, LockOk, CtrOk
  <2>5. VolumeInUse' /\ RefsHaveOwner' /\ RefsKnown'
    BY <1>0, <1>v, <1>c, <2>1, <2>2, Zenon DEF TypeOK, VolumeInUse, RefsHaveOwner, RefsKnown
  <2> QED
    BY <1>0, <2>3, <2>4, <2>5, FrameKeeps, Zenon
<1>2. CASE RemoveFails(v) /\ Removed(p)
  <2>0. NotFound(v)
    <3>1. CASE KeepsRecords /\ faults' = faults
      BY <1>0, <3>1, Zenon DEF NotFound, KeepsRecords, TypeOK
    <3> QED
      BY <1>0, <1>v, <1>2, <3>1, NotFoundFaults, Zenon DEF RemoveFails
  <2>1. /\ Moved(p) /\ UNCHANGED <<lock, driver>>
        /\ p \in Containers => act'[p].pc = "release" /\ act'[p].todo = act[p].todo
        /\ p \notin Containers => act'[p].pc \in {"prune", "idle"}
    BY <1>0, <1>2, RemovedMoves, Zenon DEF RemoveFails
  <2>2. /\ VolumeInUse' /\ RefsKnown'
        /\ refs' \in [Volumes -> SUBSET Containers] /\ names' \subseteq Volumes
        /\ db' \subseteq Volumes /\ forgotten' \subseteq Containers \X Volumes
        /\ \A w \in Volumes : refs'[w] \subseteq refs[w] /\ (w # v => refs'[w] = refs[w])
    BY <1>0, <1>v, <1>c, <2>0, <2>1, NotFoundKeeps, Zenon
  <2>3. TypeOK'
    BY <1>0, <1>v, <1>c, <2>0, <2>1, <2>2, Zenon DEF TypeOK, Moved, NotFound
  <2>4. Frame(p) /\ LockOk(p)' /\ (p \in Containers => CtrOk(p)')
    BY <1>0, <1>v, <1>c, <2>1, <2>2, Zenon DEF TypeOK, Frame, Moved, LockOk, CtrOk
  <2>5. RefsHaveOwner'
    BY <1>0, <1>v, <1>c, <2>1, <2>2, Zenon DEF TypeOK, RefsHaveOwner
  <2> QED
    BY <1>0, <2>2, <2>3, <2>4, <2>5, FrameKeeps, Zenon
<1> QED
  BY <1>1, <1>2, Zenon DEF Remove, v

\* The purge at the end of Remove.
LEMMA RemoveEndKeeps ==
    ASSUME VolumesInv, NEW p \in Procs, RemoveEnd(p)
    PROVE  VolumesInv'
<1>0. /\ TypeOK /\ VolumeInUse /\ RefsHaveOwner /\ RefsKnown /\ LockOk(p) /\ act[p].pc = "purge"
      /\ p \in Containers => CtrOk(p)
  BY Zenon DEF VolumesInv, RemoveEnd
<1> DEFINE v == act[p].vol
<1>v. v \in Volumes /\ lock[v] = p /\ refs[v] = {}
  BY <1>0, Zenon DEF LockOk
<1>c. UNCHANGED <<state, mounted, inited, leaked, crashes>>
  BY Zenon DEF RemoveEnd, ctrVars
<1> HIDE DEF v
<1>1. /\ Moved(p)
      /\ p \in Containers => act'[p].pc = "release" /\ act'[p].todo = act[p].todo
      /\ p \notin Containers => act'[p].pc \in {"prune", "idle"}
  BY <1>0, RemovedMoves, Zenon DEF RemoveEnd
<1>2. /\ names' = names \ {v} /\ refs' = [refs EXCEPT ![v] = {}] /\ db' \in {db, db \ {v}}
      /\ driver' = driver /\ lock' = [lock EXCEPT ![v] = None]
      /\ forgotten' = forgotten \cup {<<d, v>> : d \in refs[v]}
  BY Zenon DEF RemoveEnd, RemovePurge, Purge, PurgeCache, Unlock, v
<1>3. faults' \in 0 .. MaxFaults
  BY <1>0, VolumesAssumption DEF RemoveEnd, RemovePurge, Fault, TypeOK
<1>w. forgotten' = forgotten
  BY <1>v, <1>2
<1>4. TypeOK'
  BY <1>0, <1>v, <1>c, <1>1, <1>2, <1>3, <1>w, Zenon DEF TypeOK, Moved
<1>5. Frame(p) /\ LockOk(p)' /\ (p \in Containers => CtrOk(p)')
  BY <1>0, <1>v, <1>c, <1>1, <1>2, <1>3, <1>w, Zenon DEF TypeOK, Frame, Moved, LockOk, CtrOk
<1>6. VolumeInUse' /\ RefsHaveOwner' /\ RefsKnown'
  BY <1>0, <1>v, <1>c, <1>1, <1>2, <1>3, <1>w, Zenon DEF TypeOK, VolumeInUse, RefsHaveOwner, RefsKnown
<1> QED
  BY <1>0, <1>4, <1>5, <1>6, FrameKeeps, Zenon

\* volume inspect, Mount and Unmount.
LEMMA LookupKeeps ==
    ASSUME VolumesInv, NEW v \in Volumes, Lookup(v)
    PROVE  VolumesInv'
<1>0. TypeOK /\ VolumeInUse /\ RefsHaveOwner /\ RefsKnown /\ lock[v] = None
  BY Zenon DEF VolumesInv, Lookup
<1>1. UNCHANGED <<lock, driver, state, mounted, inited, act, leaked, crashes>>
  BY Zenon DEF Lookup, ctrVars
<1>2. /\ VolumeInUse' /\ RefsKnown' /\ faults' \in 0 .. MaxFaults
      /\ refs' \in [Volumes -> SUBSET Containers] /\ names' \subseteq Volumes
      /\ db' \subseteq Volumes /\ forgotten' \subseteq Containers \X Volumes
      /\ \A w \in Volumes : refs'[w] \subseteq refs[w] /\ (w # v => refs'[w] = refs[w])
  <2>1. CASE /\ v \in driver /\ names' = names \cup {v} /\ db' \in {db, db \cup {v}}
             /\ UNCHANGED <<refs, forgotten, faults>>
    BY <1>0, <1>1, <2>1, Zenon DEF TypeOK, VolumeInUse, RefsKnown
  <2>2. CASE GetMissing(v)
    <3>1. NotFound(v)
      BY <1>0, <2>2, NotFoundFaults, Zenon
    <3> QED
      BY <1>0, <1>1, <3>1, NotFoundKeeps, Zenon DEF NotFound
  <2> QED
    BY <2>1, <2>2, Zenon DEF Lookup
<1>3. TypeOK'
  BY <1>0, <1>1, <1>2, Zenon DEF TypeOK
<1>4. RefsHaveOwner'
  BY <1>0, <1>1, <1>2, Zenon DEF TypeOK, RefsHaveOwner
<1>5. ASSUME NEW c \in Containers
      PROVE  CtrOk(c)'
  BY <1>1, Zenon DEF VolumesInv, CtrOk
<1>6. ASSUME NEW p \in Procs
      PROVE  LockOk(p)'
  <2>1. LockOk(p) /\ p # None
    BY VolumesAssumption, Zenon DEF VolumesInv, Procs
  <2> QED
    BY <1>0, <1>1, <1>2, <2>1, Zenon DEF LockOk
<1> QED
  BY <1>2, <1>3, <1>4, <1>5, <1>6, Zenon DEF VolumesInv

-----------------------------------------------------------------------------
(* The invariant *)

\* After a restart there are no references, no locks and no processes.
LEMMA CrashKeeps ==
    ASSUME VolumesInv, Crash
    PROVE  VolumesInv'
<1>1. TypeOK
  BY Zenon DEF VolumesInv
<1>2. TypeOK'
  BY <1>1, VolumesAssumption DEF TypeOK, Acts, Procs, Idle, Crash
<1>3. VolumeInUse' /\ RefsHaveOwner' /\ RefsKnown'
  BY Zenon DEF VolumeInUse, RefsHaveOwner, RefsKnown, Crash
<1>4. ASSUME NEW c \in Containers
      PROVE  CtrOk(c)'
  BY <1>1, Zenon DEF CtrOk, Crash, Idle, Procs, TypeOK
<1>5. ASSUME NEW p \in Procs
      PROVE  LockOk(p)'
  BY Zenon DEF LockOk, Crash, Idle
<1> QED
  BY <1>2, <1>3, <1>4, <1>5, Zenon DEF VolumesInv

\* Every step of a container, of a client and of the daemon keeps the invariant.
LEMMA VolumesStep ==
    VolumesInv /\ [Next]_vars => VolumesInv'
<1> SUFFICES ASSUME VolumesInv, [Next]_vars
             PROVE  VolumesInv'
  BY Zenon
<1>1. ASSUME NEW c \in Containers, \E from \in {{}, From[c]} : CtrCreate(c, from)
      PROVE  VolumesInv'
  BY <1>1, VolumesAssumption, CtrCreateKeeps, Zenon
<1>2. ASSUME NEW c \in Containers,
             \/ CtrFromDone(c) \/ CtrRecord(c) \/ CtrCreateFails(c) \/ CtrCleanup(c)
             \/ CtrCreated(c) \/ Prepared(c) \/ CtrGone(c)
             \/ \E rm \in {"yes", "no"} : CtrRemove(c, rm)
      PROVE  VolumesInv'
  BY <1>2, CtrRecordKeeps, CtrCreateFailsKeeps, CtrCreatedKeeps, PreparedKeeps, CtrGoneKeeps,
     CtrRemoveKeeps, CtrFromDoneKeeps, CtrCleanupKeeps, Zenon
<1>3. ASSUME NEW c \in Containers, NEW v \in Volumes,
             \/ CtrFrom(c, v) \/ CtrCreateKnown(c, v) \/ CtrCreateNew(c, v)
             \/ LazyInit(c, v) \/ LiveRestore(c, v) \/ CtrRelease(c, v)
      PROVE  VolumesInv'
  BY <1>3, CtrFromKeeps, CtrCreateKnownKeeps, CtrCreateNewKeeps, LazyInitKeeps,
     LiveRestoreKeeps, CtrReleaseKeeps, Zenon
<1>4. ASSUME NEW p \in Clients, ClientRecord(p) \/ Prune(p) \/ PruneNext(p)
      PROVE  VolumesInv'
  BY <1>4, ClientRecordKeeps, PruneKeeps, PruneNextKeeps, Zenon
<1>5. ASSUME NEW p \in Clients, NEW v \in Volumes,
             ClientCreate(p, v) \/ ClientCall(p, v)
      PROVE  VolumesInv'
  BY <1>5, ClientCreateKeeps, ClientCallKeeps, Zenon
<1>6. ASSUME NEW p \in Procs, RemoveGet(p) \/ Remove(p) \/ RemoveEnd(p)
      PROVE  VolumesInv'
  BY <1>6, RemoveGetKeeps, RemoveKeeps, RemoveEndKeeps, Zenon
<1>7. CASE UNCHANGED vars
  BY <1>7, Zenon
     DEF VolumesInv, TypeOK, VolumeInUse, RefsHaveOwner, RefsKnown, CtrOk, LockOk, vars,
              storeVars, ctrVars
<1> QED
  BY <1>1, <1>2, <1>3, <1>4, <1>5, <1>6, <1>7, LookupKeeps, CrashKeeps, Zenon DEF Next

\* The inductive invariant holds in every state of the store.
THEOREM VolumesInvariant == Spec => []VolumesInv
<1>1. Init => VolumesInv
  <2> SUFFICES ASSUME Init
               PROVE  VolumesInv
    BY Zenon
  <2>1. TypeOK
    BY VolumesAssumption DEF Init, TypeOK, Idle, Acts, Procs
  <2>2. VolumeInUse /\ RefsHaveOwner /\ RefsKnown
    BY Zenon DEF Init, VolumeInUse, RefsHaveOwner, RefsKnown
  <2>3. ASSUME NEW c \in Containers
        PROVE  CtrOk(c)
    BY Zenon DEF Init, CtrOk, Idle, Procs
  <2>4. ASSUME NEW p \in Procs
        PROVE  LockOk(p)
    BY Zenon DEF Init, LockOk, Idle
  <2> QED
    BY <2>1, <2>2, <2>3, <2>4, Zenon DEF VolumesInv
<1> QED
  BY <1>1, VolumesStep, PTL DEF Spec

\* The volume of an initialised mount point is known, referenced and in its driver,
\* unless getVolume purged it when the driver gave an error for it: hasRef keeps Remove
\* and Prune off it, and the lock of the name keeps a Create and a Remove of one volume
\* apart (store.go).
THEOREM VolumeInUseHolds == Spec => []VolumeInUse
<1>1. VolumesInv => VolumeInUse
  BY Zenon DEF VolumesInv
<1> QED
  BY <1>1, VolumesInvariant, PTL

\* Every reference is released by the container that has it, but for those a failed
\* create leaves: in relabelling, or by a clean-up that fails in turn.
THEOREM RefsHaveOwnerHolds == Spec => []RefsHaveOwner
<1>1. VolumesInv => RefsHaveOwner
  BY Zenon DEF VolumesInv
<1> QED
  BY <1>1, VolumesInvariant, PTL

=============================================================================
