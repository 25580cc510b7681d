------------------------ MODULE LayerTransfersProofs ------------------------
(***************************************************************************)
(* What LayerTransfers keeps true for every number of calls, of layers and *)
(* every limit.  First, each step keeps TransfersInv: the transfer         *)
(* functions, the goroutines of transfer, the calls of Download that look  *)
(* layers up, wait, and let go of their transfers, and those that get one. *)
(***************************************************************************)
EXTENDS LayerTransfers, TLAPS, SequenceTheorems, FiniteSetTheorems

-----------------------------------------------------------------------------
(* Keys *)

\* Taking a prefix: its length, its elements, and prefixes of it.
LEMMA PrefixFacts ==
    ASSUME NEW D, NEW s \in Seq(D), NEW n \in 0 .. Len(s)
    PROVE  /\ Prefix(s, n) \in Seq(D)
           /\ Len(Prefix(s, n)) = n
           /\ n = Len(s) => Prefix(s, n) = s
           /\ \A m \in 0 .. n : Prefix(Prefix(s, n), m) = Prefix(s, m)
<1>1. /\ Prefix(s, n) \in Seq(D)
      /\ Len(Prefix(s, n)) = n
      /\ \A i \in 1 .. n : Prefix(s, n)[i] = s[i]
  BY SubSeqProperties, \A i \in 1 .. n : s[i] \in D DEF Prefix
<1>2. n = Len(s) => Prefix(s, n) = s
  BY <1>1, SeqEqual, Zenon
<1>3. ASSUME NEW m \in 0 .. n
      PROVE  Prefix(Prefix(s, n), m) = Prefix(s, m)
  <2> DEFINE t == Prefix(s, n)
  <2>1. /\ Prefix(t, m) \in Seq(D) /\ Len(Prefix(t, m)) = m
        /\ \A i \in 1 .. m : Prefix(t, m)[i] = t[i]
    BY <1>1, SubSeqProperties, \A i \in 1 .. m : t[i] \in D DEF Prefix
  <2>2. /\ Prefix(s, m) \in Seq(D) /\ Len(Prefix(s, m)) = m
        /\ \A i \in 1 .. m : Prefix(s, m)[i] = s[i]
    BY SubSeqProperties, \A i \in 1 .. m : s[i] \in D DEF Prefix
  <2> QED
    BY <1>1, <2>1, <2>2, SeqEqual
<1> QED
  BY <1>1, <1>2, <1>3, Zenon

\* The key of a transfer that exists is a key of the map, as long as its depth.
LEMMA KeyFacts ==
    ASSUME TypeOK, NEW x \in Xfers, x[2] =< Len(layers[x[1]])
    PROVE  /\ Key(x) \in Keys /\ Key(x) \in Seq(Descriptors)
           /\ Len(Key(x)) = x[2]
<1>1. x[1] \in Callers /\ x[2] \in 1 .. Depth
  BY Zenon DEF Xfers
<1>2. layers[x[1]] \in Seq(Descriptors) /\ layers \in Pulls
  BY <1>1, TransfersAssumption DEF TypeOK
<1>3. x[2] \in 1 .. Len(layers[x[1]])
  BY <1>1, <1>2, TransfersAssumption
<1> QED
  BY <1>1, <1>2, <1>3, PrefixFacts, SMT DEF Key, Keys

-----------------------------------------------------------------------------
\* A step that leaves a transfer alone keeps what holds of it.
LEMMA XferFrame ==
    ASSUME NEW y \in Xfers, XferOK(y), UNCHANGED layers,
           mon'[y] = mon[y], watchers'[y] = watchers[y], job'[y] = job[y],
           y \in cancelled' <=> y \in cancelled, y \in releasedChan' <=> y \in releasedChan,
           y \in start => y \in start', mon[y] = "none" => y \notin start',
           y \in inactive' <=> y \in inactive, y \in held' <=> y \in held,
           Tracked(y) => transfers'[Key(y)] = y,
           y \in cancelled => \A d \in watchers[y] : pc'[d] = "check" /\ cand'[d] = y
    PROVE  XferOK(y)'
<1>1. Key(y)' = Key(y) /\ Tracked(y)' = Tracked(y)
  BY Zenon DEF Key, Tracked
<1>2. /\ mon'[y] = "none" => /\ watchers'[y] = {} /\ job'[y] = NoJob
                             /\ y \notin cancelled' \cup start' \cup inactive' \cup releasedChan'
      /\ mon'[y] # "none" => y[2] =< Len(layers'[y[1]]) /\ job'[y].pc # "none"
      /\ Tracked(y)' => transfers'[Key(y)'] = y
      /\ mon'[y] \in {"closing", "closed"} => job'[y].pc = "done"
      /\ y \in releasedChan' => mon'[y] = "closed" /\ watchers'[y] = {}
  BY <1>1, Zenon DEF XferOK
<1>3. /\ y \in cancelled' => \A d \in watchers'[y] : pc'[d] = "check" /\ cand'[d] = y
      /\ job'[y].pc \notin {"none", "start"} => y \in start'
      /\ y \in inactive' => y \in start'
      /\ mon'[y] = "inactive" => y \in inactive'
  BY Zenon DEF XferOK
<1>4. /\ job'[y].pc = "parent" \/ job'[y].source # None => job'[y].parent # None
      /\ job'[y].pc = "source" => job'[y].source # None
      /\ y \in held' => job'[y].pc = "done"
      /\ job'[y].pc = "done" /\ job'[y].err = "" => y \in held' \cup releasedChan'
  BY Zenon DEF XferOK
<1> QED
  BY <1>2, <1>3, <1>4, Zenon DEF XferOK

-----------------------------------------------------------------------------
(* The transfer function *)

\* A step of a transfer function keeps the invariant: it changes its own
\* downloadTransfer until it is done.
LEMMA JobStep ==
    ASSUME TransfersInv, NEW x \in Xfers, NEW j \in Jobs,
           x \in start, job[x].pc # "done", j.pc \notin {"none", "start"},
           job' = [job EXCEPT ![x] = j],
           inactive' = inactive \/ inactive' = inactive \cup {x},
           held' = held \/ (held' = held \cup {x} /\ j.pc = "done"),
           j.parent = job[x].parent, j.source = job[x].source,
           j.pc = "parent" => j.parent # None,
           j.pc = "source" => j.source # None,
           j.pc = "done" /\ j.err = "" => x \in held',
           UNCHANGED <<layers, mu, tmVars, xferVars, mon, callVars>>
    PROVE  TransfersInv'
<1> USE DEF TransfersInv, tmVars, xferVars, callVars
<1>1. TypeOK'
  BY Zenon DEF TypeOK
<1>2. job'[x] = j /\ \A y \in Xfers : y # x => job'[y] = job[y]
  BY Zenon DEF TypeOK
<1>3. ASSUME NEW y \in Xfers
      PROVE  XferOK(y)'
  <2>1. CASE y # x
    <3>1. /\ XferOK(y) /\ job'[y] = job[y]
          /\ y \in inactive' <=> y \in inactive
          /\ y \in held' <=> y \in held
      BY <2>1, <1>2, Zenon DEF XferInv
    <3>2. Tracked(y) => transfers[Key(y)] = y
      BY <3>1, Zenon DEF XferOK
    <3>3. mon[y] = "none" => y \notin start
      BY <3>1, Zenon DEF XferOK
    <3>4. y \in cancelled => \A d \in watchers[y] : pc[d] = "check" /\ cand[d] = y
      BY <3>1, Zenon DEF XferOK
    <3> QED
      BY <3>1, <3>2, <3>3, <3>4, XferFrame, Zenon
  <2>2. CASE y = x
    <3>1. XferOK(x) /\ job[x] \in Jobs
      BY Zenon DEF XferInv, TypeOK
    <3>2. mon[x] # "none" /\ mon[x] \notin {"closing", "closed"} /\ x \notin releasedChan
      BY <3>1, Zenon DEF XferOK
    <3> QED
      BY <2>2, <3>1, <3>2, <1>2 DEF XferOK, Tracked, Key, Jobs
  <2> QED
    BY <2>1, <2>2, Zenon
<1>4. MapInv'
  BY Zenon DEF MapInv, Key, Tracked
<1>5. ASSUME NEW c \in Callers
      PROVE  CallOK(c)'
  <2>1. ASSUME NEW y \in Xfers, Pulled(c, y)
        PROVE  Pulled(c, y)'
    BY <2>1, <1>2, Zenon DEF Pulled, Key
  <2>2. Watching(c)' = Watching(c) /\ Looping(c)' = Looping(c) /\ Checking(c)' = Checking(c)
    BY Zenon DEF Watching, Looping, Checking, Has, Key, At, Tracked
  <2>3. CallOK(c)
    BY Zenon DEF CallInv
  <2> QED
    BY <2>1, <2>2, <2>3, Zenon DEF CallOK, Key, IsPrefix, TypeOK
<1>6. QueueInv'
  BY Zenon DEF QueueInv, Queued
<1> QED
  BY <1>1, <1>3, <1>4, <1>5, <1>6, Zenon DEF XferInv, CallInv

\* What a step of a transfer function starts from.
LEMMA JobTypes ==
    ASSUME TransfersInv, NEW x \in Xfers
    PROVE  /\ job[x] \in Jobs /\ XferOK(x)
           /\ job[x].pc \in JobPcs /\ job[x].err \in Errors
           /\ job[x].parent \in Xfers \cup {None} /\ job[x].source \in Xfers \cup {None}
           /\ None \notin Xfers
           /\ \A p \in JobPcs : [job[x] EXCEPT !.pc = p] \in Jobs
           /\ \A e \in Errors : [job[x] EXCEPT !.pc = "done", !.err = e] \in Jobs
<1>1. job[x] \in Jobs /\ XferOK(x)
  BY Zenon DEF TransfersInv, TypeOK, XferInv
<1>2. None \notin Xfers
  BY DEF None, Xfers
<1> QED
  BY <1>1, <1>2, Zenon DEF Jobs, JobPcs

LEMMA GotoStep ==
    ASSUME TransfersInv, NEW x \in Xfers, NEW p \in JobPcs,
           x \in start, job[x].pc # "done", p \notin {"none", "start", "done"},
           Goto(x, p),
           inactive' = inactive \/ inactive' = inactive \cup {x},
           p = "parent" => job[x].parent # None,
           p = "source" => job[x].source # None,
           UNCHANGED layers, JobUnchanged
    PROVE  TransfersInv'
<1> DEFINE j == [job[x] EXCEPT !.pc = p]
<1>1. job' = [job EXCEPT ![x] = j] /\ held' = held
  BY Zenon DEF Goto
<1>2. j \in Jobs /\ j.pc = p /\ j.parent = job[x].parent /\ j.source = job[x].source
  BY JobTypes, Zenon DEF Jobs
<1> HIDE DEF j
<1> QED
  BY <1>1, <1>2, JobStep, Zenon DEF JobUnchanged

LEMMA FinishStep ==
    ASSUME TransfersInv, NEW x \in Xfers, NEW e \in Errors \ {""},
           x \in start, job[x].pc # "done",
           Finish(x, e), UNCHANGED <<layers, inactive>>, JobUnchanged
    PROVE  TransfersInv'
<1> DEFINE j == [job[x] EXCEPT !.pc = "done", !.err = e]
<1>1. job' = [job EXCEPT ![x] = j] /\ held' = held
  BY Zenon DEF Finish
<1>2. j \in Jobs /\ j.pc = "done" /\ j.err = e /\ j.parent = job[x].parent /\ j.source = job[x].source
  BY JobTypes, Zenon DEF Jobs
<1> HIDE DEF j
<1> QED
  BY <1>1, <1>2, JobStep, Zenon DEF JobUnchanged

\* Every step of a transfer function keeps the invariant.
LEMMA JobInv ==
    ASSUME TransfersInv, NEW x \in Xfers, Job(x), UNCHANGED layers
    PROVE  TransfersInv'
<1> USE DEF JobPcs, Errors
<1>1. CASE JobStart(x)
  <2>1. CASE job[x].source # None
    BY <1>1, <2>1, JobTypes, GotoStep, Zenon DEF JobStart, XferOK
  <2>2. CASE job[x].source = None /\ ParentFailed(x)
    BY <1>1, <2>2, JobTypes, FinishStep, Zenon DEF JobStart, ParentFailed, IsDone
  <2>3. CASE job[x].source = None /\ ~ParentFailed(x)
    BY <1>1, <2>3, JobTypes, GotoStep, Zenon DEF JobStart
  <2> QED
    BY <2>1, <2>2, <2>3, Zenon
<1>2. CASE Download(x)
  <2>1. x \in start
    BY <1>2, JobTypes, Zenon DEF Download, XferOK
  <2>2. CASE Goto(x, IF job[x].parent = None THEN "register" ELSE "parent")
    BY <1>2, <2>1, <2>2, GotoStep, Zenon DEF Download
  <2>3. CASE Finish(x, IF x \in cancelled THEN "cancelled" ELSE "failed")
             /\ UNCHANGED inactive
    BY <1>2, <2>1, <2>3, FinishStep, Zenon DEF Download
  <2> QED
    BY <1>2, <2>2, <2>3, Zenon DEF Download
<1>3. ASSUME NEW y \in Xfers, NEW next \in JobPcs,
             Await(x, y, next), job[x].pc \in {"parent", "source"},
             next \in {"register", "source"}, next = "source" => job[x].source # None
      PROVE  TransfersInv'
  <2>1. x \in start
    BY <1>3, JobTypes, Zenon DEF XferOK
  <2>2. CASE Finish(x, "cancelled")
    BY <1>3, <2>1, <2>2, FinishStep, Zenon DEF Await
  <2>3. CASE job[y].err # "" /\ Finish(x, job[y].err)
    BY <1>3, <2>1, <2>3, FinishStep, JobTypes, Zenon DEF Await
  <2>4. CASE Goto(x, next)
    BY <1>3, <2>1, <2>4, GotoStep, Zenon DEF Await
  <2> QED
    BY <1>3, <2>2, <2>3, <2>4, Zenon DEF Await
<1>4. CASE AwaitParent(x)
  BY <1>3, <1>4, JobTypes, Zenon DEF AwaitParent, XferOK
<1>5. CASE AwaitSource(x)
  BY <1>3, <1>5, JobTypes, Zenon DEF AwaitSource, XferOK
<1>6. CASE Register(x)
  <2>1. x \in start
    BY <1>6, JobTypes, Zenon DEF Register, XferOK
  <2>2. CASE job' = [job EXCEPT ![x].pc = "done"] /\ held' = held \cup {x}
    <3> DEFINE j == [job[x] EXCEPT !.pc = "done"]
    <3>1. job' = [job EXCEPT ![x] = j]
      BY <2>2, Zenon
    <3>2. job[x] \in Jobs
      BY JobTypes, Zenon
    <3>3. j \in Jobs /\ j.pc = "done" /\ j.parent = job[x].parent /\ j.source = job[x].source
      BY <3>2, Zenon DEF Jobs
    <3> HIDE DEF j
    <3> QED
      BY <1>6, <2>1, <2>2, <3>1, <3>3, JobStep, Zenon DEF Register, JobUnchanged
  <2>3. ASSUME NEW e \in {"failed", "noparent"},
               Finish(x, IF x \in cancelled /\ job[x].source = None THEN "cancelled" ELSE e)
        PROVE  TransfersInv'
    BY <1>6, <2>1, <2>3, FinishStep, Zenon DEF Register
  <2> QED
    BY <1>6, <2>2, <2>3, Zenon DEF Register
<1>7. CASE ReleaseLayer(x)
  <2> USE <1>7 DEF ReleaseLayer, JobUnchanged, tmVars, xferVars, callVars, TransfersInv
  <2>1. TypeOK' /\ MapInv'
    BY Zenon DEF TypeOK, MapInv, Key, Tracked
  <2>2. XferInv'
    BY DEF XferInv, XferOK, Tracked, Key
  <2>3. CallInv'
    <3> SUFFICES ASSUME NEW c \in Callers
                 PROVE  CallOK(c)'
      BY Zenon DEF CallInv
    <3>1. /\ Watching(c)' = Watching(c) /\ Looping(c)' = Looping(c) /\ Checking(c)' = Checking(c)
          /\ Pulled(c, topDownload[c])' = Pulled(c, topDownload[c])
      BY Zenon DEF Watching, Looping, Checking, Has, Key, At, Tracked, Pulled
    <3> QED
      BY <3>1, Zenon DEF CallInv, CallOK, Key, IsPrefix
  <2>4. QueueInv'
    BY Zenon DEF QueueInv, Queued
  <2> QED
    BY <2>1, <2>2, <2>3, <2>4, Zenon
<1> QED
  BY <1>1, <1>2, <1>4, <1>5, <1>6, <1>7, Zenon DEF Job

-----------------------------------------------------------------------------
(* transferManager *)

\* inactivate starts the transfer that has waited longest, if there is one.
LEMMA InactivateQueue ==
    ASSUME TransfersInv, NEW x \in Xfers, inactivate(x)
    PROVE  /\ activeTransfers' \in Int
           /\ waitingTransfers' \in Seq(Xfers) /\ start' \subseteq Xfers
           /\ start \subseteq start'
           /\ \A y \in Xfers : y \in start' => mon[y] # "none"
           /\ \A y \in Xfers : Queued(y)' <=> mon[y] # "none" /\ y \notin start'
           /\ \A i, k \in 1 .. Len(waitingTransfers') :
                 waitingTransfers'[i] = waitingTransfers'[k] => i = k
<1> USE DEF TransfersInv, TypeOK, QueueInv, Queued
<1>1. \A y \in Xfers : y \in start => mon[y] # "none"
  BY Zenon DEF XferInv, XferOK
<1>2. CASE UNCHANGED <<start, waitingTransfers>>
  BY <1>1, <1>2 DEF inactivate
<1>3. CASE /\ waitingTransfers # <<>>
           /\ start' = start \cup {Head(waitingTransfers)}
           /\ waitingTransfers' = Tail(waitingTransfers)
           /\ UNCHANGED activeTransfers
  <2> DEFINE w == waitingTransfers
  <2>1. /\ Tail(w) \in Seq(Xfers) /\ Head(w) \in Xfers /\ Head(w) = w[1]
        /\ Len(Tail(w)) = Len(w) - 1 /\ Len(w) \in Nat \ {0}
        /\ \A i \in 1 .. Len(Tail(w)) : Tail(w)[i] = w[i + 1]
    BY <1>3, HeadTailProperties
  <2>2. ASSUME NEW y \in Xfers
        PROVE  Queued(y)' <=> Queued(y) /\ y # w[1]
    <3>1. ASSUME NEW i \in 1 .. Len(w), w[i] = y, y # w[1]
          PROVE  Queued(y)'
      <4>1. i - 1 \in 1 .. Len(Tail(w)) /\ Tail(w)[i - 1] = w[i]
        BY <2>1, <3>1
      <4> QED
        BY <1>3, <3>1, <4>1, Zenon
    <3>2. ASSUME NEW i \in 1 .. Len(Tail(w)), Tail(w)[i] = y
          PROVE  Queued(y) /\ y # w[1]
      <4>1. i + 1 \in 1 .. Len(w) /\ w[i + 1] = y /\ 1 \in 1 .. Len(w) /\ i + 1 # 1
        BY <2>1, <3>2
      <4> QED
        BY <4>1, Zenon
    <3> QED
      BY <1>3, <3>1, <3>2, Zenon
  <2>3. Queued(w[1])
    BY <2>1
  <2>4. \A i, k \in 1 .. Len(Tail(w)) : Tail(w)[i] = Tail(w)[k] => i = k
    <3> SUFFICES ASSUME NEW i \in 1 .. Len(Tail(w)), NEW k \in 1 .. Len(Tail(w)),
                        Tail(w)[i] = Tail(w)[k]
                 PROVE  i = k
      BY Zenon
    <3>1. i + 1 \in 1 .. Len(w) /\ k + 1 \in 1 .. Len(w) /\ w[i + 1] = w[k + 1]
      BY <2>1
    <3>2. i + 1 = k + 1
      BY <3>1
    <3> QED
      BY <3>2, <2>1
  <2> HIDE DEF Queued
  <2> QED
    BY <1>1, <1>3, <2>1, <2>2, <2>3, <2>4
<1> QED
  BY <1>2, <1>3, Zenon DEF inactivate

\* A step that changes nothing of a call keeps what holds of the call.
LEMMA OtherCall ==
    ASSUME TransfersInv, NEW c \in Callers, layers' = layers,
           mu' = c <=> mu = c,
           pc'[c] = pc[c], topLayer'[c] = topLayer[c], topDownload'[c] = topDownload[c],
           deferred'[c] = deferred[c], cand'[c] = cand[c], result'[c] = result[c],
           \A n \in 1 .. Depth : mon'[<<c, n>>] = "none" <=> mon[<<c, n>>] = "none",
           \A y \in Xfers : /\ c \in watchers'[y] <=> c \in watchers[y]
                            /\ pc[c] = "check" /\ Tracked(y) => Tracked(y)'
                            /\ job[y].pc = "done" => job'[y] = job[y]
    PROVE  CallOK(c)'
<1>1. /\ CallOK(c) /\ topDownload[c] \in Xfers \cup {None} /\ cand[c] \in Xfers \cup {None}
      /\ \A i \in 1 .. Len(deferred[c]) : deferred[c][i] \in Xfers
  BY DEF TransfersInv, CallInv, TypeOK
<1>2. \A y \in Xfers : Has(c, y)' <=> Has(c, y)
  BY Zenon DEF Has, Key
<1>3. Watching(c) => Watching(c)'
  BY <1>1, <1>2, Zenon DEF Watching
<1>4. Looping(c) => Looping(c)'
  <2>1. At(c) \in Nat \ {0}
    BY DEF At, TransfersInv, TypeOK
  <2>2. \A n \in At(c) .. Depth : n \in 1 .. Depth
    BY <2>1, TransfersAssumption
  <2>3. At(c)' = At(c)
    BY Zenon DEF At
  <2> QED
    BY <2>2, <2>3, Zenon DEF Looping
<1>5. pc[c] = "check" /\ Checking(c) => Checking(c)'
  BY <1>1, <1>2, Zenon DEF Checking, At
<1>6. topDownload[c] # None /\ Pulled(c, topDownload[c]) => Pulled(c, topDownload[c])'
  BY <1>1, Zenon DEF Pulled, Key
<1> QED
  BY <1>1, <1>3, <1>4, <1>5, <1>6, Zenon DEF CallOK, Key, IsPrefix

\* ... in particular a step that changes nothing of any call.
LEMMA CallFrame ==
    ASSUME TransfersInv, NEW c \in Callers,
           UNCHANGED <<layers, mu, callVars>>,
           watchers' = watchers,
           \A y \in Xfers : /\ mon'[y] = "none" <=> mon[y] = "none"
                            /\ pc[c] = "check" /\ Tracked(y) => Tracked(y)'
                            /\ job[y].pc = "done" => job'[y] = job[y]
    PROVE  CallOK(c)'
<1>1. \A n \in 1 .. Depth : mon'[<<c, n>>] = "none" <=> mon[<<c, n>>] = "none"
  BY Zenon DEF Xfers
<1> QED
  BY <1>1, OtherCall, Zenon DEF callVars

\* Every step of the goroutine of transferManager keeps the invariant.
LEMMA MonitorInv ==
    ASSUME TransfersInv, NEW x \in Xfers, Monitor(x), UNCHANGED layers
    PROVE  TransfersInv'
<1> USE DEF xferVars, callVars, tmVars
<1>1. /\ XferOK(x) /\ TypeOK /\ mon[x] # "none" /\ mon[x] # "closed"
      /\ \A y \in Xfers : XferOK(y)
  BY Zenon DEF TransfersInv, XferInv, Monitor, Inactivated, Remove, close
<1>2. CASE Inactivated(x)
  <2> USE <1>2 DEF Inactivated
  <2>1. TypeOK'
    BY <1>1, InactivateQueue, Zenon DEF TypeOK
  <2>2. \A y \in Xfers : /\ Tracked(y)' <=> Tracked(y)
                         /\ mon'[y] = "none" <=> mon[y] = "none"
                         /\ y # x => mon'[y] = mon[y]
                         /\ mon'[x] = "inactive"
    BY <1>1, Zenon DEF TypeOK, Tracked
  <2>3. QueueInv'
    BY <2>2, InactivateQueue, Zenon DEF QueueInv
  <2>4. ASSUME NEW y \in Xfers
        PROVE  XferOK(y)'
    <3>1. XferOK(y) /\ Key(y)' = Key(y)
      BY <1>1, Zenon DEF Key
    <3>2. (y \in start => y \in start') /\ (y \in start' => mon[y] # "none")
      BY InactivateQueue, Zenon
    <3> QED
      BY <2>2, <3>1, <3>2, Zenon DEF XferOK
  <2>5. MapInv'
    BY <1>1, <2>2 DEF MapInv, TransfersInv, TypeOK, Key
  <2>6. CallInv'
    BY <2>2, CallFrame, Zenon DEF CallInv
  <2> QED
    BY <2>1, <2>3, <2>4, <2>5, <2>6, Zenon DEF TransfersInv, XferInv
<1>3. CASE Remove(x)
  <2> USE <1>3 DEF Remove, IsDone
  <2>1. Key(x) \in Keys /\ transfers[Key(x)] = x
    BY <1>1, KeyFacts, Zenon DEF XferOK, Tracked
  <2>2. \A y \in Xfers : /\ y # x => mon'[y] = mon[y]
                         /\ mon'[x] = "closing"
                         /\ mon'[y] = "none" <=> mon[y] = "none"
                         /\ y # x => (Tracked(y)' <=> Tracked(y))
                         /\ ~Tracked(x)'
    BY <1>1, Zenon DEF TypeOK, Tracked
  <2>3. /\ TypeOK'
        /\ start \subseteq start' /\ \A y \in Xfers : y \in start' => mon[y] # "none"
    BY <1>1, InactivateQueue DEF TypeOK, XferOK
  <2>4. QueueInv'
    <3>1. CASE inactivate(x)
      BY <3>1, <2>2, InactivateQueue, Zenon DEF QueueInv
    <3>2. CASE UNCHANGED <<start, waitingTransfers, activeTransfers>>
      BY <3>2, <2>2 DEF QueueInv, Queued, TransfersInv
    <3> QED
      BY <3>1, <3>2, Zenon
  <2>5. ASSUME NEW y \in Xfers
        PROVE  XferOK(y)'
    <3>1. Tracked(y)' => transfers'[Key(y)] = y
      <4>1. y # x /\ Tracked(y) => Key(y) \in Keys /\ transfers[Key(y)] = y
        BY <1>1, KeyFacts, Zenon DEF XferOK, Tracked
      <4> QED
        BY <1>1, <2>1, <2>2, <4>1 DEF TypeOK
    <3>2. XferOK(y) /\ Key(y)' = Key(y)
      BY <1>1, Zenon DEF Key
    <3>3. (y \in start => y \in start') /\ (y \in start' => mon[y] # "none")
      BY <2>3, Zenon
    <3> QED
      BY <2>2, <3>1, <3>2, <3>3, Zenon DEF XferOK
  <2>6. MapInv'
    BY <1>1, <2>1, <2>2 DEF MapInv, TransfersInv, TypeOK, Key
  <2>7. CallInv'
    <3>1. \A c \in Callers : pc[c] # "check"
      BY TransfersAssumption, Zenon DEF TransfersInv, CallInv, CallOK, None
    <3> QED
      BY <2>2, <3>1, CallFrame, Zenon DEF CallInv
  <2> QED
    BY <2>3, <2>4, <2>5, <2>6, <2>7, Zenon DEF TransfersInv, XferInv
<1>4. CASE close(x)
  <2> USE <1>4 DEF close
  <2>1. TypeOK'
    BY <1>1, Zenon DEF TypeOK
  <2>2. \A y \in Xfers : /\ Tracked(y)' <=> Tracked(y)
                         /\ mon'[y] = "none" <=> mon[y] = "none"
                         /\ y # x => mon'[y] = mon[y]
                         /\ mon'[x] = "closed"
    BY <1>1, Zenon DEF TypeOK, Tracked
  <2>3. QueueInv'
    BY <2>2 DEF QueueInv, Queued, TransfersInv
  <2>4. ASSUME NEW y \in Xfers
        PROVE  XferOK(y)'
    <3>1. XferOK(y) /\ Key(y)' = Key(y)
      BY <1>1, Zenon DEF Key
    <3>2. CASE y = x
      BY <1>1, <2>2, <3>1, <3>2 DEF XferOK
    <3>3. CASE y # x
      <4>1. /\ mon'[y] = mon[y] /\ watchers'[y] = watchers[y] /\ job'[y] = job[y]
            /\ y \in cancelled' <=> y \in cancelled
            /\ y \in releasedChan' <=> y \in releasedChan
        BY <1>1, <2>2, <3>3, Zenon
      <4>2. /\ Tracked(y) => transfers[Key(y)] = y
            /\ mon[y] = "none" => y \notin start
            /\ y \in cancelled => \A d \in watchers[y] : pc[d] = "check" /\ cand[d] = y
        BY <3>1, Zenon DEF XferOK
      <4> QED
        BY <3>1, <4>1, <4>2, XferFrame, Zenon
    <3> QED
      BY <3>2, <3>3, Zenon
  <2>5. MapInv'
    BY <1>1, <2>2 DEF MapInv, TransfersInv, TypeOK, Key
  <2>6. CallInv'
    BY <2>2, CallFrame, Zenon DEF CallInv
  <2> QED
    BY <2>1, <2>3, <2>4, <2>5, <2>6, Zenon DEF TransfersInv, XferInv
<1> QED
  BY <1>2, <1>3, <1>4, Zenon DEF Monitor

-----------------------------------------------------------------------------
(* The calls of Download *)

\* A step of the call c that leaves the transfers alone.
LEMMA LocalStep ==
    ASSUME TransfersInv, NEW c \in Callers, pc[c] # "check" \/ cand[c] \notin cancelled,
           TypeOK', CallOK(c)',
           mu' = mu \/ (mu = c /\ mu' = None),
           UNCHANGED <<layers, tmVars, xferVars, jobVars>>,
           \A d \in Callers \ {c} : /\ pc'[d] = pc[d] /\ topLayer'[d] = topLayer[d]
                                    /\ topDownload'[d] = topDownload[d] /\ cand'[d] = cand[d]
                                    /\ deferred'[d] = deferred[d] /\ result'[d] = result[d]
    PROVE  TransfersInv'
<1> USE DEF tmVars, xferVars, jobVars
<1>1. ASSUME NEW y \in Xfers
      PROVE  XferOK(y)'
  <2>1. XferOK(y) /\ Key(y)' = Key(y) /\ (Tracked(y)' <=> Tracked(y)) /\ watchers[y] \subseteq Callers
    BY Zenon DEF TransfersInv, XferInv, TypeOK, Key, Tracked
  <2>2. ASSUME y \in cancelled, NEW d \in watchers[y]
        PROVE  pc'[d] = "check" /\ cand'[d] = y
    <3>1. pc[d] = "check" /\ cand[d] = y /\ d \in Callers
      BY <2>1, <2>2, Zenon DEF XferOK
    <3> QED
      BY <2>2, <3>1, Zenon
  <2> QED
    BY <2>1, <2>2, Zenon DEF XferOK
<1>2. MapInv' /\ QueueInv'
  BY Zenon DEF TransfersInv, MapInv, QueueInv, Queued, Key, Tracked
<1>3. ASSUME NEW d \in Callers \ {c}
      PROVE  CallOK(d)'
  <2>1. mu' = d <=> mu = d
    BY TransfersAssumption, Zenon DEF None
  <2> QED
    BY <2>1, OtherCall, Zenon DEF Tracked
<1> QED
  BY <1>1, <1>2, <1>3, Zenon DEF TransfersInv, XferInv, CallInv

\* A step of the call c that releases the transfer x, the one it looks at if it
\* has just watched it.
LEMMA ReleaseStep ==
    ASSUME TransfersInv, NEW c \in Callers, NEW x \in Xfers, c \in watchers[x],
           release(x, c), pc[c] = "check" => cand[c] = x,
           topDownload' \in [Callers -> Xfers \cup {None}],
           deferred' \in [Callers -> Seq(Xfers)],
           pc' \in [Callers -> CallPcs], result' \in [Callers -> Errors \cup {"ok", "ctx"}],
           CallOK(c)',
           mu' = mu \/ (mu = c /\ mu' = None),
           UNCHANGED <<layers, tmVars, jobVars, topLayer, cand>>,
           \A d \in Callers \ {c} : /\ pc'[d] = pc[d] /\ topDownload'[d] = topDownload[d]
                                    /\ deferred'[d] = deferred[d] /\ result'[d] = result[d]
    PROVE  TransfersInv'
<1> USE DEF tmVars, jobVars
<1>1. TypeOK'
  BY Zenon DEF TransfersInv, TypeOK, release
<1>2. /\ watchers'[x] = watchers[x] \ {c}
      /\ \A y \in Xfers : y # x => watchers'[y] = watchers[y]
  BY Zenon DEF TransfersInv, TypeOK, release
<1>3. ASSUME NEW y \in Xfers
      PROVE  XferOK(y)'
  <2>1. XferOK(y) /\ Key(y)' = Key(y) /\ (Tracked(y)' <=> Tracked(y)) /\ watchers[y] \subseteq Callers
    BY Zenon DEF TransfersInv, XferInv, TypeOK, Key, Tracked
  <2>2. ASSUME y \in cancelled', NEW d \in watchers'[y]
        PROVE  pc'[d] = "check" /\ cand'[d] = y
    <3>1. d \in watchers[y] /\ d \in Callers /\ (y = x => d # c)
      BY <1>2, <2>1, <2>2, Zenon
    <3>2. y \in cancelled
      BY <1>2, <2>2, <3>1, Zenon DEF release
    <3>3. pc[d] = "check" /\ cand[d] = y
      BY <2>1, <3>1, <3>2, Zenon DEF XferOK
    <3> QED
      BY <3>1, <3>3, Zenon
  <2>3. mon[y] = "none" => y # x /\ watchers'[y] = {} /\ y \notin cancelled' \cup releasedChan'
    BY <1>2, <2>1, Zenon DEF XferOK, release
  <2>4. y \in releasedChan' => mon[y] = "closed" /\ watchers'[y] = {}
    BY <1>2, <2>1, Zenon DEF XferOK, release
  <2>5. y \in releasedChan => y \in releasedChan'
    BY Zenon DEF release
  <2>6. UNCHANGED <<layers, mon, job, held, start, inactive, transfers>>
    BY Zenon
  <2> QED
    BY <2>1, <2>2, <2>3, <2>4, <2>5, <2>6, Zenon DEF XferOK
<1>4. MapInv' /\ QueueInv'
  BY Zenon DEF TransfersInv, MapInv, QueueInv, Queued, Key, Tracked
<1>5. ASSUME NEW d \in Callers \ {c}
      PROVE  CallOK(d)'
  <2>1. mu' = d <=> mu = d
    BY TransfersAssumption, Zenon DEF None
  <2>2. \A y \in Xfers : d \in watchers'[y] <=> d \in watchers[y]
    BY <1>2, Zenon
  <2> QED
    BY <2>1, <2>2, OtherCall, Zenon DEF Tracked
<1> QED
  BY <1>1, <1>3, <1>4, <1>5, Zenon DEF TransfersInv, XferInv, CallInv

\* What a step of a call starts from.
LEMMA CallFacts ==
    ASSUME TransfersInv, NEW c \in Callers
    PROVE  /\ layers \in Pulls /\ layers[c] \in Seq(Descriptors) /\ Len(layers[c]) \in 1 .. Depth
           /\ topLayer[c] \in Seq(Descriptors) /\ deferred[c] \in Seq(Xfers)
           /\ topDownload[c] \in Xfers \cup {None} /\ cand[c] \in Xfers \cup {None}
           /\ None \notin Xfers /\ At(c) \in Nat \ {0}
           /\ CallOK(c) /\ TypeOK /\ Depth \in Nat
           /\ pc[c] \in {"lookup", "ask", "check"} =>
                 /\ Len(AskedKey(c)) = At(c) /\ AskedKey(c) \in Keys
                 /\ AskedKey(c) \in Seq(Descriptors)
                 /\ AskedKey(c) = layers[c] <=> At(c) = Len(layers[c])
<1>1. /\ layers \in Pulls /\ layers[c] \in Seq(Descriptors) /\ Len(layers[c]) \in 1 .. Depth
      /\ Depth \in Nat /\ TypeOK /\ CallOK(c)
  BY TransfersAssumption, Zenon DEF TransfersInv, TypeOK, CallInv
<1>2. /\ topLayer[c] \in Seq(Descriptors) /\ deferred[c] \in Seq(Xfers)
      /\ topDownload[c] \in Xfers \cup {None} /\ cand[c] \in Xfers \cup {None}
  BY Zenon DEF TransfersInv, TypeOK
<1>3. None \notin Xfers
  BY DEF None, Xfers
<1>4. At(c) \in Nat \ {0}
  <2>1. Len(topLayer[c]) \in Nat /\ Len(deferred[c]) \in Nat
    BY <1>2
  <2>2. (IF topDownload[c] = None THEN 0 ELSE 1) \in {0, 1}
    BY Zenon
  <2>3. \A m, n \in Nat : \A k \in {0, 1} : m + n + k + 1 \in Nat \ {0}
    OBVIOUS
  <2> QED
    BY <2>1, <2>2, <2>3, Zenon DEF At
<1>5. ASSUME pc[c] \in {"lookup", "ask", "check"}
      PROVE  /\ Len(AskedKey(c)) = At(c) /\ AskedKey(c) \in Keys
             /\ AskedKey(c) \in Seq(Descriptors)
             /\ AskedKey(c) = layers[c] <=> At(c) = Len(layers[c])
  <2>1. At(c) \in 0 .. Len(layers[c]) /\ At(c) \in 1 .. Len(layers[c])
    BY <1>1, <1>4, <1>5, SMTT(40) DEF CallOK, Looping
  <2>2. /\ Len(AskedKey(c)) = At(c) /\ AskedKey(c) \in Seq(Descriptors)
        /\ At(c) = Len(layers[c]) => AskedKey(c) = layers[c]
    BY <1>1, <2>1, PrefixFacts, Zenon DEF AskedKey
  <2>3. AskedKey(c) \in Keys
    BY <1>1, <2>1 DEF AskedKey, Keys
  <2> QED
    BY <2>2, <2>3, Zenon
<1> QED
  BY <1>1, <1>2, <1>3, <1>4, <1>5, Zenon

LEMMA LookupInv ==
    ASSUME TransfersInv, NEW c \in Callers, Lookup(c), UNCHANGED layers
    PROVE  TransfersInv'
<1> USE DEF Lookup, CallUnchanged
<1> DEFINE l == AskedKey(c)
<1>0. /\ CallOK(c) /\ TypeOK /\ Len(topLayer[c]) \in Nat /\ At(c) \in Nat \ {0}
      /\ Depth \in Nat /\ Len(layers[c]) \in Nat
      /\ l \in Seq(Descriptors) /\ Len(l) = At(c) /\ (l = layers[c] <=> At(c) = Len(layers[c]))
  BY CallFacts
<1>1. /\ topDownload[c] = None /\ deferred[c] = <<>> /\ At(c) = Len(topLayer[c]) + 1
      /\ At(c) =< Len(layers[c]) /\ mu # c
      /\ \A n \in 1 .. Depth : mon[<<c, n>>] = "none"
  <2>1. /\ topDownload[c] = None /\ deferred[c] = <<>> /\ At(c) =< Len(layers[c]) /\ mu # c
        /\ \A n \in 1 .. Depth : mon[<<c, n>>] = "none"
    BY <1>0, Zenon DEF CallOK, Looping
  <2>2. At(c) = Len(topLayer[c]) + 1
    BY <1>0, <2>1 DEF At
  <2> QED
    BY <2>1, <2>2, Zenon
<1>2. /\ Watching(c)' /\ mu' # c /\ topDownload'[c] = None /\ deferred'[c] = <<>>
      /\ \A n \in 1 .. Depth : mon'[<<c, n>>] = "none"
  BY <1>1 DEF Watching, jobVars
<1>3. TypeOK'
  <2>1. pc \in [Callers -> CallPcs] /\ topLayer \in [Callers -> Seq(Descriptors)]
    BY <1>0, Zenon DEF TypeOK
  <2>2. pc' = [pc EXCEPT ![c] = pc'[c]] /\ pc'[c] \in {"holding", "lookup", "ask"}
    BY <2>1, Zenon
  <2>3. topLayer' \in [Callers -> Seq(Descriptors)]
    BY <1>0, <2>1, Zenon
  <2>4. pc' \in [Callers -> CallPcs]
    BY <2>1, <2>2, Zenon DEF CallPcs
  <2> QED
    BY <1>0, <2>3, <2>4, Zenon DEF TypeOK, tmVars, xferVars, jobVars
<1>4. CASE /\ topLayer' = [topLayer EXCEPT ![c] = l]
           /\ pc' = [pc EXCEPT ![c] = IF l = layers[c] THEN "holding" ELSE "lookup"]
  <2>1. topLayer'[c] = l /\ pc'[c] = IF l = layers[c] THEN "holding" ELSE "lookup"
    BY <1>4, <1>0, Zenon DEF TypeOK
  <2>2. IsPrefix(l, layers[c])
    BY <1>0, <1>1, Zenon DEF IsPrefix, AskedKey
  <2>3. l # layers[c] => Looping(c)'
    <3>1. At(c)' = At(c) + 1
      BY <1>0, <1>1, <1>2, <2>1 DEF At
    <3>2. l # layers[c] => At(c) + 1 =< Len(layers[c])
      BY <1>0, <1>1
    <3>3. \A n \in At(c) + 1 .. Depth : n \in 1 .. Depth
      BY <1>0
    <3> QED
      BY <1>2, <3>1, <3>2, <3>3, Zenon DEF Looping
  <2>4. CallOK(c)'
    BY <1>2, <2>1, <2>2, <2>3, Zenon DEF CallOK, IsPrefix
  <2> QED
    BY <1>3, <1>4, <2>4, LocalStep, <1>0, Zenon DEF TypeOK
<1>5. CASE pc' = [pc EXCEPT ![c] = "ask"] /\ UNCHANGED topLayer
  <2>1. pc'[c] = "ask"
    BY <1>5, <1>0, Zenon DEF TypeOK
  <2>2. At(c)' = At(c) /\ \A n \in At(c) .. Depth : n \in 1 .. Depth
    BY <1>0, <1>1, <1>2, <1>5 DEF At
  <2>3. CallOK(c)'
    BY <1>1, <1>2, <1>5, <2>1, <2>2, <1>0, Zenon DEF CallOK, Looping, IsPrefix
  <2> QED
    BY <1>3, <1>5, <2>3, LocalStep, <1>0, Zenon DEF TypeOK
<1> QED
  BY <1>4, <1>5, Zenon

LEMMA DropLayerInv ==
    ASSUME TransfersInv, NEW c \in Callers, DropLayer(c), UNCHANGED layers
    PROVE  TransfersInv'
<1> USE DEF DropLayer, CallUnchanged
<1> DEFINE p == Defers(<<>>, deferred[c], result[c])
<1>0. /\ CallOK(c) /\ TypeOK /\ layers[c] \in Seq(Descriptors) /\ Len(layers[c]) \in Nat
      /\ p \in {"unwind", "holding", "returned"} /\ p \in CallPcs
      /\ p = "unwind" => deferred[c] # <<>>
      /\ p = "holding" => result[c] = "ok"
  BY CallFacts DEF Defers, CallPcs
<1> HIDE DEF p
<1>1. pc' = [pc EXCEPT ![c] = p] /\ topLayer' = [topLayer EXCEPT ![c] = <<>>]
  BY Zenon DEF p
<1>2. pc'[c] = p /\ topLayer'[c] = <<>>
  BY <1>0, <1>1, Zenon DEF TypeOK
<1>3. TypeOK'
  <2>1. pc' \in [Callers -> CallPcs] /\ topLayer' \in [Callers -> Seq(Descriptors)]
    BY <1>0, <1>1 DEF TypeOK
  <2> QED
    BY <1>0, <2>1, Zenon DEF TypeOK, tmVars, xferVars, jobVars
<1>4. CallOK(c)'
  <2>1. IsPrefix(<<>>, layers[c])
    <3>1. Prefix(layers[c], 0) = <<>>
      BY <1>0, SubSeqEmpty DEF Prefix
    <3> QED
      BY <1>0, <3>1 DEF IsPrefix
  <2>2. Watching(c)' = Watching(c)
    BY Zenon DEF Watching, Has, Key, xferVars
  <2>3. Pulled(c, topDownload[c])' = Pulled(c, topDownload[c])
    BY Zenon DEF Pulled, Key, jobVars
  <2> QED
    BY <1>0, <1>2, <2>1, <2>2, <2>3, Zenon DEF CallOK, IsPrefix
<1> QED
  BY <1>0, <1>1, <1>3, <1>4, LocalStep, Zenon DEF TypeOK

\* The transfers of a call are different ones.
LEMMA Distinct ==
    ASSUME TransfersInv, NEW c \in Callers, NEW i \in 1 .. Len(deferred[c])
    PROVE  /\ deferred[c][i] # topDownload[c]
           /\ \A j \in 1 .. i - 1 : deferred[c][j] # deferred[c][i]
<1>1. CallOK(c) /\ deferred[c] \in Seq(Xfers) /\ None \notin Xfers
  BY CallFacts, Zenon
<1>2. deferred[c][i] \in Xfers /\ \A j \in 1 .. i - 1 : deferred[c][j] \in Xfers
  BY <1>1
<1>3. \A y \in Xfers : y[2] \in Int
  BY TransfersAssumption DEF Xfers
<1>4. \A m, n \in Int : m < n => m # n
  OBVIOUS
<1> QED
  BY <1>1, <1>2, <1>3, <1>4, Zenon DEF CallOK, Watching

\* Releasing one of them leaves the others.
LEMMA StillHas ==
    ASSUME TransfersInv, NEW c \in Callers, NEW x \in Xfers, release(x, c), UNCHANGED layers,
           NEW y \in Xfers, y # x, Has(c, y)
    PROVE  Has(c, y)'
BY Zenon DEF TransfersInv, TypeOK, release, Has, Key

LEMMA WaitInv ==
    ASSUME TransfersInv, NEW c \in Callers, Wait(c) \/ GiveUp(c), UNCHANGED layers
    PROVE  TransfersInv'
<1> DEFINE top == topDownload[c]
           p(r) == Defers(topLayer[c], deferred[c], r)
<1>0. /\ CallOK(c) /\ TypeOK /\ top \in Xfers /\ Has(c, top) /\ Key(top) = layers[c]
      /\ pc[c] = "wait" /\ mu # c /\ deferred[c] \in Seq(Xfers)
  BY CallFacts, Zenon DEF CallOK, Watching, Wait, GiveUp
<1>1. \A r : /\ p(r) \in CallPcs \ {"lookup", "ask", "check", "wait"}
             /\ p(r) = "unwind" => deferred[c] # <<>>
             /\ p(r) = "holding" <=> p(r) # "returned" /\ p(r) \notin {"drop", "unwind"}
             /\ p(r) = "holding" => r = "ok"
  BY Zenon DEF Defers, CallPcs
<1> HIDE DEF p
<1>2. ASSUME NEW r \in (Errors \cup {"ctx"}) \ {""}, release(top, c),
             topDownload' = [topDownload EXCEPT ![c] = None],
             result' = [result EXCEPT ![c] = r], pc' = [pc EXCEPT ![c] = p(r)],
             UNCHANGED <<mu, topLayer, deferred, cand, tmVars, jobVars>>
      PROVE  TransfersInv'
  <2>1. /\ topDownload' \in [Callers -> Xfers \cup {None}] /\ deferred' \in [Callers -> Seq(Xfers)]
        /\ pc' \in [Callers -> CallPcs] /\ result' \in [Callers -> Errors \cup {"ok", "ctx"}]
        /\ pc'[c] = p(r) /\ topDownload'[c] = None /\ result'[c] = r /\ r # "ok"
    <3>1. /\ topDownload \in [Callers -> Xfers \cup {None}] /\ deferred' \in [Callers -> Seq(Xfers)]
          /\ pc \in [Callers -> CallPcs] /\ result \in [Callers -> Errors \cup {"ok", "ctx"}]
      BY <1>0, <1>2, Zenon DEF TypeOK
    <3>2. p(r) \in CallPcs /\ r \in Errors \cup {"ok", "ctx"} /\ r # "ok"
      BY <1>1, Zenon DEF Errors
    <3> QED
      BY <1>2, <3>1, <3>2, Zenon
  <2>2. Watching(c)'
    <3>1. ASSUME NEW i \in 1 .. Len(deferred[c])
          PROVE  Has(c, deferred[c][i])'
      <4>1. deferred[c][i] \in Xfers
        <5>1. deferred[c] \in Seq(Xfers)
          BY <1>0, Zenon
        <5> QED
          BY <5>1, ElementOfSeq, Zenon
      <4>2. Has(c, deferred[c][i]) /\ deferred[c][i] # top
        BY <1>0, Distinct, Zenon DEF CallOK, Watching
      <4> QED
        BY <1>0, <1>2, <4>1, <4>2, StillHas, Zenon
    <3> QED
      BY <1>0, <1>2, <2>1, <3>1, Zenon DEF CallOK, Watching
  <2>3. CallOK(c)'
    BY <1>0, <1>1, <1>2, <2>1, <2>2, Zenon DEF CallOK, IsPrefix
  <2> QED
    BY <1>0, <1>2, <2>1, <2>3, ReleaseStep, Zenon DEF Has, TypeOK
<1>3. ASSUME job[top].pc = "done", job[top].err = "",
             result' = [result EXCEPT ![c] = "ok"], pc' = [pc EXCEPT ![c] = p("ok")],
             UNCHANGED <<mu, topLayer, topDownload, deferred, cand, tmVars, xferVars, jobVars>>
      PROVE  TransfersInv'
  <2>1. TypeOK'
    <3>1. pc' \in [Callers -> CallPcs] /\ result' \in [Callers -> Errors \cup {"ok", "ctx"}]
      BY <1>0, <1>1, <1>3, Zenon DEF TypeOK
    <3> QED
      BY <1>0, <1>3, <3>1, Zenon DEF TypeOK, tmVars, xferVars, jobVars
  <2>2. pc'[c] = p("ok") /\ result'[c] = "ok"
    BY <1>0, <1>3, Zenon DEF TypeOK
  <2>3. Watching(c)' = Watching(c) /\ Pulled(c, top)'
    BY <1>0, <1>3, Zenon DEF Watching, Has, Key, xferVars, Pulled, jobVars
  <2>4. CallOK(c)'
    <3>1. top # None
      BY <1>0, CallFacts DEF None, Xfers
    <3>2. /\ pc'[c] \notin {"lookup", "ask", "check", "wait"}
          /\ pc'[c] = "unwind" => deferred[c] # <<>>
      BY <1>1, <2>2, Zenon
    <3>3. /\ topDownload'[c] = top /\ topLayer' = topLayer /\ layers' = layers /\ mu' = mu
          /\ deferred' = deferred
      BY <1>3, Zenon
    <3>4. IsPrefix(topLayer[c], layers[c]) /\ Watching(c)
      BY <1>0, Zenon DEF CallOK
    <3> QED
      BY <1>0, <2>3, <3>1, <3>2, <3>3, <3>4, Zenon DEF CallOK, IsPrefix
  <2> QED
    BY <1>0, <1>3, <2>1, <2>4, LocalStep, Zenon DEF TypeOK
<1> QED
  <2>1. CASE GiveUp(c)
    BY <1>2, <2>1, "ctx" \in (Errors \cup {"ctx"}) \ {""}, Zenon DEF GiveUp, Returns, p
  <2>2. CASE Wait(c) /\ job[top].err # ""
    <3>1. PICK r \in (Errors \cup {"ctx"}) \ {""} : r = job[top].err /\ r # "ok"
      BY <1>0, <2>2, JobTypes, Zenon DEF Errors
    <3> QED
      BY <1>2, <2>2, <3>1, Zenon DEF Wait, Returns, p
  <2>3. CASE Wait(c) /\ job[top].err = ""
    BY <1>3, <2>3, Zenon DEF Wait, Returns, IsDone, p
  <2> QED
    BY <2>1, <2>2, <2>3, Zenon

LEMMA UnwindInv ==
    ASSUME TransfersInv, NEW c \in Callers, Unwind(c), UNCHANGED layers
    PROVE  TransfersInv'
<1> DEFINE n    == Len(deferred[c])
           x    == deferred[c][n]
           rest == Prefix(deferred[c], n - 1)
           p    == Defers(<<>>, rest, result[c])
<1>0. /\ CallOK(c) /\ TypeOK /\ deferred[c] \in Seq(Xfers) /\ deferred[c] # <<>>
      /\ topDownload[c] \in Xfers \cup {None} /\ pc[c] = "unwind" /\ mu # c
  BY CallFacts, Zenon DEF CallOK, Unwind
<1>1. /\ n \in Nat \ {0} /\ n \in 1 .. n /\ x \in Xfers
      /\ rest \in Seq(Xfers) /\ Len(rest) = n - 1
      /\ \A i \in 1 .. n - 1 : rest[i] = deferred[c][i]
  <2>1. n \in Nat \ {0} /\ x \in Xfers
    BY <1>0
  <2>2. \A i \in 1 .. n - 1 : deferred[c][i] \in Xfers
    BY <1>0, <2>1
  <2> QED
    BY <2>1, <2>2, SubSeqProperties DEF Prefix
<1>2. /\ p \in CallPcs \ {"lookup", "ask", "check", "wait", "drop"}
      /\ p = "unwind" => rest # <<>>
      /\ p = "holding" => result[c] = "ok"
  BY Zenon DEF Defers, CallPcs
<1>3. /\ release(x, c) /\ deferred' = [deferred EXCEPT ![c] = rest]
      /\ pc' = [pc EXCEPT ![c] = p]
      /\ UNCHANGED <<mu, topLayer, topDownload, cand, result, tmVars, jobVars>>
  BY Zenon DEF Unwind
<1> HIDE DEF p, rest, x
<1>4. /\ deferred' \in [Callers -> Seq(Xfers)] /\ pc' \in [Callers -> CallPcs]
      /\ deferred'[c] = rest /\ pc'[c] = p
  BY <1>0, <1>1, <1>2, <1>3, Zenon DEF TypeOK
<1>5. Watching(c)'
  <2>1. ASSUME NEW i \in 1 .. n - 1
        PROVE  /\ Has(c, deferred[c][i])' /\ i \in 1 .. n
               /\ \A j \in 1 .. i - 1 : j \in 1 .. n - 1
    <3>1. deferred[c][i] \in Xfers /\ deferred[c][i] # x /\ i \in 1 .. n
      BY <1>0, <1>1, Distinct DEF x
    <3>2. Has(c, deferred[c][i])
      BY <1>0, <3>1, Zenon DEF CallOK, Watching
    <3> QED
      BY <1>1, <1>3, <3>1, <3>2, StillHas
  <2>2. topDownload[c] # None => Has(c, topDownload[c])'
    <3>1. topDownload[c] # x
      BY <1>1, Distinct, Zenon DEF x
    <3> QED
      BY <1>0, <1>1, <1>3, <3>1, StillHas, Zenon DEF CallOK, Watching
  <2> QED
    BY <1>0, <1>1, <1>3, <1>4, <2>1, <2>2, Zenon DEF CallOK, Watching
<1>6. Pulled(c, topDownload[c])' = Pulled(c, topDownload[c])
  BY <1>3, Zenon DEF Pulled, Key, jobVars
<1>7. CallOK(c)'
  BY <1>0, <1>2, <1>3, <1>4, <1>5, <1>6, Zenon DEF CallOK, IsPrefix
<1>8. c \in watchers[x]
  BY <1>0, <1>1, Zenon DEF x, CallOK, Watching, Has
<1> QED
  BY <1>0, <1>1, <1>3, <1>4, <1>7, <1>8, ReleaseStep, Zenon DEF TypeOK

LEMMA ReleaseImageInv ==
    ASSUME TransfersInv, NEW c \in Callers, ReleaseImage(c), UNCHANGED layers
    PROVE  TransfersInv'
<1>0. /\ CallOK(c) /\ TypeOK /\ topDownload[c] \in Xfers \cup {None} /\ pc[c] = "holding" /\ mu # c
      /\ layers[c] \in Seq(Descriptors) /\ Len(layers[c]) \in Nat
      /\ deferred[c] \in Seq(Xfers)
  BY CallFacts, SMTT(40) DEF CallOK, ReleaseImage
<1>1. pc' \in [Callers -> CallPcs] /\ pc' = [pc EXCEPT ![c] = "returned"] /\ pc'[c] = "returned"
  BY <1>0, Zenon DEF TypeOK, CallPcs, ReleaseImage
<1>2. CASE topDownload[c] = None
  <2> USE <1>2 DEF ReleaseImage
  <2>1. /\ topLayer' \in [Callers -> Seq(Descriptors)] /\ topLayer'[c] = <<>>
        /\ topLayer' = [topLayer EXCEPT ![c] = <<>>]
    <3>1. topLayer' = [topLayer EXCEPT ![c] = <<>>] /\ topLayer \in [Callers -> Seq(Descriptors)]
      BY <1>0, Zenon DEF TypeOK
    <3>2. <<>> \in Seq(Descriptors)
      OBVIOUS
    <3> HIDE DEF ReleaseImage
    <3> QED
      BY <3>1, <3>2, Zenon
  <2>2. TypeOK'
    <3>1. pc' \in [Callers -> CallPcs] /\ topLayer' \in [Callers -> Seq(Descriptors)]
      BY <1>1, <2>1, Zenon
    <3>2. UNCHANGED <<layers, mu, topDownload, deferred, cand, result, tmVars, xferVars, jobVars>>
      BY Zenon
    <3> HIDE DEF ReleaseImage
    <3> QED
      BY <1>0, <3>1, <3>2, Zenon DEF TypeOK, tmVars, xferVars, jobVars
  <2>3. IsPrefix(<<>>, layers[c])
    <3>1. Prefix(layers[c], 0) = <<>>
      BY <1>0, SubSeqEmpty DEF Prefix
    <3> QED
      BY <1>0, <3>1 DEF IsPrefix
  <2>4. Watching(c)' = Watching(c)
    BY Zenon DEF Watching, Has, Key, xferVars
  <2>5. CallOK(c)'
    BY <1>0, <1>1, <2>1, <2>3, <2>4, Zenon DEF CallOK, IsPrefix
  <2> QED
    BY <1>0, <1>1, <2>1, <2>2, <2>5, LocalStep, Zenon DEF TypeOK
<1>3. CASE topDownload[c] # None
  <2> USE <1>3 DEF ReleaseImage
  <2>1. /\ topDownload[c] \in Xfers /\ release(topDownload[c], c)
        /\ topDownload' = [topDownload EXCEPT ![c] = None]
        /\ topDownload' \in [Callers -> Xfers \cup {None}] /\ topDownload'[c] = None
    BY <1>0, Zenon DEF TypeOK
  <2>2. Watching(c)'
    <3>1. ASSUME NEW i \in 1 .. Len(deferred[c])
          PROVE  Has(c, deferred[c][i])'
      <4>1. deferred[c][i] \in Xfers
        BY <1>0
      <4>2. Has(c, deferred[c][i])
        BY <1>0, Zenon DEF CallOK, Watching
      <4> QED
        BY <2>1, <4>1, <4>2, Distinct, StillHas, Zenon
    <3> QED
      BY <1>0, <2>1, <3>1, Zenon DEF CallOK, Watching
  <2>3. CallOK(c)'
    BY <1>0, <1>1, <2>1, <2>2, Zenon DEF CallOK, IsPrefix
  <2>4. c \in watchers[topDownload[c]]
    BY <1>0, Zenon DEF CallOK, Watching, Has
  <2> QED
    BY <1>0, <1>1, <2>1, <2>3, <2>4, ReleaseStep, Zenon DEF TypeOK
<1> QED
  BY <1>2, <1>3, Zenon

-----------------------------------------------------------------------------
(* The calls that get a transfer *)

\* What transfer returns becomes the top transfer of the call.
LEMMA ReturnedStep ==
    ASSUME TransfersInv, NEW c \in Callers, NEW x \in Xfers, Returned(c, x), layers' = layers,
           pc[c] \in {"ask", "check"}, mu' # c, x[2] = At(c), Has(c, x)',
           \A y \in Xfers : y # x /\ Has(c, y) => Has(c, y)',
           \A n \in At(c) + 1 .. Depth : mon'[<<c, n>>] = "none"
    PROVE  /\ CallOK(c)'
           /\ pc' \in [Callers -> CallPcs] /\ topDownload' \in [Callers -> Xfers \cup {None}]
           /\ deferred' \in [Callers -> Seq(Xfers)] /\ cand' \in [Callers -> Xfers \cup {None}]
<1> DEFINE p == IF AskedKey(c) = layers[c] THEN "wait" ELSE "ask"
           n == Len(deferred[c])
<1>0. /\ CallOK(c) /\ TypeOK /\ Looping(c) /\ Watching(c) /\ None \notin Xfers
      /\ Len(layers[c]) \in Nat /\ At(c) \in Nat \ {0}
      /\ AskedKey(c) = layers[c] <=> At(c) = Len(layers[c])
      /\ \A y \in Xfers : y[2] \in Int
  BY CallFacts DEF CallOK, Xfers
<1>1. deferred[c] \in Seq(Xfers) /\ n \in Nat /\ Len(topLayer[c]) \in Nat
  BY CallFacts
<1>2. PICK top \in Xfers \cup {None} : top = topDownload[c]
  BY CallFacts, Zenon
<1>3. PICK D \in Seq(Xfers) :
         /\ deferred' = [deferred EXCEPT ![c] = D]
         /\ top = None => Len(D) = n
         /\ \A i \in 1 .. n : D[i] = deferred[c][i]
         /\ top # None => Len(D) = n + 1 /\ D[n + 1] = top
  <2>1. CASE top = None
    <3>1. deferred' = [deferred EXCEPT ![c] = deferred[c]]
      BY <1>0, <1>2, <2>1, Zenon DEF TypeOK, Returned
    <3> QED
      BY <1>1, <2>1, <3>1, Zenon
  <2>2. CASE top # None
    <3> DEFINE A == Append(deferred[c], top)
    <3>1. A \in Seq(Xfers) /\ Len(A) = n + 1 /\ A[n + 1] = top /\ \A i \in 1 .. n : A[i] = deferred[c][i]
      BY <1>1, <1>2, <2>2, AppendProperties
    <3>2. deferred' = [deferred EXCEPT ![c] = A]
      BY <1>2, <2>2, Zenon DEF Returned
    <3> HIDE DEF A
    <3> QED
      BY <2>2, <3>1, <3>2, Zenon
  <2> QED
    BY <2>1, <2>2, Zenon
<1>4. /\ topDownload' = [topDownload EXCEPT ![c] = x]
      /\ pc' = [pc EXCEPT ![c] = p] /\ cand' = [cand EXCEPT ![c] = None]
      /\ UNCHANGED <<topLayer, result>>
  BY Zenon DEF Returned
<1>5. /\ topDownload'[c] = x /\ deferred'[c] = D /\ pc'[c] = p /\ p \in {"wait", "ask"}
      /\ topDownload' \in [Callers -> Xfers \cup {None}]
      /\ deferred' \in [Callers -> Seq(Xfers)] /\ cand' \in [Callers -> Xfers \cup {None}]
      /\ pc' \in [Callers -> CallPcs]
  BY <1>0, <1>3, <1>4, Zenon DEF TypeOK, CallPcs
<1> HIDE DEF p
<1>6. ASSUME NEW i \in 1 .. Len(D)
      PROVE  /\ Has(c, D[i])' /\ D[i][2] < x[2]
             /\ \A j \in 1 .. i - 1 : D[j][2] < D[i][2]
  <2>1. ASSUME NEW y \in Xfers, Has(c, y), y[2] < At(c)
        PROVE  Has(c, y)' /\ y[2] < x[2]
    <3>1. y # x
      BY <1>0, <2>1
    <3> QED
      BY <2>1, <3>1, Zenon
  <2>2. top # None => top[2] = At(c) - 1 /\ top[2] < At(c) /\ top \in Xfers /\ Has(c, top)
    BY <1>0, <1>2 DEF Looping, Watching
  <2>3. CASE i \in 1 .. n
    <3>1. D[i] = deferred[c][i] /\ D[i] \in Xfers /\ top # None
      BY <1>0, <1>1, <1>2, <1>3, <2>3 DEF Looping
    <3>2. Has(c, D[i]) /\ D[i][2] < top[2]
      BY <1>0, <1>2, <2>3, <3>1, Zenon DEF Watching
    <3>3. D[i][2] < At(c)
      BY <1>0, <2>2, <3>1, <3>2
    <3>4. \A j \in 1 .. i - 1 : D[j] = deferred[c][j] /\ deferred[c][j][2] < deferred[c][i][2]
      BY <1>0, <1>1, <1>3, <2>3 DEF Watching
    <3> QED
      BY <2>1, <3>1, <3>2, <3>3, <3>4, Zenon
  <2>4. CASE top # None /\ i = n + 1
    <3>1. D[i] = top /\ \A j \in 1 .. i - 1 : j \in 1 .. n
      BY <1>1, <1>3, <2>4
    <3>2. \A j \in 1 .. i - 1 : D[j][2] < D[i][2]
      BY <1>0, <1>2, <1>3, <2>4, <3>1, Zenon DEF Watching
    <3> QED
      BY <2>1, <2>2, <2>4, <3>1, <3>2, Zenon
  <2> QED
    BY <1>1, <1>3, <2>3, <2>4
<1>7. Watching(c)'
  BY <1>0, <1>5, <1>6, Zenon DEF Watching
<1>8. At(c)' = At(c) + 1
  <2>1. At(c) = Len(topLayer[c]) + Len(D) + 1
    <3>1. PICK k \in {0, 1} : /\ k = IF topDownload[c] = None THEN 0 ELSE 1
                              /\ Len(D) = n + k
      BY <1>1, <1>2, <1>3
    <3>2. At(c) = Len(topLayer[c]) + n + k + 1
      BY <3>1, Zenon DEF At
    <3>3. \A a, b \in Nat : \A i \in {0, 1} : a + b + i + 1 = a + (b + i) + 1
      OBVIOUS
    <3> QED
      BY <1>1, <3>1, <3>2, <3>3, Zenon
  <2>2. At(c)' = Len(topLayer[c]) + Len(D) + 1 + 1
    BY <1>0, <1>4, <1>5, Zenon DEF At
  <2> QED
    BY <2>1, <2>2, Zenon
<1>9. p = "ask" => Looping(c)'
  <2>1. p = "ask" => At(c) + 1 =< Len(layers[c])
    BY <1>0 DEF Looping, p
  <2>2. x[2] = At(c)' - 1 /\ x # None
    BY <1>0, <1>8
  <2> QED
    BY <1>5, <1>8, <2>1, <2>2, Zenon DEF Looping
<1>10. p = "wait" => Key(x)' = layers[c]
  <2>1. Key(x)' = Prefix(layers[c], At(c))
    BY Zenon DEF Has
  <2> QED
    BY <1>0, <2>1, Zenon DEF p, AskedKey
<1> QED
  BY <1>0, <1>4, <1>5, <1>7, <1>9, <1>10, Zenon DEF CallOK, IsPrefix

LEMMA CheckContextInv ==
    ASSUME TransfersInv, NEW c \in Callers, CheckContext(c), UNCHANGED layers
    PROVE  TransfersInv'
<1>0. /\ CallOK(c) /\ TypeOK /\ Looping(c) /\ Watching(c) /\ Checking(c) /\ mu = c /\ pc[c] = "check"
      /\ deferred[c] \in Seq(Xfers) /\ At(c) \in Nat
      /\ topDownload[c] \in Xfers \cup {None} /\ None \notin Xfers
      /\ \A y \in Xfers : y[2] \in Int
  <2>1. /\ CallOK(c) /\ TypeOK /\ deferred[c] \in Seq(Xfers) /\ At(c) \in Nat
        /\ topDownload[c] \in Xfers \cup {None} /\ None \notin Xfers
    BY CallFacts, Zenon
  <2>2. pc[c] = "check"
    BY Zenon DEF CheckContext
  <2>3. Looping(c) /\ Watching(c) /\ Checking(c) /\ mu = c
    BY <2>1, <2>2, Zenon DEF CallOK
  <2>4. \A y \in Xfers : y[2] \in Int
    BY SMT DEF Xfers
  <2> QED
    BY <2>1, <2>2, <2>3, <2>4, Zenon
<1>1. PICK x \in Xfers : x = cand[c]
  BY CallFacts, Zenon DEF CheckContext, CallOK, Checking
<1>2. mu' = None /\ None # c
  BY TransfersAssumption, Zenon DEF CheckContext, None
<1>3. CASE x \in cancelled
  <2>1. /\ release(x, c) /\ pc' = [pc EXCEPT ![c] = "ask"]
        /\ UNCHANGED <<topLayer, topDownload, deferred, cand, result, tmVars, jobVars>>
    BY <1>1, <1>3, Zenon DEF CheckContext
  <2>2. pc' \in [Callers -> CallPcs] /\ pc'[c] = "ask"
    BY <1>0, <2>1, Zenon DEF TypeOK, CallPcs
  <2>3. topDownload[c] # None => topDownload[c] # x /\ topDownload[c][2] = At(c) - 1
    BY <1>0, <1>1 DEF Looping, Checking
  <2>4. ASSUME NEW i \in 1 .. Len(deferred[c])
        PROVE  deferred[c][i] \in Xfers /\ deferred[c][i] # x
    <3>1. deferred[c][i] \in Xfers
      BY <1>0
    <3>2. topDownload[c] \in Xfers /\ deferred[c][i][2] < topDownload[c][2]
      BY <1>0 DEF Looping, Watching
    <3> QED
      BY <1>0, <1>1, <2>3, <3>1, <3>2 DEF Checking
  <2>5. Watching(c)'
    <3>1. topDownload[c] # None => Has(c, topDownload[c])'
      BY <1>0, <2>1, <2>3, StillHas, Zenon DEF Watching
    <3>2. ASSUME NEW i \in 1 .. Len(deferred[c])
          PROVE  Has(c, deferred[c][i])'
      BY <1>0, <2>1, <2>4, StillHas, Zenon DEF Watching
    <3> QED
      BY <1>0, <2>1, <3>1, <3>2, Zenon DEF Watching
  <2>6. Looping(c)'
    BY <1>0, <2>1, Zenon DEF Looping, At, jobVars
  <2>7. CallOK(c)'
    BY <1>0, <1>2, <2>1, <2>2, <2>5, <2>6 DEF CallOK, IsPrefix
  <2>8. c \in watchers[x]
    BY <1>0, <1>1, Zenon DEF Checking, Has
  <2> QED
    BY <1>0, <1>1, <1>2, <2>1, <2>2, <2>7, <2>8, ReleaseStep, Zenon DEF TypeOK
<1>4. CASE x \notin cancelled
  <2>1. Returned(c, x) /\ UNCHANGED <<tmVars, xferVars, jobVars>>
    BY <1>1, <1>4, Zenon DEF CheckContext
  <2>2. x[2] = At(c) /\ Has(c, x)
    BY <1>0, <1>1, Zenon DEF Checking
  <2>3. \A y \in Xfers : Has(c, y)' = Has(c, y)
    BY <2>1, Zenon DEF Has, Key, xferVars
  <2>4. \A n \in At(c) + 1 .. Depth : mon'[<<c, n>>] = "none"
    BY <1>0, <2>1, TransfersAssumption DEF Looping, jobVars
  <2>5. /\ CallOK(c)'
        /\ pc' \in [Callers -> CallPcs] /\ topDownload' \in [Callers -> Xfers \cup {None}]
        /\ deferred' \in [Callers -> Seq(Xfers)] /\ cand' \in [Callers -> Xfers \cup {None}]
    BY <1>0, <1>2, <2>1, <2>2, <2>3, <2>4, ReturnedStep, Zenon
  <2>6. TypeOK'
    <3>1. mu' \in Callers \cup {None} /\ UNCHANGED <<layers, topLayer, result>>
      BY <1>2, <2>1, Zenon DEF Returned
    <3> QED
      BY <1>0, <2>1, <2>5, <3>1, Zenon DEF TypeOK, tmVars, xferVars, jobVars
  <2>7. \A d \in Callers \ {c} : /\ pc'[d] = pc[d] /\ topLayer'[d] = topLayer[d]
                                 /\ topDownload'[d] = topDownload[d] /\ cand'[d] = cand[d]
                                 /\ deferred'[d] = deferred[d] /\ result'[d] = result[d]
    BY <1>0, <2>1, Zenon DEF Returned, TypeOK
  <2> QED
    BY <1>0, <1>1, <1>2, <1>4, <2>1, <2>5, <2>6, <2>7, LocalStep
<1> QED
  BY <1>3, <1>4, Zenon

LEMMA WatchInv ==
    ASSUME TransfersInv, NEW c \in Callers, Watch(c), UNCHANGED layers
    PROVE  TransfersInv'
<1> USE DEF tmVars, jobVars
<1>0. /\ CallOK(c) /\ TypeOK /\ Looping(c) /\ Watching(c) /\ mu = None /\ pc[c] = "ask"
      /\ Len(AskedKey(c)) = At(c) /\ AskedKey(c) \in Keys /\ None # c /\ At(c) =< Len(layers[c])
      /\ \A y \in Xfers : XferOK(y)
  BY CallFacts, TransfersAssumption, Zenon
     DEF CallOK, Watch, Locks, None, TransfersInv, XferInv, Looping
<1>1. PICK x \in Xfers : x = transfers[AskedKey(c)] /\ Key(x) = AskedKey(c) /\ Tracked(x)
  BY <1>0, Zenon DEF TransfersInv, MapInv, TypeOK, Watch
<1>2. x[2] = At(c) /\ Key(x) = Prefix(layers[c], x[2])
  <2>1. x[2] =< Len(layers[x[1]])
    BY <1>0, <1>1, Zenon DEF XferOK, Tracked
  <2> QED
    BY <1>0, <1>1, <2>1, KeyFacts, Zenon DEF AskedKey
<1>3. /\ watchers' = [watchers EXCEPT ![x] = @ \cup {c}] /\ mu' = c
      /\ cand' = [cand EXCEPT ![c] = x] /\ pc' = [pc EXCEPT ![c] = "check"]
      /\ UNCHANGED <<topLayer, topDownload, deferred, result, tmVars, cancelled, releasedChan, jobVars>>
  BY <1>1, Zenon DEF Watch, watch
<1>4. /\ watchers'[x] = watchers[x] \cup {c} /\ \A y \in Xfers : y # x => watchers'[y] = watchers[y]
      /\ cand'[c] = x /\ pc'[c] = "check"
      /\ \A d \in Callers \ {c} : cand'[d] = cand[d] /\ pc'[d] = pc[d]
      /\ watchers' \in [Xfers -> SUBSET Callers]
      /\ cand' \in [Callers -> Xfers \cup {None}] /\ pc' \in [Callers -> CallPcs]
  BY <1>0, <1>3, Zenon DEF TypeOK, CallPcs
<1>5. TypeOK'
  BY <1>0, <1>3, <1>4, Zenon DEF TypeOK
<1>6. ASSUME NEW y \in Xfers
      PROVE  XferOK(y)'
  <2>1. XferOK(y) /\ Key(y)' = Key(y) /\ (Tracked(y)' <=> Tracked(y)) /\ watchers[y] \subseteq Callers
    BY <1>0, <1>3, Zenon DEF Key, Tracked, TypeOK
  <2>2. ASSUME y \in cancelled, NEW d \in watchers'[y]
        PROVE  pc'[d] = "check" /\ cand'[d] = y
    <3>1. CASE d = c
      <4>1. y # x => c \in watchers[y]
        BY <1>4, <2>2, <3>1, Zenon
      <4>2. c \notin watchers[y]
        BY <1>0, <2>1, <2>2, Zenon DEF XferOK
      <4> QED
        BY <1>4, <3>1, <4>1, <4>2, Zenon
    <3>2. CASE d # c
      <4>1. d \in watchers[y] /\ d \in Callers
        BY <1>4, <2>1, <2>2, <3>2, Zenon
      <4>2. pc[d] = "check" /\ cand[d] = y
        BY <2>1, <2>2, <4>1, Zenon DEF XferOK
      <4> QED
        BY <1>4, <3>2, <4>1, <4>2, Zenon
    <3> QED
      BY <3>1, <3>2, Zenon
  <2>3. mon[y] = "none" => watchers'[y] = {}
    BY <1>1, <1>4, <2>1, Zenon DEF XferOK, Tracked
  <2>4. y \in releasedChan => watchers'[y] = {}
    BY <1>1, <1>4, <2>1, Zenon DEF XferOK, Tracked
  <2> QED
    BY <1>3, <2>1, <2>2, <2>3, <2>4, Zenon DEF XferOK
<1>7. MapInv' /\ QueueInv'
  BY <1>3, Zenon DEF TransfersInv, MapInv, QueueInv, Queued, Key, Tracked
<1>8. ASSUME NEW d \in Callers
      PROVE  CallOK(d)'
  <2>1. CASE d # c
    <3>1. mu' = d <=> mu = d
      BY <1>0, <1>3, <2>1, TransfersAssumption, Zenon DEF None
    <3>2. \A y \in Xfers : d \in watchers'[y] <=> d \in watchers[y]
      BY <1>4, <2>1, Zenon
    <3> QED
      BY <1>3, <1>4, <2>1, <3>1, <3>2, OtherCall DEF Tracked
  <2>2. CASE d = c
    <3>1. ASSUME NEW y \in Xfers, Has(c, y)
          PROVE  Has(c, y)'
      BY <1>4, <3>1, Zenon DEF Has, Key
    <3>2. Has(c, x)'
      BY <1>0, <1>2, <1>4, Zenon DEF Has, Key
    <3>3. Watching(c)'
      <4>1. topDownload[c] \in Xfers \cup {None} /\ deferred[c] \in Seq(Xfers)
        BY CallFacts, Zenon
      <4>2. ASSUME NEW i \in 1 .. Len(deferred[c])
            PROVE  deferred[c][i] \in Xfers
        BY <4>1, ElementOfSeq, Zenon
      <4> QED
        BY <1>0, <1>3, <3>1, <4>1, <4>2, Zenon DEF Watching
    <3>4. Looping(c)' /\ At(c)' = At(c)
      BY <1>0, <1>3, Zenon DEF Looping, At
    <3>5. Checking(c)'
      <4>1. x # None /\ Tracked(x)'
        BY <1>1, <1>3 DEF None, Xfers, Tracked
      <4> QED
        BY <1>2, <1>4, <3>2, <3>4, <4>1, Zenon DEF Checking
    <3> QED
      BY <1>0, <1>3, <1>4, <2>2, <3>3, <3>4, <3>5 DEF CallOK, IsPrefix
  <2> QED
    BY <2>1, <2>2, Zenon
<1> QED
  BY <1>5, <1>6, <1>7, <1>8, Zenon DEF TransfersInv, XferInv, CallInv

\* The transfer with the same data is one of the transfers of the call.
LEMMA SameDataFacts ==
    ASSUME TransfersInv, NEW c \in Callers, Looping(c)
    PROVE  /\ SameData(c) \in Xfers \cup {None}
           /\ SameData(c) # None => topDownload[c] # None
<1> DEFINE mine == Append(deferred[c], topDownload[c])
           same == {i \in 1 .. Len(mine) :
                       mine[i] # None /\ layers[c][Len(topLayer[c]) + i] = layers[c][At(c)]}
           first == {i \in same : \A j \in same : i =< j}
<1>1. deferred[c] \in Seq(Xfers \cup {None}) /\ topDownload[c] \in Xfers \cup {None}
  BY CallFacts
<1>2. /\ mine \in Seq(Xfers \cup {None}) /\ Len(mine) = Len(deferred[c]) + 1
      /\ mine[Len(deferred[c]) + 1] = topDownload[c]
  BY <1>1, AppendProperties
<1> HIDE DEF mine
<1>3. SameData(c) = IF first = {} THEN None ELSE mine[CHOOSE i \in first : TRUE]
  BY Zenon DEF SameData, mine
<1>4. first # {} => topDownload[c] # None
  BY <1>1, <1>2 DEF Looping
<1>5. ASSUME first # {}
      PROVE  (CHOOSE i \in first : TRUE) \in 1 .. Len(mine)
  BY <1>5, Zenon
<1> HIDE DEF first
<1>6. CASE first = {}
  BY <1>3, <1>6, Zenon
<1>7. CASE first # {}
  <2>1. PICK i \in 1 .. Len(mine) : SameData(c) = mine[i]
    BY <1>3, <1>5, <1>7, Zenon
  <2>2. mine[i] \in Xfers \cup {None}
    BY <1>2, ElementOfSeq, Zenon
  <2> QED
    BY <1>4, <1>7, <2>1, <2>2, Zenon
<1> QED
  BY <1>6, <1>7, Zenon

LEMMA TransferInv ==
    ASSUME TransfersInv, NEW c \in Callers, transfer(c), UNCHANGED layers
    PROVE  TransfersInv'
<1>0. /\ CallOK(c) /\ TypeOK /\ Looping(c) /\ Watching(c) /\ mu = None /\ pc[c] = "ask"
      /\ Len(AskedKey(c)) = At(c) /\ AskedKey(c) \in Keys /\ None # c /\ At(c) =< Len(layers[c])
      /\ At(c) \in Nat \ {0} /\ Depth \in Nat /\ Len(layers[c]) \in 1 .. Depth
      /\ transfers[AskedKey(c)] = None /\ None \notin Xfers
  BY CallFacts, TransfersAssumption, Zenon DEF CallOK, transfer, Locks, None, Looping
<1>1. PICK x \in Xfers : x = <<c, At(c)>>
  <2>1. At(c) \in 1 .. Depth
    BY <1>0
  <2> QED
    BY <2>1, Zenon DEF Xfers
<1>2. /\ mon[x] = "none" /\ XferOK(x) /\ x[1] = c /\ x[2] = At(c) /\ x[2] =< Len(layers[x[1]])
      /\ Key(x) = AskedKey(c)
  BY <1>0, <1>1 DEF Looping, TransfersInv, XferInv, Key, AskedKey
<1>3. PICK j \in Jobs : /\ job' = [job EXCEPT ![x] = j]
                        /\ j.pc = "start" /\ j.err = ""
                        /\ j.source # None => j.parent # None
  <2>1. /\ SameData(c) \in Xfers \cup {None}
        /\ SameData(c) # None => topDownload[c] # None
        /\ topDownload[c] \in Xfers \cup {None}
    BY <1>0, SameDataFacts, CallFacts, Zenon
  <2> DEFINE j == [pc |-> "start", err |-> "", parent |-> topDownload[c], source |-> SameData(c)]
  <2>2. /\ j.pc = "start" /\ j.err = "" /\ j.parent = topDownload[c] /\ j.source = SameData(c)
    BY Zenon
  <2>3. j \in Jobs
    <3>1. "start" \in JobPcs /\ "" \in Errors
      BY Zenon DEF JobPcs, Errors
    <3> QED
      BY <2>1, <3>1, Zenon DEF Jobs
  <2>4. job' = [job EXCEPT ![x] = j]
    BY <1>1, Zenon DEF transfer
  <2> HIDE DEF j
  <2> QED
    BY <2>1, <2>2, <2>3, <2>4, Zenon
<1>4. /\ watchers' = [watchers EXCEPT ![x] = @ \cup {c}]
      /\ transfers' = [transfers EXCEPT ![Key(x)] = x]
      /\ mon' = [mon EXCEPT ![x] = "active"]
      /\ Returned(c, x) /\ UNCHANGED <<mu, concurrencyLimit, cancelled, releasedChan, inactive, held>>
  BY <1>1, <1>2, Zenon DEF transfer, watch
<1>5. /\ watchers'[x] = {c} /\ mon'[x] = "active" /\ job'[x] = j /\ transfers'[Key(x)] = x
      /\ \A y \in Xfers : y # x => watchers'[y] = watchers[y] /\ mon'[y] = mon[y] /\ job'[y] = job[y]
      /\ \A k \in Keys : k # Key(x) => transfers'[k] = transfers[k]
      /\ watchers' \in [Xfers -> SUBSET Callers] /\ job' \in [Xfers -> Jobs]
  <2>1. watchers[x] = {}
    BY <1>2, Zenon DEF XferOK
  <2>2. /\ watchers \in [Xfers -> SUBSET Callers]
        /\ mon \in [Xfers -> {"none", "active", "inactive", "closing", "closed"}]
        /\ job \in [Xfers -> Jobs] /\ transfers \in [Keys -> Xfers \cup {None}]
    BY <1>0, Zenon DEF TypeOK
  <2> QED
    BY <1>0, <1>2, <1>3, <1>4, <2>1, <2>2
<1>6. /\ mon' \in [Xfers -> {"none", "active", "inactive", "closing", "closed"}]
      /\ transfers' \in [Keys -> Xfers \cup {None}]
  BY <1>0, <1>2, <1>4, Zenon DEF TypeOK
<1>7. /\ \/ start' = start \cup {x} /\ UNCHANGED waitingTransfers
         \/ start' = start /\ waitingTransfers' = Append(waitingTransfers, x)
      /\ activeTransfers' \in Int
  <2>1. activeTransfers \in Int /\ activeTransfers + 1 \in Int
    BY <1>0 DEF TypeOK
  <2> QED
    BY <1>1, <2>1, Zenon DEF transfer
<1>8. ASSUME NEW y \in Xfers
      PROVE  /\ y \in start' => y \in start \/ y = x
             /\ y \in start => y \in start'
  BY <1>7, Zenon
<1>9. CallOK(c)' /\ TypeOK'
  <2>1. \A y \in Xfers : y # x /\ Has(c, y) => Has(c, y)'
    BY <1>5, Zenon DEF Has, Key
  <2>2. Has(c, x)'
    BY <1>0, <1>2, <1>5, Zenon DEF Has, Key
  <2>3. ASSUME NEW n \in At(c) + 1 .. Depth
        PROVE  mon'[<<c, n>>] = "none"
    <3>1. n \in 1 .. Depth /\ n \in At(c) .. Depth /\ n # At(c)
      BY <1>0
    <3>2. <<c, n>> \in Xfers /\ <<c, n>> # x /\ mon[<<c, n>>] = "none"
      BY <1>0, <1>1, <3>1, Zenon DEF Xfers, Looping
    <3> QED
      BY <1>5, <3>2, Zenon
  <2>4. /\ CallOK(c)'
        /\ pc' \in [Callers -> CallPcs] /\ topDownload' \in [Callers -> Xfers \cup {None}]
        /\ deferred' \in [Callers -> Seq(Xfers)] /\ cand' \in [Callers -> Xfers \cup {None}]
    BY <1>0, <1>2, <1>4, <2>1, <2>2, <2>3, ReturnedStep, Zenon
  <2>5. waitingTransfers' \in Seq(Xfers) /\ start' \subseteq Xfers
    <3>1. waitingTransfers \in Seq(Xfers) /\ start \subseteq Xfers
      BY <1>0, Zenon DEF TypeOK
    <3>2. Append(waitingTransfers, x) \in Seq(Xfers)
      BY <3>1
    <3> QED
      BY <1>7, <3>1, <3>2, Zenon
  <2>6. UNCHANGED <<layers, topLayer, result>>
    BY <1>4, Zenon DEF Returned
  <2>7. /\ mu' \in Callers \cup {None} /\ concurrencyLimit' \in Nat /\ activeTransfers' \in Int
        /\ inactive' \subseteq Xfers /\ cancelled' \subseteq Xfers /\ releasedChan' \subseteq Xfers
        /\ held' \subseteq Xfers /\ layers' \in Pulls
        /\ topLayer' \in [Callers -> Seq(Descriptors)]
        /\ result' \in [Callers -> Errors \cup {"ok", "ctx"}]
    BY <1>0, <1>4, <1>7, <2>6, Zenon DEF TypeOK
  <2> QED
    BY <1>5, <1>6, <2>4, <2>5, <2>7, Zenon DEF TypeOK
<1>10. QueueInv'
  <2> DEFINE w == waitingTransfers
  <2>0. w \in Seq(Xfers) /\ QueueInv
    BY <1>0, Zenon DEF TypeOK, TransfersInv
  <2>1. CASE start' = start \cup {x} /\ UNCHANGED waitingTransfers
    <3>1. ~Queued(x)
      BY <1>2, <2>0, Zenon DEF QueueInv
    <3>2. \A y \in Xfers : Queued(y)' = Queued(y)
      BY <2>1, Zenon DEF Queued
    <3> QED
      BY <1>5, <2>0, <2>1, <3>1, <3>2, Zenon DEF QueueInv
  <2>2. CASE start' = start /\ waitingTransfers' = Append(waitingTransfers, x)
    <3> DEFINE v == Append(waitingTransfers, x)
    <3>1. /\ Len(w) \in Nat /\ Len(v) = Len(w) + 1 /\ v[Len(w) + 1] = x
          /\ \A i \in 1 .. Len(w) : v[i] = w[i]
      BY <2>0, AppendProperties
    <3> HIDE DEF v
    <3>2. \A i \in 1 .. Len(v) : i \in 1 .. Len(w) \/ i = Len(w) + 1
      BY <3>1
    <3>3. \A i \in 1 .. Len(w) : w[i] # x
      BY <1>2, <2>0, Zenon DEF QueueInv, Queued
    <3>4. Len(w) + 1 \in 1 .. Len(v) /\ \A i \in 1 .. Len(w) : i \in 1 .. Len(v)
      BY <3>1
    <3>5. ASSUME NEW y \in Xfers
          PROVE  Queued(y)' <=> Queued(y) \/ y = x
      BY <2>2, <3>1, <3>2, <3>4, Zenon DEF Queued, v
    <3>6. ASSUME NEW y \in Xfers
          PROVE  Queued(y)' <=> mon'[y] # "none" /\ y \notin start'
      BY <1>2, <1>5, <2>0, <2>2, <3>5, Zenon DEF QueueInv, XferOK
    <3>7. \A i, k \in 1 .. Len(v) : v[i] = v[k] => i = k
      BY <2>0, <3>1, <3>2, <3>3, Zenon DEF QueueInv
    <3> QED
      BY <2>2, <3>6, <3>7, Zenon DEF QueueInv, v
  <2> QED
    BY <1>7, <2>1, <2>2, Zenon
<1>11. ASSUME NEW y \in Xfers
       PROVE  XferOK(y)'
  <2>1. CASE y = x
    <3>1. Tracked(x)' /\ transfers'[Key(x)] = x /\ Key(x)' = Key(x)
      BY <1>5, Zenon DEF Tracked, Key
    <3>2. x \notin cancelled /\ x \notin releasedChan /\ x \notin inactive /\ x \notin held
      BY <1>2, Zenon DEF XferOK, NoJob
    <3> QED
      <4>1. /\ mon'[x] = "active" /\ watchers'[x] = {c} /\ job'[x].pc = "start"
            /\ job'[x].err = ""
            /\ job'[x].source # None => job'[x].parent # None
            /\ x[2] =< Len(layers'[x[1]])
        BY <1>2, <1>3, <1>5, Zenon
      <4>2. x \notin cancelled' /\ x \notin releasedChan' /\ x \notin inactive' /\ x \notin held'
        BY <1>4, <3>2, Zenon DEF jobVars
      <4> QED
        BY <2>1, <3>1, <4>1, <4>2, Zenon DEF XferOK
  <2>2. CASE y # x
    <3>1. /\ XferOK(y) /\ Key(y)' = Key(y) /\ (Tracked(y)' <=> Tracked(y))
          /\ watchers[y] \subseteq Callers
      <4>1. watchers[y] \subseteq Callers
        BY <1>0 DEF TypeOK
      <4> QED
        BY <1>5, <2>2, <4>1, Zenon DEF Key, Tracked, TransfersInv, XferInv
    <3>2. Tracked(y) => transfers'[Key(y)] = y
      <4>1. Tracked(y) => Key(y) \in Keys /\ transfers[Key(y)] = y
        BY <1>0, <3>1, KeyFacts, Zenon DEF XferOK, Tracked
      <4>2. Tracked(y) => Key(y) # Key(x)
        BY <1>0, <1>2, <4>1, Zenon
      <4> QED
        BY <1>5, <4>1, <4>2, Zenon
    <3>3. ASSUME y \in cancelled, NEW d \in watchers[y]
          PROVE  pc'[d] = "check" /\ cand'[d] = y
      <4>1. pc[d] = "check" /\ cand[d] = y /\ d \in Callers /\ d # c
        BY <1>0, <3>1, <3>3, Zenon DEF XferOK
      <4> QED
        BY <1>0, <1>4, <4>1, Zenon DEF Returned, TypeOK
    <3> QED
      <4>1. mon[y] = "none" => y \notin start'
        BY <1>8, <2>2, <3>1, Zenon DEF XferOK
      <4> QED
        BY <1>4, <1>5, <1>8, <2>2, <3>1, <3>2, <3>3, <4>1, XferFrame, Zenon
  <2> QED
    BY <2>1, <2>2, Zenon
<1>12. MapInv'
  <2> SUFFICES ASSUME NEW k \in Keys, transfers'[k] # None
               PROVE  Key(transfers[k])' = k /\ Tracked(transfers[k])'
    BY Zenon DEF MapInv
  <2>1. CASE k = Key(x)
    BY <1>5, <2>1, Zenon DEF Tracked, Key
  <2>2. CASE k # Key(x)
    <3>1. PICK y \in Xfers : y = transfers[k]
      BY <1>0, <1>5, <2>2 DEF TypeOK
    <3>2. Key(y) = k /\ Tracked(y) /\ y # x /\ transfers'[k] = y
      BY <1>0, <1>5, <2>2, <3>1, Zenon DEF TransfersInv, MapInv
    <3> QED
      BY <1>5, <3>2, Zenon DEF Key, Tracked
  <2> QED
    BY <2>1, <2>2, Zenon
<1>13. ASSUME NEW d \in Callers \ {c}
       PROVE  CallOK(d)'
  <2>1. \A n \in 1 .. Depth : mon'[<<d, n>>] = mon[<<d, n>>]
    BY <1>1, <1>5, Zenon DEF Xfers
  <2>2. ASSUME NEW y \in Xfers
        PROVE  /\ d \in watchers'[y] <=> d \in watchers[y]
               /\ Tracked(y) => Tracked(y)'
               /\ job[y].pc = "done" => job'[y] = job[y]
    <3>1. CASE y = x
      BY <1>2, <1>5, <3>1, Zenon DEF XferOK, Tracked, NoJob
    <3>2. CASE y # x
      BY <1>5, <3>2, Zenon DEF Tracked
    <3> QED
      BY <3>1, <3>2, Zenon
  <2>3. /\ pc'[d] = pc[d] /\ topLayer'[d] = topLayer[d] /\ topDownload'[d] = topDownload[d]
        /\ cand'[d] = cand[d] /\ deferred'[d] = deferred[d] /\ result'[d] = result[d]
        /\ mu' = mu
    BY <1>0, <1>4, Zenon DEF Returned, TypeOK
  <2> QED
    BY <2>1, <2>2, <2>3, OtherCall, Zenon
<1> QED
  BY <1>9, <1>10, <1>11, <1>12, <1>13, Zenon DEF TransfersInv, XferInv, CallInv

-----------------------------------------------------------------------------
(* The inductive invariant, and what follows from it *)

LEMMA InvInit == Init => TransfersInv
<1> SUFFICES ASSUME Init PROVE TransfersInv
  BY Zenon
<1>0. /\ layers \in Pulls /\ mu = None /\ concurrencyLimit \in Limits
      /\ activeTransfers = 0 /\ waitingTransfers = <<>>
      /\ transfers = [k \in Keys |-> None]
      /\ start = {} /\ inactive = {} /\ cancelled = {} /\ releasedChan = {} /\ held = {}
      /\ watchers = [x \in Xfers |-> {}] /\ mon = [x \in Xfers |-> "none"]
      /\ job = [x \in Xfers |-> NoJob]
      /\ pc = [c \in Callers |-> "lookup"] /\ topLayer = [c \in Callers |-> <<>>]
      /\ topDownload = [c \in Callers |-> None] /\ deferred = [c \in Callers |-> <<>>]
      /\ cand = [c \in Callers |-> None]
  BY Zenon DEF Init
<1>1. TypeOK
  <2>1. NoJob \in Jobs
    BY Zenon DEF NoJob, Jobs, JobPcs, Errors
  <2>2. result \in [Callers -> Errors \cup {"ok", "ctx"}]
    BY Zenon DEF Init, Errors
  <2>3. /\ concurrencyLimit \in Nat /\ activeTransfers \in Int /\ waitingTransfers \in Seq(Xfers)
        /\ topLayer \in [Callers -> Seq(Descriptors)] /\ deferred \in [Callers -> Seq(Xfers)]
    BY <1>0, TransfersAssumption
  <2>4. pc \in [Callers -> CallPcs]
    BY <1>0, Zenon DEF CallPcs
  <2>5. /\ mu \in Callers \cup {None} /\ transfers \in [Keys -> Xfers \cup {None}]
        /\ watchers \in [Xfers -> SUBSET Callers] /\ job \in [Xfers -> Jobs]
        /\ mon \in [Xfers -> {"none", "active", "inactive", "closing", "closed"}]
        /\ topDownload \in [Callers -> Xfers \cup {None}]
        /\ cand \in [Callers -> Xfers \cup {None}]
        /\ start \subseteq Xfers /\ inactive \subseteq Xfers /\ cancelled \subseteq Xfers
        /\ releasedChan \subseteq Xfers /\ held \subseteq Xfers
    BY <1>0, <2>1, Zenon
  <2> QED
    BY <1>0, <2>2, <2>3, <2>4, <2>5, Zenon DEF TypeOK
<1>2. XferInv
  <2>1. NoJob.pc = "none" /\ NoJob.source = None
    BY Zenon DEF NoJob
  <2> QED
    BY <1>0, <2>1, Zenon DEF XferInv, XferOK, Tracked
<1>3. MapInv
  BY <1>0, Zenon DEF MapInv
<1>4. ASSUME NEW c \in Callers
      PROVE  CallOK(c)
  <2>1. layers[c] \in Seq(Descriptors) /\ Len(layers[c]) \in 1 .. Depth /\ Depth \in Nat
    BY <1>0, TransfersAssumption, Zenon
  <2>2. /\ topLayer[c] = <<>> /\ deferred[c] = <<>> /\ topDownload[c] = None /\ pc[c] = "lookup"
        /\ \A n \in 1 .. Depth : mon[<<c, n>>] = "none"
    BY <1>0, Zenon DEF Xfers
  <2>3. IsPrefix(topLayer[c], layers[c])
    <3>1. Prefix(layers[c], 0) \in Seq(Descriptors) /\ Len(Prefix(layers[c], 0)) = 0
      BY <2>1, PrefixFacts
    <3> QED
      BY <2>1, <2>2, <3>1, EmptySeq DEF IsPrefix
  <2>4. At(c) = 1
    BY <2>2 DEF At
  <2>5. Looping(c)
    BY <2>1, <2>2, <2>4 DEF Looping
  <2>6. Watching(c)
    BY <2>2 DEF Watching
  <2>7. mu # c
    BY <1>0, TransfersAssumption, Zenon DEF None
  <2> QED
    BY <2>2, <2>3, <2>5, <2>6, <2>7, Zenon DEF CallOK
<1>5. QueueInv
  <2>1. 1 .. Len(waitingTransfers) = {}
    BY <1>0
  <2> QED
    BY <1>0, <2>1, Zenon DEF QueueInv, Queued
<1> QED
  BY <1>1, <1>2, <1>3, <1>4, <1>5, Zenon DEF TransfersInv, CallInv

LEMMA InvNext == TransfersInv /\ [Next]_vars => TransfersInv'
<1> SUFFICES ASSUME TransfersInv, [Next]_vars PROVE TransfersInv'
  BY Zenon
<1>1. CASE UNCHANGED vars
  <2> USE <1>1 DEF vars, tmVars, xferVars, jobVars, callVars
  <2>1. TypeOK' /\ MapInv' /\ QueueInv'
    BY Zenon DEF TransfersInv, TypeOK, MapInv, QueueInv, Queued, Key, Tracked
  <2>2. XferInv'
    <3> SUFFICES ASSUME NEW y \in Xfers PROVE XferOK(y)'
      BY Zenon DEF XferInv
    <3>1. XferOK(y)
      BY Zenon DEF TransfersInv, XferInv
    <3>2. /\ Tracked(y) => transfers[Key(y)] = y
          /\ mon[y] = "none" => y \notin start
          /\ y \in cancelled => \A d \in watchers[y] : pc[d] = "check" /\ cand[d] = y
      BY <3>1, Zenon DEF XferOK
    <3> QED
      BY <3>1, <3>2, XferFrame, Zenon
  <2>3. CallInv'
    BY CallFrame, Zenon DEF CallInv, Tracked
  <2> QED
    BY <2>1, <2>2, <2>3, Zenon DEF TransfersInv
<1>2. ASSUME NEW x \in Xfers, Job(x) \/ Monitor(x), UNCHANGED layers
      PROVE  TransfersInv'
  BY <1>2, JobInv, MonitorInv, Zenon
<1>3. ASSUME NEW c \in Callers, Asks(c) \/ Goes(c) \/ GiveUp(c) \/ ReleaseImage(c), UNCHANGED layers
      PROVE  TransfersInv'
  BY <1>3, TransferInv, WatchInv, LookupInv, CheckContextInv, WaitInv, DropLayerInv, UnwindInv,
     ReleaseImageInv, Zenon DEF Asks, Goes
<1>4. ASSUME NEW n \in Limits, setConcurrency(n), UNCHANGED layers
      PROVE  TransfersInv'
  <2> USE <1>4, TransfersAssumption DEF setConcurrency, xferVars, jobVars
  <2>1. TypeOK' /\ MapInv' /\ QueueInv'
    BY Zenon DEF TransfersInv, TypeOK, MapInv, QueueInv, Queued, Key, Tracked, callVars
  <2>2. XferInv'
    <3> SUFFICES ASSUME NEW y \in Xfers PROVE XferOK(y)'
      BY Zenon DEF XferInv
    <3>1. XferOK(y)
      BY Zenon DEF TransfersInv, XferInv
    <3>2. /\ Tracked(y) => transfers[Key(y)] = y
          /\ mon[y] = "none" => y \notin start
          /\ y \in cancelled => \A d \in watchers[y] : pc[d] = "check" /\ cand[d] = y
      BY <3>1, Zenon DEF XferOK
    <3> QED
      BY <3>1, <3>2, XferFrame, Zenon DEF callVars
  <2>3. CallInv'
    BY CallFrame, Zenon DEF CallInv, Tracked
  <2> QED
    BY <2>1, <2>2, <2>3, Zenon DEF TransfersInv
<1> QED
  BY <1>1, <1>2, <1>3, <1>4, Zenon DEF Next

\* The map of transferManager, the watchers of the transfers and the calls of
\* Download agree in every reachable state.
THEOREM TransfersInvariant == Spec => []TransfersInv
<1>1. Init => TransfersInv
  BY InvInit, Zenon
<1>2. TransfersInv /\ [Next]_vars => TransfersInv'
  BY InvNext, Zenon
<1> QED
  BY <1>1, <1>2, PTL DEF Spec

\* A call never keeps a transfer that is cancelled: its watcher is known to the
\* transfer before transfer looks at the context, and from then on the transfer
\* has a watcher.
THEOREM NobodyWatchesCancelledHolds == Spec => []NobodyWatchesCancelled
<1>1. TransfersInv => NobodyWatchesCancelled
  <2> SUFFICES ASSUME TransfersInv, NEW c \in Callers, NEW x \in cancelled
               PROVE  /\ x # topDownload[c]
                      /\ \A i \in 1 .. Len(deferred[c]) : x # deferred[c][i]
    BY Zenon DEF NobodyWatchesCancelled
  <2>0. /\ CallOK(c) /\ Watching(c) /\ x \in Xfers /\ XferOK(x) /\ None \notin Xfers
        /\ deferred[c] \in Seq(Xfers) /\ At(c) \in Nat
        /\ topDownload[c] \in Xfers \cup {None}
        /\ \A y \in Xfers : y[2] \in Int
    <3>1. x \in Xfers /\ XferOK(x)
      BY Zenon DEF TransfersInv, TypeOK, XferInv
    <3>2. /\ CallOK(c) /\ None \notin Xfers /\ deferred[c] \in Seq(Xfers) /\ At(c) \in Nat
          /\ topDownload[c] \in Xfers \cup {None} /\ Watching(c)
      BY CallFacts, Zenon DEF CallOK
    <3>3. \A y \in Xfers : y[2] \in Int
      BY TransfersAssumption DEF Xfers
    <3> QED
      BY <3>1, <3>2, <3>3, Zenon
  <2>1. ASSUME c \in watchers[x]
        PROVE  x[2] = At(c) /\ Looping(c)
    BY <2>0, <2>1, Zenon DEF XferOK, CallOK, Checking
  <2>2. x # topDownload[c]
    BY <2>0, <2>1 DEF Watching, Has, Looping
  <2>3. ASSUME NEW i \in 1 .. Len(deferred[c]), x = deferred[c][i]
        PROVE  FALSE
    <3>1. c \in watchers[x]
      BY <2>0, <2>3, Zenon DEF Watching, Has
    <3>2. topDownload[c] \in Xfers /\ topDownload[c][2] = At(c) - 1 /\ x[2] < topDownload[c][2]
      BY <2>0, <2>1, <2>3, <3>1 DEF Watching, Looping
    <3> QED
      BY <2>0, <2>1, <3>1, <3>2
  <2> QED
    BY <2>2, <2>3, Zenon
<1> QED
  BY <1>1, TransfersInvariant, PTL

\* What a call of Download returned is in the layer store until it is released.
THEOREM PulledLayersExistHolds == Spec => []PulledLayersExist
<1>1. TransfersInv => PulledLayersExist
  <2> SUFFICES ASSUME TransfersInv, NEW c \in Callers, pc[c] = "holding"
               PROVE  LayerExists(layers[c])
    BY Zenon DEF PulledLayersExist
  <2>0. /\ CallOK(c) /\ Watching(c) /\ layers[c] \in Seq(Descriptors) /\ Len(layers[c]) \in Nat
        /\ topDownload[c] \in Xfers \cup {None} /\ None \notin Xfers
    <3>1. /\ CallOK(c) /\ layers[c] \in Seq(Descriptors)
          /\ topDownload[c] \in Xfers \cup {None} /\ None \notin Xfers
      BY CallFacts, Zenon
    <3>2. Len(layers[c]) \in Nat
      BY CallFacts
    <3> QED
      BY <3>1, <3>2, Zenon DEF CallOK
  <2>1. IsPrefix(layers[c], layers[c])
    BY <2>0, PrefixFacts DEF IsPrefix
  <2>2. CASE topDownload[c] = None
    BY <2>0, <2>1, <2>2, Zenon DEF CallOK, LayerExists
  <2>3. CASE topDownload[c] # None
    <3>1. PICK x \in Xfers : x = topDownload[c]
      BY <2>0, <2>3, Zenon
    <3>2. Pulled(c, x) /\ c \in watchers[x] /\ XferOK(x)
      BY <2>0, <2>3, <3>1, Zenon DEF CallOK, Watching, Has, TransfersInv, XferInv
    <3>3. x \in held
      BY <3>2, Zenon DEF Pulled, XferOK
    <3> QED
      BY <2>1, <3>2, <3>3, Zenon DEF LayerExists, Pulled
  <2> QED
    BY <2>2, <2>3, Zenon
<1> QED
  BY <1>1, TransfersInvariant, PTL

-----------------------------------------------------------------------------
(* Slots *)

\* Transfers are finitely many, so those that move data can be counted.
LEMMA MovingFinite ==
    ASSUME TypeOK
    PROVE  IsFiniteSet(Moving) /\ Cardinality(Moving) \in Nat
<1>1. IsFiniteSet(1 .. Depth)
  BY FS_Interval, TransfersAssumption
<1>2. IsFiniteSet(Xfers)
  BY <1>1, FS_Product, TransfersAssumption, Zenon DEF Xfers
<1>3. Moving \in SUBSET Xfers
  BY Zenon DEF Moving, TypeOK
<1> QED
  BY <1>2, <1>3, FS_Subset, FS_CardinalityType, Zenon

\* inactivate(x) gives the slot of x to the head of the queue, or back.
LEMMA InactivateSlots ==
    ASSUME TransfersInv, SlotsAccounted, NEW x \in Moving, NEW m \in {"inactive", "closing"},
           inactivate(x), mon' = [mon EXCEPT ![x] = m]
    PROVE  SlotsAccounted'
<1>0. /\ TypeOK /\ XferInv /\ QueueInv /\ x \in Xfers /\ x \in start /\ mon[x] = "active"
      /\ waitingTransfers \in Seq(Xfers) /\ mon \in [Xfers -> {"none", "active", "inactive", "closing", "closed"}]
      /\ start \subseteq Xfers /\ activeTransfers \in Int
  BY Zenon DEF TransfersInv, TypeOK, Moving
<1>1. IsFiniteSet(Moving) /\ Cardinality(Moving) \in Nat
  BY <1>0, MovingFinite, Zenon
<1>2. IsFiniteSet(Moving \ {x}) /\ Cardinality(Moving \ {x}) = Cardinality(Moving) - 1
  BY <1>1, FS_RemoveElement, Zenon
<1>3. CASE waitingTransfers # <<>>
  <2>1. PICK h \in Xfers : h = Head(waitingTransfers) /\ h = waitingTransfers[1] /\ Len(waitingTransfers) \in Nat \ {0}
    BY <1>0, <1>3, HeadTailProperties, EmptySeq
  <2>2. start' = start \cup {h} /\ activeTransfers' = activeTransfers
    BY <1>0, <1>3, <2>1, Zenon DEF inactivate
  <2>3. h \notin start /\ mon[h] = "active" /\ h # x
    <3>1. Queued(h)
      BY <2>1 DEF Queued
    <3>2. mon[h] # "none" /\ h \notin start
      BY <1>0, <3>1, Zenon DEF QueueInv
    <3> QED
      BY <1>0, <3>2, Zenon DEF XferInv, XferOK
  <2>4. Moving' = (Moving \ {x}) \cup {h} /\ h \notin Moving
    BY <1>0, <2>2, <2>3, Zenon DEF Moving
  <2>5. Cardinality((Moving \ {x}) \cup {h}) = Cardinality(Moving \ {x}) + 1
    BY <1>2, <2>4, FS_AddElement, Zenon
  <2> QED
    BY <1>1, <1>2, <1>3, <2>2, <2>4, <2>5 DEF SlotsAccounted
<1>4. CASE waitingTransfers = <<>>
  <2>1. /\ start' = start /\ activeTransfers' = activeTransfers - 1
        /\ waitingTransfers' = <<>>
    BY <1>0, <1>4, Zenon DEF inactivate
  <2>2. Moving' = Moving \ {x}
    BY <1>0, <2>1, Zenon DEF Moving
  <2> QED
    BY <1>1, <1>2, <2>1, <2>2, Zenon DEF SlotsAccounted
<1> QED
  BY <1>3, <1>4, Zenon

\* Steps that neither start a transfer nor end its stay in a slot.
LEMMA SameSlots ==
    ASSUME SlotsAccounted, Moving' = Moving, UNCHANGED <<activeTransfers, waitingTransfers>>
    PROVE  SlotsAccounted'
BY Zenon DEF SlotsAccounted

\* The goroutine of transferManager gives a slot back once.
LEMMA MonitorSlots ==
    ASSUME TransfersInv, SlotsAccounted, NEW x \in Xfers, Monitor(x)
    PROVE  SlotsAccounted'
<1>0. /\ XferOK(x) /\ mon \in [Xfers -> {"none", "active", "inactive", "closing", "closed"}]
      /\ start \subseteq Xfers
  BY Zenon DEF TransfersInv, XferInv, TypeOK
<1>1. CASE Inactivated(x)
  BY <1>0, <1>1, InactivateSlots, Zenon DEF Inactivated, Moving, XferOK
<1>2. CASE Remove(x) /\ mon[x] = "active"
  BY <1>0, <1>2, InactivateSlots, Zenon DEF Remove, Moving, XferOK, IsDone
<1>3. CASE Remove(x) /\ mon[x] # "active"
  <2>1. Moving' = Moving
    BY <1>0, <1>3, Zenon DEF Remove, Moving
  <2> QED
    BY <1>3, <2>1, SameSlots, Zenon DEF Remove
<1>4. CASE close(x)
  <2>1. Moving' = Moving
    BY <1>0, <1>4, Zenon DEF close, Moving, tmVars
  <2> QED
    BY <1>4, <2>1, SameSlots, Zenon DEF close, tmVars
<1> QED
  BY <1>1, <1>2, <1>3, <1>4 DEF Monitor

\* A new transfer takes a slot, or waits behind one that has a slot.
LEMMA TransferSlots ==
    ASSUME TransfersInv, SlotsAccounted, NEW c \in Callers, transfer(c)
    PROVE  SlotsAccounted'
<1> DEFINE x == <<c, At(c)>>
<1>0. /\ x \in Xfers /\ mon[x] = "none" /\ XferOK(x) /\ activeTransfers \in Int
      /\ mon \in [Xfers -> {"none", "active", "inactive", "closing", "closed"}]
      /\ start \subseteq Xfers /\ concurrencyLimit \in Nat
  <2>1. At(c) \in Nat \ {0} /\ CallOK(c) /\ Depth \in Nat /\ Len(layers[c]) \in 1 .. Depth
    BY CallFacts, Zenon
  <2>2. pc[c] = "ask"
    BY Zenon DEF transfer, Locks
  <2>3. Looping(c)
    BY <2>1, <2>2, Zenon DEF CallOK
  <2>4. x \in Xfers /\ mon[x] = "none"
    BY <2>1, <2>3 DEF Looping, Xfers
  <2> QED
    BY <2>4, Zenon DEF TransfersInv, XferInv, TypeOK
<1>1. IsFiniteSet(Moving) /\ Cardinality(Moving) \in Nat
  BY MovingFinite, Zenon DEF TransfersInv
<1>2. x \notin start /\ x \notin Moving /\ mon' = [mon EXCEPT ![x] = "active"]
  BY <1>0, Zenon DEF XferOK, Moving, transfer
<1>3. CASE concurrencyLimit = 0 \/ activeTransfers < concurrencyLimit
  <2>1. /\ start' = start \cup {x} /\ activeTransfers' = activeTransfers + 1
        /\ waitingTransfers' = waitingTransfers
    BY <1>3, Zenon DEF transfer
  <2>2. Moving' = Moving \cup {x}
    BY <1>0, <1>2, <2>1, Zenon DEF Moving
  <2>3. Cardinality(Moving \cup {x}) = Cardinality(Moving) + 1
    BY <1>1, <1>2, FS_AddElement, Zenon
  <2> QED
    BY <1>1, <2>1, <2>2, <2>3 DEF SlotsAccounted
<1>4. CASE ~ (concurrencyLimit = 0 \/ activeTransfers < concurrencyLimit)
  <2>1. start' = start /\ activeTransfers' = activeTransfers
    BY <1>4, Zenon DEF transfer
  <2>2. Moving' = Moving
    BY <1>0, <1>2, <2>1, Zenon DEF Moving
  <2>3. activeTransfers > 0
    BY <1>0, <1>4
  <2> QED
    BY <2>1, <2>2, <2>3, Zenon DEF SlotsAccounted
<1> QED
  BY <1>3, <1>4, Zenon

\* The counter of transferManager is the number of transfers that hold a slot,
\* and a queued transfer always has one in a slot ahead of it: inactivate neither
\* leaks a slot nor hands one out twice.
THEOREM SlotsAccountedHolds == Spec => []SlotsAccounted
<1>1. Init => SlotsAccounted
  <2> SUFFICES ASSUME Init PROVE SlotsAccounted
    BY Zenon
  <2>1. start = {} /\ activeTransfers = 0 /\ waitingTransfers = <<>>
    BY Zenon DEF Init
  <2>2. Moving = {}
    BY <2>1, Zenon DEF Moving
  <2> QED
    BY <2>1, <2>2, FS_EmptySet, Zenon DEF SlotsAccounted
<1>2. TransfersInv /\ SlotsAccounted /\ [Next]_vars => SlotsAccounted'
  <2> SUFFICES ASSUME TransfersInv, SlotsAccounted, [Next]_vars PROVE SlotsAccounted'
    BY Zenon
  <2>1. ASSUME UNCHANGED <<start, mon, activeTransfers, waitingTransfers>>
        PROVE  SlotsAccounted'
    BY <2>1, SameSlots, Zenon DEF Moving
  <2>2. CASE UNCHANGED vars
    BY <2>1, <2>2, Zenon DEF vars, tmVars, jobVars
  <2>3. ASSUME NEW x \in Xfers, Job(x)
        PROVE  SlotsAccounted'
    BY <2>1, <2>3, Zenon DEF Job, JobStart, Download, AwaitParent, AwaitSource, Await, Register,
       ReleaseLayer, JobUnchanged, tmVars
  <2>4. ASSUME NEW x \in Xfers, Monitor(x)
        PROVE  SlotsAccounted'
    BY <2>4, MonitorSlots, Zenon
  <2>5. ASSUME NEW c \in Callers, Asks(c)
        PROVE  SlotsAccounted'
    BY <2>1, <2>5, TransferSlots, Zenon DEF Asks, Watch, tmVars, jobVars
  <2>6. ASSUME NEW c \in Callers, Goes(c) \/ GiveUp(c) \/ ReleaseImage(c)
        PROVE  SlotsAccounted'
    BY <2>1, <2>6, Zenon
       DEF Goes, Lookup, CheckContext, Wait, GiveUp, Returns, DropLayer, Unwind, ReleaseImage,
       CallUnchanged, tmVars, jobVars
  <2>7. ASSUME NEW n \in Limits, setConcurrency(n)
        PROVE  SlotsAccounted'
    BY <2>1, <2>7, Zenon DEF setConcurrency, jobVars
  <2> QED
    BY <2>2, <2>3, <2>4, <2>5, <2>6, <2>7, Zenon DEF Next
<1> QED
  BY <1>1, <1>2, TransfersInvariant, PTL DEF Spec
=============================================================================
