--------------------------- MODULE LayerTransfers ---------------------------
(***************************************************************************)
(* Pulling the layers of images: transferManager and xfer                  *)
(* (daemon/internal/distribution/xfer/transfer.go) under                   *)
(* LayerDownloadManager.Download and the transfer functions it makes       *)
(* (download.go).                                                          *)
(*                                                                         *)
(* A member of Callers is one call of Download.  It asks for a transfer    *)
(* per missing layer, bottom up; calls that need the same layer on the     *)
(* same parents share the transfer, a transfer nobody watches is           *)
(* cancelled, and at most concurrencyLimit of them move data.  A transfer  *)
(* is named by the call that created it and the number of the layer.  The  *)
(* goroutines are those of the code: the caller, the transfer function     *)
(* (job), the one of transferManager that removes the transfer from the    *)
(* map (mon), and the one that gives its layer back (ReleaseLayer).  What  *)
(* is done under tm.mu or t.mu is one step, but for the look at the        *)
(* context in transfer, which holds tm.mu only.  A channel that is only    *)
(* ever closed is the set of the transfers for which it is closed.         *)
(* Progress output is left out.                                            *)
(***************************************************************************)
EXTENDS Sequences, FiniteSets, Integers

CONSTANTS Callers,      \* calls of Download
          Descriptors,  \* keys of layer descriptors
          Pulls,        \* what the calls may be given as layers, bottom first
          Depth,        \* the largest number of layers
          Limits        \* values of max-concurrent-downloads; 0 is unlimited

ASSUME TransfersAssumption ==
    /\ IsFiniteSet(Callers) /\ <<>> \notin Callers
    /\ Depth \in Nat
    /\ Pulls \subseteq [Callers -> Seq(Descriptors)]
    /\ \A p \in Pulls : \A c \in Callers : Len(p[c]) \in 1 .. Depth
    /\ Limits \subseteq Nat

VARIABLES
    \* the transferManager
    mu,                 \* the caller that holds tm.mu between two steps
    concurrencyLimit, activeTransfers, waitingTransfers,
    transfers,          \* from the key of a transfer to the transfer
    \* the transfers
    start, inactive,    \* those whose channel start, inactive is closed
    cancelled,          \* those whose context is done
    releasedChan,       \* those whose channel releasedChan is closed
    watchers,           \* the callers that watch a transfer
    mon,                \* where the goroutine of transferManager is
    job,                \* where the transfer function is, and its downloadTransfer
    held,               \* those that hold the layer they registered
    \* the calls of Download
    layers,             \* the argument layers
    pc, topLayer, topDownload, deferred, cand, result

tmVars   == <<concurrencyLimit, activeTransfers, waitingTransfers, transfers, start>>
xferVars == <<cancelled, releasedChan, watchers>>
jobVars  == <<inactive, mon, job, held>>
callVars == <<pc, topLayer, topDownload, deferred, cand, result>>
vars == <<layers, mu, tmVars, xferVars, jobVars, callVars>>

Xfers == Callers \X (1 .. Depth)
None  == <<>>

Prefix(s, n) == SubSeq(s, 1, n)

\* transferKey: the keys of the layer and of all below it
Key(x) == Prefix(layers[x[1]], x[2])
Keys   == UNION {UNION {{Prefix(p[c], n) : n \in 1 .. Len(p[c])} : c \in Callers} : p \in Pulls}

JobPcs == {"none", "start", "download", "parent", "source", "register", "done"}
Errors == {"", "failed", "cancelled", "noparent"}
Jobs   == [pc: JobPcs, err: Errors, parent: Xfers \cup {None}, source: Xfers \cup {None}]
NoJob  == [pc |-> "none", err |-> "", parent |-> None, source |-> None]

CallPcs == {"lookup", "ask", "check", "wait", "drop", "unwind", "holding", "returned"}

TypeOK ==
    /\ layers \in Pulls
    /\ mu \in Callers \cup {None}
    /\ concurrencyLimit \in Nat /\ activeTransfers \in Int
    /\ waitingTransfers \in Seq(Xfers)
    /\ transfers \in [Keys -> Xfers \cup {None}]
    /\ start \subseteq Xfers /\ inactive \subseteq Xfers
    /\ cancelled \subseteq Xfers /\ releasedChan \subseteq Xfers
    /\ watchers \in [Xfers -> SUBSET Callers]
    /\ mon \in [Xfers -> {"none", "active", "inactive", "closing", "closed"}]
    /\ job \in [Xfers -> Jobs] /\ held \subseteq Xfers
    /\ pc \in [Callers -> CallPcs]
    /\ topLayer \in [Callers -> Seq(Descriptors)]
    /\ topDownload \in [Callers -> Xfers \cup {None}]
    /\ deferred \in [Callers -> Seq(Xfers)]
    /\ cand \in [Callers -> Xfers \cup {None}]
    /\ result \in [Callers -> Errors \cup {"ok", "ctx"}]

Init ==
    /\ layers \in Pulls
    /\ mu = None
    /\ concurrencyLimit \in Limits
    /\ activeTransfers = 0 /\ waitingTransfers = <<>>
    /\ transfers = [k \in Keys |-> None]
    /\ start = {} /\ inactive = {} /\ cancelled = {} /\ releasedChan = {}
    /\ watchers = [x \in Xfers |-> {}]
    /\ mon = [x \in Xfers |-> "none"]
    /\ job = [x \in Xfers |-> NoJob] /\ held = {}
    /\ pc = [c \in Callers |-> "lookup"]
    /\ topLayer = [c \in Callers |-> <<>>]
    /\ topDownload = [c \in Callers |-> None]
    /\ deferred = [c \in Callers |-> <<>>]
    /\ cand = [c \in Callers |-> None]
    /\ result = [c \in Callers |-> ""]

-----------------------------------------------------------------------------
(* The layer store: a layer exists while it or a layer above it is held, by   *)
(* the transfer that registered it or by a caller that found it.              *)

IsPrefix(s, t) == Len(s) =< Len(t) /\ Prefix(t, Len(s)) = s

LayerExists(l) ==
    \/ \E x \in held : IsPrefix(l, Key(x))
    \/ \E c \in Callers : IsPrefix(l, topLayer[c])

-----------------------------------------------------------------------------
(* The transfers *)

IsDone(x) == job[x].pc = "done"   \* its channel running is closed

\* mutant: the context is cancelled whenever a watcher leaves
release_AnyWatcher(x, c) ==
    /\ watchers' = [watchers EXCEPT ![x] = @ \ {c}]
    /\ cancelled' = IF mon[x] # "closed" THEN cancelled \cup {x} ELSE cancelled
    /\ releasedChan' = IF mon[x] = "closed" THEN releasedChan \cup {x} ELSE releasedChan

release(x, c) ==
    LET last == watchers[x] \ {c} = {}
    IN /\ watchers' = [watchers EXCEPT ![x] = @ \ {c}]
       /\ cancelled' = IF last /\ mon[x] # "closed" THEN cancelled \cup {x} ELSE cancelled
       /\ releasedChan' = IF last /\ mon[x] = "closed" THEN releasedChan \cup {x} ELSE releasedChan

watch(x, c) == watchers' = [watchers EXCEPT ![x] = @ \cup {c}]

\* xfer.close: transferManager does not track the transfer any more
close(x) ==
    /\ mon[x] = "closing"
    /\ mon' = [mon EXCEPT ![x] = "closed"]
    /\ releasedChan' = IF watchers[x] = {} THEN releasedChan \cup {x} ELSE releasedChan
    /\ UNCHANGED <<mu, tmVars, cancelled, watchers, inactive, job, held, callVars>>

\* mutant: a slot that becomes free is not handed to a waiting transfer
inactivate_Forgets(x) ==
    /\ activeTransfers' = IF x \in start THEN activeTransfers - 1 ELSE activeTransfers
    /\ UNCHANGED <<start, waitingTransfers>>

\* mutant: the slot is given back although a waiting transfer takes it over
inactivate_Twice(x) ==
    IF x \in start
    THEN /\ activeTransfers' = activeTransfers - 1
         /\ IF waitingTransfers # <<>>
            THEN /\ start' = start \cup {Head(waitingTransfers)}
                 /\ waitingTransfers' = Tail(waitingTransfers)
            ELSE UNCHANGED <<start, waitingTransfers>>
    ELSE UNCHANGED <<start, waitingTransfers, activeTransfers>>

inactivate(x) ==
    IF x \in start
    THEN IF waitingTransfers # <<>>
         THEN /\ start' = start \cup {Head(waitingTransfers)}
              /\ waitingTransfers' = Tail(waitingTransfers)
              /\ UNCHANGED activeTransfers
         ELSE /\ activeTransfers' = activeTransfers - 1
              /\ UNCHANGED <<start, waitingTransfers>>
    ELSE UNCHANGED <<start, waitingTransfers, activeTransfers>>

\* the goroutine of transferManager: the transfer stopped moving data
Inactivated(x) ==
    /\ mu = None
    /\ mon[x] = "active" /\ x \in inactive
    /\ inactivate(x)
    /\ mon' = [mon EXCEPT ![x] = "inactive"]
    /\ UNCHANGED <<mu, concurrencyLimit, transfers, xferVars, inactive, job, held, callVars>>

\* ... and: the transfer finished
Remove(x) ==
    /\ mu = None
    /\ mon[x] \in {"active", "inactive"} /\ IsDone(x)
    /\ IF mon[x] = "active" THEN inactivate(x)
                            ELSE UNCHANGED <<start, waitingTransfers, activeTransfers>>
    /\ transfers' = [transfers EXCEPT ![Key(x)] = None]
    /\ mon' = [mon EXCEPT ![x] = "closing"]
    /\ UNCHANGED <<mu, concurrencyLimit, xferVars, inactive, job, held, callVars>>

setConcurrency(n) ==
    /\ mu = None
    /\ concurrencyLimit' = n
    /\ UNCHANGED <<mu, activeTransfers, waitingTransfers, transfers, start, xferVars, jobVars,
                   callVars>>

-----------------------------------------------------------------------------
(* The transfer function: makeDownloadFunc and makeDownloadFuncFromDownload   *)

JobUnchanged == UNCHANGED <<mu, tmVars, xferVars, mon, callVars>>

Goto(x, p)   == job' = [job EXCEPT ![x].pc = p] /\ UNCHANGED held

\* the function returns: its progress channel is closed, and broadcast closes running
Finish(x, e) == job' = [job EXCEPT ![x].pc = "done", ![x].err = e] /\ UNCHANGED held

ParentFailed(x) == job[x].parent # None /\ IsDone(job[x].parent) /\ job[job[x].parent].err # ""

\* "<-start", then a look at the parent; data that an earlier layer of the same
\* image brings is not downloaded again
JobStart(x) ==
    /\ job[x].pc = "start" /\ x \in start
    /\ IF job[x].source # None
       THEN Goto(x, "parent") /\ inactive' = inactive \cup {x}
       ELSE /\ IF ParentFailed(x) THEN Finish(x, job[job[x].parent].err)
                                  ELSE Goto(x, "download")
            /\ UNCHANGED inactive
    /\ JobUnchanged

\* descriptor.Download and its retries: data, or an error in the end
Download(x) ==
    /\ job[x].pc = "download"
    /\ \/ /\ Goto(x, IF job[x].parent = None THEN "register" ELSE "parent")
          /\ inactive' = inactive \cup {x}
       \/ /\ Finish(x, IF x \in cancelled THEN "cancelled" ELSE "failed")
          /\ UNCHANGED inactive
    /\ JobUnchanged

\* the select on the context and another transfer: the parent, then the source
Await(x, y, next) ==
    /\ \/ x \in cancelled /\ Finish(x, "cancelled")
       \/ /\ IsDone(y)
          /\ IF job[y].err # "" THEN Finish(x, job[y].err) ELSE Goto(x, next)
    /\ UNCHANGED inactive
    /\ JobUnchanged

AwaitParent(x) ==
    /\ job[x].pc = "parent"
    /\ Await(x, job[x].parent, IF job[x].source = None THEN "register" ELSE "source")

AwaitSource(x) ==
    /\ job[x].pc = "source"
    /\ Await(x, job[x].source, "register")

\* layerStore.Register on the parent layer, with what it returns
Register(x) ==
    LET parentLayer == Prefix(Key(x), Len(Key(x)) - 1)
        registered  == job' = [job EXCEPT ![x].pc = "done"] /\ held' = held \cup {x}
        because(e)  == Finish(x, IF x \in cancelled /\ job[x].source = None
                                 THEN "cancelled" ELSE e)
    IN /\ job[x].pc = "register"
       /\ IF parentLayer = <<>> \/ LayerExists(parentLayer)
          THEN registered \/ because("failed")
          ELSE because("noparent")
       /\ UNCHANGED inactive
       /\ JobUnchanged

\* mutant: the layer is given back as soon as the transfer is not tracked
ReleaseLayer_Early(x) ==
    /\ x \in held /\ mon[x] = "closed"
    /\ held' = held \ {x}
    /\ UNCHANGED <<job, inactive>>
    /\ JobUnchanged

\* "<-d.transfer.released()", then the layer is given back
ReleaseLayer(x) ==
    /\ x \in held /\ x \in releasedChan
    /\ held' = held \ {x}
    /\ UNCHANGED <<job, inactive>>
    /\ JobUnchanged

-----------------------------------------------------------------------------
(* A call of Download *)

CallUnchanged == UNCHANGED <<tmVars, xferVars, jobVars>>

\* the number of the layer the loop is at
At(c) == Len(topLayer[c]) + Len(deferred[c]) + (IF topDownload[c] = None THEN 0 ELSE 1) + 1

AskedKey(c) == Prefix(layers[c], At(c))

\* layerStore.Get: the layer exists, and is known by its digest, or not
Lookup(c) ==
    LET l == AskedKey(c)
    IN /\ pc[c] = "lookup"
       /\ \/ /\ LayerExists(l)
             /\ topLayer' = [topLayer EXCEPT ![c] = l]
             /\ pc' = [pc EXCEPT ![c] = IF l = layers[c] THEN "holding" ELSE "lookup"]
          \/ /\ pc' = [pc EXCEPT ![c] = "ask"]
             /\ UNCHANGED topLayer
       /\ UNCHANGED <<mu, topDownload, deferred, cand, result>>
       /\ CallUnchanged

\* transfer returned x to the loop of Download
Returned(c, x) ==
    /\ topDownload' = [topDownload EXCEPT ![c] = x]
    /\ deferred' = IF topDownload[c] = None
                   THEN deferred
                   ELSE [deferred EXCEPT ![c] = Append(@, topDownload[c])]
    /\ pc' = [pc EXCEPT ![c] = IF AskedKey(c) = layers[c] THEN "wait" ELSE "ask"]
    /\ cand' = [cand EXCEPT ![c] = None]
    /\ UNCHANGED <<topLayer, result>>

\* downloadsByKey: the first transfer of this call that brings the same data, if any
SameData(c) ==
    LET mine  == Append(deferred[c], topDownload[c])
        same  == {i \in 1 .. Len(mine) :
                    mine[i] # None /\ layers[c][Len(topLayer[c]) + i] = layers[c][At(c)]}
        first == {i \in same : \A j \in same : i =< j}
    IN IF first = {} THEN None ELSE mine[CHOOSE i \in first : TRUE]

\* tm.mu.Lock, the second time once the transfer it may not watch is done
Locks(c) == pc[c] = "ask" /\ mu = None /\ (cand[c] # None => IsDone(cand[c]))

\* transfer, no transfer of that key: create one, and start it if a slot is free
transfer(c) ==
    LET x == <<c, At(c)>>
    IN /\ Locks(c)
       /\ transfers[AskedKey(c)] = None
       /\ IF concurrencyLimit = 0 \/ activeTransfers < concurrencyLimit
          THEN /\ start' = start \cup {x}
               /\ activeTransfers' = activeTransfers + 1
               /\ UNCHANGED waitingTransfers
          ELSE /\ waitingTransfers' = Append(waitingTransfers, x)
               /\ UNCHANGED <<start, activeTransfers>>
       /\ job' = [job EXCEPT ![x] = [pc |-> "start", err |-> "", parent |-> topDownload[c],
                                     source |-> SameData(c)]]
       /\ watch(x, c)
       /\ transfers' = [transfers EXCEPT ![AskedKey(c)] = x]
       /\ mon' = [mon EXCEPT ![x] = "active"]
       /\ Returned(c, x)
       /\ UNCHANGED <<mu, concurrencyLimit, cancelled, releasedChan, inactive, held>>

\* transfer, it is in progress: watch it
Watch(c) ==
    LET x == transfers[AskedKey(c)]
    IN /\ Locks(c)
       /\ x # None
       /\ watch(x, c)
       /\ mu' = c
       /\ cand' = [cand EXCEPT ![c] = x]
       /\ pc' = [pc EXCEPT ![c] = "check"]
       /\ UNCHANGED <<topLayer, topDownload, deferred, result>>
       /\ UNCHANGED <<tmVars, cancelled, releasedChan, jobVars>>

\* mutant: transfer does not look at the context of the transfer it found
CheckContext_Skipped(c) ==
    /\ pc[c] = "check"
    /\ mu' = None
    /\ Returned(c, cand[c]) /\ UNCHANGED xferVars
    /\ UNCHANGED <<tmVars, jobVars>>

\* ... and unless it has been cancelled, that is the one; otherwise try again
CheckContext(c) ==
    /\ pc[c] = "check"
    /\ mu' = None
    /\ IF cand[c] \in cancelled
       THEN /\ release(cand[c], c)
            /\ pc' = [pc EXCEPT ![c] = "ask"]
            /\ UNCHANGED <<topLayer, topDownload, deferred, cand, result>>
       ELSE Returned(c, cand[c]) /\ UNCHANGED xferVars
    /\ UNCHANGED <<tmVars, jobVars>>

\* what the deferred calls of Download have left to do
Defers(layer, downloads, res) ==
    IF layer # <<>> THEN "drop"
    ELSE IF downloads # <<>> THEN "unwind"
    ELSE IF res = "ok" THEN "holding" ELSE "returned"

\* what Download returns: it releases the top transfer when that is an error
Returns(c, r) ==
    /\ result' = [result EXCEPT ![c] = r]
    /\ pc' = [pc EXCEPT ![c] = Defers(topLayer[c], deferred[c], r)]
    /\ IF r = "ok"
       THEN UNCHANGED <<topDownload, xferVars>>
       ELSE /\ release(topDownload[c], c)
            /\ topDownload' = [topDownload EXCEPT ![c] = None]
    /\ UNCHANGED <<mu, topLayer, deferred, cand, tmVars, jobVars>>

\* the select on the context of the call and the top transfer: the transfer is done
Wait(c) ==
    LET e == job[topDownload[c]].err
    IN /\ pc[c] = "wait"
       /\ IsDone(topDownload[c])
       /\ Returns(c, IF e = "" THEN "ok" ELSE e)

\* ... and: the context is done, which may happen at any time
GiveUp(c) ==
    /\ pc[c] = "wait"
    /\ Returns(c, "ctx")

\* the deferred calls: the layer that was found first, then the transfers, last first
DropLayer(c) ==
    /\ pc[c] = "drop"
    /\ topLayer' = [topLayer EXCEPT ![c] = <<>>]
    /\ pc' = [pc EXCEPT ![c] = Defers(<<>>, deferred[c], result[c])]
    /\ UNCHANGED <<mu, topDownload, deferred, cand, result>>
    /\ CallUnchanged

Unwind(c) ==
    LET rest == Prefix(deferred[c], Len(deferred[c]) - 1)
    IN /\ pc[c] = "unwind"
       /\ release(deferred[c][Len(deferred[c])], c)
       /\ deferred' = [deferred EXCEPT ![c] = rest]
       /\ pc' = [pc EXCEPT ![c] = Defers(<<>>, rest, result[c])]
       /\ UNCHANGED <<mu, topLayer, topDownload, cand, result, tmVars, jobVars>>

\* the function Download returned is called once the image is in the image store
ReleaseImage(c) ==
    /\ pc[c] = "holding"
    /\ pc' = [pc EXCEPT ![c] = "returned"]
    /\ IF topDownload[c] = None
       THEN topLayer' = [topLayer EXCEPT ![c] = <<>>] /\ UNCHANGED <<xferVars, topDownload>>
       ELSE /\ release(topDownload[c], c)
            /\ topDownload' = [topDownload EXCEPT ![c] = None]
            /\ UNCHANGED topLayer
    /\ UNCHANGED <<mu, deferred, cand, result, tmVars, jobVars>>

-----------------------------------------------------------------------------

Job(x)     == JobStart(x) \/ Download(x) \/ AwaitParent(x) \/ AwaitSource(x) \/ Register(x)
              \/ ReleaseLayer(x)
Monitor(x) == Inactivated(x) \/ Remove(x) \/ close(x)
Asks(c)    == transfer(c) \/ Watch(c)
Goes(c)    == Lookup(c) \/ CheckContext(c) \/ Wait(c) \/ DropLayer(c) \/ Unwind(c)

Next ==
    /\ \/ \E x \in Xfers : Job(x) \/ Monitor(x)
       \/ \E c \in Callers : Asks(c) \/ Goes(c) \/ GiveUp(c) \/ ReleaseImage(c)
       \/ \E n \in Limits : setConcurrency(n)
    /\ UNCHANGED layers

Spec == Init /\ [][Next]_vars

\* goroutines run, a download ends, and who waits for tm.mu gets it (a Go mutex
\* does not starve); nobody has to give up, or to
\* release what it pulled
Fairness ==
    /\ \A x \in Xfers : WF_vars(Job(x) /\ UNCHANGED layers)
                       /\ SF_vars(Monitor(x) /\ UNCHANGED layers)
    /\ \A c \in Callers : WF_vars(Goes(c) /\ UNCHANGED layers)
                         /\ SF_vars(Asks(c) /\ UNCHANGED layers)

FairSpec == Spec /\ Fairness

-----------------------------------------------------------------------------
(* Properties *)

Tracked(x) == mon[x] \in {"active", "inactive"}
Moving     == {x \in start : mon[x] = "active"}
Queued(x)  == \E i \in 1 .. Len(waitingTransfers) : waitingTransfers[i] = x

\* A transfer is in the map exactly while its goroutine tracks it, its layer is
\* given back only when nobody can watch it any more, and who watches a cancelled
\* transfer is about to find that out.
XferOK(x) ==
    /\ mon[x] = "none" => /\ watchers[x] = {} /\ job[x] = NoJob
                          /\ x \notin cancelled \cup start \cup inactive \cup releasedChan
    /\ mon[x] # "none" => x[2] =< Len(layers[x[1]]) /\ job[x].pc # "none"
    /\ Tracked(x) => transfers[Key(x)] = x
    /\ mon[x] \in {"closing", "closed"} => job[x].pc = "done"
    /\ x \in releasedChan => mon[x] = "closed" /\ watchers[x] = {}
    /\ x \in cancelled => \A c \in watchers[x] : pc[c] = "check" /\ cand[c] = x
    /\ job[x].pc \notin {"none", "start"} => x \in start
    /\ x \in inactive => x \in start
    /\ mon[x] = "inactive" => x \in inactive
    /\ job[x].pc = "parent" \/ job[x].source # None => job[x].parent # None
    /\ job[x].pc = "source" => job[x].source # None
    /\ x \in held => job[x].pc = "done"
    /\ job[x].pc = "done" /\ job[x].err = "" => x \in held \cup releasedChan

XferInv == \A x \in Xfers : XferOK(x)

MapInv ==
    \A k \in Keys : transfers[k] # None => Key(transfers[k]) = k /\ Tracked(transfers[k])

\* the caller c holds the transfer x of its own image
Has(c, x) ==
    /\ c \in watchers[x] /\ x[2] =< Len(layers[c])
    /\ Key(x) = Prefix(layers[c], x[2])

Pulled(c, x) == Key(x) = layers[c] /\ job[x].pc = "done" /\ job[x].err = ""

\* Every transfer the call c got and has not released has it as a watcher.
Watching(c) ==
    /\ topDownload[c] # None => Has(c, topDownload[c])
    /\ \A i \in 1 .. Len(deferred[c]) :
          /\ Has(c, deferred[c][i])
          /\ \A j \in 1 .. i - 1 : deferred[c][j][2] < deferred[c][i][2]
          /\ topDownload[c] # None => deferred[c][i][2] < topDownload[c][2]

\* The loop over layers has created no transfer for the layers still to come.
Looping(c) ==
    /\ topDownload[c] = None => deferred[c] = <<>>
    /\ topDownload[c] # None => topDownload[c][2] = At(c) - 1
    /\ At(c) =< Len(layers[c])
    /\ \A n \in At(c) .. Depth : mon[<<c, n>>] = "none"

\* Under tm.mu the call c watches a transfer that is still in the map.
Checking(c) ==
    /\ cand[c] # None /\ Tracked(cand[c]) /\ Has(c, cand[c])
    /\ cand[c][2] = At(c)

CallOK(c) ==
    /\ IsPrefix(topLayer[c], layers[c])
    /\ mu = c <=> pc[c] = "check"
    /\ Watching(c)
    /\ pc[c] = "lookup" => topDownload[c] = None /\ \A n \in 1 .. Depth : mon[<<c, n>>] = "none"
    /\ pc[c] \in {"lookup", "ask", "check"} => Looping(c)
    /\ pc[c] = "check" => Checking(c)
    /\ pc[c] = "wait" => topDownload[c] # None /\ Key(topDownload[c]) = layers[c]
    /\ pc[c] \in {"drop", "unwind"} /\ result[c] = "ok" =>
          topDownload[c] # None /\ Pulled(c, topDownload[c])
    /\ pc[c] = "unwind" => deferred[c] # <<>>
    /\ pc[c] = "holding" => IF topDownload[c] = None THEN topLayer[c] = layers[c]
                            ELSE Pulled(c, topDownload[c])

CallInv == \A c \in Callers : CallOK(c)

\* The transfers without start are queued, each of them once.
QueueInv ==
    /\ \A x \in Xfers : Queued(x) <=> mon[x] # "none" /\ x \notin start
    /\ \A i, j \in 1 .. Len(waitingTransfers) :
          waitingTransfers[i] = waitingTransfers[j] => i = j

\* What the goroutines of transfer, the transfer functions and the calls of
\* Download rely on together, preserved by every step.
TransfersInv == TypeOK /\ XferInv /\ MapInv /\ CallInv /\ QueueInv

\* activeTransfers is the number of transfers that hold a slot, and no transfer is
\* queued while no slot is in use: slots neither leak nor multiply through
\* inactivate, however transfers end and whenever the limit is changed.
SlotsAccounted ==
    /\ activeTransfers = Cardinality(Moving)
    /\ waitingTransfers # <<>> => activeTransfers > 0

\* Of the transfers that a caller got from transfer and has not released, none is
\* cancelled: the last watcher leaving and a new one coming cannot cross
\* (the order of watch and of the look at the context in transfer).
NobodyWatchesCancelled ==
    \A c \in Callers : \A x \in cancelled :
        x # topDownload[c] /\ \A i \in 1 .. Len(deferred[c]) : x # deferred[c][i]

\* What Download returned exists until the caller releases it, whoever else
\* shares the transfers and leaves earlier.
PulledLayersExist ==
    \A c \in Callers : pc[c] = "holding" => LayerExists(layers[c])

\* Every call of Download returns: each transfer it shares gets a slot and ends.
DownloadReturns ==
    \A c \in Callers : <>(pc[c] \in {"holding", "returned"})
=============================================================================
