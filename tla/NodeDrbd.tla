------------------------------ MODULE NodeDrbd ------------------------------
(***************************************************************************)
(* The agent of one node and the DRBD kernel under it: several             *)
(* DRBDResources reconciled at once (drbdr/reconciler.go), each pass       *)
(* running its commands one by one; the listening ports they take from one *)
(* range (port_registry.go, reconciler_addresses.go); the kernel events    *)
(* that wake passes, drop cached output and maintain the ports in use      *)
(* (scanner.go, caches.go, drbd_port_cache.go); adopted resources that     *)
(* are renamed and orphans that are brought down.  The backing volumes'    *)
(* finalizers are in module NodeAgent.                                     *)
(***************************************************************************)
EXTENDS DrbdActions

CONSTANTS
    R,            \* DRBDResources of the node
    Old,          \* a kernel name without the agent's prefix
    Adopted,      \* the DRBDResource that may name Old as its actual name
    Disks,        \* backing devices
    Ports,        \* the range DRBDMinPort..DRBDMaxPort
    Scenarios     \* initial states and what may happen: see Init

VARIABLES
    obj,          \* obj[r]: "gone", "present" or "deleting" (only the agent's finalizer is left)
    spec,         \* spec[r]: the spec; spec[r].adopted: actualNameOnTheNode is set
    fin,          \* fin[r]: the agent's finalizer
    status,       \* status[r]: listening port (0: none), device-uuid, Configured
    informer,     \* informer[r]: the port the informer cache shows
    kernel,       \* kernel[n]: the DRBD resource of that name
    symlink,      \* symlink[r]: the minor the device symlink points to
    md,           \* md[d]: metadata and device-uuid on a backing device
    nextMinor,    \* nextDeviceMinor
    cache,        \* cache[n]: the cached output of drbdsetup status and show
    events,       \* events[n]: kernel events not yet read: path ports made and cut
    portCache,    \* DRBDPortCache: byIP, whether it is ready, and the dump
    pending,      \* ports handed out that have not expired
    queue,        \* reconcile requests: DRBDResource names and Old
    pass,         \* pass[k]: the reconciliation running for request k
    budget        \* what may still happen, and how often

vars == <<obj, spec, fin, status, informer, kernel, symlink, md, nextMinor, cache, events,
          portCache, pending, queue, pass, budget>>

api == <<obj, spec, fin, status>>
node == <<kernel, symlink, md, nextMinor>>

Names == R \cup {Old}

Miss == [NoRes EXCEPT !.opts = None]

NoEvents == [some |-> FALSE, made |-> {}, cut |-> {}]

Idle == [pc |-> "idle", res |-> Old, spec |-> <<>>, act |-> "", a |-> NoRes, port |-> 0,
         minor |-> None, used |-> {}, stale |-> {}, todo |-> <<>>, did |-> FALSE, err |-> FALSE]

NoStatus == [port |-> 0, uuid |-> 0, conf |-> FALSE]

Event(kind) ==
    /\ kind \in budget.kinds /\ budget.left > 0
    /\ budget' = [budget EXCEPT !.left = @ - 1]

----------------------------------------------------------------------------
(* Reading: the objects, the cached command output, the metadata.          *)

isUpAndNotInCleanup(r) == obj[r] = "present" /\ spec[r].up

\* Status and Show run the command on a miss.
Observed(n) == IF cache[n] = Miss THEN kernel[n] ELSE cache[n]

\* generateDeviceUUID: random, so never one seen before.
generateDeviceUUID ==
    1 + Max({0} \cup {md[d].uuid : d \in Disks} \cup {status[r].uuid : r \in R}
            \cup UNION {{pass[r].todo[x].uuid : x \in {y \in DOMAIN pass[r].todo :
                            pass[r].todo[y].op = "WriteDeviceUUID"}} : r \in R})

DiskOf(s) == IF s.disk = "" THEN [has |-> FALSE, uuid |-> 0] ELSE md[s.disk]

\* computeIntendedDRBDState, and the actions that lead there from what was observed.
Planned(r, s, active, a, port) ==
    computeTargetDRBDActions(
        [up |-> active, opts |-> s.opts, disk |-> s.disk, nv |-> s.nv, peers |-> s.peers, multi |-> s.multi,
         primary |-> s.primary, port |-> port, uuid |-> status[r].uuid],
        a, DiskOf(s), generateDeviceUUID)

----------------------------------------------------------------------------
(* Ports.  A port is free when no kernel path (S1), no status in the       *)
(* informer cache (S2), no socket (S3) and no recent allocation (S4) has   *)
(* it.  S1 and S2 are read before the lock is taken.                       *)

Listening == UNION {UNION {kernel[n].peers[p].paths : p \in {q \in PeerIds(kernel[n]) :
                                kernel[n].peers[q].conn # "StandAlone"}} : n \in Names}

\* A bug: allocations that are not visible yet are not counted.
UsedPortsVisible(k, recent) == pass[k].used

UsedPorts(k, recent) == pass[k].used \cup {e.port : e \in recent}

FreePorts(k, recent) == Ports \ (UsedPorts(k, recent) \cup Listening)

\* An allocation expires after ten minutes: by then its pass is over and the informer has
\* caught up with what it wrote.
mayExpire == {e \in pending : pass[e.res] = Idle /\ informer[e.res] = status[e.res].port}

\* WaitReady, GetUsedPorts and collectK8sPorts.
AllocateRead(k) ==
    /\ pass[k].pc \in {"alloc", "realloc"}
    /\ portCache.ready /\ ~portCache.dumping
    /\ pass' = [pass EXCEPT ![k].pc = IF @ = "alloc" THEN "lock" ELSE "relock",
                            ![k].used = portCache.byIP \cup {informer[r] : r \in R}, ![k].stale = mayExpire]
    /\ UNCHANGED <<api, informer, node, cache, events, portCache, pending, queue, budget>>

----------------------------------------------------------------------------
(* A pass.                                                                 *)

Requeue(k) == queue' = queue \cup {k}

\* The object has not changed since it was read: the optimistic lock holds.
Unchanged(k) == obj[pass[k].res] = pass[k].act /\ spec[pass[k].res] = pass[k].spec

\* What a pass goes on with once the addresses are persisted.
Run(p, r, a, port) ==
    [p EXCEPT !.pc = "run", !.a = NoRes, !.port = port, !.minor = a.minor, !.used = {},
              !.todo = Planned(r, p.spec, p.act = "present" /\ p.spec.up, a, port)]

\* Phases 2 and 3: the finalizer, the observation, and the address where no port has to be
\* allocated: none for a resource that is down, the one of the status, or the kernel's own.
Start(r) ==
    LET a == Observed(r)
        p == [Idle EXCEPT !.res = r, !.spec = spec[r], !.act = obj[r]]
        adds == isUpAndNotInCleanup(r) /\ ~fin[r]
    IN  /\ fin' = [fin EXCEPT ![r] = @ \/ adds]
        /\ queue' = (queue \ {r}) \cup (IF adds THEN {r} ELSE {})
        /\ cache' = [cache EXCEPT ![r] = a]
        /\ \/ /\ spec[r].up /\ status[r].port = 0 /\ PortsOf(a) = {}
              /\ pass' = [pass EXCEPT ![r] = [p EXCEPT !.pc = "alloc", !.a = a]]
              /\ UNCHANGED status
           \/ \E port \in IF ~spec[r].up THEN {0}
                          ELSE IF status[r].port # 0 THEN {status[r].port} ELSE PortsOf(a) :
                 /\ status' = [status EXCEPT ![r].port = port]
                 /\ pass' = [pass EXCEPT ![r] = Run(p, r, a, port)]
        /\ UNCHANGED <<obj, spec, informer, node, events, portCache, pending, budget>>

\* reconcileOrphanDRBD: a resource of the agent's without an object goes down.
StartOrphan(r) ==
    LET a == Observed(r)
    IN  /\ obj[r] = "gone"
        /\ cache' = [cache EXCEPT ![r] = a]
        /\ queue' = queue \ {r}
        /\ pass' = [pass EXCEPT ![r] = [Idle EXCEPT !.pc = "run", !.res = r, !.act = "gone",
                                                    !.todo = orphanActions(a.up)]]
        /\ UNCHANGED <<api, informer, node, events, portCache, pending, budget>>

\* Phase 1, and reconcileByActualName for a request by the kernel's name.
StartRename(k, r) ==
    /\ obj[r] # "gone" /\ spec[r].adopted
    /\ pass' = [pass EXCEPT ![k] = [Idle EXCEPT !.pc = "rename", !.res = r]]
    /\ queue' = queue \ {k}
    /\ UNCHANGED <<api, informer, node, cache, events, portCache, pending, budget>>

SkipUnmanaged(k) ==
    /\ k = Old /\ ~(obj[Adopted] # "gone" /\ spec[Adopted].adopted)
    /\ queue' = queue \ {k}
    /\ UNCHANGED <<api, informer, node, cache, events, portCache, pending, pass, budget>>

\* Reconcile: one worker per request.
Begin(k) ==
    /\ k \in queue /\ pass[k] = Idle
    /\ \/ k = Old /\ StartRename(k, Adopted)
       \/ SkipUnmanaged(k)
       \/ k \in R /\ StartOrphan(k)
       \/ k = Adopted /\ StartRename(k, k)
       \/ k \in R /\ obj[k] # "gone" /\ ~spec[k].adopted /\ Start(k)

\* The rename is refused while both names exist; without the old name there is nothing
\* left to adopt.
Rename(k) ==
    LET r == pass[k].res
    IN  /\ pass[k].pc = "rename"
        /\ IF kernel[Old].up /\ kernel[r].up
           THEN /\ pass' = [pass EXCEPT ![k] = Idle] /\ Requeue(k)
                /\ UNCHANGED <<kernel, events>>
           ELSE /\ pass' = [pass EXCEPT ![k].pc = "clear"]
                /\ kernel' = IF kernel[Old].up
                             THEN [kernel EXCEPT ![Old] = NoRes, ![r] = kernel[Old]] ELSE kernel
                /\ events' = IF kernel[Old].up
                             THEN [n \in Names |-> IF n \in {Old, r} THEN [events[n] EXCEPT !.some = TRUE]
                                                   ELSE events[n]]
                             ELSE events
                /\ UNCHANGED queue
        /\ UNCHANGED <<api, informer, symlink, md, nextMinor, cache, portCache, pending, budget>>

\* reconcileClearActualName.
ClearActualName(k) ==
    LET r == pass[k].res
    IN  /\ pass[k].pc = "clear"
        /\ pass' = [pass EXCEPT ![k] = Idle]
        /\ IF obj[r] = "gone" THEN Requeue(k) /\ UNCHANGED spec
           ELSE spec' = [spec EXCEPT ![r].adopted = FALSE] /\ Requeue(r)
        /\ UNCHANGED <<obj, fin, status, informer, node, cache, events, portCache, pending, budget>>

\* The lock of the registry: expired allocations are dropped and the first free port is
\* remembered.  Phase 3 persists it, unless the object has changed; one that replaces a
\* port in conflict is reported in Phase 8.
AllocateLocked(k) ==
    LET r == pass[k].res
        done == [pass[k] EXCEPT !.pc = "run", !.used = {}, !.stale = {}]
    IN  \E gone \in SUBSET (pass[k].stale \cap pending) :
        LET free == FreePorts(k, pending \ gone)
            port == IF free = {} THEN 0 ELSE Min(free)
            fails == free = {} \/ ~Unchanged(k)
        IN  /\ pass[k].pc \in {"lock", "relock"}
            /\ pending' = (pending \ gone) \cup (IF free = {} THEN {} ELSE {[port |-> port, res |-> r]})
            /\ \/ /\ pass[k].pc = "relock"
                  /\ pass' = [pass EXCEPT ![k] = IF free = {} THEN done ELSE [done EXCEPT !.port = port]]
                  /\ UNCHANGED <<status, queue>>
               \/ /\ pass[k].pc = "lock" /\ fails
                  /\ pass' = [pass EXCEPT ![k] = Idle]
                  /\ Requeue(k)
                  /\ UNCHANGED status
               \/ /\ pass[k].pc = "lock" /\ ~fails
                  /\ status' = [status EXCEPT ![r].port = port]
                  /\ pass' = [pass EXCEPT ![k] = Run(done, r, pass[k].a, port)]
                  /\ UNCHANGED queue
            /\ UNCHANGED <<obj, spec, fin, informer, node, cache, events, portCache, budget>>

\* Kernel events of a change of resource n to state k, in the order they are read.
Changed(n, k) ==
    LET old == kernel[n]
        has(s, p, x) == p \in PeerIds(s) /\ x \in s.peers[p].paths
        made == {x \in Ports : \E p \in Peers : has(k, p, x) /\ ~has(old, p, x)}
        cut == {x \in Ports : \E p \in Peers : has(old, p, x) /\ ~has(k, p, x)}
    IN  /\ kernel' = [kernel EXCEPT ![n] = k]
        /\ events' = IF k = old THEN events
                     ELSE [events EXCEPT ![n] = [some |-> TRUE, made |-> (@.made \ cut) \cup made,
                                                 cut |-> (@.cut \ made) \cup cut]]

\* Commands on a disk name the minor, all others the resource.
Target(k, x) ==
    IF x.op \in {"Attach", "Detach", "DiskOptions"}
    THEN {n \in Names : kernel[n].up /\ kernel[n].minor = pass[k].minor /\ pass[k].minor # None}
    ELSE {pass[k].res}

IntendedDisk(k) == IF pass[k].act = "present" THEN pass[k].spec.disk ELSE ""

Others(n) == UNION {PortsOf(kernel[q]) : q \in Names \ {n}}

CommandAnswer(k, x) ==
    IF Target(k, x) = {} THEN Refusal
    ELSE LET n == CHOOSE y \in Target(k, x) : TRUE
             d == IntendedDisk(k)
         IN  Answer(kernel[n], x,
                    [minor |-> ExecuteNewAutoMinor(nextMinor, {kernel[q].minor : q \in Names} \ {None}),
                     d |-> d, m |-> DiskOf([disk |-> d]), inUse |-> \E q \in Names : kernel[q].disk = d,
                     taken |-> Others(n)])

\* The effect on the node of a command the kernel answers with state a.
Effect(k, x, a) ==
    LET grabs == x.op = "NewMinor"
    IN  /\ Changed(CHOOSE y \in Target(k, x) : TRUE, a)
        /\ symlink' = [symlink EXCEPT ![pass[k].res] =
                          CASE x.op = "EnsureDeviceSymlink" -> pass[k].minor
                            [] x.op = "RemoveDeviceSymlink" -> None
                            [] OTHER -> @]
        /\ md' = IF IntendedDisk(k) = "" THEN md
                 ELSE [md EXCEPT ![IntendedDisk(k)] = MetadataAfter(@, x)]
        /\ nextMinor' = IF grabs THEN IF a.minor = MaxMinor THEN 0 ELSE a.minor + 1 ELSE nextMinor
        /\ pass' = [pass EXCEPT ![k].todo = Tail(@), ![k].did = TRUE,
                                ![k].minor = IF grabs THEN a.minor ELSE @]

\* convergeDRBDState: the next command.  A refused command ends the list; a local port in
\* use makes the pass allocate another.  (ExecuteNewAutoMinor does not return while the
\* resource has its volume already.)
Execute(k) ==
    LET x == Head(pass[k].todo)
    IN  /\ pass[k].pc = "run" /\ ~pass[k].err /\ pass[k].todo # <<>>
        /\ ~(x.op = "NewMinor" /\ kernel[pass[k].res].minor # None)
        /\ IF CommandAnswer(k, x) # Refusal THEN Effect(k, x, CommandAnswer(k, x))
           ELSE /\ pass' = [pass EXCEPT ![k].err = TRUE,
                        ![k].pc = IF x.op = "NewPath" /\ x.port \in Others(pass[k].res) THEN "realloc" ELSE @]
                /\ UNCHANGED <<node, events>>
        /\ UNCHANGED <<api, informer, cache, portCache, pending, queue, budget>>

\* A command fails.
CommandFails(k) ==
    /\ pass[k].pc = "run" /\ ~pass[k].err /\ pass[k].todo # <<>>
    /\ Head(pass[k].todo).op \notin {"EnsureDeviceSymlink", "RemoveDeviceSymlink"}
    /\ Event("fail")
    /\ pass' = [pass EXCEPT ![k].err = TRUE]
    /\ UNCHANGED <<api, informer, node, cache, events, portCache, pending, queue>>

\* Phase 9: only when the resource was seen to be gone.
tornDown(k, a) == ~a.up

\* Phases 8 and 9: observe again, report, and let go of an object that is torn down.
Finish(k) ==
    LET r == pass[k].res
        active == pass[k].act = "present" /\ pass[k].spec.up
        a == IF pass[k].did THEN kernel[r] ELSE Observed(r)
        err == pass[k].err \/ (a.up /\ a.minor = None)
        drops == Unchanged(k) /\ ~active /\ tornDown(k, a) /\ fin[r]
        leaves == drops /\ obj[r] = "deleting"
    IN  /\ pass[k].pc = "run" /\ (pass[k].err \/ pass[k].todo = <<>>) /\ pass[k].act # "gone"
        /\ cache' = [cache EXCEPT ![r] = a]
        /\ status' = IF ~Unchanged(k) THEN status
                     ELSE IF leaves THEN [status EXCEPT ![r] = NoStatus]
                     ELSE [status EXCEPT ![r] =
                             [port |-> pass[k].port, conf |-> ~err,
                              uuid |-> IF @.uuid = 0 /\ active THEN DiskOf(pass[k].spec).uuid ELSE @.uuid]]
        /\ fin' = [fin EXCEPT ![r] = @ /\ ~drops]
        /\ obj' = [obj EXCEPT ![r] = IF leaves THEN "gone" ELSE @]
        /\ queue' = IF err \/ ~Unchanged(k) \/ drops THEN queue \cup {r} ELSE queue
        /\ pass' = [pass EXCEPT ![k] = Idle]
        /\ UNCHANGED <<spec, informer, node, events, portCache, pending, budget>>

FinishOrphan(k) ==
    /\ pass[k].pc = "run" /\ (pass[k].err \/ pass[k].todo = <<>>) /\ pass[k].act = "gone"
    /\ pass' = [pass EXCEPT ![k] = Idle]
    /\ queue' = IF pass[k].err THEN queue \cup {k} ELSE queue
    /\ UNCHANGED <<api, informer, node, cache, events, portCache, pending, budget>>

Worker(k) ==
    \/ Begin(k) \/ Rename(k) \/ ClearActualName(k)
    \/ AllocateRead(k) \/ AllocateLocked(k)
    \/ Execute(k) \/ Finish(k) \/ FinishOrphan(k)

----------------------------------------------------------------------------
(* The scanner.                                                            *)

\* A kernel event drops the cached output, wakes the reconciler and updates the ports.
ScannerEvent(n) ==
    /\ events[n].some /\ portCache.ready /\ ~portCache.dumping /\ ~portCache.lost
    /\ events' = [events EXCEPT ![n] = NoEvents]
    /\ cache' = [cache EXCEPT ![n] = Miss]
    /\ portCache' = [portCache EXCEPT !.byIP = (@ \ events[n].cut) \cup events[n].made]
    /\ Requeue(n)
    /\ UNCHANGED <<api, informer, node, pending, pass, budget>>

\* runEventsLoop starts anew: the port cache is emptied, its readers wait.
BeginDump ==
    /\ ~portCache.dumping
    /\ portCache.lost
    /\ portCache' = [portCache EXCEPT !.byIP = {}, !.dumping = TRUE, !.lost = FALSE]
    /\ cache' = [n \in Names |-> Miss]
    /\ UNCHANGED <<api, informer, node, events, pending, queue, pass, budget>>

\* "exists -": every resource of the dump is reconciled.
EndDump ==
    /\ portCache.dumping
    /\ portCache' = [byIP |-> UNION {PortsOf(kernel[n]) : n \in Names}, ready |-> TRUE,
                     dumping |-> FALSE, lost |-> FALSE]
    /\ events' = [n \in Names |-> NoEvents]
    /\ queue' = queue \cup {n \in Names : kernel[n].up}
    /\ UNCHANGED <<api, informer, node, cache, pending, pass, budget>>

\* events2 ends: before the dump is complete, readers see what it left.
ScannerFails ==
    /\ ~portCache.lost
    /\ Event("scanner")
    /\ portCache' = [portCache EXCEPT !.dumping = FALSE, !.lost = TRUE]
    /\ UNCHANGED <<api, informer, node, cache, events, pending, queue, pass>>

Scanner == BeginDump \/ EndDump \/ \E n \in Names : ScannerEvent(n)

----------------------------------------------------------------------------
(* The cluster, the kernel and the node.                                   *)

\* The kernel changes by itself: while a dump is under way only in scenarios that say so.
Spontaneous == ~portCache.dumping \/ "window" \in budget.kinds

InformerSees(r) ==
    /\ informer[r] # status[r].port
    /\ informer' = [informer EXCEPT ![r] = status[r].port]
    /\ UNCHANGED <<api, node, cache, events, portCache, pending, queue, pass, budget>>

\* The connection to a peer comes up on all its paths.
Establish(n, p) ==
    LET q == kernel[n].peers[p]
    IN  /\ Spontaneous
        /\ p \in PeerIds(kernel[n]) /\ q.conn # "StandAlone" /\ q.paths # {}
        /\ q.conn = "Connecting" \/ q.est # q.paths
        /\ Changed(n, [kernel[n] EXCEPT !.peers[p] = [q EXCEPT !.conn = "Connected", !.est = q.paths]])
        /\ UNCHANGED <<api, informer, symlink, md, nextMinor, cache, portCache, pending, queue, pass, budget>>

\* The kernel gives a connection up.
GoesStandAlone(n, p) ==
    /\ Spontaneous
    /\ p \in PeerIds(kernel[n]) /\ kernel[n].peers[p].conn = "Connected"
    /\ Event("drop")
    /\ Changed(n, [kernel[n] EXCEPT !.peers[p] = [@ EXCEPT !.conn = "StandAlone", !.est = {}]])
    /\ UNCHANGED <<api, informer, symlink, md, nextMinor, cache, portCache, pending, queue, pass>>

Opens(r) ==
    /\ kernel[r].primary /\ ~kernel[r].open
    /\ Event("open")
    /\ Changed(r, [kernel[r] EXCEPT !.open = TRUE])
    /\ UNCHANGED <<api, informer, symlink, md, nextMinor, cache, portCache, pending, queue, pass>>

Closes(r) ==
    /\ kernel[r].open
    /\ Changed(r, [kernel[r] EXCEPT !.open = FALSE])
    /\ UNCHANGED <<api, informer, symlink, md, nextMinor, cache, portCache, pending, queue, pass, budget>>

\* Somebody else brings up a resource, on a minor and a port the kernel has free.
Foreign ==
    /\ ~kernel[Old].up /\ ~spec[Adopted].adopted
    /\ Event("foreign")
    /\ \E port \in Ports \ UNION {PortsOf(kernel[n]) : n \in Names} :
          Changed(Old, [NoRes EXCEPT !.up = TRUE, !.minor = MaxMinor,
                          !.peers = [p \in {1} |-> [NewPeer EXCEPT !.paths = {port}]]])
    /\ UNCHANGED <<api, informer, symlink, md, nextMinor, cache, portCache, pending, queue, pass>>

ChangeSpec(r) ==
    /\ obj[r] = "present" /\ ~spec[r].adopted
    /\ Event("spec")
    /\ \E s \in budget.next : spec' = [spec EXCEPT ![r] = s] /\ s # spec[r]
    /\ Requeue(r)
    /\ UNCHANGED <<obj, fin, status, informer, node, cache, events, portCache, pending, pass>>

Delete(r) ==
    /\ obj[r] = "present"
    /\ Event("delete")
    /\ obj' = [obj EXCEPT ![r] = IF fin[r] THEN "deleting" ELSE "gone"]
    /\ Requeue(r)
    /\ UNCHANGED <<spec, fin, status, informer, node, cache, events, portCache, pending, pass>>

\* The agent's finalizer is removed by hand.
Strip(r) ==
    /\ obj[r] = "deleting"
    /\ Event("strip")
    /\ obj' = [obj EXCEPT ![r] = "gone"]
    /\ fin' = [fin EXCEPT ![r] = FALSE]
    /\ status' = [status EXCEPT ![r] = NoStatus]
    /\ Requeue(r)
    /\ UNCHANGED <<spec, informer, node, cache, events, portCache, pending, pass>>

Create(r) ==
    /\ obj[r] = "gone"
    /\ Event("create")
    /\ obj' = [obj EXCEPT ![r] = "present"]
    /\ Requeue(r)
    /\ UNCHANGED <<spec, fin, status, informer, node, cache, events, portCache, pending, pass>>

\* What the agent keeps in memory is gone; the informers list every object anew.
Restarted ==
    /\ pass' = [k \in Names |-> Idle]
    /\ cache' = [n \in Names |-> Miss]
    /\ events' = [n \in Names |-> NoEvents]
    /\ portCache' = [byIP |-> {}, ready |-> FALSE, dumping |-> FALSE, lost |-> TRUE]
    /\ pending' = {}
    /\ nextMinor' = 0
    /\ queue' = {r \in R : obj[r] # "gone"}
    /\ informer' = [r \in R |-> status[r].port]
    /\ UNCHANGED <<api, md>>

Crash == Event("crash") /\ Restarted /\ UNCHANGED <<kernel, symlink>>

\* DRBD resources and /dev are volatile.
Reboot ==
    /\ Event("reboot")
    /\ Restarted
    /\ kernel' = [n \in Names |-> NoRes]
    /\ symlink' = [r \in R |-> None]

----------------------------------------------------------------------------

Init ==
    \E s \in Scenarios :
        /\ obj = s.obj /\ spec = s.spec /\ kernel = s.kernel /\ symlink = s.symlink /\ md = s.md
        /\ status = s.status /\ fin = [r \in R |-> s.status[r].conf]
        /\ informer = [r \in R |-> s.status[r].port]
        /\ nextMinor = s.nextMinor
        /\ cache = [n \in Names |-> Miss]
        /\ events = [n \in Names |-> NoEvents]
        /\ portCache = [byIP |-> UNION {PortsOf(s.kernel[n]) : n \in Names},
                        ready |-> TRUE, dumping |-> FALSE, lost |-> FALSE]
        /\ pending = {} /\ pass = [k \in Names |-> Idle]
        /\ queue = {r \in R : s.obj[r] # "gone"}
        /\ budget = [kinds |-> s.kinds, left |-> s.left, next |-> s.next]

Faults ==
    \/ Crash \/ Reboot \/ ScannerFails \/ Foreign
    \/ \E k \in Names : CommandFails(k)
    \/ \E n \in Names, p \in Peers : GoesStandAlone(n, p)
    \/ \E r \in R : Opens(r) \/ Strip(r)

Users == \E r \in R : ChangeSpec(r) \/ Delete(r) \/ Create(r) \/ Closes(r)

Next ==
    \/ \E k \in Names : Worker(k)
    \/ Scanner
    \/ \E r \in R : InformerSees(r)
    \/ \E n \in Names, p \in Peers : Establish(n, p)
    \/ Faults \/ Users

\* The request has a worker that can go on, or can be given one.
WorkerReady(k) ==
    \/ k \in queue /\ pass[k] = Idle
    \/ pass[k].pc \in {"rename", "clear", "lock", "relock"}
    \/ pass[k].pc \in {"alloc", "realloc"} /\ portCache.ready /\ ~portCache.dumping
    \/ /\ pass[k].pc = "run"
       /\ ~(~pass[k].err /\ pass[k].todo # <<>> /\ Head(pass[k].todo).op = "NewMinor"
             /\ kernel[pass[k].res].minor # None)

ScannerReady ==
    \/ portCache.lost \/ portCache.dumping
    \/ portCache.ready /\ \E n \in Names : events[n].some

\* Weak fairness of the workers, of the scanner and of the connections, spelled out with the
\* conditions under which they can take a step.
Spec ==
    /\ Init /\ [][Next]_vars
    /\ \A k \in Names : []<>~WorkerReady(k) \/ []<><<Worker(k)>>_vars
    /\ []<>~ScannerReady \/ []<><<Scanner>>_vars
    /\ \A n \in Names, p \in Peers : WF_vars(Establish(n, p))

----------------------------------------------------------------------------
(* Properties.                                                             *)

\* The device symlink of a DRBDResource, the path its users open, never leads to the device
\* of another resource: minors are handed out again after a restart of the agent, and a
\* symlink is removed before its device (teardown, reconcileOrphanDRBD).
NoAlias ==
    \A r \in R : symlink[r] # None =>
        \A n \in Names \ {r} : ~(kernel[n].up /\ kernel[n].minor = symlink[r])

\* No two DRBDResources of a node record the same listening port, although the ports in use
\* are read before the registry's lock is taken and from caches that lag (PortRegistry).
PortsDistinct ==
    \A r, q \in R : r # q /\ status[r].port # 0 => status[r].port # status[q].port


\* The kernel has what the DRBDResource asks for, and the status says so.
InPlace(r) ==
    /\ kernel[r].up /\ kernel[r].minor # None /\ symlink[r] = kernel[r].minor
    /\ kernel[r].opts = spec[r].opts /\ kernel[r].primary = spec[r].primary
    /\ kernel[r].disk = spec[r].disk /\ (spec[r].disk # "" => kernel[r].nv = spec[r].nv /\ status[r].uuid # 0)
    /\ PeerIds(kernel[r]) = DOMAIN spec[r].peers
    /\ \A p \in PeerIds(kernel[r]) :
          LET q == kernel[r].peers[p]
          IN  /\ q.paths = {status[r].port} /\ q.conn # "StandAlone"
              /\ q.multi = spec[r].multi /\ q.bitmap = (spec[r].peers[p] # "L")
    /\ status[r].conf /\ fin[r] /\ ~spec[r].adopted

\* The disk belongs to another resource, or the name an adopted resource has to take is
\* taken: the user has to put that right.
Refused(r) ==
    \/ spec[r].disk # "" /\ status[r].uuid # 0 /\ md[spec[r].disk].uuid \notin {0, status[r].uuid}
    \/ spec[r].adopted /\ kernel[Old].up /\ kernel[r].up

Cleared(r) == ~kernel[r].up /\ symlink[r] = None

\* Whatever was interrupted, by a failed command, a restart, a reboot, a port in use or a
\* change of the spec half-way, every DRBDResource in the end runs as specified, and one
\* that is down or gone is cleared from the node.  (Not while its device is open, nor with
\* a disk or a name that is another resource's.)
NodeSettles ==
    \A r \in R : <>[](kernel[r].open \/ Refused(r) \/
                      IF obj[r] = "present" /\ spec[r].up THEN InPlace(r)
                      ELSE Cleared(r) /\ obj[r] # "deleting")

=============================================================================
