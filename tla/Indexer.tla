------------------------------ MODULE Indexer -------------------------------
(***************************************************************************)
(* The worker's GPS indexer: it reads the gps_ingest stream through its      *)
(* consumer group, indexes what it read in Elasticsearch and acknowledges    *)
(* it.  Redis may lose the stream or the group; the process may die.         *)
(***************************************************************************)
EXTENDS Naturals, Sequences, FiniteSets

CONSTANTS Fixes,      \* what ingest adds to the stream, each once
          Batch,      \* BATCH
          MaxFaults,  \* bound on the faults of one behaviour
          Faults      \* which faults may happen

ASSUME FaultsAssumption == Faults \subseteq {"timeout", "crash", "es", "group", "wipe"}
ASSUME BoundsAssumption == Batch \in Nat \ {0} /\ MaxFaults \in Nat

VARIABLES
    stream,    \* gps_ingest, oldest entry first
    group,     \* the consumer group: whether it exists, and how far it has read
    pending,   \* entries delivered to the consumer and not acknowledged
    worker,    \* the indexer: where it is, and the entries it has read
    es,        \* the documents in the index; an entry's id is its document's id
    wiped,     \* entries Redis lost before they were read (history)
    stranded,  \* entries read and then lost with their reader (history)
    faults     \* faults so far (history)

vars == <<stream, group, pending, worker, es, wiped, stranded, faults>>

NoGroup    == [exists |-> FALSE, read |-> 0]
Entries    == {stream[i] : i \in 1..Len(stream)}
Delivered  == {stream[i] : i \in 1..group.read}

Init ==
    /\ stream = <<>>
    /\ group = NoGroup
    /\ pending = {}
    /\ worker = [pc |-> "start", entries |-> {}]
    /\ es = {} /\ wiped = {} /\ stranded = {}
    /\ faults = 0

(* ingest_gps: XADD, without a bound on the stream's length.                 *)
Add(f) ==
    /\ f \notin Entries \cup wiped
    /\ stream' = Append(stream, f)
    /\ UNCHANGED <<group, pending, worker, es, wiped, stranded, faults>>

-----------------------------------------------------------------------------
(* run.                                                                      *)

At(pc) == worker.pc = pc
GoTo(pc, entries) == worker' = [pc |-> pc, entries |-> entries]

(* (Variants with a fault, here and below, are never part of Next: they show *)
(* which mistake each property would catch.)                                 *)
EnsureGroupAtEnd ==
    group' = IF group.exists THEN group ELSE [exists |-> TRUE, read |-> Len(stream)]

(* _ensure_group: a new group starts at the stream's beginning; BUSYGROUP is *)
(* passed over.                                                              *)
EnsureGroup ==
    group' = IF group.exists THEN group ELSE [exists |-> TRUE, read |-> 0]

Start ==
    /\ At("start")
    /\ EnsureGroup
    /\ GoTo("read", {})
    /\ UNCHANGED <<stream, pending, es, wiped, stranded, faults>>

ReadUnrecorded ==
    /\ At("read") /\ group.exists /\ group.read < Len(stream)
    /\ group' = [group EXCEPT !.read = Len(stream)]
    /\ GoTo("bulk", {stream[i] : i \in (group.read + 1)..Len(stream)})
    /\ UNCHANGED <<stream, pending, es, wiped, stranded, faults>>

(* XREADGROUP with ">": only entries the group was never given.              *)
NextRead    == IF Len(stream) - group.read > Batch THEN group.read + Batch ELSE Len(stream)
NextEntries == {stream[i] : i \in (group.read + 1)..NextRead}

Deliver ==
    /\ At("read") /\ group.exists /\ group.read < Len(stream)
    /\ pending' = pending \cup NextEntries
    /\ group' = [group EXCEPT !.read = NextRead]

Read ==
    /\ Deliver
    /\ GoTo("bulk", NextEntries)
    /\ UNCHANGED <<stream, es, wiped, stranded, faults>>

(* NOGROUP: the group is created again and reading goes on.                  *)
Regroup ==
    /\ At("read") /\ ~group.exists
    /\ EnsureGroup
    /\ UNCHANGED <<stream, pending, worker, es, wiped, stranded, faults>>

Bulk ==
    /\ At("bulk")
    /\ es' = es \cup worker.entries
    /\ GoTo("ack", worker.entries)
    /\ UNCHANGED <<stream, group, pending, wiped, stranded, faults>>

AckKeepingEntries ==
    /\ At("ack")
    /\ pending' = pending \ worker.entries
    /\ GoTo("read", worker.entries)
    /\ UNCHANGED <<stream, group, es, wiped, stranded, faults>>

Ack ==
    /\ At("ack")
    /\ pending' = pending \ worker.entries
    /\ GoTo("read", {})
    /\ UNCHANGED <<stream, group, es, wiped, stranded, faults>>

-----------------------------------------------------------------------------
(* What goes wrong.  A read whose answer comes after the socket's timeout is *)
(* tried again, and is given what comes next.  An error of the bulk call,*)
(* some of whose documents may have been indexed, is not caught: the worker  *)
(* process ends with it.                                                     *)

Fault(f) == f \in Faults /\ faults < MaxFaults /\ faults' = faults + 1

ReadTimesOut ==
    /\ Deliver
    /\ Fault("timeout")
    /\ stranded' = stranded \cup (NextEntries \ es)
    /\ UNCHANGED <<stream, worker, es, wiped>>

Dies(documents) ==
    /\ GoTo("down", {})
    /\ es' = es \cup documents
    /\ stranded' = stranded \cup (worker.entries \ es')
    /\ UNCHANGED <<stream, group, pending, wiped>>

BulkFails == /\ At("bulk") /\ Fault("es")
             /\ \E documents \in SUBSET worker.entries : Dies(documents)

Crash == ~At("down") /\ Fault("crash") /\ Dies({})

(* A supervisor starts the process again.                                    *)
Restart ==
    /\ At("down")
    /\ GoTo("start", {})
    /\ UNCHANGED <<stream, group, pending, es, wiped, stranded, faults>>

(* "The stream or its consumer group vanished underneath us."                *)
GroupVanishes ==
    /\ group.exists /\ Fault("group")
    /\ group' = NoGroup /\ pending' = {}
    /\ UNCHANGED <<stream, worker, es, wiped, stranded>>

Wipe ==
    /\ stream # <<>> /\ Fault("wipe")
    /\ stream' = <<>> /\ group' = NoGroup /\ pending' = {}
    /\ wiped' = wiped \cup Entries
    /\ UNCHANGED <<worker, es, stranded>>

-----------------------------------------------------------------------------
Work == Start \/ Read \/ Regroup \/ Bulk \/ Ack \/ Restart

Next == \/ \E f \in Fixes : Add(f)
        \/ Work
        \/ ReadTimesOut \/ BulkFails \/ Crash \/ GroupVanishes \/ Wipe

Spec == Init /\ [][Next]_vars

(* run is a loop, and what stops the process has it started again.           *)
FairSpec == Spec /\ WF_vars(Work)

-----------------------------------------------------------------------------
(* Properties.                                                               *)

(* Every variable has its type; the indexer holds entries from XREADGROUP to *)
(* XACK, and only then.                                                      *)
TypeOK ==
    /\ stream \in Seq(Fixes)
    /\ group \in [exists : BOOLEAN, read : 0..Len(stream)]
    /\ pending \subseteq Fixes /\ es \subseteq Fixes
    /\ wiped \subseteq Fixes /\ stranded \subseteq Fixes
    /\ worker \in [pc : {"start", "read", "bulk", "ack", "down"}, entries : SUBSET Fixes]
    /\ worker.pc \in {"bulk", "ack"} <=> worker.entries # {}
    /\ faults \in 0..MaxFaults

(* "Elasticsearch is the sole GPS store": what the group has been given and  *)
(* will not be given again is in the index or still pending, wherever the    *)
(* process stops.                                                            *)
AckedIsIndexed == Delivered \subseteq pending \cup es

(* "Recreating and continuing is safe": however often Redis forgets the      *)
(* group, a fix in the stream is indexed, unless the process that was given  *)
(* it dies or times out on the read, or Redis loses the stream.              *)
IndexedUnlessLost ==
    \A f \in Fixes : f \in Entries ~> f \in es \cup wiped \cup stranded
=============================================================================
