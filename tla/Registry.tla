------------------------------ MODULE Registry ------------------------------
(***************************************************************************)
(* The operators' registers: buses, known by registration, and routes of one *)
(* direction, known by name.  Rows are added, singly or (buses) in a batch,  *)
(* and edited a few columns at a time; nothing is ever deleted, a row is     *)
(* retired by its state.                                                     *)
(*                                                                           *)
(* What a request has read is its own copy until it commits; the UPDATE      *)
(* writes the columns whose value differs from that copy.                    *)
(***************************************************************************)
EXTENDS Naturals, FiniteSets

CONSTANTS Ids,       \* rows that may come to exist, of either table
          Names,     \* registrations, or names of routes
          Clerks     \* requests of operators in flight

VARIABLES
    row,       \* buses and routes: table, name and state of each row
    request    \* the requests

vars == <<row, request>>

States == {"active", "retired"}
Same   == "same"   \* a column the body leaves out

Absent == [table |-> "none", name |-> "none", state |-> "active"]
Idle   == [pc |-> "idle", table |-> "none", names |-> {}, id |-> "none", read |-> Absent,
           name |-> Same, state |-> Same]

Init ==
    /\ row = [i \in Ids |-> Absent]
    /\ request = [c \in Clerks |-> Idle]

Taken(table) == {row[i].name : i \in {j \in Ids : row[j].table = table}}

Unused == {i \in Ids : row[i] = Absent}

-----------------------------------------------------------------------------
Begin(c, what) == /\ request[c].pc = "idle"
                  /\ request' = [request EXCEPT ![c] = what]
                  /\ UNCHANGED row

(* create_bus looks the registration up first, create_route only catches the *)
(* database's refusal; either answers 409.                                   *)
BeginAdd(c, table, n) ==
    /\ table = "bus" => n \notin Taken("bus")
    /\ Begin(c, [Idle EXCEPT !.pc = "adding", !.table = table, !.names = {n}])

BeginBatch(c, N) ==
    /\ N # {} /\ N \cap Taken("bus") = {}
    /\ Begin(c, [Idle EXCEPT !.pc = "adding", !.table = "bus", !.names = N])

(* Unique indexes on buses.reg_no and on routes (name, direction) have the   *)
(* last word, over all of a batch (whose refusal nothing catches: 500).      *)
CommitAdd(c) ==
    LET q == request[c] IN
    /\ q.pc = "adding"
    /\ IF q.names \cap Taken(q.table) # {} THEN UNCHANGED row
       ELSE \E at \in [q.names -> Unused] :
              /\ \A m, n \in q.names : at[m] = at[n] => m = n
              /\ row' = [i \in Ids |->
                    IF \E n \in q.names : at[n] = i
                    THEN [table |-> q.table, name |-> CHOOSE n \in q.names : at[n] = i,
                          state |-> "active"]
                    ELSE row[i]]
    /\ request' = [request EXCEPT ![c] = Idle]

(* update_bus, update_route: some columns, each to a value.                  *)
BeginEdit(c, i, n, s) ==
    /\ row[i] # Absent /\ <<n, s>> # <<Same, Same>>
    /\ Begin(c, [Idle EXCEPT !.pc = "editing", !.table = row[i].table, !.id = i, !.read = row[i],
                             !.name = n, !.state = s])

(* (A variant with a fault, never part of Next: it shows which mistake the   *)
(* property below would catch.)                                              *)
WrittenWhole(old, asked, now) == IF asked = Same THEN old ELSE asked

(* Only a column that was asked for, and whose value differs from the copy.  *)
Written(old, asked, now) == IF asked = Same \/ asked = old THEN now ELSE asked

CommitEdit(c) ==
    LET q == request[c]
        new == [row[q.id] EXCEPT !.name = Written(q.read.name, q.name, @),
                                 !.state = Written(q.read.state, q.state, @)]
    IN
    /\ q.pc = "editing"
    /\ row' = IF \E i \in Ids \ {q.id} : row[i].table = q.table /\ row[i].name = new.name
              THEN row
              ELSE [row EXCEPT ![q.id] = new]
    /\ request' = [request EXCEPT ![c] = Idle]

Fails(c) ==
    /\ request[c].pc # "idle"
    /\ request' = [request EXCEPT ![c] = Idle]
    /\ UNCHANGED row

-----------------------------------------------------------------------------
Step(c) == \/ \E t \in {"bus", "route"}, n \in Names : BeginAdd(c, t, n)
           \/ \E N \in SUBSET Names : BeginBatch(c, N)
           \/ \E i \in Ids, n \in Names \cup {Same}, s \in States \cup {Same} : BeginEdit(c, i, n, s)
           \/ CommitAdd(c) \/ CommitEdit(c) \/ Fails(c)

Next == \E c \in Clerks : Step(c)

Spec == Init /\ [][Next]_vars

-----------------------------------------------------------------------------
(* Properties.                                                               *)

Row == [table : {"none", "bus", "route"}, name : Names \cup {"none"}, state : States]

(* Every variable has its type; a request at work has what it is about.      *)
TypeOK ==
    /\ row \in [Ids -> Row]
    /\ request \in [Clerks -> [pc : {"idle", "adding", "editing"}, table : {"none", "bus", "route"},
                               names : SUBSET Names, id : Ids \cup {"none"}, read : Row,
                               name : Names \cup {Same}, state : States \cup {Same}]]
    /\ \A c \in Clerks : request[c].pc = "editing" => request[c].id \in Ids

Asked(i, f) == \E c \in Clerks : /\ request[c].pc = "editing" /\ request'[c].pc = "idle"
                                 /\ request[c].id = i /\ request[c][f] = row'[i][f]

Added == {i \in Ids : row[i] = Absent /\ row'[i] # Absent}

(* Unset fields are left alone, whoever else edits the row meanwhile: a name *)
(* or a state changes only by a request that asked for that value, a retired *)
(* row does not come back by another's renaming; a batch is added whole or   *)
(* not at all; and no name is in a table twice.                              *)
RegisterIsAsEdited ==
    /\ [][\A i \in Ids : row[i] # Absent =>
             /\ row'[i].name # row[i].name => Asked(i, "name")
             /\ row'[i].state # row[i].state => Asked(i, "state")]_vars
    /\ [][Added # {} => \E c \in Clerks : {row'[i].name : i \in Added} = request[c].names]_vars
    /\ [](\A i, j \in Ids : row[i] # Absent /\ row[i].table = row[j].table
                            /\ row[i].name = row[j].name => i = j)
=============================================================================
