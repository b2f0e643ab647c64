---------------------------- MODULE HostHandles ----------------------------
(***************************************************************************)
(* The handles between the CLI component, the host and DuckDB's core       *)
(* (HostState in lib.rs).  Every connection, result stream, prepared       *)
(* statement and appender exists three times: as a handle the CLI owns, as *)
(* an entry in a table of the host, and as a resource of the core.  The    *)
(* CLI's drops are only put on a list; the list is drained when the CLI's  *)
(* run has returned.                                                       *)
(*                                                                         *)
(* An id is the number the host gives to the three of them.  What a call   *)
(* computes is left out; whether the core traps is a choice.               *)
(***************************************************************************)
EXTENDS Integers, Sequences, SequencesExt

CONSTANTS
  MaxId,            \* bound: resources created in one run
  MaxTraps,         \* bound: calls of the core that trap
  NoId              \* no connection yet, nothing to call

VARIABLES
  next,             \* next_resource_id
  kind,             \* what an id was allocated for
  entries,          \* the ids in the host's tables
  closed,           \* those whose entry says closed
  core,             \* the core's resource: "open", "closed", or "gone" with its handle
  closes,           \* history: how often the core was asked to release it
  guest,            \* the ids whose handle the CLI owns
  pending,          \* the four lists of drops
  current,          \* current_connection, shared with the dot commands
  phase,            \* "running", "draining", "drained", "failed" or "panicked"
  traps             \* uses of the bound

tables == <<next, kind, entries, closed>>
resources == <<core, closes>>
handleVars == <<tables, resources, guest, pending, current, phase, traps>>

Ids == 1..MaxId
Children == {"stream", "prepared", "appender"}
Kinds == Children \cup {"connection"}
CoreStates == {"open", "closed", "gone"}

ASSUME HandlesAssumption ==
  MaxId \in Nat /\ MaxTraps \in Nat /\ NoId \notin Nat \cup Kinds \cup CoreStates

(* The order in which the lists are drained.                               *)
DrainOrder == <<"connection", "stream", "prepared", "appender">>

(* The CLI can pass an id that it owns and that was allocated for k; the   *)
(* host finds it if it is in the table.                                    *)
Passes(id, k) == phase = "running" /\ id \in guest /\ kind[id] = k /\ id \in entries

Trap == traps < MaxTraps /\ traps' = traps + 1

HandlesInit ==
  /\ next = 1 /\ kind = [id \in Ids |-> NoId]
  /\ entries = {} /\ closed = {}
  /\ core = [id \in Ids |-> "gone"] /\ closes = [id \in Ids |-> 0]
  /\ guest = {} /\ pending = [k \in Kinds |-> <<>>]
  /\ current = NoId /\ phase = "running" /\ traps = 0

-----------------------------------------------------------------------------
(* Calls of the CLI that create a resource: the core's comes first, its    *)
(* failure leaves no trace.                                                *)

Created(k) ==
  /\ next \in Ids
  /\ next' = next + 1
  /\ kind' = [kind EXCEPT ![next] = k]
  /\ entries' = entries \cup {next}
  /\ core' = [core EXCEPT ![next] = "open"]
  /\ guest' = guest \cup {next}
  /\ UNCHANGED <<closed, closes, pending, phase, traps>>

(* open, open-with-config: the last one opened is the current connection.  *)
Open ==
  /\ phase = "running"
  /\ Created("connection")
  /\ current' = next

(* open-stream, prepare, create-appender on a connection.                  *)
OpenChild(k) ==
  /\ \E c \in guest : Passes(c, "connection") /\ core[c] = "open"
  /\ Created(k)
  /\ UNCHANGED current

-----------------------------------------------------------------------------
(* Calls that release one.                                                 *)

Released(id, state) ==
  /\ core' = [core EXCEPT ![id] = state]
  /\ closes' = [closes EXCEPT ![id] = @ + 1]

(* Faulty variant: close borrows its argument, as the methods do.          *)
CloseBorrowed(id) ==
  /\ Passes(id, "connection") /\ id \notin closed
  /\ Released(id, "gone")
  /\ closed' = closed \cup {id}
  /\ UNCHANGED <<next, kind, entries, guest, pending, current, phase, traps>>

(* close takes the CLI's handle and the core's; a trap is a panic.  The    *)
(* entry stays, and stays current; the runtime may report the handle that  *)
(* was moved as dropped.                                                   *)
Close(id) ==
  /\ Passes(id, "connection") /\ id \notin closed
  /\ guest' = guest \ {id}
  /\ \/ /\ Released(id, "gone") /\ closed' = closed \cup {id}
        /\ pending' \in {pending, [pending EXCEPT !["connection"] = Append(@, id)]}
        /\ UNCHANGED <<phase, traps>>
     \/ Trap /\ phase' = "panicked" /\ UNCHANGED <<core, closes, closed, pending>>
  /\ UNCHANGED <<next, kind, entries, current>>

(* result-stream.close is a method: the CLI keeps the handle.  It has no   *)
(* error channel, the entry is marked in any case.                         *)
CloseStream(id) ==
  /\ Passes(id, "stream") /\ id \notin closed
  /\ Released(id, "closed")
  /\ closed' = closed \cup {id}
  /\ UNCHANGED traps \/ Trap
  /\ UNCHANGED <<next, kind, entries, guest, pending, current, phase>>

(* interrupt and parameter-count have no error channel either: a trap is a *)
(* panic of the host.                                                      *)
CallPanics ==
  /\ \E id \in guest : Passes(id, "connection") \/ Passes(id, "prepared")
  /\ Trap /\ phase' = "panicked"
  /\ UNCHANGED <<tables, resources, guest, pending, current>>

(* The other calls report a trap, schema as a table without columns: the   *)
(* handle stays good, of whatever kind, a closed stream's too.             *)
CallReports ==
  /\ \E id \in guest, k \in Kinds : Passes(id, k)
  /\ Trap
  /\ UNCHANGED <<tables, resources, guest, pending, current, phase>>

(* The CLI drops a handle: on_resource_drop.                               *)
Drop(id) ==
  /\ phase = "running" /\ id \in guest
  /\ guest' = guest \ {id}
  /\ pending' = [pending EXCEPT ![kind[id]] = Append(@, id)]
  /\ UNCHANGED <<tables, resources, current, phase, traps>>

-----------------------------------------------------------------------------
(* The end of the run: what it still owns goes with the component.         *)

RunReturns ==
  /\ phase = "running"
  /\ phase' = "draining"
  /\ UNCHANGED <<tables, resources, guest, pending, current, traps>>

(* Faulty variant: the flag is not looked at.                              *)
ReleasedAlways(id) == IF kind[id] = "stream" THEN "closed" ELSE "gone"

(* The call that gives an id back to the core; NoId when it is not needed. *)
ReleasedAs(id) ==
  CASE kind[id] \in {"prepared", "appender"} -> "gone"
    [] kind[id] \notin {"prepared", "appender"} /\ id \in closed -> NoId
    [] kind[id] = "connection" /\ id \notin closed -> "gone"
    [] kind[id] = "stream" /\ id \notin closed -> "closed"

(* The list that drain_pending_resource_drops is at.                       *)
Draining(k) ==
  \E i \in DOMAIN DrainOrder :
    /\ DrainOrder[i] = k /\ pending[k] # <<>>
    /\ \A j \in 1..(i - 1) : pending[DrainOrder[j]] = <<>>

(* Faulty variant: an error is logged, and the drain goes on.              *)
DrainOneLogged(k) ==
  LET id == Head(pending[k]) IN
  /\ phase = "draining" /\ Draining(k)
  /\ entries' = entries \ {id}
  /\ pending' = [pending EXCEPT ![k] = Tail(@)]
  /\ \/ /\ IF ReleasedAs(id) = NoId THEN UNCHANGED resources
                                    ELSE Released(id, ReleasedAs(id))
        /\ UNCHANGED traps
     \/ ReleasedAs(id) # NoId /\ Trap /\ UNCHANGED resources
  /\ UNCHANGED <<next, kind, closed, guest, current, phase>>

(* One drop of the list; after a trap the rest of it is given up.          *)
DrainOne(k) ==
  LET id == Head(pending[k]) IN
  /\ phase = "draining" /\ Draining(k)
  /\ entries' = entries \ {id}
  /\ \/ /\ pending' = [pending EXCEPT ![k] = Tail(@)]
        /\ IF ReleasedAs(id) = NoId THEN UNCHANGED resources
                                    ELSE Released(id, ReleasedAs(id))
        /\ UNCHANGED <<phase, traps>>
     \/ /\ ReleasedAs(id) # NoId /\ Trap
        /\ pending' = [pending EXCEPT ![k] = <<>>]
        /\ phase' = "failed"
        /\ UNCHANGED resources
  /\ UNCHANGED <<next, kind, closed, guest, current>>

Drained ==
  /\ phase = "draining" /\ \A k \in Kinds : pending[k] = <<>>
  /\ phase' = "drained"
  /\ UNCHANGED <<tables, resources, guest, pending, current, traps>>

-----------------------------------------------------------------------------
HandlesNext ==
  \/ Open \/ \E k \in Children : OpenChild(k)
  \/ \E id \in Ids : Close(id) \/ CloseStream(id) \/ Drop(id)
  \/ CallPanics \/ CallReports
  \/ RunReturns \/ \E k \in Kinds : DrainOne(k)
  \/ Drained

HandlesSpec == HandlesInit /\ [][HandlesNext]_handleVars

-----------------------------------------------------------------------------
(* A handle that the CLI owns stands for a resource that the core has,     *)
(* whatever was closed, dropped and drained before.                        *)
NoDangling == \A id \in guest : core[id] # "gone"

(* The core is asked to release a resource once, although the CLI may      *)
(* close a handle, drop it, and close it again by returning.               *)
ReleasedOnce == \A id \in Ids : closes[id] <= 1

(* A CliHarness::run that ends well has given back all that the CLI gave   *)
(* back: what it does not own any more is released at the core and off the *)
(* books, closed connections apart, whose entries stay. (run_cli_inner     *)
(* does not drain: what its CLI dropped stays listed and open.)            *)
DrainComplete ==
  phase = "drained" =>
    \A id \in 1..(next - 1) \ guest :
      /\ core[id] # "open"
      /\ id \in entries => kind[id] = "connection" /\ id \in closed

=============================================================================
