---------------------------- MODULE DotCommands ----------------------------
(* The dot commands of the CLI (DotcmdRegistry and its neighbours in       *)
(* lib.rs, dotcmd_wasmos.rs). At startup the host loads the components of  *)
(* one directory in the order of their names; `.name args` then goes to    *)
(* one of them, which may run SQL on the current connection and start an   *)
(* editor before it answers. The CLI waits until it has answered, so that  *)
(* the handles (HostHandles) move between commands only.                   *)
EXTENDS HostHandles

CONSTANTS
  Folder,      \* the directory, in the order of the names: sequence of [starts, fields, specs]
  SpecFields,  \* what the interface asks of each command
  Lower,       \* spelling -> the name in lower case
  MaxQueries,  \* bound: queries of one command
  Idle         \* no command is running; nothing was shown

VARIABLES
  running,     \* the command that a component is at, or Idle
  ran,         \* history: its queries
  shown,       \* history: the last answer, until the CLI does something else
  left         \* a temporary file of the editor is left behind

dotVars == <<running, ran, shown, left>>

ASSUME DotAssumption ==
  /\ Folder \in Seq(Range(Folder))
  /\ \A file \in DOMAIN Folder : Folder[file].specs \in Seq(Range(Folder[file].specs))

-----------------------------------------------------------------------------
(* The registry. A component that does not compile and start, or does not  *)
(* list its commands in the shape of the interface, is passed over.        *)

\* Faulty variant: insert instead of or_insert.
LastNamed(names, spec, at) ==
  [n \in DOMAIN names \cup {Lower[spec.name]} |->
     IF n = Lower[spec.name] THEN [at |-> at, id |-> spec.id] ELSE names[n]]

Named(names, spec, at) ==
  [n \in DOMAIN names \cup {Lower[spec.name]} |->
     IF n \in DOMAIN names THEN names[n] ELSE [at |-> at, id |-> spec.id]]

\* Fields that the interface may grow are tolerated.
SpecsFit(file) == SpecFields \subseteq Folder[file].fields

Loadable(file) == Folder[file].starts /\ SpecsFit(file)

load_one(sofar, file) ==
  LET at == Len(sofar.components) + 1
      OfSpec(names, spec) == Named(names, spec, at)
  IN IF ~Loadable(file) THEN sofar
     ELSE [components |-> Append(sofar.components, file),
           by_name |-> FoldLeft(OfSpec, sofar.by_name, Folder[file].specs),
           infos |-> sofar.infos \o Folder[file].specs]

DotcmdRegistry ==
  FoldLeft(load_one, [components |-> <<>>, by_name |-> <<>>, infos |-> <<>>],
           [file \in DOMAIN Folder |-> file])

list_commands == {Lower[DotcmdRegistry.infos[k].name] : k \in DOMAIN DotcmdRegistry.infos}

-----------------------------------------------------------------------------
DotInit == running = Idle /\ ran = <<>> /\ shown = Idle /\ left = FALSE

\* No command of that name: the CLI goes on to its built-in ones.
FallsBack(typed) ==
  /\ phase = "running" /\ running = Idle
  /\ Lower[typed] \notin DOMAIN DotcmdRegistry.by_name
  /\ shown' = [typed |-> typed, kind |-> "none", by |-> 0, id |-> 0, ran |-> <<>>]
  /\ UNCHANGED <<running, ran, left>>

invoke(typed) ==
  /\ phase = "running" /\ running = Idle
  /\ Lower[typed] \in DOMAIN DotcmdRegistry.by_name
  /\ LET entry == DotcmdRegistry.by_name[Lower[typed]]
         by == DotcmdRegistry.components[entry.at]
     IN running' = [typed |-> typed, by |-> by, id |-> entry.id]
  /\ ran' = <<>> /\ shown' = Idle
  /\ UNCHANGED left

SpiAnswers(on, ok) == ran' = Append(ran, [on |-> on, ok |-> ok])

\* spi.query: on the connection that is current, which may be closed by now.
\* It is rows, an error of the core, or a trap that is told as an error.
query ==
  /\ running # Idle /\ Len(ran) < MaxQueries
  /\ \/ current = NoId /\ SpiAnswers(NoId, FALSE) /\ UNCHANGED traps
     \/ /\ current # NoId /\ core[current] = "open"
        /\ \/ \E ok \in BOOLEAN : SpiAnswers(current, ok) /\ UNCHANGED traps
           \/ SpiAnswers(current, FALSE) /\ Trap
     \/ /\ current # NoId /\ core[current] # "open"
        /\ SpiAnswers(current, FALSE) /\ UNCHANGED traps
  /\ UNCHANGED <<running, shown, left>>

\* spi.edit: the file is removed however the editor ends, unless it could not
\* be filled to begin with.
spi_edit ==
  /\ running # Idle
  /\ left' \in {left, TRUE}
  /\ UNCHANGED <<running, ran, shown, traps>>

\* The component returns a text and changes of the CLI's settings, or an
\* error; what has not that shape is an error, and so is a trap.
unpack_invoke_result ==
  /\ running # Idle
  /\ \E how \in {"outcome", "error"} :
       shown' = [typed |-> running.typed, kind |-> how, by |-> running.by, id |-> running.id, ran |-> ran]
  /\ running' = Idle /\ ran' = <<>>
  /\ UNCHANGED left

\* Anything else that the CLI and the host do with handles.
BetweenCommands ==
  /\ running = Idle /\ HandlesNext
  /\ shown' = Idle /\ UNCHANGED <<running, ran, left>>

DotNext ==
  \/ \E typed \in DOMAIN Lower : (FallsBack(typed) \/ invoke(typed)) /\ UNCHANGED handleVars
  \/ (query \/ spi_edit) /\ UNCHANGED <<tables, resources, guest, pending, current, phase>>
  \/ unpack_invoke_result /\ UNCHANGED handleVars
  \/ BetweenCommands

DotSpec == HandlesInit /\ DotInit /\ [][DotNext]_<<handleVars, dotVars>>

-----------------------------------------------------------------------------
\* The components that declare a name, and its first id in one of them.
Declaring(n) ==
  {file \in DOMAIN Folder : /\ Loadable(file)
                           /\ \E k \in DOMAIN Folder[file].specs : Lower[Folder[file].specs[k].name] = n}

FirstId(file, n) ==
  LET specs == Folder[file].specs
      ks == {k \in DOMAIN specs : Lower[specs[k].name] = n}
  IN specs[CHOOSE k \in ks : \A j \in ks : k <= j].id

Opened == {id \in 1..(next - 1) : kind[id] = "connection"}

(* A dot command is answered by the component that declares it, the first  *)
(* one in the order of the files if several do, whatever the case it was   *)
(* typed in and whichever components failed to load; the built-in commands *)
(* get only names that nobody declares. Its SQL took effect on the         *)
(* connection that was opened last, and only while that was open.          *)
Dispatched ==
  shown # Idle =>
    LET n == Lower[shown.typed] IN
    /\ (n \in list_commands) = (Declaring(n) # {})
    /\ IF shown.kind = "none" THEN Declaring(n) = {}
       ELSE /\ shown.by \in Declaring(n) /\ \A file \in Declaring(n) : shown.by <= file
            /\ shown.id = FirstId(shown.by, n)
    /\ \A k \in DOMAIN shown.ran :
         shown.ran[k].ok => /\ shown.ran[k].on \in Opened /\ core[shown.ran[k].on] = "open"
                            /\ \A id \in Opened : id <= shown.ran[k].on
=============================================================================
