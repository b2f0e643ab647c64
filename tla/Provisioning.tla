---------------------------- MODULE Provisioning ----------------------------
(* Where LOAD finds the component it instantiates                          *)
(* (ensure_extension_loaded): the bridge of a sub-extension, once its      *)
(* provider is registered, or the file of the extension directory that     *)
(* belongs to the provider the resolver chooses.                           *)
EXTENDS Distribution, SubExtensions

CONSTANT Components  \* the bytes that wasmtime instantiates

ASSUME ProvAssumption == Components \cap {Absent, None} = {}

VARIABLES
  session,  \* the catalog a host session read when it started, None where there is none
  loaded    \* extension -> the bytes the session instantiated

hostVars == <<session, loaded>>
provVars == <<distVars, subVars, hostVars>>

Init ==
  /\ DistInit /\ SubInit
  /\ session = None /\ loaded = [n \in Exts |-> None]

\* A new session starts from what is on disk.
StartSession ==
  /\ stack = <<>>
  /\ session' \in {index, None}
  /\ loaded' = [n \in Exts |-> None]
  /\ registry' = [s \in Subs |-> Missing] /\ digests' = [s \in Subs |-> Missing]
  /\ done' = {} /\ bridged' = {}
  /\ UNCHANGED <<distVars, config, cas, stack>>

\* The files a LOAD of n may choose: the basename of the chosen provider's
\* artifact; without a catalog, or with an https artifact, <name>.wasm.
Candidates(n, policy) ==
  IF session = None THEN {ByName[n]}
  ELSE {IF p \in Linked THEN ByName[n] ELSE Artifact[p] :
          p \in Resolved(session, n, suite[n], policy)}

\* A file that is not there is refused by the host, one that is not a component
\* by wasmtime. No digest is looked at.
Load(n, policy) ==
  /\ loaded[n] = None /\ stack = <<>>
  /\ \E f \in Candidates(n, policy) :
       files[f] \in Components /\ loaded' = [loaded EXCEPT ![n] = files[f]]
  /\ UNCHANGED <<distVars, subVars, session>>

Commands == DistNext /\ UNCHANGED <<subVars, hostVars>>
SubLoads == \E s \in Subs : SubStep(s) /\ UNCHANGED <<distVars, hostVars>>
Loads == \E n \in Exts, policy \in Policies : Load(n, policy)

Next == Commands \/ SubLoads \/ Loads \/ StartSession

Spec == Init /\ [][Next]_provVars

-----------------------------------------------------------------------------
(* Properties.                                                             *)

\* What a session runs as an extension, and what it would run next, is what a
\* catalog vouched for when it was installed: not what was built, or published,
\* after the catalog was read, nor what an install that was killed, met another
\* one or was overtaken by an uninstall left, as far as wasmtime takes that for
\* no component. What an install had no digest for, nothing vouches for.
Vouched ==
  \A n \in Exts :
    ({loaded[n], files[ByName[n]]} \cap Components) \ unpinned[n] \subseteq vouched[n]
=============================================================================
