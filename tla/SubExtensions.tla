--------------------------- MODULE SubExtensions ---------------------------
(* Materialisation of the composed providers behind sub-extensions         *)
(* (sub_ext.rs): a LOAD of a sub-extension first registers the component   *)
(* that its bridge will resolve by id, composing it, and what it derives   *)
(* from, on the way.  One LOAD runs at a time, under the manager's mutex.  *)
EXTENDS Naturals, Sequences

CONSTANTS
  Subs,      \* names of sub-extensions
  Configs,   \* what the environment variables may say
  Missing,
  Failures   \* the calls that may fail: "read", "compose", "store", "register"

VARIABLES
  config,    \* the maps of SubExtLoader
  registry,  \* the provider registered under <sub>-composed
  cas,       \* blobs of the content-addressed store
  digests,   \* composed_digests
  done,      \* materialized_sub_exts
  stack,     \* calls of materialize_sub_ext_provider, the innermost last
  bridged    \* sub-extensions whose bridge LOAD went on to instantiate

subVars == <<config, registry, cas, digests, done, stack, bridged>>

\* A component of a plan names a blob of its own or what it is derived from.
Blob == "blob"
Own == <<"blob">>
Dangling == "dangling"   \* an all-zero digest without an entry in derived_from

ASSUME SubAssumption ==
  /\ Missing \notin Subs /\ Blob \notin Subs /\ Dangling \notin Subs
  /\ \A c \in Configs :
       /\ c.alias \in [Subs -> Subs \cup {Missing}]
       /\ c.plan \in [Subs -> Seq(Subs \cup {Blob, Dangling})]

\* Contents of components; a digest is the content it is taken of.
PrebuiltOf(s) == <<"prebuilt", s>>
ComposedOf(s, parts) == <<"composed", s, parts>>

SubInit ==
  /\ config \in Configs
  /\ registry = [s \in Subs |-> Missing]
  /\ cas = {Own}
  /\ digests = [s \in Subs |-> Missing]
  /\ done = {} /\ stack = <<>> /\ bridged = {}

HasEntry(s) == s \in config.prebuilt \cup config.bridge
HasBridge(s) == HasEntry(s) \/ (config.alias[s] # Missing /\ HasEntry(config.alias[s]))

Frame(s) == [sub |-> s, next |-> 1, parts |-> <<>>]
Top == stack[Len(stack)]
Below == SubSeq(stack, 1, Len(stack) - 1)
Calling(s) == stack # <<>> /\ Top.sub = s

StartLoad(s) ==
  /\ stack = <<>> /\ s \notin bridged /\ HasBridge(s)
  /\ stack' = <<Frame(s)>>
  /\ UNCHANGED <<config, registry, cas, digests, done, bridged>>

\* A call that fails takes the calls above it down: LOAD is skipped.
Unwind == stack' = <<>>

\* The next component of a plan has this digest.
Spliced(frame, content) == [frame EXCEPT !.next = @ + 1, !.parts = Append(@, content)]

\* Back in the caller: an alias is done with its upstream, a plan takes the
\* digest cached for it, and finds none where the upstream is an alias.
Caller(known) ==
  LET frame == Below[Len(Below)]
      upstream == Top.sub
      rest == SubSeq(Below, 1, Len(Below) - 1)
  IN IF config.alias[frame.sub] # Missing THEN Append(rest, [frame EXCEPT !.next = 2])
     ELSE IF known[upstream] = Missing THEN <<>>
     ELSE Append(rest, Spliced(frame, known[upstream]))

\* The bridge is looked up when the outermost call returns; has_bridge also
\* let an alias without an entry of its own through: expect() panics.
Return(known) ==
  IF Len(stack) > 1 THEN stack' = Caller(known) /\ UNCHANGED bridged
  ELSE /\ stack' = <<>>
       /\ bridged' = IF HasEntry(Top.sub) THEN bridged \cup {Top.sub} ELSE bridged

AlreadyDone(s) ==
  /\ Calling(s) /\ s \in done
  /\ Return(digests)
  /\ UNCHANGED <<config, registry, cas, digests, done>>

\* Faulty variant: the alias is marked before its upstream is there.
FollowAliasEarly(s) ==
  /\ Calling(s) /\ s \notin done /\ config.alias[s] # Missing
  /\ IF Top.next = 1
     THEN done' = done \cup {s} /\ stack' = Append(stack, Frame(config.alias[s])) /\ UNCHANGED bridged
     ELSE Return(digests) /\ UNCHANGED done
  /\ UNCHANGED <<config, registry, cas, digests>>

\* An alias takes precedence over everything else: its upstream first.
FollowAlias(s) ==
  /\ Calling(s) /\ s \notin done /\ config.alias[s] # Missing
  /\ IF Top.next = 1
     THEN stack' = Append(stack, Frame(config.alias[s])) /\ UNCHANGED <<done, bridged>>
     ELSE done' = done \cup {s} /\ Return(digests)
  /\ UNCHANGED <<config, registry, cas, digests>>

\* A file is registered as it is, and stored for those derived from it.
UsePrebuilt(s) ==
  LET known == [digests EXCEPT ![s] = PrebuiltOf(s)] IN
  /\ Calling(s) /\ s \notin done /\ config.alias[s] = Missing /\ s \in config.prebuilt
  /\ registry' = [registry EXCEPT ![s] = PrebuiltOf(s)]
  /\ digests' = known
  /\ cas' = cas \cup {PrebuiltOf(s)}
  /\ done' = done \cup {s}
  /\ Return(known)
  /\ UNCHANGED config

\* The file is missing or the registry refuses it; or it is registered and
\* cannot be read or stored afterwards.
PrebuiltFails(s) ==
  /\ Calling(s) /\ s \notin done /\ config.alias[s] = Missing /\ s \in config.prebuilt
  /\ \/ "register" \in Failures /\ UNCHANGED registry
     \/ "read" \in Failures /\ registry' = [registry EXCEPT ![s] = PrebuiltOf(s)]
  /\ Unwind
  /\ UNCHANGED <<config, cas, digests, done, bridged>>

Planned(s) ==
  Calling(s) /\ s \notin done /\ config.alias[s] = Missing /\ s \notin config.prebuilt

Component(s) == config.plan[s][Top.next]

\* A component whose digest is the placeholder is resolved through
\* derived_from by a call for the upstream.
ResolveComponent(s) ==
  /\ Planned(s) /\ Top.next <= Len(config.plan[s])
  /\ IF Component(s) = Blob THEN stack' = Append(Below, Spliced(Top, Own))
     ELSE IF Component(s) = Dangling THEN Unwind
     ELSE stack' = Append(stack, Frame(Component(s)))
  /\ UNCHANGED <<config, registry, cas, digests, done, bridged>>

Complete(s) == Planned(s) /\ config.plan[s] # <<>> /\ Top.next > Len(config.plan[s])
Stored(s) == \A i \in DOMAIN Top.parts : Top.parts[i] \in cas

\* Compose, write the file and register it.
Compose(s) ==
  LET content == ComposedOf(s, Top.parts)
      known == [digests EXCEPT ![s] = content]
  IN /\ Complete(s) /\ Stored(s)
     /\ cas' = cas \cup {content}
     /\ digests' = known
     /\ registry' = [registry EXCEPT ![s] = content]
     /\ done' = done \cup {s}
     /\ Return(known)
     /\ UNCHANGED config

\* The plan is missing or not one, a blob is, or composing fails; or the
\* digest is cached and the file or the registry refuses what follows.
ComposeFails(s) ==
  /\ \/ Planned(s) /\ config.plan[s] = <<>> /\ UNCHANGED <<cas, digests>>
     \/ Complete(s) /\ (~Stored(s) \/ "compose" \in Failures) /\ UNCHANGED <<cas, digests>>
     \/ /\ Complete(s) /\ Stored(s) /\ "store" \in Failures
        /\ cas' = cas \cup {ComposedOf(s, Top.parts)}
        /\ digests' = [digests EXCEPT ![s] = ComposedOf(s, Top.parts)]
  /\ Unwind
  /\ UNCHANGED <<config, registry, done, bridged>>

SubStep(s) ==
  \/ StartLoad(s) \/ AlreadyDone(s) \/ FollowAlias(s)
  \/ UsePrebuilt(s) \/ PrebuiltFails(s)
  \/ ResolveComponent(s) \/ Compose(s) \/ ComposeFails(s)

-----------------------------------------------------------------------------
(* The provider id a bridge resolves is that of the end of its aliases.    *)
Reached(s) ==
  {x \in Subs : \A C \in SUBSET Subs :
     s \in C /\ (\A y \in C : config.alias[y] # Missing => config.alias[y] \in C) => x \in C}
Root(s) == CHOOSE x \in Reached(s) : config.alias[x] = Missing

DerivedFrom(content, s) ==
  content[1] = "composed" =>
    \A i \in DOMAIN content[3] :
      config.plan[s][i] # Blob => content[3][i] = registry[config.plan[s][i]]

\* When LOAD goes on to a bridge, the provider that the bridge resolves by id
\* is registered, whatever failed before, and every part of it derived from
\* another sub-extension is the provider that one has registered ("so a
\* downstream sub-ext that hits the early-return path still sees the digest").
Wired ==
  \A s \in bridged :
    /\ registry[Root(s)] # Missing
    /\ DerivedFrom(registry[Root(s)], Root(s))
=============================================================================
