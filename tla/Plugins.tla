------------------------------ MODULE Plugins ------------------------------
(***************************************************************************)
(* Plugins loaded at run time: the registry and the loader                 *)
(* (plugins/registry.py, plugins/loader.py), the link of a mesh forwarder  *)
(* (plugins/mesh_forwarder.py), and the handlers of backend/server.py that *)
(* install, reload, remove and configure plugins.  The handlers run beside *)
(* each other on the event loop, and wait in the hooks of the plugins.     *)
(***************************************************************************)
EXTENDS Integers, SequencesExt, Selections

CONSTANTS
  Plugs,          \* ids of mesh forwarders; each conflicts with the others
  Params,         \* values of _transport_key: what a transport is made with
  Handlers,       \* handlers that may run at once
  MaxRequests     \* bound of the model: handlers that ever start

ASSUME PluginsAssumption == IsFiniteSet(Plugs) /\ MaxRequests \in Nat

Instances == Plugs \X (0..MaxRequests)     \* those of number 0 loaded at startup
Idle == [at |-> "idle"]

VARIABLES
  switches,       \* ids whose section says enabled
  params,         \* the connection parameters in the section of each id
  folders,        \* ids with a directory under the plugins directory
  registered,     \* _plugins: instances in order
  requests,       \* handlers started so far
  handle,         \* instances that hold a _transport
  active,         \* _transport_key_active, of those with a handle
  linked,         \* those whose _transport is connected
  sending,        \* those with a sender task
  stray,          \* links that came up after their handle was cleared
  job,            \* what each handler does and where it waits
  crossed,        \* history: two handlers were at work at once
  leftOpen        \* history: instances whose last teardown raised, or whose new
                  \* link was begun when the plugin had been switched off

mesh == <<handle, active, linked, sending, stray, leftOpen>>
plugVars == <<switches, params, folders, registered, mesh, job, requests, crossed>>

\* _lifespan: discover_and_load, then one dispatch before anything is served.
PlugInit ==
  /\ switches \in {{}} \cup {{p} : p \in Plugs}
  /\ params \in [Plugs -> Params]
  /\ folders \in SUBSET Plugs
  /\ registered \in SetToSeqs(folders \X {0})
  /\ handle = (folders \cap switches) \X {0}
  /\ active = [i \in Instances |-> params[i[1]]]
  /\ linked \in SUBSET handle /\ sending = linked /\ stray = {} /\ leftOpen = {}
  /\ job = [h \in Handlers |-> Idle]
  /\ requests = 0 /\ crossed = FALSE

Of(p) == {i \in ToSet(registered) : i[1] = p}
First(p) ==
  LET places == {k \in DOMAIN registered : registered[k][1] = p}
  IN  registered[CHOOSE k \in places : \A l \in places : k <= l]

WaitsOn(h, i) ==
  \/ job[h].at = "dialing" /\ job[h].left[1] = i
  \/ job[h].at = "cutting" /\ job[h].inst = i

\* A handler goes on with next; when it has cleared the handle of i, the
\* connection that others wait for belongs to nobody.
Goes(h, next) == job' = [job EXCEPT ![h] = next]
GoesClearing(h, next, i) ==
  job' = [g \in Handlers |-> IF g = h THEN next
                             ELSE IF WaitsOn(g, i) THEN [job[g] EXCEPT !.lost = TRUE]
                             ELSE job[g]]

Begins(h) ==
  /\ job[h] = Idle /\ requests < MaxRequests
  /\ requests' = requests + 1
  /\ crossed' = (crossed \/ \E g \in Handlers : job[g] # Idle)

Telling == [at |-> "telling"]
Visiting(left) == IF left = <<>> THEN Idle ELSE [at |-> "visiting", left |-> left]
Dialing(left) == [at |-> "dialing", left |-> left, lost |-> FALSE]
Redialing(left) == [at |-> "redialing", left |-> left, key |-> params[left[1][1]]]

------------------------------------------------------------------------------
(* MeshForwarderPlugin._teardown: what is done before and after it waits.    *)

\* The handle is cleared, even when it has become that of a new link; a redial
\* makes a new transport at once, for the key it found when it began, whatever
\* the settings say by now.
Cleared(h, i, next) ==
  IF next.at = "redialing"
  THEN /\ handle' = handle \cup {i} /\ active' = [active EXCEPT ![i] = next.key]
       /\ leftOpen' = IF i[1] \in switches THEN leftOpen \ {i} ELSE leftOpen \cup {i}
       /\ GoesClearing(h, Dialing(next.left), i)
  ELSE /\ handle' = handle \ {i} /\ leftOpen' = leftOpen \ {i}
       /\ GoesClearing(h, next, i)
       /\ UNCHANGED active

CutNow(h, i, next) ==
  /\ sending' = sending \ {i}
  /\ IF i \in linked THEN /\ Goes(h, [at |-> "cutting", inst |-> i, next |-> next, lost |-> FALSE])
                          /\ UNCHANGED <<handle, active, leftOpen>>
     ELSE Cleared(h, i, next)
  /\ UNCHANGED <<linked, stray>>

\* mutant of CutDone: the link is dropped from the books without being closed
CutDoneUnclosed(h, ok) ==
  /\ job[h].at = "cutting"
  /\ LET i == job[h].inst IN
       /\ linked' = linked \ {i} /\ stray' = stray \cup {i}
       /\ Cleared(h, i, job[h].next)
  /\ UNCHANGED <<switches, params, folders, registered, sending, crossed, requests>>

\* disconnect() returns, or raises: then the link stays, with its handle, and what
\* the registry calls next goes on.
CutDone(h, ok) ==
  /\ job[h].at = "cutting"
  /\ LET i == job[h].inst
         next == job[h].next
     IN  IF ok
         THEN /\ linked' = linked \ {i}
              /\ stray' = IF job[h].lost /\ i \in linked THEN stray \cup {i} ELSE stray
              /\ Cleared(h, i, next)
         ELSE /\ leftOpen' = leftOpen \cup {i}
              /\ Goes(h, IF next.at = "redialing" THEN Visiting(Tail(next.left)) ELSE next)
              /\ UNCHANGED <<linked, stray, handle, active>>
  /\ UNCHANGED <<switches, params, folders, registered, sending, crossed, requests>>

------------------------------------------------------------------------------
(* set_server_config, and dispatch_config_changed with which the settings,   *)
(* an installation and a reload all end.                                     *)

\* resolve_conflicts: whatever was just enabled disables all it conflicts with.
Resolved(on) ==
  LET fresh == on \ switches
  IN  {p \in on : fresh \subseteq {p}}

SaveSettings(h, on, to) ==
  /\ Begins(h)
  /\ \A p \in (on \ switches) \cup (switches \ on) : Of(p) # {}
  /\ \A p \in Plugs : to[p] # params[p] => Of(p) # {}
  /\ switches' = Resolved(on) /\ params' = to
  /\ Goes(h, Telling)
  /\ UNCHANGED <<folders, registered, mesh>>

\* The loop is over the tuple as it is now.
Dispatch(h) ==
  /\ job[h] = Telling
  /\ Goes(h, Visiting(registered))
  /\ UNCHANGED <<switches, params, folders, registered, mesh, crossed, requests>>

\* on_config_changed of the next instance, enabled or not; _ensure_connected tears
\* a transport down that was made with other parameters, and dials again.
Visit(h) ==
  /\ job[h].at = "visiting"
  /\ LET left == job[h].left
         i == Head(left)
         key == params[i[1]]
     IN  \/ /\ i[1] \notin switches
            /\ CutNow(h, i, Visiting(Tail(left)))
         \/ /\ i[1] \in switches /\ i \in handle /\ active[i] # key
            /\ CutNow(h, i, Redialing(left))
         \/ /\ i[1] \in switches /\ (i \in handle => active[i] = key)
            /\ handle' = handle \cup {i} /\ active' = [active EXCEPT ![i] = key]
            /\ IF i \in linked
               THEN sending' = sending \cup {i} /\ Goes(h, Visiting(Tail(left)))
               ELSE Goes(h, Dialing(left)) /\ UNCHANGED sending
            /\ UNCHANGED <<linked, stray, leftOpen>>
  /\ UNCHANGED <<switches, params, folders, registered, crossed, requests>>

\* connect() returns, or raises and the next instance is told.
DialDone(h, ok) ==
  /\ job[h].at = "dialing"
  /\ LET i == Head(job[h].left) IN
       /\ linked' = IF ok /\ ~job[h].lost THEN linked \cup {i} ELSE linked
       /\ stray' = IF ok /\ job[h].lost THEN stray \cup {i} ELSE stray
       /\ sending' = IF ok THEN sending \cup {i} ELSE sending
  /\ Goes(h, Visiting(Tail(job[h].left)))
  /\ UNCHANGED <<switches, params, folders, registered, handle, active, leftOpen, crossed, requests>>

------------------------------------------------------------------------------
(* Installing, reloading and removing.                                       *)

\* unload_plugin, after which the handler goes on with next
Unload(h, p, next) ==
  IF Of(p) = {} THEN Goes(h, next) /\ UNCHANGED <<registered, mesh>>
  ELSE /\ registered' = Kept(registered, {k \in DOMAIN registered : registered[k] # First(p)})
       /\ CutNow(h, First(p), next)

\* mutant of ReloadPlugin: the old instance is left to the new one
ReloadPluginOver(h, p) ==
  /\ p \in folders
  /\ Begins(h)
  /\ Goes(h, [at |-> "loading", plug |-> p, no |-> requests'])
  /\ UNCHANGED <<registered, mesh, switches, params, folders>>

ReloadPlugin(h, p) ==
  /\ p \in folders
  /\ Begins(h)
  /\ Unload(h, p, [at |-> "loading", plug |-> p, no |-> requests'])
  /\ UNCHANGED <<switches, params, folders>>

UninstallPlugin(h, p) ==
  /\ Begins(h)
  /\ Unload(h, p, [at |-> "removing", plug |-> p])
  /\ UNCHANGED <<switches, params, folders>>

InstallPlugin(h, p) ==
  /\ Begins(h)
  /\ Unload(h, p, [at |-> "copying", plug |-> p, no |-> requests'])
  /\ UNCHANGED <<switches, params, folders>>

RemoveFolder(h) ==
  /\ job[h].at = "removing"
  /\ folders' = folders \ {job[h].plug}
  /\ Goes(h, Idle)
  /\ UNCHANGED <<switches, params, registered, mesh, crossed, requests>>

\* The new directory is in place, and reload_plugin unloads once more.
CopyFolder(h) ==
  /\ job[h].at = "copying"
  /\ folders' = folders \cup {job[h].plug}
  /\ Unload(h, job[h].plug, [job[h] EXCEPT !.at = "loading"])
  /\ UNCHANGED <<switches, params, crossed, requests>>

\* load_plugin: import, bind, and wait in setup(); what fails is recorded and
\* the configuration is dispatched all the same.
Load(h) ==
  /\ job[h].at = "loading"
  /\ LET p == job[h].plug IN
       Goes(h, IF p \in folders THEN [at |-> "setup", inst |-> <<p, job[h].no>>] ELSE Telling)
  /\ UNCHANGED <<switches, params, folders, registered, mesh, crossed, requests>>

SetUp(h, ok) ==
  /\ job[h].at = "setup"
  /\ registered' = IF ok THEN Append(registered, job[h].inst) ELSE registered
  /\ Goes(h, Telling)
  /\ UNCHANGED <<switches, params, folders, mesh, crossed, requests>>

PlugNext ==
  \E h \in Handlers :
    \/ Dispatch(h) \/ Visit(h) \/ RemoveFolder(h) \/ CopyFolder(h) \/ Load(h)
    \/ \E ok \in BOOLEAN : DialDone(h, ok) \/ CutDone(h, ok) \/ SetUp(h, ok)
    \/ \E on \in SUBSET Plugs, to \in [Plugs -> Params] : SaveSettings(h, on, to)
    \/ \E p \in Plugs : ReloadPlugin(h, p) \/ UninstallPlugin(h, p) \/ InstallPlugin(h, p)

PlugSpec == PlugInit /\ [][PlugNext]_plugVars

------------------------------------------------------------------------------
Quiet == \A h \in Handlers : job[h] = Idle

PlugTypeOK ==
  /\ switches \subseteq Plugs /\ folders \subseteq Plugs /\ params \in [Plugs -> Params]
  /\ registered \in Seq(Instances) /\ IsInjective(registered)
  /\ requests \in 0..MaxRequests
  /\ linked \subseteq handle /\ handle \subseteq Instances
  /\ sending \subseteq Instances /\ stray \subseteq Instances /\ leftOpen \subseteq Instances
  /\ active \in [Instances -> Params]
  /\ crossed \in BOOLEAN
  /\ \A h \in Handlers :
       job[h].at \in {"idle", "telling", "visiting", "dialing", "cutting",
                      "loading", "setup", "removing", "copying"}

\* Once the handlers are done, no plugin that is switched off has an open link, and
\* two that conflict never both have one, however the handlers ran beside each other,
\* but for a link whose disconnect raised, and one that a reconnection with changed
\* parameters began when the plugin had been switched off meanwhile.  If the handlers
\* ran one after another, an id has at most one instance, with its directory in place;
\* the open links are those of these instances, sender tasks and all, but for those
\* whose disconnect raised, and what still sends is switched on and was connected with
\* the present parameters; otherwise a second instance may stay, or a link of nobody.
PluginsSettle ==
  Quiet =>
    /\ \A i \in (linked \ leftOpen) \cap ToSet(registered) : i[1] \in switches
    /\ Cardinality(switches) <= 1
    /\ ~crossed => /\ \A p \in Plugs : Cardinality(Of(p)) <= 1
                   /\ \A i \in ToSet(registered) : i[1] \in folders
                   /\ stray = {} /\ linked \ leftOpen \subseteq sending
                   /\ sending \subseteq linked \cap ToSet(registered)
                   /\ \A i \in sending : i[1] \in switches /\ active[i] = params[i[1]]
=============================================================================
