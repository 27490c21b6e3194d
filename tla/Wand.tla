-------------------------------- MODULE Wand --------------------------------
(***************************************************************************)
(* wand.py, the WAN-uplink failover daemon of stack/backhaul: the monitor  *)
(* thread checks every uplink in turn and points the container's default   *)
(* route at the best healthy one, while cables are pulled, replugged and   *)
(* paths die between any two of its commands.                              *)
(*                                                                         *)
(* The kernel side (interfaces, routing tables, qdiscs) and Docker's       *)
(* network connect/disconnect are not wand's code: they are modelled from  *)
(* what wand.py and verify.sh use of them. A route or a qdisc over an      *)
(* interface goes away with the interface; wand's own memory of the        *)
(* interface's name does not.                                              *)
(***************************************************************************)
EXTENDS Naturals

CONSTANTS
    NumUplinks,     \* uplinks in uplinks.yaml, numbered in priority order
    NumIfaces,      \* interface names Docker hands out to them
    NoUplink,       \* Python's None, as an uplink's name
    NoIface,        \* Python's None, as an interface name
    Elsewhere,      \* a default route over no uplink: services_net
    QuickFlap,      \* may an interface name wand still remembers be reused?
    MaxEvents       \* bound: things that happen to the network

Uplinks == 1..NumUplinks
Ifaces  == 1..NumIfaces

ASSUME WandAssumption ==
    /\ NumUplinks \in Nat \ {0} /\ NumIfaces \in Nat
    /\ NumUplinks <= NumIfaces
    /\ MaxEvents \in Nat /\ QuickFlap \in BOOLEAN
    /\ NoUplink \notin Uplinks /\ Elsewhere \notin Uplinks
    /\ NoUplink # Elsewhere
    /\ NoIface \notin Ifaces

VARIABLES
    \* The network:
    net,        \* uplink -> interface that holds its address now
    cond,       \* uplink -> "ok", "path_dead" or "link_dead"
    tbl,        \* uplink -> does its own table route over its interface?
    dflt,       \* the uplink the main default route uses, NoUplink, Elsewhere
    shaped,     \* uplinks whose interface has the HTB classes
    chain,      \* interface the WAND_QOS rules match
    \* wand.py:
    iface,      \* uplink -> interface wand believes it has (up["iface"])
    pub,        \* uplink -> published as healthy (state["uplinks"])
    active,     \* state["active"]
    changed,    \* state["changed_at"] is not None
    pc,         \* the monitor thread's next command
    cur,        \* the uplink being checked
    events      \* events so far

netVars    == <<net, cond, events>>
kernelVars == <<tbl, dflt, shaped, chain>>
stateVars  == <<pub, active, changed>>
vars == <<net, cond, tbl, dflt, shaped, chain, iface, pub, active, changed,
          pc, cur, events>>

Best(S) ==
    IF S = {} THEN NoUplink
    ELSE CHOOSE u \in S : \A v \in S : u <= v

\* The list `healthy` of a pass that has checked every uplink.
Healthy == {u \in Uplinks : pub[u]}
best    == Best(Healthy)

Attached(u) == net[u] # NoIface
\* wand's memory of u's interface is right.
Known(u) == Attached(u) /\ iface[u] = net[u]

\* The container's network namespace is new: Docker has given one attached
\* network the default route.
FreshNamespace ==
    /\ tbl' = [u \in Uplinks |-> FALSE]
    /\ dflt' \in {u \in Uplinks : Attached(u)} \cup {Elsewhere}
    /\ shaped' = {}
    /\ chain' = NoIface

Init ==
    /\ net = [u \in Uplinks |-> u]
    /\ cond \in [Uplinks -> {"ok", "path_dead", "link_dead"}]
    /\ tbl = [u \in Uplinks |-> FALSE]
    /\ dflt \in Uplinks \cup {Elsewhere}
    /\ shaped = {}
    /\ chain = NoIface
    /\ iface = [u \in Uplinks |-> NoIface]
    /\ pub = [u \in Uplinks |-> FALSE]
    /\ active = NoUplink
    /\ changed = FALSE
    /\ pc = "check"
    /\ cur = 1
    /\ events = 0

-----------------------------------------------------------------------------
(* check_uplink.                                                            *)

\* Mutant of Publish: the loop index is not reset.
PublishNoReset(u, ok) ==
    /\ pub' = [pub EXCEPT ![u] = ok]
    /\ pc' = IF u = NumUplinks THEN "decide" ELSE "check"
    /\ cur' = u + 1
    /\ UNCHANGED <<active, changed>>

\* The check of u is over: its result goes into the status, the loop goes on.
Publish(u, ok) ==
    /\ pub' = [pub EXCEPT ![u] = ok]
    /\ pc' = IF u = NumUplinks THEN "decide" ELSE "check"
    /\ cur' = IF u = NumUplinks THEN 1 ELSE u + 1
    /\ UNCHANGED <<active, changed>>

\* Mutant of FindIface: the interface is found and its table is not set up.
FindIfaceOnly(u) ==
    /\ pc = "check" /\ cur = u
    /\ iface[u] = NoIface
    /\ Attached(u)
    /\ iface' = [iface EXCEPT ![u] = net[u]]
    /\ pc' = "ping"
    /\ UNCHANGED <<netVars, kernelVars, stateVars, cur>>

FindIface(u) ==
    /\ pc = "check" /\ cur = u
    /\ iface[u] = NoIface
    /\ Attached(u)
    /\ iface' = [iface EXCEPT ![u] = net[u]]
    /\ pc' = "setup"
    /\ UNCHANGED <<netVars, kernelVars, stateVars, cur>>

NotAttached(u) ==
    /\ pc = "check" /\ cur = u
    /\ iface[u] = NoIface
    /\ ~Attached(u)
    /\ Publish(u, FALSE)
    /\ UNCHANGED <<netVars, kernelVars, iface>>

\* setup_policy_routing's three commands, in one step. `ip route replace ...
\* table N` fails, and nobody looks, when the interface
\* has gone since find_iface.
SetupRouting(u) ==
    /\ pc = "setup" /\ cur = u
    /\ tbl' = [tbl EXCEPT ![u] = tbl[u] \/ Known(u)]
    /\ pc' = "ping"
    /\ UNCHANGED <<netVars, dflt, shaped, chain, iface, stateVars, cur>>

\* May `ping -I iface gateway` have this answer? An interface name that now
\* belongs to another uplink reaches the gateway or does not.
MayPing(u, ok) ==
    \/ Known(u) /\ ok = (cond[u] # "link_dead")
    \/ ~Known(u) /\ ok = FALSE
    \/ \E v \in Uplinks : v # u /\ net[v] = iface[u]

\* The first command of the check when the interface is remembered.
Pinging(u) ==
    /\ cur = u
    /\ \/ pc = "ping"
       \/ pc = "check" /\ iface[u] # NoIface

PingOk(u) ==
    /\ Pinging(u)
    /\ MayPing(u, TRUE)
    /\ pc' = "dns"
    /\ UNCHANGED <<netVars, kernelVars, iface, stateVars, cur>>

\* Mutant of PingFails: the check of u starts again with the interface's name.
PingFailsRetries(u) ==
    /\ Pinging(u)
    /\ MayPing(u, FALSE)
    /\ iface' = [iface EXCEPT ![u] = NoIface]
    /\ pc' = "check"
    /\ UNCHANGED <<netVars, kernelVars, stateVars, cur>>

\* Mutant of PingFails: the stale interface name is kept.
PingFailsKeepsIface(u) ==
    /\ Pinging(u)
    /\ MayPing(u, FALSE)
    /\ Publish(u, FALSE)
    /\ UNCHANGED <<netVars, kernelVars, iface>>

PingFails(u) ==
    /\ Pinging(u)
    /\ MayPing(u, FALSE)
    /\ iface' = [iface EXCEPT ![u] = NoIface]
    /\ Publish(u, FALSE)
    /\ UNCHANGED <<netVars, kernelVars>>

\* May `dig -b self_ip` have this answer? The source rule sends the query to
\* u's own table; when that holds no route, to the main default route, and
\* over someone else's uplink u's address may or may not get a reply.
MayResolve(u, ok) ==
    IF Attached(u) /\ (tbl[u] \/ dflt = u)
    THEN ok = (cond[u] = "ok")
    ELSE ok => Attached(u) /\ dflt # NoUplink

DnsProbe(u, ok) ==
    /\ pc = "dns" /\ cur = u
    /\ MayResolve(u, ok)
    /\ Publish(u, ok)
    /\ UNCHANGED <<netVars, kernelVars, iface>>

-----------------------------------------------------------------------------
(* The decision of a pass, and set_active.                                  *)

Stay ==
    /\ pc = "decide"
    /\ best = active
    /\ pc' = "check"
    /\ UNCHANGED <<netVars, kernelVars, iface, stateVars, cur>>

\* Mutant of DelDefault: with no healthy uplink the route is left alone.
DelDefaultOnlyToReplace ==
    /\ pc = "decide"
    /\ best # active
    /\ dflt' = IF best = NoUplink THEN dflt ELSE NoUplink
    /\ pc' = IF best = NoUplink THEN "record" ELSE "add"
    /\ UNCHANGED <<netVars, tbl, shaped, chain, iface, stateVars, cur>>

DelDefault ==
    /\ pc = "decide"
    /\ best # active
    /\ dflt' = NoUplink
    /\ pc' = IF best = NoUplink THEN "record" ELSE "add"
    /\ UNCHANGED <<netVars, tbl, shaped, chain, iface, stateVars, cur>>

\* Fails, and nobody looks, when the interface has gone since the check.
AddDefault ==
    /\ pc = "add"
    /\ dflt' = IF Known(best) THEN best ELSE dflt
    /\ pc' = "qos"
    /\ UNCHANGED <<netVars, tbl, shaped, chain, iface, stateVars, cur>>

\* Mutant of SetupQos: the rule chain is built once and not rebuilt.
SetupQosOnce ==
    /\ pc = "qos"
    /\ shaped' = shaped \cup {u \in Uplinks : net[u] = iface[best]}
    /\ chain' = IF chain = NoIface THEN iface[best] ELSE chain
    /\ pc' = "record"
    /\ UNCHANGED <<netVars, tbl, dflt, iface, stateVars, cur>>

\* setup_qos's commands, in one step. tc fails on a missing interface, iptables
\* takes any name.
SetupQos ==
    /\ pc = "qos"
    /\ shaped' = shaped \cup {u \in Uplinks : net[u] = iface[best]}
    /\ chain' = iface[best]
    /\ pc' = "record"
    /\ UNCHANGED <<netVars, tbl, dflt, iface, stateVars, cur>>

\* Mutant of Record: the first uplink of the list instead of the chosen one.
RecordFirst ==
    /\ pc = "record"
    /\ active' = IF best = NoUplink THEN NoUplink ELSE 1
    /\ changed' = TRUE
    /\ pc' = "check"
    /\ UNCHANGED <<netVars, kernelVars, iface, pub, cur>>

Record ==
    /\ pc = "record"
    /\ active' = best
    /\ changed' = TRUE
    /\ pc' = "check"
    /\ UNCHANGED <<netVars, kernelVars, iface, pub, cur>>

Monitor ==
    \/ \E u \in Uplinks :
          \/ FindIface(u) \/ NotAttached(u) \/ SetupRouting(u)
          \/ PingOk(u) \/ PingFails(u)
          \/ \E ok \in BOOLEAN : DnsProbe(u, ok)
    \/ Stay \/ DelDefault \/ AddDefault \/ SetupQos \/ Record

-----------------------------------------------------------------------------
(* The world.                                                               *)

Happens ==
    /\ events < MaxEvents
    /\ events' = events + 1

\* docker network disconnect: the interface goes, with all that used it.
Unplug(u) ==
    /\ Happens
    /\ Attached(u)
    /\ net' = [net EXCEPT ![u] = NoIface]
    /\ tbl' = [tbl EXCEPT ![u] = FALSE]
    /\ dflt' = IF dflt = u THEN NoUplink ELSE dflt
    /\ shaped' = shaped \ {u}
    /\ UNCHANGED <<cond, chain, iface, stateVars, pc, cur>>

\* docker network connect, under any free interface name. Without QuickFlap
\* a name comes back only after wand has noticed that it was gone.
Plug(u, n) ==
    /\ Happens
    /\ ~Attached(u)
    /\ \A v \in Uplinks : net[v] # n
    /\ \/ QuickFlap
       \/ \A v \in Uplinks : iface[v] # n
    /\ net' = [net EXCEPT ![u] = n]
    /\ UNCHANGED <<cond, kernelVars, iface, stateVars, pc, cur>>

\* The gateway or what lies beyond it dies or recovers.
Change(u, c) ==
    /\ Happens
    /\ cond[u] # c
    /\ cond' = [cond EXCEPT ![u] = c]
    /\ UNCHANGED <<net, kernelVars, iface, stateVars, pc, cur>>

\* The container dies and is restarted (restart: unless-stopped).
Restart ==
    /\ Happens
    /\ FreshNamespace
    /\ iface' = [u \in Uplinks |-> NoIface]
    /\ pub' = [u \in Uplinks |-> FALSE]
    /\ active' = NoUplink
    /\ changed' = FALSE
    /\ pc' = "check"
    /\ cur' = 1
    /\ UNCHANGED <<net, cond>>

World ==
    \/ \E u \in Uplinks :
          \/ Unplug(u)
          \/ \E n \in Ifaces : Plug(u, n)
          \/ \E c \in {"ok", "path_dead", "link_dead"} : Change(u, c)
    \/ Restart

Next == Monitor \/ World

\* The monitor thread loops for ever and each of its commands returns (sh
\* gives every one a timeout). Nothing is assumed of the network.
Spec == Init /\ [][Next]_vars /\ WF_vars(Monitor)

-----------------------------------------------------------------------------
(* Properties.                                                              *)

\* Every variable holds a value of its kind.
TypeOK ==
    /\ net \in [Uplinks -> Ifaces \cup {NoIface}]
    /\ cond \in [Uplinks -> {"ok", "path_dead", "link_dead"}]
    /\ tbl \in [Uplinks -> BOOLEAN]
    /\ dflt \in Uplinks \cup {NoUplink, Elsewhere}
    /\ shaped \subseteq Uplinks
    /\ chain \in Ifaces \cup {NoIface}
    /\ iface \in [Uplinks -> Ifaces \cup {NoIface}]
    /\ pub \in [Uplinks -> BOOLEAN]
    /\ active \in Uplinks \cup {NoUplink}
    /\ changed \in BOOLEAN
    /\ pc \in {"check", "setup", "ping", "dns", "decide", "add", "qos", "record"}
    /\ cur \in Uplinks
    /\ events \in 0..MaxEvents

\* Where no set_active is under way.
Settled == pc \notin {"add", "qos", "record"}

\* The route never belies the status: once wand has chosen, the default route
\* is over the active uplink or there is none, and there is none only if the
\* active uplink's interface is not where wand thinks it is. Traffic never
\* leaves by an uplink other than the one /status names (wand.py:220-228).
RouteFollowsStatus ==
    Settled /\ changed =>
        /\ dflt \in {active, NoUplink}
        /\ active # NoUplink /\ Known(active) => dflt = active

\* Traffic over the active uplink is shaped, by the classes on its own
\* interface and by rules that match that interface (wand.py:180-217).
ActiveIsShaped ==
    Settled /\ active # NoUplink /\ dflt = active =>
        active \in shaped /\ chain = net[active]

Usable(u) == Attached(u) /\ cond[u] = "ok"

\* Once the network stays as it is, wand settles on the best uplink that
\* really works, says so, and routes over it (wand.py:4-6), unless wand was
\* started with no working uplink at all.
Converges ==
    <>[](LET b == Best({u \in Uplinks : Usable(u)}) IN
            /\ active = b
            /\ b # NoUplink => dflt = b)

\* To a reader of /status wand is a failover switch.
Switchover == INSTANCE Failover
ImplementsFailover == Switchover!Spec
=============================================================================
