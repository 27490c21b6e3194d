----------------------------- MODULE WandProofs -----------------------------
(***************************************************************************)
(* For any number of uplinks, interfaces and events: the monitor thread    *)
(* keeps its types, shapes the uplink it routes over, switches only to the *)
(* best uplink it has published as healthy, and, while no interface name   *)
(* is reused behind its back, never routes over an uplink other than the   *)
(* one /status names.                                                      *)
(*                                                                         *)
(* The last rests on RouteInv: what each point of set_active may assume of *)
(* the default route, and that wand never rediscovers the interface of the *)
(* uplink it still calls active: a pass that loses the interface publishes *)
(* the uplink as unhealthy and switches away before the next pass looks.   *)
(***************************************************************************)
EXTENDS Passes, WellFoundedInduction, TLAPS

\* A non-empty set of uplinks has a first one, and Best returns it.
LEMMA BestIsLeast ==
    ASSUME NEW S \in SUBSET Uplinks, S # {}
    PROVE  Best(S) \in S /\ \A v \in S : Best(S) <= v
  <1>1. S \subseteq Nat
    BY WandAssumption DEF Uplinks
  <1>2. PICK u \in S : \A v \in S : ~(<<v, u>> \in OpToRel(<, Nat))
    BY <1>1, NatLessThanWellFounded, WFMin
  <1>3. \A v \in S : ~(v < u)
    BY <1>1, <1>2 DEF OpToRel
  <1>4. \A v \in S : u <= v
    BY <1>1, <1>3
  <1>5. QED
    BY <1>4 DEF Best

LEMMA BestTyped ==
    /\ best \in Healthy \cup {NoUplink}
    /\ best \in Uplinks \cup {NoUplink}
    /\ best # NoUplink <=> Healthy # {}
  <1>1. Healthy \in SUBSET Uplinks
    BY DEF Healthy
  <1>2. CASE Healthy = {}
    BY <1>2 DEF best, Best
  <1>3. CASE Healthy # {}
    BY <1>1, <1>3, BestIsLeast, WandAssumption DEF best
  <1>4. QED
    BY <1>2, <1>3

\* best depends on what is published and on nothing else.
LEMMA BestStays == UNCHANGED pub => best' = best
  BY DEF best, Healthy

-----------------------------------------------------------------------------
(* Types. SetupQos needs an uplink to look up, so the typing is inductive   *)
(* only together with this.                                                 *)

ChosenIsUplink == pc \in {"add", "qos"} => best \in Uplinks

TypeInv == TypeOK /\ ChosenIsUplink

LEMMA FirstUplink == 1 \in Uplinks
  BY WandAssumption DEF Uplinks

LEMMA PublishTypes ==
    ASSUME TypeOK, NEW u \in Uplinks, NEW ok \in BOOLEAN, Publish(u, ok)
    PROVE  /\ pub' \in [Uplinks -> BOOLEAN]
           /\ active' = active /\ changed' = changed
           /\ pc' \in {"check", "decide"}
           /\ cur' \in Uplinks
  <1>1. cur' \in Uplinks
    <2>1. CASE u = NumUplinks
      BY <2>1, FirstUplink DEF Publish
    <2>2. CASE u # NumUplinks
      BY <2>2, WandAssumption DEF Publish, Uplinks
    <2>3. QED
      BY <2>1, <2>2
  <1>2. QED
    BY <1>1 DEF Publish, TypeOK

LEMMA InitTypes == Init => TypeOK
  <1> SUFFICES ASSUME Init PROVE TypeOK
    OBVIOUS
  <1>1. net \in [Uplinks -> Ifaces \cup {NoIface}]
    BY WandAssumption DEF Init, Uplinks, Ifaces
  <1>2. events \in 0..MaxEvents
    BY WandAssumption DEF Init
  <1>3. QED
    BY <1>1, <1>2, FirstUplink DEF Init, TypeOK

LEMMA NextChosen == TypeInv /\ [Next]_vars => ChosenIsUplink'
  <1> SUFFICES ASSUME TypeInv, [Next]_vars PROVE ChosenIsUplink'
    OBVIOUS
  <1> USE DEF netVars, kernelVars, stateVars, TypeInv, ChosenIsUplink
  <1>1. ASSUME NEW u \in Uplinks,
               \/ FindIface(u) \/ NotAttached(u) \/ SetupRouting(u)
               \/ PingOk(u) \/ PingFails(u)
               \/ \E ok \in BOOLEAN : DnsProbe(u, ok)
        PROVE  ChosenIsUplink'
    <2>1. pc' \notin {"add", "qos"}
      BY <1>1 DEF FindIface, NotAttached, SetupRouting, PingOk, PingFails,
                  DnsProbe, Publish
    <2>2. QED
      BY <2>1
  <1>2. CASE Stay \/ Record
    BY <1>2 DEF Stay, Record
  <1>3. CASE DelDefault \/ AddDefault \/ SetupQos
    BY <1>3, BestStays, BestTyped DEF DelDefault, AddDefault, SetupQos
  <1>4. ASSUME NEW u \in Uplinks,
               \/ Unplug(u)
               \/ \E n \in Ifaces : Plug(u, n)
               \/ \E c \in {"ok", "path_dead", "link_dead"} : Change(u, c)
        PROVE  ChosenIsUplink'
    BY <1>4, BestStays DEF Unplug, Plug, Change
  <1>5. CASE Restart
    BY <1>5 DEF Restart
  <1>6. CASE UNCHANGED vars
    BY <1>6, BestStays DEF vars
  <1>7. QED
    BY <1>1, <1>2, <1>3, <1>4, <1>5, <1>6 DEF Next, Monitor, World

LEMMA NextTypes == TypeInv /\ [Next]_vars => TypeOK'
  <1> SUFFICES ASSUME TypeOK, ChosenIsUplink, [Next]_vars PROVE TypeOK'
    BY DEF TypeInv
  <1> USE DEF netVars, kernelVars, stateVars
  <1>1. ASSUME NEW u \in Uplinks, FindIface(u) PROVE TypeOK'
    BY <1>1 DEF FindIface, TypeOK
  <1>2. ASSUME NEW u \in Uplinks, NotAttached(u) PROVE TypeOK'
    BY <1>2, PublishTypes DEF NotAttached, TypeOK
  <1>3. ASSUME NEW u \in Uplinks, SetupRouting(u) PROVE TypeOK'
    BY <1>3 DEF SetupRouting, Known, Attached, TypeOK
  <1>4. ASSUME NEW u \in Uplinks, PingOk(u) PROVE TypeOK'
    BY <1>4 DEF PingOk, TypeOK
  <1>5. ASSUME NEW u \in Uplinks, PingFails(u) PROVE TypeOK'
    BY <1>5, PublishTypes DEF PingFails, TypeOK
  <1>6. ASSUME NEW u \in Uplinks, NEW ok \in BOOLEAN, DnsProbe(u, ok)
        PROVE  TypeOK'
    BY <1>6, PublishTypes DEF DnsProbe, TypeOK
  <1>7. CASE Stay
    BY <1>7 DEF Stay, TypeOK
  <1>8. CASE DelDefault
    BY <1>8 DEF DelDefault, TypeOK
  <1>9. CASE AddDefault
    BY <1>9, BestTyped DEF AddDefault, TypeOK
  <1>10. CASE SetupQos
    <2>1. iface[best] \in Ifaces \cup {NoIface}
      BY <1>10 DEF SetupQos, TypeOK, ChosenIsUplink
    <2>2. QED
      BY <1>10, <2>1 DEF SetupQos, TypeOK
  <1>11. CASE Record
    BY <1>11, BestTyped DEF Record, TypeOK
  <1>12. CASE World
    <2>1. ASSUME Happens PROVE events' \in 0..MaxEvents
      BY <2>1, WandAssumption DEF Happens, TypeOK
    <2>2. ASSUME NEW u \in Uplinks, Unplug(u) PROVE TypeOK'
      BY <2>1, <2>2 DEF Unplug, TypeOK
    <2>3. ASSUME NEW u \in Uplinks, NEW n \in Ifaces, Plug(u, n) PROVE TypeOK'
      BY <2>1, <2>3 DEF Plug, TypeOK
    <2>4. ASSUME NEW u \in Uplinks,
                 NEW c \in {"ok", "path_dead", "link_dead"}, Change(u, c)
          PROVE  TypeOK'
      BY <2>1, <2>4 DEF Change, TypeOK
    <2>5. CASE Restart
      BY <2>1, <2>5, FirstUplink DEF Restart, FreshNamespace, TypeOK
    <2>6. QED
      BY <1>12, <2>2, <2>3, <2>4, <2>5 DEF World
  <1>13. CASE UNCHANGED vars
    BY <1>13 DEF vars, TypeOK
  <1>14. QED
    BY <1>1, <1>2, <1>3, <1>4, <1>5, <1>6, <1>7, <1>8, <1>9, <1>10, <1>11,
       <1>12, <1>13 DEF Next, Monitor

LEMMA WandTypeInv == Spec => []TypeInv
  <1>1. Init => ChosenIsUplink
    BY DEF Init, ChosenIsUplink
  <1>2. TypeInv /\ [Next]_vars => TypeInv'
    BY NextTypes, NextChosen DEF TypeInv
  <1>3. QED
    BY <1>1, <1>2, InitTypes, PTL DEF Spec, TypeInv

\* Every variable keeps a value of its kind; in particular set_active never
\* looks up an uplink that is None (wand.py:220-225).
THEOREM WandTypes == Spec => []TypeOK
  <1>1. TypeInv => TypeOK
    BY DEF TypeInv
  <1>2. QED
    BY <1>1, WandTypeInv, PTL

-----------------------------------------------------------------------------
(* The uplink routed over is shaped.                                        *)

\* What holds of the default route while set_active runs, whatever the world
\* does: a route over an uplink was added by this very set_active.
ShapeInv ==
    /\ \A u \in Uplinks : dflt = u => Attached(u)
    /\ pc = "add" => dflt = NoUplink
    /\ pc = "qos" /\ dflt # NoUplink => dflt = best /\ Known(best)
    /\ pc = "record" /\ dflt # NoUplink =>
          /\ best # NoUplink /\ dflt = best
          /\ best \in shaped /\ chain = net[best]
    /\ ActiveIsShaped

LEMMA InitShape == Init => ShapeInv
  BY WandAssumption
     DEF Init, ShapeInv, ActiveIsShaped, Attached, Settled, Uplinks, Ifaces

LEMMA NextShape == TypeInv /\ ShapeInv /\ [Next]_vars => ShapeInv'
  <1> SUFFICES ASSUME TypeOK, ChosenIsUplink, ShapeInv, [Next]_vars
               PROVE  ShapeInv'
    BY DEF TypeInv
  <1> USE DEF netVars, kernelVars, stateVars, Attached, Known
  <1>1. ASSUME NEW u \in Uplinks,
               \/ FindIface(u) \/ NotAttached(u) \/ SetupRouting(u)
               \/ PingOk(u) \/ PingFails(u)
               \/ \E ok \in BOOLEAN : DnsProbe(u, ok)
        PROVE  ShapeInv'
    <2>1. /\ UNCHANGED <<net, dflt, shaped, chain, active>>
          /\ Settled /\ Settled'
      BY <1>1 DEF FindIface, NotAttached, SetupRouting, PingOk, PingFails,
                  Pinging, DnsProbe, Publish, Settled
    <2>2. QED
      BY <2>1 DEF ShapeInv, ActiveIsShaped, Settled
  <1>2. CASE Stay
    BY <1>2 DEF Stay, ShapeInv, ActiveIsShaped, Settled
  <1>3. CASE DelDefault
    BY <1>3, WandAssumption DEF DelDefault, ShapeInv, ActiveIsShaped, Settled
  <1>4. CASE AddDefault
    <2>1. best \in Uplinks /\ best' = best
      BY <1>4, BestStays DEF AddDefault, ChosenIsUplink
    <2>2. QED
      BY <1>4, <2>1 DEF AddDefault, ShapeInv, ActiveIsShaped, Settled
  <1>5. CASE SetupQos
    <2>1. best \in Uplinks /\ best' = best
      BY <1>5, BestStays DEF SetupQos, ChosenIsUplink
    <2>2. QED
      BY <1>5, <2>1, WandAssumption
         DEF SetupQos, ShapeInv, ActiveIsShaped, Settled, TypeOK
  <1>6. CASE Record
    BY <1>6, WandAssumption DEF Record, ShapeInv, ActiveIsShaped, Settled
  <1>7. ASSUME NEW u \in Uplinks, Unplug(u)
        PROVE  ShapeInv'
    <2>1. best' = best
      BY <1>7, BestStays DEF Unplug
    <2>2. \A v \in Uplinks : v # u => net'[v] = net[v]
      BY <1>7 DEF Unplug, TypeOK
    <2>3. dflt' # u /\ dflt' \in {dflt, NoUplink}
      BY <1>7, WandAssumption DEF Unplug
    <2>4. QED
      BY <1>7, <2>1, <2>2, <2>3, BestTyped, WandAssumption
         DEF Unplug, ShapeInv, ActiveIsShaped, Settled, TypeOK
  <1>8. ASSUME NEW u \in Uplinks, NEW n \in Ifaces, Plug(u, n)
        PROVE  ShapeInv'
    <2>1. best' = best
      BY <1>8, BestStays DEF Plug
    <2>2. \A v \in Uplinks : v # u => net'[v] = net[v]
      BY <1>8 DEF Plug, TypeOK
    <2>3. net'[u] # NoIface /\ dflt # u
      BY <1>8, WandAssumption DEF Plug, ShapeInv, TypeOK
    <2>4. QED
      BY <1>8, <2>1, <2>2, <2>3, BestTyped
         DEF Plug, ShapeInv, ActiveIsShaped, Settled, TypeOK
  <1>9. ASSUME NEW u \in Uplinks, NEW c, Change(u, c)
        PROVE  ShapeInv'
    <2>1. best' = best
      BY <1>9, BestStays DEF Change
    <2>2. QED
      BY <1>9, <2>1 DEF Change, ShapeInv, ActiveIsShaped, Settled
  <1>10. CASE Restart
    BY <1>10, WandAssumption
       DEF Restart, FreshNamespace, ShapeInv, ActiveIsShaped
  <1>11. CASE UNCHANGED vars
    <2>1. best' = best
      BY <1>11, BestStays DEF vars
    <2>2. QED
      BY <1>11, <2>1 DEF vars, ShapeInv, ActiveIsShaped, Settled
  <1>12. QED
    BY <1>1, <1>2, <1>3, <1>4, <1>5, <1>6, <1>7, <1>8, <1>9, <1>10, <1>11
       DEF Next, Monitor, World

\* The uplink traffic leaves by is always shaped on its own interface, even
\* when interfaces vanish, change names or come back unnoticed between any
\* two commands of set_active (wand.py:207-217).
THEOREM WandShapes == Spec => []ActiveIsShaped
  <1>1. Spec => []ShapeInv
    BY InitShape, NextShape, WandTypeInv, PTL DEF Spec
  <1>2. ShapeInv => ActiveIsShaped
    BY DEF ShapeInv
  <1>3. QED
    BY <1>1, <1>2, PTL

-----------------------------------------------------------------------------
(* The route follows the status while no remembered name is reused.         *)

RouteInv ==
    \* An uplink published as healthy has a remembered interface, and so has
    \* the one whose check goes on.
    /\ \A u \in Uplinks : pub[u] => iface[u] # NoIface
    /\ pc \in {"setup", "ping", "dns"} => iface[cur] # NoIface
    \* The active uplink's interface is forgotten only between its check and
    \* the decision of the same pass.
    /\ Settled /\ active \in Uplinks /\ iface[active] = NoIface =>
          pc = "decide" \/ cur > active
    /\ pc \in {"qos", "record"} /\ best \in Uplinks /\ Known(best) =>
          dflt = best
    /\ RouteFollowsStatus

LEMMA InitRoute == Init => RouteInv
  BY WandAssumption DEF Init, RouteInv, RouteFollowsStatus, Settled

\* A step that leaves every pair of belief and interface that was wrong wrong,
\* and the rest of what RouteInv reads alone.
LEMMA SameRoute ==
    ASSUME TypeOK, RouteInv,
           UNCHANGED <<iface, pub, active, changed, pc, cur>>,
           \A u \in Uplinks : Known(u)' => Known(u) /\ (dflt' = u <=> dflt = u),
           dflt' = dflt \/ dflt' = NoUplink
    PROVE  RouteInv'
  <1>1. best' = best
    BY BestStays
  <1>2. RouteFollowsStatus'
    BY DEF RouteInv, RouteFollowsStatus, Settled, TypeOK
  <1>3. pc' \in {"qos", "record"} /\ best' \in Uplinks /\ Known(best)'
          => dflt' = best'
    BY <1>1 DEF RouteInv, Known, Attached
  <1>4. QED
    BY <1>2, <1>3 DEF RouteInv, Settled

\* The result of a check is published; belief and route stay.
LEMMA PublishRoute ==
    ASSUME TypeOK, RouteInv, NEW u \in Uplinks, NEW ok \in BOOLEAN,
           Publish(u, ok), cur = u, pc \in {"check", "ping", "dns"},
           UNCHANGED <<net, dflt>>,
           \/ iface' = iface /\ (iface[u] = NoIface => ~ok /\ pc = "check")
           \/ iface' = [iface EXCEPT ![u] = NoIface] /\ ~ok
    PROVE  RouteInv'
  <1>1. pc' \in {"check", "decide"} /\ (pc' = "decide" \/ cur' = u + 1)
    BY DEF Publish
  <1>2. \A v \in Uplinks : pub'[v] => iface'[v] # NoIface
    BY DEF Publish, RouteInv, TypeOK
  <1>3. ASSUME active' \in Uplinks, iface'[active'] = NoIface, pc' # "decide"
        PROVE  cur' > active'
    <2>1. active' = active /\ cur' = u + 1 /\ u \in Nat /\ active \in Nat
      BY <1>1, <1>3, WandAssumption DEF Publish, Uplinks
    <2>2. CASE active = u
      BY <2>1, <2>2
    <2>3. CASE active # u
      <3>1. iface[active] = NoIface
        BY <1>3, <2>1, <2>3 DEF TypeOK
      <3>2. cur > active
        BY <1>3, <2>1, <3>1 DEF RouteInv, Settled
      <3>3. QED
        BY <2>1, <3>2
    <2>4. QED
      BY <2>2, <2>3
  <1>4. RouteFollowsStatus'
    BY <1>1 DEF Publish, RouteInv, RouteFollowsStatus, Settled, Known,
                Attached, TypeOK
  <1>5. QED
    BY <1>1, <1>2, <1>3, <1>4 DEF RouteInv, Settled

LEMMA NextRoute ==
    ASSUME ~QuickFlap
    PROVE  TypeInv /\ RouteInv /\ ShapeInv /\ [Next]_vars => RouteInv'
  <1> SUFFICES ASSUME TypeOK, ChosenIsUplink, RouteInv, ShapeInv, [Next]_vars
               PROVE  RouteInv'
    BY DEF TypeInv
  <1> USE DEF netVars, kernelVars, stateVars
  <1>1. ASSUME NEW u \in Uplinks, FindIface(u)
        PROVE  RouteInv'
    <2>1. \A v \in Uplinks : v # u => iface'[v] = iface[v]
      BY <1>1 DEF FindIface, TypeOK
    <2>2. iface[u] = NoIface /\ iface'[u] # NoIface /\ cur' = u
      BY <1>1 DEF FindIface, Attached, TypeOK
    <2>3. ~(cur > u)
      BY <1>1, WandAssumption DEF FindIface, Uplinks
    <2>4. active # u
      BY <1>1, <2>2, <2>3 DEF FindIface, RouteInv, Settled
    <2>5. RouteFollowsStatus'
      BY <1>1, <2>1, <2>4
         DEF FindIface, RouteInv, RouteFollowsStatus, Settled, Known,
             Attached, TypeOK
    <2>6. QED
      BY <1>1, <2>1, <2>2, <2>4, <2>5 DEF FindIface, RouteInv, Settled
  <1>2. ASSUME NEW u \in Uplinks, NotAttached(u)
        PROVE  RouteInv'
    BY <1>2, PublishRoute DEF NotAttached
  <1>3. ASSUME NEW u \in Uplinks, SetupRouting(u) \/ PingOk(u)
        PROVE  RouteInv'
    <2>1. /\ UNCHANGED <<net, dflt, iface, pub, active, changed, cur>>
          /\ pc' \in {"ping", "dns"}
          /\ pc = "check" => iface[cur] # NoIface
          /\ pc \in {"check", "setup", "ping"}
      BY <1>3 DEF SetupRouting, PingOk, Pinging
    <2>2. QED
      BY <2>1 DEF RouteInv, RouteFollowsStatus, Settled, Known, Attached
  <1>4. ASSUME NEW u \in Uplinks, PingFails(u)
        PROVE  RouteInv'
    BY <1>4, PublishRoute DEF PingFails, Pinging
  <1>5. ASSUME NEW u \in Uplinks, NEW ok \in BOOLEAN, DnsProbe(u, ok)
        PROVE  RouteInv'
    <2>1. iface[u] # NoIface
      BY <1>5 DEF DnsProbe, RouteInv
    <2>2. QED
      BY <1>5, <2>1, PublishRoute DEF DnsProbe
  <1>6. CASE Stay
    <2>1. active \in Uplinks => iface[active] # NoIface
      BY <1>6, BestTyped, WandAssumption DEF Stay, RouteInv, Healthy
    <2>2. QED
      BY <1>6, <2>1
         DEF Stay, RouteInv, RouteFollowsStatus, Settled, Known, Attached
  <1>7. CASE DelDefault \/ AddDefault \/ SetupQos
    <2>1. best' = best
      BY <1>7, BestStays DEF DelDefault, AddDefault, SetupQos
    <2>2. UNCHANGED <<net, iface, pub, active, cur>> /\ ~Settled'
      BY <1>7 DEF DelDefault, AddDefault, SetupQos, Settled
    <2>3. pc' \in {"qos", "record"} /\ best' \in Uplinks /\ Known(best)'
            => dflt' = best'
      BY <1>7, <2>1, WandAssumption
         DEF DelDefault, AddDefault, SetupQos, RouteInv, Known, Attached
    <2>4. pc' \notin {"setup", "ping", "dns"}
      BY <1>7 DEF DelDefault, AddDefault, SetupQos
    <2>5. QED
      BY <2>2, <2>3, <2>4 DEF RouteInv, RouteFollowsStatus
  <1>8. CASE Record
    <2>1. active' = best /\ pc' = "check" /\ UNCHANGED <<net, iface, pub, dflt>>
      BY <1>8 DEF Record
    <2>2. best \in Uplinks => iface[best] # NoIface
      BY BestTyped, WandAssumption DEF RouteInv, Healthy
    <2>3. dflt \in {best, NoUplink}
      BY <1>8 DEF Record, ShapeInv
    <2>4. best \in Uplinks /\ Known(best) => dflt = best
      BY <1>8 DEF Record, RouteInv
    <2>5. RouteFollowsStatus'
      BY <2>1, <2>3, <2>4, BestTyped
         DEF RouteFollowsStatus, Known, Attached
    <2>6. QED
      BY <2>1, <2>2, <2>5 DEF RouteInv
  <1>9. ASSUME NEW u \in Uplinks, Unplug(u)
        PROVE  RouteInv'
    <2>1. \A v \in Uplinks : v # u => net'[v] = net[v]
      BY <1>9 DEF Unplug, TypeOK
    <2>2. ~Known(u)'
      BY <1>9 DEF Unplug, Known, Attached, TypeOK
    <2>3. \A v \in Uplinks : v # u => (Known(v)' <=> Known(v))
      BY <1>9, <2>1 DEF Unplug, Known, Attached
    <2>4. \A v \in Uplinks : v # u => (dflt' = v <=> dflt = v)
      BY <1>9, WandAssumption DEF Unplug
    <2>5. QED
      BY <1>9, <2>2, <2>3, <2>4, SameRoute DEF Unplug
  <1>10. ASSUME NEW u \in Uplinks, NEW n \in Ifaces, Plug(u, n)
         PROVE  RouteInv'
    <2>1. \A v \in Uplinks : v # u => net'[v] = net[v]
      BY <1>10 DEF Plug, TypeOK
    <2>2. ~Known(u)'
      BY <1>10 DEF Plug, Known, Attached, TypeOK
    <2>3. \A v \in Uplinks : v # u => (Known(v)' <=> Known(v))
      BY <1>10, <2>1 DEF Plug, Known, Attached
    <2>4. QED
      BY <1>10, <2>2, <2>3, SameRoute DEF Plug
  <1>11. ASSUME NEW u \in Uplinks, NEW c, Change(u, c)
         PROVE  RouteInv'
    BY <1>11, SameRoute DEF Change, Known, Attached
  <1>12. CASE Restart
    BY <1>12, WandAssumption DEF Restart, RouteInv, RouteFollowsStatus
  <1>13. CASE UNCHANGED vars
    BY <1>13, SameRoute DEF vars, Known, Attached
  <1>14. QED
    BY <1>1, <1>2, <1>3, <1>4, <1>5, <1>6, <1>7, <1>8, <1>9, <1>10, <1>11,
       <1>12, <1>13 DEF Next, Monitor, World

\* With no reused interface names, the default route never uses an uplink
\* other than the one /status names, and uses that one whenever wand's memory
\* of its interface is right (wand.py:164-177, 220-254).
THEOREM WandRouteFollowsStatus ==
    ASSUME ~QuickFlap
    PROVE  Spec => []RouteFollowsStatus
  <1>1. TypeInv /\ RouteInv /\ ShapeInv /\ [Next]_vars => RouteInv'
    BY NextRoute
  <1>2. RouteInv => RouteFollowsStatus
    BY DEF RouteInv
  <1>3. QED
    BY <1>1, <1>2, InitRoute, InitShape, NextShape, WandTypeInv, PTL DEF Spec

-----------------------------------------------------------------------------
(* To a reader of /status.                                                  *)

LEMMA InitSwitchover == Init => Switchover!Init
  BY DEF Init, Switchover!Init, Switchover!Uplinks, Uplinks

LEMMA NextSwitchover == TypeOK /\ [Next]_vars => [Switchover!Next]_Switchover!absVars
  <1> SUFFICES ASSUME TypeOK, [Next]_vars
               PROVE  [Switchover!Next]_Switchover!absVars
    OBVIOUS
  <1> USE DEF netVars, kernelVars, stateVars, Switchover!absVars
  <1>1. ASSUME NEW u \in Uplinks, NEW ok \in BOOLEAN, Publish(u, ok)
        PROVE  Switchover!Next
    BY <1>1 DEF Publish, Switchover!Next, Switchover!Report,
                Switchover!Uplinks, Uplinks
  <1>2. ASSUME NEW u \in Uplinks,
               \/ FindIface(u) \/ NotAttached(u) \/ SetupRouting(u)
               \/ PingOk(u) \/ PingFails(u)
               \/ \E ok \in BOOLEAN : DnsProbe(u, ok)
        PROVE  [Switchover!Next]_Switchover!absVars
    BY <1>1, <1>2 DEF FindIface, NotAttached, SetupRouting, PingOk, PingFails,
                      DnsProbe
  <1>3. CASE Stay \/ DelDefault \/ AddDefault \/ SetupQos
    BY <1>3 DEF Stay, DelDefault, AddDefault, SetupQos
  <1>4. CASE Record
    <2>1. Switchover!Best(Switchover!Healthy) = best
      BY DEF Switchover!Best, Switchover!Healthy, Switchover!Uplinks,
             best, Best, Healthy, Uplinks
    <2>2. QED
      BY <1>4, <2>1 DEF Record, Switchover!Next, Switchover!Switch
  <1>5. CASE World
    BY <1>5 DEF World, Unplug, Plug, Change, Restart, Switchover!Next,
                Switchover!Restart, Switchover!Uplinks, Uplinks
  <1>6. CASE UNCHANGED vars
    BY <1>6 DEF vars
  <1>7. QED
    BY <1>2, <1>3, <1>4, <1>5, <1>6 DEF Next, Monitor

\* The safety half of ImplementsFailover: whatever the network does, the
\* active uplink only ever changes to the best of those published as healthy
\* at that moment (wand.py:247-252). That wand does switch stays with TLC.
THEOREM WandSwitchesToBest ==
    Spec => Switchover!Init /\ [][Switchover!Next]_Switchover!absVars
  BY InitSwitchover, NextSwitchover, WandTypes, PTL DEF Spec

-----------------------------------------------------------------------------
(* How long wand may be wrong.                                              *)

\* This pass has checked u.
Checked(u) == pc \in {"decide", "add", "qos", "record"} \/ cur > u

\* wand remembers an interface that u no longer has.
Stale(u) == iface[u] # NoIface /\ iface[u] # net[u]

\* A name belongs to one uplink, and no other remembers it.
NamesApart ==
    \A u, v \in Uplinks : u # v =>
        /\ net[u] = net[v] => net[u] = NoIface
        /\ iface[u] = net[v] => iface[u] = NoIface

\* A remembered interface that is the right one has its table, and one that
\* was found in calm is the right one.
Tables ==
    /\ \A u \in Uplinks : Known(u) => tbl[u] \/ (pc = "setup" /\ cur = u)
    /\ calm >= 1 /\ pc \in {"setup", "ping", "dns"} => Known(cur)

\* What the first, second and third pass after a disturbance leave behind.
FirstPass ==
    \A u \in Uplinks : calm >= 2 \/ (calm = 1 /\ Checked(u)) => ~Stale(u)
SecondPass ==
    \A u \in Uplinks :
        calm = 3 \/ (calm = 2 /\ Checked(u)) => pub[u] = Usable(u)
ThirdPass ==
    calm = 3 => Settled /\ active = best

\* wand has nothing active before it has recorded something.
Recorded == active # NoUplink => changed

\* The loop over the uplinks starts afresh.
LoopOver == pc \in {"decide", "add", "qos", "record"} => cur = 1

CalmInv ==
    /\ calm \in 0..3
    /\ NamesApart /\ Tables /\ Recorded /\ LoopOver
    /\ FirstPass /\ SecondPass /\ ThirdPass

LEMMA InitCalm == PInit => CalmInv
  BY WandAssumption
     DEF PInit, Init, CalmInv, NamesApart, Tables, FirstPass, SecondPass, ThirdPass,
         Recorded, LoopOver, Known, Attached, Uplinks, Ifaces

\* The check of u is over, in calm, with these results.
LEMMA PublishCalm ==
    ASSUME TypeOK, CalmInv, NEW u \in Uplinks, NEW ok \in BOOLEAN,
           Publish(u, ok), cur = u, pc \in {"check", "ping", "dns"},
           UNCHANGED <<net, cond, tbl, calm>>,
           iface' \in {iface, [iface EXCEPT ![u] = NoIface]},
           calm >= 1 => ~Stale(u)', calm >= 2 => ok = Usable(u)
    PROVE  CalmInv'
  <1>1. /\ pub' = [pub EXCEPT ![u] = ok] /\ pc' \in {"check", "decide"}
        /\ UNCHANGED <<active, changed>>
        /\ pc' = "decide" => cur' = 1
    BY DEF Publish
  <1>2. \A v \in Uplinks : Checked(v)' => v = u \/ Checked(v)
    <2>1. CASE u = NumUplinks
      BY <2>1, WandAssumption DEF Checked, Uplinks
    <2>2. CASE u # NumUplinks
      BY <2>2, WandAssumption DEF Publish, Checked, Uplinks
    <2>3. QED
      BY <2>1, <2>2
  <1>3. \A v \in Uplinks : iface'[v] \in {iface[v], NoIface} /\ (v # u => iface'[v] = iface[v])
    BY DEF TypeOK
  <1>4. NamesApart'
    BY <1>3 DEF CalmInv, NamesApart
  <1>5. Tables'
    BY <1>1, <1>3 DEF CalmInv, Tables, Known, Attached
  <1>6. Recorded' /\ LoopOver'
    BY <1>1 DEF CalmInv, Recorded, LoopOver
  <1>7. FirstPass'
    <2> SUFFICES ASSUME NEW v \in Uplinks, calm >= 2 \/ (calm = 1 /\ Checked(v)')
                 PROVE  ~Stale(v)'
      BY DEF FirstPass
    <2>1. CASE v = u
      BY <2>1 DEF CalmInv
    <2>2. CASE v # u
      BY <1>2, <1>3, <2>2 DEF CalmInv, FirstPass, Stale
    <2>3. QED
      BY <2>1, <2>2
  <1>8. SecondPass'
    <2> SUFFICES ASSUME NEW v \in Uplinks, calm = 3 \/ (calm = 2 /\ Checked(v)')
                 PROVE  pub'[v] = Usable(v)
      BY DEF SecondPass, Usable, Attached
    <2>1. CASE v = u
      BY <1>1, <2>1 DEF TypeOK
    <2>2. CASE v # u
      BY <1>1, <1>2, <2>2 DEF CalmInv, SecondPass, TypeOK
    <2>3. QED
      BY <2>1, <2>2
  <1>9. ThirdPass'
    <2> SUFFICES ASSUME calm = 3 PROVE Settled' /\ active' = best'
      BY DEF ThirdPass
    <2>1. pub[u] = ok
      BY DEF CalmInv, SecondPass
    <2>2. pub' = pub
      BY <1>1, <2>1 DEF TypeOK
    <2>3. QED
      BY <1>1, <2>2, BestStays DEF CalmInv, ThirdPass, Settled
  <1>10. QED
    BY <1>4, <1>5, <1>6, <1>7, <1>8, <1>9 DEF CalmInv

\* One command of a check that is not its last.
LEMMA CheckingCalm ==
    ASSUME TypeOK, RouteInv, CalmInv, NEW u \in Uplinks,
           FindIface(u) \/ SetupRouting(u) \/ PingOk(u), calm' = calm
    PROVE  CalmInv'
  <1>1. /\ UNCHANGED <<net, cond, pub, active, changed, cur>> /\ cur = u
        /\ pc \in {"check", "setup", "ping"} /\ pc' \in {"setup", "ping", "dns"}
    BY DEF FindIface, SetupRouting, PingOk, Pinging, netVars, stateVars
  <1>2. \A v \in Uplinks : Checked(v)' = Checked(v) /\ Usable(v)' = Usable(v)
    BY <1>1 DEF Checked, Usable, Attached
  <1>3. CASE FindIface(u)
    <2>1. iface' = [iface EXCEPT ![u] = net[u]] /\ tbl' = tbl /\ pc' = "setup"
          /\ net[u] # NoIface
      BY <1>3 DEF FindIface, kernelVars, Attached
    <2>2. /\ iface'[u] = net[u]
          /\ \A v \in Uplinks : v # u => iface'[v] = iface[v]
      BY <2>1 DEF TypeOK
    <2>3. NamesApart'
      BY <1>1, <2>2 DEF CalmInv, NamesApart
    <2>4. Tables'
      BY <1>1, <1>3, <2>1, <2>2 DEF FindIface, CalmInv, Tables, Known, Attached
    <2>5. FirstPass'
      BY <1>1, <1>2, <2>2 DEF CalmInv, FirstPass, Stale
    <2>6. QED
      BY <1>1, <1>2, <2>1, <2>3, <2>4, <2>5, BestStays
         DEF CalmInv, Recorded, LoopOver, SecondPass, ThirdPass, Settled
  <1>4. CASE SetupRouting(u) \/ PingOk(u)
    <2>1. /\ iface' = iface
          /\ \A v \in Uplinks : v # u => tbl'[v] = tbl[v]
          /\ tbl'[u] = (tbl[u] \/ (pc = "setup" /\ Known(u)))
      BY <1>4 DEF SetupRouting, PingOk, Pinging, kernelVars, TypeOK
    <2>2. calm >= 1 => Known(u)
      <3>1. CASE pc \in {"setup", "ping"}
        BY <1>1, <3>1 DEF CalmInv, Tables
      <3>2. CASE pc = "check"
        <4>1. iface[u] # NoIface /\ MayPing(u, TRUE)
          BY <1>4, <3>2 DEF SetupRouting, PingOk, Pinging
        <4>2. QED
          BY <4>1 DEF MayPing, CalmInv, NamesApart
      <3>3. QED
        BY <1>1, <3>1, <3>2
    <2>3. \A v \in Uplinks : Known(v)' = Known(v) /\ Stale(v)' = Stale(v)
      BY <1>1, <2>1 DEF Known, Attached, Stale
    <2>4. Tables'
      BY <1>1, <2>1, <2>2, <2>3 DEF CalmInv, Tables
    <2>5. QED
      BY <1>1, <1>2, <2>1, <2>3, <2>4, BestStays
         DEF CalmInv, NamesApart, Recorded, LoopOver, FirstPass, SecondPass, ThirdPass, Settled
  <1>5. QED
    BY <1>3, <1>4

\* The last command of a check: its result is right from the second pass on.
LEMMA CheckedCalm ==
    ASSUME TypeOK, RouteInv, CalmInv, NEW u \in Uplinks, NEW ok \in BOOLEAN,
           \/ NotAttached(u) /\ ok = FALSE
           \/ PingFails(u) /\ ok = FALSE
           \/ DnsProbe(u, ok),
           calm' = calm
    PROVE  CalmInv'
  <1>1. /\ UNCHANGED <<net, cond, tbl>> /\ Publish(u, ok) /\ cur = u
        /\ pc \in {"check", "ping", "dns"}
    BY DEF NotAttached, PingFails, Pinging, DnsProbe, netVars, kernelVars
  <1>2. CASE NotAttached(u) /\ ok = FALSE
    <2>1. iface' = iface /\ iface[u] = NoIface /\ ~Attached(u)
      BY <1>2 DEF NotAttached
    <2>2. ~Stale(u)' /\ ok = Usable(u)
      BY <1>2, <2>1 DEF Stale, Usable
    <2>3. QED
      BY <1>1, <2>1, <2>2, PublishCalm
  <1>3. CASE PingFails(u) /\ ok = FALSE
    <2>1. iface' = [iface EXCEPT ![u] = NoIface] /\ MayPing(u, FALSE) /\ iface[u] # NoIface
      BY <1>3 DEF PingFails, Pinging, RouteInv
    <2>2. ~Stale(u)'
      BY <2>1 DEF Stale, TypeOK
    <2>3. ASSUME calm >= 2 PROVE ~Usable(u)
      <3>1. ~Stale(u)
        BY <2>3 DEF CalmInv, FirstPass
      <3>2. Known(u)
        BY <2>1, <3>1 DEF Stale, Known, Attached
      <3>3. QED
        BY <2>1, <3>2 DEF MayPing, CalmInv, NamesApart, Usable
    <2>4. ok = FALSE /\ Usable(u) \in BOOLEAN
      BY <1>3 DEF Usable, Attached
    <2>5. calm >= 2 => ok = Usable(u)
      BY <2>3, <2>4
    <2>6. QED
      BY <1>1, <2>1, <2>2, <2>5, PublishCalm
  <1>4. CASE DnsProbe(u, ok)
    <2>1. iface' = iface /\ pc = "dns" /\ MayResolve(u, ok)
      BY <1>4 DEF DnsProbe
    <2>2. ASSUME calm >= 1 PROVE Known(u) /\ tbl[u]
      BY <1>1, <2>1, <2>2 DEF CalmInv, Tables
    <2>3. calm >= 1 => ~Stale(u)'
      BY <1>1, <2>1, <2>2 DEF Known, Attached, Stale
    <2>4. calm >= 2 => ok = Usable(u)
      BY <2>1, <2>2 DEF MayResolve, Usable, Known, CalmInv
    <2>5. QED
      BY <1>1, <2>1, <2>3, <2>4, PublishCalm
  <1>5. QED
    BY <1>2, <1>3, <1>4

\* A pass ends.
LEMMA EndsCalm ==
    ASSUME TypeOK, CalmInv, PassEnds, calm' = IF calm = Enough THEN Enough ELSE calm + 1
    PROVE  CalmInv'
  <1>1. /\ UNCHANGED <<net, cond, tbl, iface, pub, cur>> /\ pc' = "check" /\ cur' = 1
        /\ pc \in {"decide", "record"} /\ active' = best
        /\ Recorded'
    BY DEF PassEnds, Stay, Record, netVars, kernelVars, stateVars, CalmInv,
           Recorded, LoopOver
  <1>2. /\ calm' \in 0..3 /\ calm' >= 1
        /\ calm' >= 2 => calm >= 1
        /\ calm' = 3 => calm >= 2
        /\ calm >= 2 => calm = 2 \/ calm = 3
        /\ calm >= 1 => calm = 1 \/ calm >= 2
    BY DEF CalmInv, Enough
  <1>3. \A v \in Uplinks : Checked(v) /\ ~Checked(v)'
    BY <1>1 DEF Checked, Uplinks
  <1>4. NamesApart' /\ LoopOver'
    BY <1>1 DEF CalmInv, NamesApart, LoopOver
  <1>5. Tables'
    BY <1>1 DEF CalmInv, Tables, Known, Attached
  <1>6. FirstPass'
    BY <1>1, <1>2, <1>3 DEF CalmInv, FirstPass, Stale
  <1>7. SecondPass'
    BY <1>1, <1>2, <1>3 DEF CalmInv, SecondPass, Usable, Attached
  <1>8. ThirdPass'
    BY <1>1, BestStays DEF ThirdPass, Settled
  <1>9. QED
    BY <1>1, <1>2, <1>4, <1>5, <1>6, <1>7, <1>8 DEF CalmInv

\* set_active is under way only while the third pass has yet to end.
LEMMA SwitchCalm ==
    ASSUME TypeOK, CalmInv, DelDefault \/ AddDefault \/ SetupQos, calm' = calm
    PROVE  CalmInv'
  <1>1. /\ UNCHANGED <<net, cond, tbl, iface, pub, active, changed, cur>>
        /\ pc \in {"decide", "add", "qos"} /\ pc' \in {"add", "qos", "record"}
        /\ best # active \/ ~Settled
    BY DEF DelDefault, AddDefault, SetupQos, netVars, stateVars, Settled
  <1>2. calm # 3
    BY <1>1 DEF CalmInv, ThirdPass
  <1>3. \A v \in Uplinks : Checked(v)
    BY <1>1 DEF Checked
  <1>4. Tables'
    BY <1>1 DEF CalmInv, Tables, Known, Attached
  <1>5. FirstPass'
    BY <1>1, <1>3 DEF CalmInv, FirstPass, Stale
  <1>6. SecondPass'
    BY <1>1, <1>2, <1>3 DEF CalmInv, SecondPass, Usable, Attached
  <1>7. QED
    BY <1>1, <1>2, <1>4, <1>5, <1>6
       DEF CalmInv, NamesApart, Recorded, LoopOver, ThirdPass

\* Something happens to the network, and the count starts again.
LEMMA WorldCalm ==
    ASSUME ~QuickFlap, TypeOK, CalmInv, World, calm' = 0
    PROVE  CalmInv'
  <1>1. FirstPass' /\ SecondPass' /\ ThirdPass' /\ calm' \in 0..3
    BY DEF FirstPass, SecondPass, ThirdPass
  <1>2. ASSUME NEW u \in Uplinks, Unplug(u)
        PROVE  NamesApart' /\ Tables' /\ Recorded' /\ LoopOver'
    <2>1. /\ UNCHANGED <<iface, active, changed, pc, cur>>
          /\ net'[u] = NoIface /\ tbl'[u] = FALSE
          /\ \A v \in Uplinks : v # u => net'[v] = net[v] /\ tbl'[v] = tbl[v]
      BY <1>2 DEF Unplug, stateVars, TypeOK
    <2>2. NamesApart'
      BY <2>1 DEF CalmInv, NamesApart
    <2>3. Tables'
      BY <2>1 DEF CalmInv, Tables, Known, Attached
    <2>4. QED
      BY <2>1, <2>2, <2>3 DEF CalmInv, Recorded, LoopOver
  <1>3. ASSUME NEW u \in Uplinks, NEW n \in Ifaces, Plug(u, n)
        PROVE  NamesApart' /\ Tables' /\ Recorded' /\ LoopOver'
    <2>1. /\ UNCHANGED <<iface, tbl, active, changed, pc, cur>>
          /\ net'[u] = n /\ \A v \in Uplinks : iface[v] # n /\ net[v] # n
          /\ \A v \in Uplinks : v # u => net'[v] = net[v]
      BY <1>3 DEF Plug, kernelVars, stateVars, TypeOK
    <2>2. NamesApart'
      BY <2>1 DEF CalmInv, NamesApart
    <2>3. Tables'
      BY <2>1 DEF CalmInv, Tables, Known, Attached
    <2>4. QED
      BY <2>1, <2>2, <2>3 DEF CalmInv, Recorded, LoopOver
  <1>4. ASSUME NEW u \in Uplinks, NEW c, Change(u, c)
        PROVE  NamesApart' /\ Tables' /\ Recorded' /\ LoopOver'
    BY <1>4 DEF Change, kernelVars, stateVars, CalmInv, NamesApart, Tables,
                Recorded, LoopOver, Known, Attached
  <1>5. ASSUME Restart PROVE NamesApart' /\ Tables' /\ Recorded' /\ LoopOver'
    <2>1. /\ net' = net /\ active' = NoUplink /\ pc' = "check" /\ calm' = 0
          /\ \A u \in Uplinks : iface'[u] = NoIface
      BY <1>5 DEF Restart
    <2>2. NamesApart'
      BY <2>1 DEF CalmInv, NamesApart
    <2>3. Tables'
      BY <2>1 DEF Tables, Known, Attached
    <2>4. QED
      BY <2>1, <2>2, <2>3 DEF Recorded, LoopOver
  <1>6. QED
    BY <1>1, <1>2, <1>3, <1>4, <1>5 DEF World, CalmInv

LEMMA NextCalm ==
    ASSUME ~QuickFlap
    PROVE  TypeInv /\ RouteInv /\ CalmInv /\ [PNext]_pvars => CalmInv'
  <1> SUFFICES ASSUME TypeOK, RouteInv, CalmInv, [PNext]_pvars PROVE CalmInv'
    BY DEF TypeInv
  <1>1. CASE PassEnds /\ calm' = IF calm = Enough THEN Enough ELSE calm + 1
    BY <1>1, EndsCalm
  <1>2. CASE Monitor /\ ~PassEnds /\ calm' = calm
    <2>1. ASSUME NEW u \in Uplinks, FindIface(u) \/ SetupRouting(u) \/ PingOk(u)
          PROVE  CalmInv'
      BY <1>2, <2>1, CheckingCalm
    <2>2. ASSUME NEW u \in Uplinks, NotAttached(u) \/ PingFails(u)
          PROVE  CalmInv'
      BY <1>2, <2>2, CheckedCalm
    <2>3. ASSUME NEW u \in Uplinks, NEW ok \in BOOLEAN, DnsProbe(u, ok)
          PROVE  CalmInv'
      BY <1>2, <2>3, CheckedCalm
    <2>4. CASE DelDefault \/ AddDefault \/ SetupQos
      BY <1>2, <2>4, SwitchCalm
    <2>5. QED
      BY <1>2, <2>1, <2>2, <2>3, <2>4 DEF Monitor, PassEnds
  <1>3. CASE World /\ calm' = 0
    BY <1>3, WorldCalm
  <1>4. CASE UNCHANGED pvars
    <2>1. UNCHANGED <<net, cond, tbl, iface, pub, active, changed, pc, cur, calm>>
      BY <1>4 DEF pvars, vars
    <2>2. QED
      BY <2>1, BestStays
         DEF CalmInv, NamesApart, Tables, Recorded, LoopOver, FirstPass, SecondPass,
             ThirdPass, Known, Attached, Stale, Usable, Checked, Settled
  <1>5. QED
    BY <1>1, <1>2, <1>3, <1>4 DEF PNext, PMonitor, PWorld

\* The history variable watches and does not interfere.
LEMMA PassesAreSteps ==
    /\ PInit => Init
    /\ [PNext]_pvars => [Next]_vars
  BY DEF PInit, PNext, PMonitor, PWorld, PassEnds, Monitor, Next, pvars

\* Three passes without a disturbance are enough: from then on wand's active
\* uplink is the best of those that work, the others are published as what
\* they are, and the default route uses the active one, with any number of
\* uplinks, interfaces and earlier disturbances, unless the name of an
\* interface that wand remembers was reused (wand.py:164-177, 231-254).
THEOREM WandRightAfterCalm ==
    ASSUME ~QuickFlap
    PROVE  PSpec => []RightAfterCalm
  <1>1. PInit => TypeInv /\ RouteInv /\ ShapeInv /\ CalmInv
    <2>1. Init => ChosenIsUplink
      BY DEF Init, ChosenIsUplink
    <2>2. QED
      BY <2>1, PassesAreSteps, InitTypes, InitRoute, InitShape, InitCalm DEF TypeInv
  <1>2. TypeInv /\ RouteInv /\ ShapeInv /\ CalmInv /\ [PNext]_pvars
          => (TypeInv /\ RouteInv /\ ShapeInv /\ CalmInv)'
    <2>1. TypeInv /\ RouteInv /\ CalmInv /\ [PNext]_pvars => CalmInv'
      BY NextCalm
    <2>2. TypeInv /\ RouteInv /\ ShapeInv /\ [Next]_vars => RouteInv'
      BY NextRoute
    <2>3. TypeInv /\ [Next]_vars => TypeInv'
      BY NextTypes, NextChosen DEF TypeInv
    <2>4. QED
      BY <2>1, <2>2, <2>3, NextShape, PassesAreSteps
  <1>3. TypeInv /\ RouteInv /\ CalmInv => RightAfterCalm
    <2> SUFFICES ASSUME TypeOK, RouteInv, CalmInv, calm = Enough
                 PROVE  /\ active = Best(UsableUplinks)
                        /\ Healthy = UsableUplinks
                        /\ active # NoUplink => dflt = active
      BY DEF TypeInv, RightAfterCalm
    <2>1. /\ \A u \in Uplinks : pub[u] = Usable(u) /\ ~Stale(u)
          /\ Settled /\ active = best /\ Recorded
      BY DEF CalmInv, FirstPass, SecondPass, ThirdPass, Enough
    <2>2. Healthy = UsableUplinks
      BY <2>1 DEF Healthy, UsableUplinks
    <2>3. active # NoUplink => active \in Uplinks /\ pub[active]
      BY <2>1, BestTyped DEF Healthy
    <2>4. active # NoUplink => Known(active)
      BY <2>1, <2>3 DEF Usable, Stale, Known, RouteInv
    <2>5. active # NoUplink => dflt = active
      BY <2>1, <2>4 DEF RouteInv, RouteFollowsStatus, Recorded
    <2>6. QED
      BY <2>1, <2>2, <2>5 DEF best
  <1>4. QED
    BY <1>1, <1>2, <1>3, PTL DEF PSpec

-----------------------------------------------------------------------------
(* A pass ends.                                                             *)

LEMMA StepsLeftBounded == TypeInv => StepsLeft \in 1..(4 * NumUplinks + 4)
  <1> SUFFICES ASSUME TypeOK PROVE StepsLeft \in 1..(4 * NumUplinks + 4)
    BY DEF TypeInv
  <1>1. Ahead[pc] \in 1..4
    BY DEF TypeOK, Ahead
  <1>2. NumUplinks - cur \in 0..(NumUplinks - 1)
    BY WandAssumption DEF TypeOK, Uplinks
  <1>3. QED
    BY <1>1, <1>2, WandAssumption DEF StepsLeft

\* The check of u is over.
LEMMA PublishMoves ==
    ASSUME TypeOK, NEW u \in Uplinks, NEW ok \in BOOLEAN, cur = u,
           pc \in {"check", "ping", "dns"}, Publish(u, ok)
    PROVE  StepsLeft' < StepsLeft
  <1>1. Ahead[pc] \in 1..4 /\ Ahead["decide"] = 4 /\ Ahead["check"] = 4
    BY DEF Ahead
  <1>2. StepsLeft = Ahead[pc] + (4 * (NumUplinks - u) + 4)
    BY DEF StepsLeft
  <1>3. CASE u = NumUplinks
    <2>1. StepsLeft' = 4
      BY <1>1, <1>3 DEF Publish, StepsLeft, Ahead
    <2>2. NumUplinks - u = 0
      BY <1>3, WandAssumption
    <2>3. StepsLeft = Ahead[pc] + 4
      BY <1>2, <2>2
    <2>4. QED
      BY <1>1, <2>1, <2>3
  <1>4. CASE u # NumUplinks
    <2>1. StepsLeft' = 4 + (4 * (NumUplinks - (u + 1)) + 4)
      BY <1>1, <1>4 DEF Publish, StepsLeft, Ahead
    <2>2. /\ NumUplinks - u \in Nat
          /\ NumUplinks - (u + 1) = NumUplinks - u - 1
      BY <1>4, WandAssumption DEF Uplinks
    <2>3. QED
      BY <1>1, <1>2, <2>1, <2>2
  <1>5. QED
    BY <1>3, <1>4

\* No pass of monitor_loop goes on for ever: each of its steps leaves fewer
\* to go, of at most four for each uplink and four more, for any number of
\* uplinks, in whatever way the network changes under it (wand.py:164-177,
\* 220-254).
THEOREM WandPassMoves ==
    Spec => PassMoves /\ [](StepsLeft \in 1..(4 * NumUplinks + 4))
  <1>1. TypeInv /\ [Next]_vars => [Monitor /\ ~PassEnds => StepsLeft' < StepsLeft]_vars
    <2> SUFFICES ASSUME TypeOK, Monitor, ~PassEnds
                 PROVE  StepsLeft' < StepsLeft
      BY DEF TypeInv
    <2>1. ASSUME NEW u \in Uplinks, NotAttached(u) \/ PingFails(u)
          PROVE  StepsLeft' < StepsLeft
      BY <2>1, PublishMoves DEF NotAttached, PingFails, Pinging
    <2>2. ASSUME NEW u \in Uplinks, NEW ok \in BOOLEAN, DnsProbe(u, ok)
          PROVE  StepsLeft' < StepsLeft
      BY <2>2, PublishMoves DEF DnsProbe
    <2>3. ASSUME NEW u \in Uplinks, FindIface(u) \/ SetupRouting(u) \/ PingOk(u)
          PROVE  StepsLeft' < StepsLeft
      <3>1. /\ cur' = cur
            /\ \/ pc = "check" /\ pc' = "setup"
               \/ pc = "setup" /\ pc' = "ping"
               \/ pc \in {"check", "ping"} /\ pc' = "dns"
        BY <2>3 DEF FindIface, SetupRouting, PingOk, Pinging
      <3>2. 4 * (NumUplinks - cur) + 4 \in Nat
        BY WandAssumption DEF TypeOK, Uplinks
      <3>3. QED
        BY <3>1, <3>2 DEF StepsLeft, Ahead
    <2>4. CASE DelDefault \/ AddDefault \/ SetupQos
      BY <2>4 DEF DelDefault, AddDefault, SetupQos, StepsLeft, Ahead
    <2>5. QED
      BY <2>1, <2>2, <2>3, <2>4 DEF Monitor, PassEnds
  <1>2. QED
    BY <1>1, StepsLeftBounded, WandTypeInv, PTL DEF Spec, PassMoves
=============================================================================
