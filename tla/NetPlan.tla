------------------------------- MODULE NetPlan -------------------------------
(* Sending the machine through the tunnel and putting it back: the routes,   *)
(* resolv.conf, the plan file that says what to undo and the copy of         *)
(* resolv.conf kept for a reboot; a tool or a file that fails at any step,   *)
(* the process dying between any two, and the machine losing power.          *)
EXTENDS Naturals, Sequences

CONSTANTS PlanNodes,    \* nodes a connection may go to
          NoNetPlan, NoCopy,
          Ours, Emptied,    \* a resolv.conf we wrote, and one cut before it was written
          MaxConnects, MaxCuts, MaxEdits   \* bounds of the runs

VARIABLES platform,  \* "resolved", "file" or "link" (what /etc/resolv.conf is), or "windows"
          proc,      \* what the client is doing: "idle", "apply", "revert", "up"
          step,      \* the next step of that
          mem,       \* the plan in the process's memory
          after,     \* what follows a revert: "apply", "idle"
          problem,   \* a step of the revert failed
          target,    \* the node of the connection
          plan,      \* the plan file
          copy,      \* resolv.conf.saved
          routes,    \* our routes in the system
          resolv,    \* what /etc/resolv.conf holds
          machine,   \* the machine's own: what it held before us
          cut,       \* a route was left out of the plan that undoes it
          torn,      \* a write of resolv.conf was cut between emptying and filling it
          connects, cuts, edits

netVars == <<platform, proc, step, mem, after, problem, target, plan, copy, routes, resolv, machine, cut, torn,
             connects, cuts, edits>>
counters == <<connects, cuts, edits>>

Fresh == [routes_added |-> {}, via_routes |-> {}, dns_changed |-> FALSE, backup |-> NoCopy]
TunnelRoutes == {"exit", "halves", "dns"}
swaps == platform \in {"file", "link"}

(* What a resolv.conf may hold, the machine's own by their number, and a plan. *)
Contents == Nat \cup {Ours, Emptied}
NetPlans == [routes_added: SUBSET (PlanNodes \cup TunnelRoutes), via_routes: SUBSET TunnelRoutes,
             dns_changed: BOOLEAN, backup: Contents \cup {NoCopy}]

ASSUME NetConstants == /\ Ours \notin Nat /\ Emptied \notin Nat /\ NoCopy \notin Nat /\ Ours # Emptied
                       /\ NoNetPlan \notin NetPlans /\ PlanNodes \cap TunnelRoutes = {}

NetInit ==
    /\ platform \in {"resolved", "file", "link", "windows"}
    /\ proc = "idle" /\ step = 1 /\ mem = Fresh /\ after = "idle" /\ problem = FALSE /\ target \in PlanNodes
    /\ plan = NoNetPlan /\ copy = NoCopy /\ routes = {} /\ resolv = 0 /\ machine = 0
    /\ cut = FALSE /\ torn = FALSE /\ connects = 0 /\ cuts = 0 /\ edits = 0

------------------------------------------------------------------------------
(* recover_dns: with no plan left, a resolv.conf still ours is put back, and a *)
(* copy nobody needs any more goes.                                            *)
recover_dns(p) ==
    IF p # NoNetPlan \/ copy = NoCopy THEN UNCHANGED <<copy, resolv>>
    ELSE /\ resolv' = (IF resolv = Ours THEN copy ELSE resolv)
         /\ copy' = NoCopy

(* A revert of `p`, and what follows it. *)
start_revert(p, then) ==
    /\ proc' = "revert" /\ step' = 1 /\ mem' = p /\ after' = then /\ problem' = FALSE

start_apply == proc' = "apply" /\ step' = 1 /\ mem' = Fresh /\ after' = "idle" /\ problem' = FALSE

(* bring_up: a plan left behind is undone first, then the DNS, then the tunnels and apply. *)
Connect(n) ==
    /\ proc = "idle" /\ connects < MaxConnects
    /\ connects' = connects + 1 /\ target' = n
    /\ IF plan # NoNetPlan
       THEN start_revert(plan, "apply") /\ UNCHANGED <<copy, resolv>>
       ELSE start_apply /\ recover_dns(plan)
    /\ UNCHANGED <<platform, plan, routes, machine, cut, torn, cuts, edits>>

(* Circuit::down_with. *)
Down ==
    /\ proc = "up" /\ start_revert(mem, "idle")
    /\ UNCHANGED <<platform, target, plan, copy, routes, resolv, machine, cut, torn, counters>>

(* `down` with nothing running: the plan a dead connection left, or its DNS. *)
DownNothing ==
    /\ proc = "idle"
    /\ IF plan # NoNetPlan
       THEN start_revert(plan, "idle") /\ UNCHANGED <<copy, resolv>>
       ELSE recover_dns(plan) /\ UNCHANGED <<proc, step, mem, after, problem>>
    /\ UNCHANGED <<platform, target, plan, routes, machine, cut, torn, counters>>

------------------------------------------------------------------------------
(* apply, step by step: each route is made and then written into the plan. *)
applySteps == <<"save", "node", "save", "exit", "save", "halves", "save", "dns", "save">>
              \o (IF swaps THEN <<"copy", "save", "empty", "fill">> ELSE <<>>)
              \o <<"changed", "save">>
what == applySteps[step]

Route == /\ what \in {"node"} \cup TunnelRoutes
         /\ LET r == IF what = "node" THEN target ELSE what
            IN /\ routes' = routes \cup {r}
               /\ mem' = IF what \in {"exit", "dns"} THEN [mem EXCEPT !.via_routes = @ \cup {r}]
                                                     ELSE [mem EXCEPT !.routes_added = @ \cup {r}]
         /\ UNCHANGED <<plan, copy, resolv, cut>>

save_plan == /\ what = "save"
             /\ plan' = mem
             /\ cut' = (cut \/ (step = 1 /\ plan # NoNetPlan))   \* a plan no revert could finish is written over
             /\ UNCHANGED <<mem, copy, resolv, routes>>

(* The machine's resolv.conf, or its copy when the one in place is ours. *)
original_resolv_conf == IF resolv = Ours /\ copy # NoCopy THEN copy ELSE resolv

write_saved == /\ what = "copy"
               /\ copy' = original_resolv_conf /\ mem' = [mem EXCEPT !.backup = original_resolv_conf]
               /\ UNCHANGED <<plan, resolv, routes, cut>>

(* A link is replaced by a rename; a file is emptied and then written. *)
swap_resolv_conf == /\ what \in {"empty", "fill"}
                    /\ resolv' = (IF what = "fill" THEN Ours ELSE IF platform = "link" THEN resolv ELSE Emptied)
                    /\ UNCHANGED <<mem, plan, copy, routes, cut>>

changed == /\ what = "changed"
           /\ mem' = [mem EXCEPT !.dns_changed = TRUE] /\ UNCHANGED <<plan, copy, resolv, routes, cut>>

ApplyStep ==
    /\ proc = "apply"
    /\ Route \/ save_plan \/ write_saved \/ swap_resolv_conf \/ changed
    /\ IF step = Len(applySteps) THEN proc' = "up" /\ step' = 1 ELSE step' = step + 1 /\ UNCHANGED proc
    /\ UNCHANGED <<platform, after, problem, target, machine, torn, counters>>

(* A tool or a file fails: what the plan file says is undone now, and the     *)
(* tunnels stop with the routes on them.                                      *)
unplanned(p) == (routes \cap PlanNodes) \ (IF p = NoNetPlan THEN {} ELSE p.routes_added) # {}
ApplyFails ==
    /\ proc = "apply" /\ what \notin {"changed"} /\ cuts < MaxCuts /\ cuts' = cuts + 1
    /\ cut' = (cut \/ unplanned(plan)) /\ torn' = (torn \/ resolv = Emptied)
    /\ IF plan = NoNetPlan THEN proc' = "idle" /\ routes' = routes \ TunnelRoutes /\ UNCHANGED <<step, mem, after, problem>>
       ELSE start_revert(plan, "idle") /\ UNCHANGED routes
    /\ UNCHANGED <<platform, target, plan, copy, resolv, machine, connects, edits>>

------------------------------------------------------------------------------
(* revert: every step is attempted, and the plan goes only if all went through. *)
revert_routes ==
    /\ step = 1
    /\ \/ routes' = routes \ (mem.via_routes \cup mem.routes_added) /\ UNCHANGED problem
       \/ cuts < MaxCuts /\ problem' = TRUE /\ UNCHANGED routes
    /\ UNCHANGED <<plan, copy, resolv, cut>>

(* A slip: the copy goes first. *)
MutPutBack(s) ==
    /\ step = s
    /\ LET wrote == mem.dns_changed /\ mem.backup # NoCopy
       IN /\ resolv' = (IF wrote /\ s = 4 THEN mem.backup ELSE resolv)
          /\ copy' = (IF wrote /\ s = 2 THEN NoCopy ELSE copy)
    /\ UNCHANGED <<plan, routes, problem, cut>>

(* put_back_resolv_conf and, after it, the copy. A plan cut before            *)
(* `dns_changed` was saved puts nothing back here: recover_dns does.          *)
put_back(s) ==
    /\ step = s
    /\ LET wrote == mem.dns_changed /\ mem.backup # NoCopy
       IN /\ resolv' = (IF wrote /\ s = 2 THEN (IF platform = "link" THEN resolv ELSE Emptied)
                        ELSE IF wrote /\ s = 3 THEN mem.backup ELSE resolv)
          /\ copy' = (IF wrote /\ s = 4 THEN NoCopy ELSE copy)
    /\ UNCHANGED <<plan, routes, problem, cut>>

clear_plan ==
    /\ step = 5
    /\ plan' = (IF problem THEN plan ELSE NoNetPlan)
    /\ UNCHANGED <<copy, resolv, routes, problem, cut>>

RevertStep ==
    /\ proc = "revert" /\ step <= 5
    /\ revert_routes \/ put_back(2) \/ put_back(3) \/ put_back(4) \/ clear_plan
    /\ step' = step + 1
    /\ cuts' = IF problem' /\ ~problem THEN cuts + 1 ELSE cuts
    /\ UNCHANGED <<platform, proc, mem, after, target, machine, torn, connects, edits>>

(* The revert is over: the tunnels are gone, and their routes; a connection goes on to apply. *)
RevertDone ==
    /\ proc = "revert" /\ step = 6
    /\ routes' = routes \ TunnelRoutes
    /\ IF after = "apply" THEN start_apply /\ recover_dns(plan)
       ELSE proc' = "idle" /\ step' = 1 /\ UNCHANGED <<mem, after, problem, copy, resolv>>
    /\ UNCHANGED <<platform, target, plan, machine, cut, torn, counters>>

------------------------------------------------------------------------------
Stopped == /\ proc' = "idle" /\ step' = 1 /\ mem' = Fresh /\ after' = "idle" /\ problem' = FALSE
           /\ cuts < MaxCuts /\ cuts' = cuts + 1
           /\ torn' = (torn \/ resolv = Emptied)

(* The process dies: its tunnels go with their routes, the files stay. *)
Crash ==
    /\ proc # "idle" /\ Stopped
    /\ routes' = routes \ TunnelRoutes /\ cut' = (cut \/ unplanned(plan))
    /\ UNCHANGED <<platform, target, plan, copy, resolv, machine, connects, edits>>

(* The machine loses power: the routes go; the plan is in /run on Linux and on *)
(* disk on Windows. The service's start looks at the DNS.                      *)
Reboot ==
    /\ Stopped /\ routes' = {}
    /\ plan' = (IF platform = "windows" THEN plan ELSE NoNetPlan)
    /\ UNCHANGED <<platform, target, copy, resolv, machine, cut, connects, edits>>

ServiceStarts ==
    /\ proc = "idle" /\ copy # NoCopy /\ recover_dns(plan)
    /\ UNCHANGED <<platform, proc, step, mem, after, problem, target, plan, routes, machine, cut, torn, counters>>

(* Someone gives the machine another resolv.conf while no plan is in force. *)
Edited ==
    /\ proc = "idle" /\ plan = NoNetPlan /\ edits < MaxEdits /\ edits' = edits + 1
    /\ machine' = machine + 1 /\ resolv' = machine + 1
    /\ UNCHANGED <<platform, proc, step, mem, after, problem, target, plan, copy, routes, cut, torn, connects, cuts>>

NetNext == \/ \E n \in PlanNodes : Connect(n)
           \/ Down \/ DownNothing \/ ApplyStep \/ ApplyFails \/ RevertStep \/ RevertDone
           \/ Crash \/ Reboot \/ ServiceStarts \/ Edited

NetSpec == NetInit /\ [][NetNext]_netVars

------------------------------------------------------------------------------
(* The machine can be put back, and is: while its resolv.conf is ours the     *)
(* original is in the copy; with no plan and no copy left it has its own      *)
(* again; and no route of ours is left without a plan, unless one was made    *)
(* and never written down or its plan was written over. A resolv.conf cut     *)
(* while it was empty is the one thing nobody puts back.                      *)
PutBack ==
    /\ resolv = Ours /\ ~torn => copy = machine
    /\ proc = "idle" /\ plan = NoNetPlan =>
           /\ routes = {} \/ cut
           /\ copy = NoCopy /\ ~torn => resolv = machine
===============================================================================
