------------------------------ MODULE KillSwitch ------------------------------
(* The kill switch of the client: the rule sets it installs in nftables on    *)
(* Linux (first match decides) and in the Windows Filtering Platform (the     *)
(* heaviest match decides), for a running circuit, for the hold while one is  *)
(* replaced and for the hold that lets admission requests through.            *)
(*                                                                            *)
(* A packet is a record: direction, interface, address family, the address of *)
(* this machine on it, the remote address, protocol, the two ports (an ICMP   *)
(* message's type is its lport, as in WFP) and what connection tracking says. *)
(* A rule accepts or drops the packets whose fields are all in its `when`.    *)
EXTENDS Integers, Sequences, FiniteSets, FiniteSetsExt

CONSTANTS Nodes,        \* endpoints a circuit may have as its first hop
          Exit,         \* the exit's WireGuard endpoint behind an entry
          Admissions,   \* admission ports a connection may ask directly
          ExitAdmission,\* the exit's admission port, asked through the entry
          Private,      \* the remote addresses in the private ranges
          Dns,          \* the node's resolver, a private address
          Remotes,      \* every remote address
          NoConf        \* the kill switch is off

(* The exit is reached through a tunnel, by IPv4 as the tunnel's own addresses are. *)
ASSUME KsConstants == Exit.fam = 4 /\ ExitAdmission.fam = 4

VARIABLES os,       \* which system this machine runs
          up,       \* the tunnel interfaces that exist
          conf,     \* what the rules in force were made for
          rules     \* the rules in force: one rule set per direction

ksVars == <<os, up, conf, rules>>

Endpoint(a, f, p) == [addr |-> a, fam |-> f, port |-> p]

(* The address of this end of an interface, IPv4. *)
own(iface) == CASE iface = "outer" -> "outer4" [] iface = "inner" -> "inner4" [] OTHER -> "phys4"

Accepts(when) == [accept |-> TRUE, when |-> when, weight |-> 0]
Drop(when) == [accept |-> FALSE, when |-> when, weight |-> 0]
Matches(p, r) == \A f \in DOMAIN r.when : p[f] \in r.when[f]

------------------------------------------------------------------------------
(* Linux: the table `inet hidravpn_ks`, its policy drop. *)

node_out(eps) == [i \in DOMAIN eps |->
    Accepts([remote |-> {eps[i].addr}, fam |-> {eps[i].fam}, proto |-> {"udp"}, rport |-> {eps[i].port}])]
node_in(eps) == [i \in DOMAIN eps |->
    Accepts([remote |-> {eps[i].addr}, fam |-> {eps[i].fam}, proto |-> {"udp"}, rport |-> {eps[i].port},
            ct |-> {"established"}])]

related == Accepts([proto |-> {"icmp"}, fam |-> {4}, ct |-> {"related"}])
table(output, input) ==
    [out |-> <<Accepts([iface |-> {"lo"}])>> \o output
             \o <<Accepts([proto |-> {"udp"}, lport |-> {68}, rport |-> {67}]), related>>,
     in  |-> <<Accepts([iface |-> {"lo"}])>> \o input
             \o <<Accepts([proto |-> {"udp"}, lport |-> {68}, rport |-> {67}]), related>>]

own_source_only(iface, from) ==
    <<Drop([iface |-> {iface}, fam |-> {4}, local |-> {"phys4", "outer4", "inner4"} \ {from}])>>

carrying_out(iface, tunnel6) ==
    <<Accepts([iface |-> {iface}, fam |-> {4}, local |-> {own(iface)}])>>
    \o (IF tunnel6 THEN <<Accepts([iface |-> {iface}, fam |-> {6}, local |-> {"tunnel6"}])>> ELSE <<>>)
carrying_in(iface) ==
    <<Accepts([iface |-> {iface}, ct |-> {"established", "related"}]), Drop([iface |-> {iface}])>>

peer_out(iface, protocol, peer) ==
    <<Accepts([iface |-> {iface}, fam |-> {4}, local |-> {own(iface)}, remote |-> {peer.addr},
              proto |-> {protocol}, rport |-> {peer.port}])>>
peer_in(iface, protocol, peer) ==
    <<Accepts([iface |-> {iface}, fam |-> {4}, remote |-> {peer.addr}, proto |-> {protocol},
              rport |-> {peer.port}, ct |-> {"established"}]),
      Accepts([iface |-> {iface}, proto |-> {"icmp"}, fam |-> {4}, ct |-> {"related"}]),
      Drop([iface |-> {iface}])>>

(* A slip: the resolver's address is enough, whatever interface leads there. *)
MutDnsRules(carrying) ==
    <<Accepts([fam |-> {4}, remote |-> {Dns}, proto |-> {"udp", "tcp"}, rport |-> {53}]),
      Drop([proto |-> {"udp", "tcp"}, rport |-> {53}])>>

(* DNS goes to the node's resolver through the carrying tunnel, the rest of it nowhere. *)
dns_rules(carrying) ==
    <<Accepts([iface |-> {carrying}, fam |-> {4}, remote |-> {Dns}, proto |-> {"udp", "tcp"}, rport |-> {53}]),
      Drop([proto |-> {"udp", "tcp"}, rport |-> {53}])>>

lan_rules(cfg) ==
    IF cfg.allow_lan
    THEN <<Accepts([iface |-> {"lo", "phys", "outer", "inner"} \ cfg.tunnels, fam |-> {4}, remote |-> Private])>>
    ELSE <<>>

ruleset(cfg) ==
    LET two == cfg.hops = 2
        carrying == IF two THEN "inner" ELSE "outer"
        tunnel_out == IF two THEN peer_out("outer", "udp", Exit) \o <<Drop([iface |-> {"outer"}])>>
                             ELSE carrying_out("outer", cfg.ipv6)
        tunnel_in == IF two THEN peer_in("outer", "udp", Exit) ELSE carrying_in("outer")
        extra_out == IF two THEN carrying_out("inner", cfg.ipv6) ELSE <<>>
        extra_in == IF two THEN carrying_in("inner") ELSE <<>>
        inner_own == IF two THEN own_source_only("inner", own("inner")) ELSE <<>>
    IN table(own_source_only("outer", own("outer")) \o inner_own \o node_out(cfg.nodes)
                 \o dns_rules(carrying) \o tunnel_out \o extra_out \o lan_rules(cfg),
             tunnel_in \o extra_in \o node_in(cfg.nodes) \o lan_rules(cfg))

hold_ruleset(eps) == table(node_out(eps), node_in(eps))

direct_out(direct) == [i \in DOMAIN direct |->
    Accepts([remote |-> {direct[i].addr}, fam |-> {direct[i].fam}, proto |-> {"tcp"}, rport |-> {direct[i].port}])]
direct_in(direct) == [i \in DOMAIN direct |->
    Accepts([remote |-> {direct[i].addr}, fam |-> {direct[i].fam}, proto |-> {"tcp"}, rport |-> {direct[i].port},
            ct |-> {"established"}])]
admitting_ruleset(cfg) ==
    table((IF cfg.bridge THEN own_source_only("outer", own("outer")) ELSE <<>>) \o node_out(cfg.nodes)
              \o (IF cfg.bridge THEN peer_out("outer", "tcp", ExitAdmission) ELSE <<>>) \o direct_out(cfg.direct),
          (IF cfg.bridge THEN peer_in("outer", "tcp", ExitAdmission) ELSE <<>>)
              \o node_in(cfg.nodes) \o direct_in(cfg.direct))

nft_rules(cfg) == CASE cfg.mode = "apply" -> ruleset(cfg)
                    [] cfg.mode = "hold" -> hold_ruleset(cfg.nodes)
                    [] cfg.mode = "admitting" -> admitting_ruleset(cfg)

FirstMatch(chain, p) ==
    LET hits == {i \in DOMAIN chain : Matches(p, chain[i])}
    IN hits # {} /\ chain[Min(hits)].accept

------------------------------------------------------------------------------
(* Windows: filters under one sublayer, at the connect and the receive-accept *)
(* layers. Windows sends from an interface's own addresses only.              *)

Permit(w, when) == [accept |-> TRUE, when |-> when, weight |-> w]
Block(w, when) == [accept |-> FALSE, when |-> when, weight |-> w]

(* What apply, hold and hold_admitting ask install for. *)
Allow(cfg) ==
    [tunnels |-> CASE cfg.mode # "apply" -> {} [] cfg.hops = 2 -> {"inner"} [] OTHER -> {"outer"},
     nodes |-> cfg.nodes,
     peered |-> CASE cfg.mode = "apply" /\ cfg.hops = 2 -> {[iface |-> "outer", proto |-> "udp", to |-> Exit]}
                  [] cfg.bridge -> {[iface |-> "outer", proto |-> "tcp", to |-> ExitAdmission]}
                  [] OTHER -> {},
     direct_tcp |-> cfg.direct,
     lan |-> cfg.allow_lan,
     tunnel_v6 |-> IF cfg.ipv6 THEN {IF cfg.hops = 2 THEN "inner" ELSE "outer"} ELSE {}]

(* install's errors, before and inside its transaction: nothing changes. *)
install_fails(a) ==
    \/ Len(a.nodes) > 4 \/ Cardinality(a.tunnels) > 2 \/ Cardinality(a.peered) > 2 \/ Len(a.direct_tcp) > 2
    \/ \E i \in DOMAIN a.nodes : a.nodes[i].fam # 4
    \/ \E i \in DOMAIN a.direct_tcp : a.direct_tcp[i].fam # 4
    \/ \E x \in a.peered : x.iface \notin up
    \/ a.tunnel_v6 \ up # {}

inbound(lan, tunnels) ==
    {Block(0, [dir |-> {"in"}]), Permit(12, [iface |-> {"lo"}]),
     Permit(10, [fam |-> {4}, proto |-> {"udp"}, lport |-> {68}, rport |-> {67}])}
    \cup (UNION {{Block(11, [iface |-> {t}, fam |-> {4}]),
                 Permit(12, [iface |-> {t}, fam |-> {4}, proto |-> {"icmp"}, lport |-> {3}]),
                 Permit(12, [iface |-> {t}, fam |-> {6}, proto |-> {"icmp"}, lport |-> {1, 2}])} : t \in tunnels})
    \cup (IF lan THEN {Permit(8, [fam |-> {4}, remote |-> Private])} ELSE {})

(* The connect filters of the tunnels and the nodes. *)
tunnels_out(a) ==
    {Block(0, [dir |-> {"out"}]), Permit(12, [iface |-> {"lo"}])}
    \cup {Permit(10, [iface |-> {t}, fam |-> {4}]) : t \in a.tunnels \cap up}
    \cup {Permit(10, [iface |-> {t}, fam |-> {6}]) : t \in a.tunnel_v6}
    \cup {Permit(11, [fam |-> {4}, proto |-> {"udp"}, remote |-> {a.nodes[i].addr},
                      rport |-> {a.nodes[i].port}]) : i \in DOMAIN a.nodes}

(* Those of one destination through a tunnel, admission, the local network and DHCP. *)
others_out(a) ==
    {Permit(10, [iface |-> {x.iface}, fam |-> {4}, proto |-> {x.proto}, remote |-> {x.to.addr},
                 rport |-> {x.to.port}]) : x \in a.peered}
    \cup {Permit(11, [fam |-> {4}, proto |-> {"tcp"}, remote |-> {a.direct_tcp[i].addr},
                      rport |-> {a.direct_tcp[i].port}]) : i \in DOMAIN a.direct_tcp}
    \cup (IF a.lan THEN {Block(9, [fam |-> {4}, remote |-> Private, rport |-> {53}]),
                         Permit(8, [fam |-> {4}, remote |-> Private])} ELSE {})
    \cup {Permit(10, [fam |-> {4}, proto |-> {"udp"}, lport |-> {68}, rport |-> {67}, remote |-> {"bcast"}])}

install(a) == [out |-> tunnels_out(a) \cup others_out(a),
               in |-> inbound(a.lan, (a.tunnels \cap up) \cup {x.iface : x \in a.peered})]

(* The heaviest of the filters that match decides. *)
Arbitrate(filters, p) ==
    LET hits == {f \in filters : Matches(p, f)}
    IN \A f \in hits : (\A g \in hits : g.weight <= f.weight) => f.accept

------------------------------------------------------------------------------
Base == [mode |-> "hold", nodes |-> <<>>, hops |-> 0, allow_lan |-> FALSE, ipv6 |-> FALSE,
         direct |-> <<>>, bridge |-> FALSE, tunnels |-> {}]

KsInit == os \in {"linux", "windows"} /\ up = {} /\ conf = NoConf /\ rules = [out |-> {}, in |-> {}]

(* One nftables transaction, or one of WFP: all of the new rules, or the old ones stay. *)
Install(cfg) ==
    /\ \/ os = "linux" /\ rules' = nft_rules(cfg) /\ conf' = cfg
       \/ os = "windows" /\ ~install_fails(Allow(cfg)) /\ rules' = install(Allow(cfg)) /\ conf' = cfg
       \/ UNCHANGED <<rules, conf>>     \* nft or WFP refused
    /\ UNCHANGED <<os, up>>

(* apply: one hop through the only tunnel, or two with the exit in the inner *)
(* one; a circuit arms it with its tunnels up.                               *)
apply ==
    \E n \in Nodes, h \in {1, 2}, lan, six \in BOOLEAN :
        /\ (IF h = 2 THEN {"outer", "inner"} ELSE {"outer"}) \subseteq up
        /\ Install([Base EXCEPT !.mode = "apply", !.nodes = <<n>>, !.hops = h, !.allow_lan = lan, !.ipv6 = six,
                                !.tunnels = IF h = 2 THEN {"outer", "inner"} ELSE {"outer"}])

hold == \E n, m \in Nodes : Install([Base EXCEPT !.nodes = IF n = m THEN <<n>> ELSE <<n, m>>])

hold_admitting ==
    \E n \in Nodes, a \in Admissions, b \in BOOLEAN :
        Install([Base EXCEPT !.mode = "admitting", !.nodes = <<n>>, !.direct = <<a>>, !.bridge = b,
                             !.tunnels = IF b THEN {"outer"} ELSE {}])

remove == conf # NoConf /\ conf' = NoConf /\ rules' = [out |-> {}, in |-> {}] /\ UNCHANGED <<os, up>>

(* Whether the kill switch is on: its table, or its sublayer, is there. *)
is_active == conf # NoConf

(* A tunnel's interface appears, under rules that do not name it (a hold, or *)
(* none), and goes; the rules stay as they are.                              *)
TunnelComes ==
    \E t \in {"outer", "inner"} \ up :
        (is_active => t \notin conf.tunnels) /\ up' = up \cup {t} /\ UNCHANGED <<os, conf, rules>>
TunnelGoes == \E t \in up : up' = up \ {t} /\ UNCHANGED <<os, conf, rules>>

KsNext == apply \/ hold \/ hold_admitting \/ remove \/ TunnelComes \/ TunnelGoes
KsSpec == KsInit /\ [][KsNext]_ksVars

------------------------------------------------------------------------------
(* Every packet the machine may try to send, and every one that may arrive. *)
Ports == {<<68, 67>>, <<1, 67>>, <<1, 53>>, <<1, 80>>}
         \cup {<<1, Exit.port>>, <<1, ExitAdmission.port>>} \cup {<<1, n.port>> : n \in Nodes}
Locals(iface, fam) ==
    IF os = "windows" THEN {IF fam = 4 THEN own(iface) ELSE IF iface = "phys" THEN "phys6" ELSE "tunnel6"}
    ELSE IF fam = 4 THEN {"phys4", "outer4", "inner4"} ELSE {"phys6", "tunnel6"}
Ifaces == {"phys"} \cup up
Packet(d, i, f, l, r, pr, po, c) ==
    [dir |-> d, iface |-> i, fam |-> f, local |-> l, remote |-> r, proto |-> pr, lport |-> po[1],
     rport |-> po[2], ct |-> c]
Outgoing == {Packet("out", i, f, l, r, pr, po, "new") :
               i \in Ifaces, f \in {4, 6}, l \in {"phys4", "outer4", "inner4", "phys6", "tunnel6"},
               r \in Remotes, pr \in {"udp", "tcp"}, po \in Ports}
Incoming == {Packet("in", i, f, "phys4", r, pr, po, c) :
               i \in Ifaces, f \in {4, 6}, r \in Remotes, pr \in {"udp", "tcp"}, po \in Ports,
               c \in {"new", "established"}}
            \cup {Packet("in", i, f, "phys4", r, "icmp", po, c) :
               i \in Ifaces, f \in {4, 6}, r \in Remotes, po \in {<<3, 0>>, <<8, 0>>}, c \in {"new", "related"}}

(* What the rules in force do with a packet: Windows lets the answers of an *)
(* open flow through by themselves.                                         *)
Passes(p) ==
    \/ conf = NoConf
    \/ os = "linux" /\ FirstMatch(rules[p.dir], p)
    \/ os = "windows" /\ ((p.dir = "in" /\ p.ct # "new") \/ Arbitrate(rules[p.dir], p))

To(p, e, protocol) == p.remote = e.addr /\ p.fam = e.fam /\ p.rport = e.port /\ p.proto = protocol
ToNode(p) == \E i \in DOMAIN conf.nodes : To(p, conf.nodes[i], "udp")
Dhcp(p) == p.proto = "udp" /\ p.lport = 68 /\ p.rport = 67
IsDns(p) == p.proto \in {"udp", "tcp"} /\ p.rport = 53
Carrying == IF conf.mode # "apply" THEN "none" ELSE IF conf.hops = 2 THEN "inner" ELSE "outer"
FromTunnel(p) == IF p.fam = 4 THEN p.local = own(p.iface) ELSE conf.ipv6 /\ p.local = "tunnel6"

(* What may leave: off the tunnels, the node's encrypted packets, DHCP, the   *)
(* admission requests asked for and, if allowed, the local network without    *)
(* its DNS; into the carrying tunnel, what comes from the tunnel's own        *)
(* address, names only to the node's resolver; into the outer of two, only    *)
(* the inner one's packets to the exit.                                       *)
MayLeave(p) ==
    /\ p.iface \in conf.tunnels /\ p.fam = 4 => p.local = own(p.iface)
    /\ \/ ToNode(p)
       \/ Dhcp(p)
       \/ \E i \in DOMAIN conf.direct : To(p, conf.direct[i], "tcp")
       \/ /\ conf.allow_lan /\ p.fam = 4 /\ p.remote \in Private /\ ~IsDns(p)
          /\ os = "linux" => p.iface \notin conf.tunnels    \* the Windows permit names no interface
       \/ p.iface = Carrying /\ FromTunnel(p) /\ (os = "linux" /\ IsDns(p) => p.remote = Dns /\ p.fam = 4)
       \/ p.iface = "outer" /\ conf.mode = "apply" /\ conf.hops = 2 /\ To(p, Exit, "udp")
       \/ p.iface = "outer" /\ conf.bridge /\ To(p, ExitAdmission, "tcp")

(* What must get out: the encrypted packets to the node, whatever its port,   *)
(* and what the carrying tunnel is for, names to the node's resolver included.*)
MustLeave(p) ==
    \/ p.iface = "phys" /\ ToNode(p)
    \/ os = "linux" /\ p.iface = Carrying /\ FromTunnel(p) /\ (IsDns(p) => p.remote = Dns /\ p.fam = 4)

(* What may come in unasked: a DHCP answer or the allowed local network, never *)
(* through a tunnel, and on Windows the ICMP errors of a tunnel.              *)
MayComeUnasked(p) ==
    \/ p.iface \notin conf.tunnels /\ (Dhcp(p) \/ (conf.allow_lan /\ p.remote \in Private /\ p.fam = 4))
    \/ os = "windows" /\ p.iface \in conf.tunnels /\ p.proto = "icmp" /\ p.lport = 3

(* The kill switch keeps its promise, on both systems and whatever was        *)
(* installed before: nothing leaves that its mode does not name, nothing      *)
(* enters through a tunnel unasked, and the tunnel's own packets pass, also   *)
(* when the node's WireGuard port is that of DNS.                             *)
KillSwitchKeeps ==
    conf # NoConf =>
        /\ \A p \in Outgoing : p.local \in Locals(p.iface, p.fam) =>
               (Passes(p) => MayLeave(p)) /\ (MustLeave(p) => Passes(p))
        /\ \A p \in Incoming : p.ct = "new" /\ Passes(p) => MayComeUnasked(p)
        /\ is_active
===============================================================================
