------------------------------ MODULE Firewall ------------------------------
(***************************************************************************)
(* The packet filter of a Linux kernel as the agent drives it: nft and     *)
(* iptables are external programs, modelled by what the commands that      *)
(* src/response/linux_isolation.rs runs do to the rules.                   *)
(*                                                                         *)
(* A state is the rules of each chain and, for each direction, the chains  *)
(* that a packet visits.  A rule is about one address, about port 53 or    *)
(* about every packet.  With nftables the two chains of the table carry    *)
(* the kind that stands for the priority they were created with; with      *)
(* iptables there are four chains.                                         *)
(***************************************************************************)
EXTENDS Naturals, Sequences, SequencesExt

CONSTANTS
    All,            \* in place of an address: every packet
    Nobody,         \* and none
    Dns,            \* and those to port 53, whatever the address
    Mentions        \* the addresses whose text contains that of this one

Kinds == {"isolation", "block"}
Dirs == {"in", "out"}

Drop(h) == [to |-> h, drop |-> TRUE]
Accept(h) == [to |-> h, drop |-> FALSE]

NoRules == [chains |-> <<>>, hooks |-> [d \in Dirs |-> <<>>]]

\* The first rule of a chain about these addresses decides.
Silent(rules, addresses) == \A i \in DOMAIN rules : rules[i].to \notin addresses
Drops(rules, addresses) ==
    \E i \in DOMAIN rules :
        /\ rules[i].to \in addresses /\ rules[i].drop
        /\ \A j \in 1..(i - 1) : rules[j].to \notin addresses

\* The first chain with such a rule does; without one the packet passes.
Visit(fw, d, i) == fw.chains[<<fw.hooks[d][i], d>>]
DroppedAs(fw, d, addresses) ==
    \E i \in DOMAIN fw.hooks[d] :
        /\ Drops(Visit(fw, d, i), addresses)
        /\ \A j \in 1..(i - 1) : Silent(Visit(fw, d, j), addresses)

Dropped(fw, d, h) == DroppedAs(fw, d, {h, All})

\* A connection to h: the answers belong to an established connection, which
\* the rules before every "drop all" let in.
Reachable(fw, h) == ~Dropped(fw, "out", h) /\ ~DroppedAs(fw, "in", {h})

\* A connection to port 53 of h.
ReachableDns(fw, h) == ~DroppedAs(fw, "out", {h, Dns, All}) /\ ~DroppedAs(fw, "in", {h})

Present(fw) == DOMAIN fw.chains
TableKind(fw) == CHOOSE k \in Kinds : <<k, "in">> \in Present(fw)
Visited(fw, c) == c[1] \in Range(fw.hooks[c[2]])

\* Whether the firewall can carry out command s.
Possible(fw, s) ==
    CASE s.do \in {"delete table", "list", "insert", "purge"} -> Present(fw) # {}
      [] s.do = "load" -> Present(fw) \subseteq {s.kind} \X Dirs
      [] s.do = "new chain" -> s.chain \notin Present(fw)
      [] s.do \in {"jump", "flush", "append"} -> s.chain \in Present(fw)
      [] s.do = "delete" -> /\ s.chain \in Present(fw)
                            /\ Contains(fw.chains[s.chain], s.rule)
      [] s.do = "unjump" -> Visited(fw, s.chain)
      [] s.do = "delete chain" -> /\ s.chain \in Present(fw) /\ ~Visited(fw, s.chain)
                                  /\ fw.chains[s.chain] = <<>>

\* What remains of a chain without the rules that mention an address: in the
\* place of each, one about nobody.
Purged(rules, ip) ==
    [i \in DOMAIN rules |-> IF rules[i].to \in Mentions[ip] THEN Accept(Nobody) ELSE rules[i]]

SetChain(fw, c, rules) ==
    [fw EXCEPT !.chains = [x \in Present(fw) \cup {c} |-> IF x = c THEN rules ELSE @[x]]]
SetHook(fw, d, kinds) == [fw EXCEPT !.hooks[d] = kinds]

\* nft -f: the script is applied as a whole, and adds its rules to a table that
\* is there already.
Loaded(fw, kind, rules) ==
    [chains |-> [c \in {kind} \X Dirs |->
                    IF c \in Present(fw) THEN fw.chains[c] \o rules ELSE rules],
     hooks |-> [d \in Dirs |-> <<kind>>]]

Effect(fw, s) ==
    CASE s.do = "delete table" -> NoRules
      [] s.do = "list" -> fw
      [] s.do = "load" -> Loaded(fw, s.kind, s.rules)
      [] s.do \in {"insert", "purge"} ->
            LET c == <<TableKind(fw), s.dir>>
                old == fw.chains[c]
            IN SetChain(fw, c, IF s.do = "insert" THEN <<s.rule>> \o old
                                                  ELSE Purged(old, s.ip))
      [] s.do \in {"new chain", "flush"} -> SetChain(fw, s.chain, <<>>)
      [] s.do = "jump" ->
            IF Visited(fw, s.chain) THEN fw
            ELSE SetHook(fw, s.chain[2], <<s.chain[1]>> \o fw.hooks[s.chain[2]])
      [] s.do = "append" -> SetChain(fw, s.chain, Append(fw.chains[s.chain], s.rule))
      [] s.do = "delete" ->
            SetChain(fw, s.chain, RemoveFirst(fw.chains[s.chain], s.rule))
      [] s.do = "unjump" ->
            SetHook(fw, s.chain[2], RemoveFirst(fw.hooks[s.chain[2]], s.chain[1]))
      [] s.do = "delete chain" ->
            [fw EXCEPT !.chains = [c \in Present(fw) \ {s.chain} |-> @[c]]]
=============================================================================
