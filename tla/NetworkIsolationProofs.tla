----------------------- MODULE NetworkIsolationProofs -----------------------
(***************************************************************************)
(* Proofs about NetworkIsolation, for any set of addresses, any callers,   *)
(* any number of commands, faults and crashes, and both back ends.         *)
(*                                                                         *)
(* What is known between two commands has to be known between any two      *)
(* steps of a script: the invariant says of the rest of the script what it *)
(* will still do (Left), and in which order.                               *)
(***************************************************************************)
EXTENDS NetworkIsolation, FiniteSetTheorems, SequenceTheorems, WellFoundedInduction, TLAPS

Chains == Kinds \X Dirs
Iso(d) == <<"isolation", d>>
Block(d) == <<"block", d>>

Blocking == {Drop(h) : h \in Named} \cup {Accept(Nobody)}
Isolating == Blocking \cup {Accept(h) : h \in Named \cup {Dns}} \cup {Drop(All)}
RulesOf(c) == IF c[1] = "block" THEN Blocking ELSE Isolating

\* The orders in which a packet may visit the chains of a direction.
Orders == { <<>>, <<"isolation">>, <<"block">>,
            <<"isolation", "block">>, <<"block", "isolation">> }

\* A state of the packet filter.
Filter(f) ==
    /\ f = [chains |-> f.chains, hooks |-> f.hooks]
    /\ f.chains = [c \in Present(f) |-> f.chains[c]] /\ Present(f) \subseteq Chains
    /\ \A c \in Present(f) : f.chains[c] \in Seq(RulesOf(c))
    /\ f.hooks \in [Dirs -> Orders]
    /\ \A d \in Dirs : \A k \in Range(f.hooks[d]) : <<k, d>> \in Present(f)

\* With nftables there is one table, of one kind, or none.
OneTable(f) ==
    \/ f = NoRules
    \/ \E k \in Kinds : Present(f) = {k} \X Dirs /\ f.hooks = [d \in Dirs |-> <<k>>]

-----------------------------------------------------------------------------
(* Scripts.                                                                *)

Delete == [do |-> "delete table"]
List == [do |-> "list"]
Load(k, rules) == [do |-> "load", kind |-> k, rules |-> rules]
Insert(d, r) == [do |-> "insert", dir |-> d, rule |-> r]
Purge(d, ip) == [do |-> "purge", dir |-> d, ip |-> ip]
Make(c) == [do |-> "new chain", chain |-> c]
Jump(c) == [do |-> "jump", chain |-> c]
Unjump(c) == [do |-> "unjump", chain |-> c]
Flush(c) == [do |-> "flush", chain |-> c]
Discard(c) == [do |-> "delete chain", chain |-> c]
Add(c, r) == [do |-> "append", chain |-> c, rule |-> r]
Cancel(c, r) == [do |-> "delete", chain |-> c, rule |-> r]

NftItems ==
    CASE holder = "shutdown" -> {Try(Delete)}
      [] cmd.op = "isolate" -> {Try(Delete), Must(Load("isolation", IsolationRules(cmd.allowed)))}
      [] cmd.op \in {"unisolate", "undo"} -> {Must(Delete)}
      [] cmd.op = "block" -> {Must(Insert(d, Drop(cmd.ip))) : d \in Dirs}
                             \cup {Must(Load("block", <<Drop(cmd.ip)>>))}
      [] cmd.op = "unblock" -> {Must(List)} \cup {Try(Purge(d, cmd.ip)) : d \in Dirs}

EnsureItems == {Try(Make(c)) : c \in Chains} \cup {Try(Jump(c)) : c \in Chains}
FlushItems == {Try(Flush(Iso(d))) : d \in Dirs}
FillItems == {Must(Flush(Iso(d))) : d \in Dirs} \cup {Must(Add(Iso(d), r)) : d \in Dirs, r \in Isolating}
DrainItems == {Try(Unjump(c)) : c \in Chains} \cup {Try(Flush(c)) : c \in Chains}
              \cup {Try(Discard(c)) : c \in Chains}

IptItems ==
    CASE holder = "shutdown" -> DrainItems
      [] cmd.op = "isolate" -> EnsureItems \cup FlushItems \cup FillItems
      [] cmd.op \in {"unisolate", "undo"} -> FlushItems
      [] cmd.op = "block" -> EnsureItems \cup {Must(Add(Block(d), Drop(cmd.ip))) : d \in Dirs}
      [] cmd.op = "unblock" -> {Try(Cancel(Block(d), Drop(cmd.ip))) : d \in Dirs}

Items == IF holder = "free" THEN {} ELSE IF Nft THEN NftItems ELSE IptItems

\* A command is still to come; each x comes after an s.
Left(q, s) == \E i \in DOMAIN q : q[i].step = s
Before(q, s, x) == \A j \in DOMAIN q : q[j].step = x => \E i \in 1..(j - 1) : q[i].step = s

\* The order of the commands in the scripts of the commands.
Rank(x) ==
    CASE x.step.do = "flush" -> IF x.must THEN 3 ELSE 0
      [] x.step.do = "delete table" -> 0
      [] x.step.do = "new chain" -> 1
      [] x.step.do = "jump" -> 2
      [] OTHER -> 4

InOrder(q) == \A i, j \in DOMAIN q : i < j => Rank(q[i]) <= Rank(q[j])

\* A firewall command has not failed by itself since it would matter.
Working == ~slip \/ faults = 0

-----------------------------------------------------------------------------
(* The invariant.                                                          *)

Doing(ops) == holder = "task" /\ cmd.op \in ops

Types ==
    /\ TypeOK /\ Filter(fw) /\ (Nft => OneTable(fw))
    /\ script \in Seq(Items) /\ (holder = "task" => InOrder(script))
    /\ phase = "stopping" <=> holder = "shutdown"
    /\ holder # "task" <=> cmd.op = "none"
    /\ phase = "down" => AllIdle /\ ~isolated /\ blocked = {} /\ ver = "idle" /\ status = "none"
    /\ Doing({"block", "unblock"}) =>
         cmd.ip \in touched /\ (Nft /\ cmd.op = "unblock" => Mentions[cmd.ip] \subseteq touched \cap wiped)
    /\ Nft /\ Doing({"isolate", "unisolate", "undo"}) => wiped = Named
    /\ ~Nft => wiped = {} /\ (Doing({"unblock"}) => ~failed)

\* A verification has the parameters of an isolation, or was overtaken; between
\* the two clears of a de-isolation an isolation is on record only if one was.
Recorded ==
    /\ RecordLives
    /\ ver \notin {"idle", "params"} => params \/ overtaken
    /\ Forgetting /\ status \in Active => overtaken

Armed(f, d) == Iso(d) \in Present(f) /\ Contains(f.chains[Iso(d)], Drop(All))
Cut(f, d) == Armed(f, d) /\ Visited(f, Iso(d))

CutOff(f) == \A d \in Dirs : Cut(f, d)
Open(f) == \A d \in Dirs : ~Armed(f, d)
Joint(f) == \A c \in Chains : Visited(f, c)

\* Between the commands that change it, the isolated flag is true.
Settled == IF isolated THEN CutOff(fw) /\ (~Nft => Joint(fw)) ELSE Open(fw)

\* iptables: ensure_chains will have made and joined every chain.
Ensuring(f, q) ==
    \A c \in Chains : /\ c \in Present(f) \/ Left(q, Make(c))
                      /\ Visited(f, c) \/ Left(q, Jump(c))

\* The rules of an isolation will be there.
NftApplying(f, q, rules) ==
    LET load == Must(Load("isolation", rules))
    IN \/ q = <<>> /\ CutOff(f)
       \/ q = <<load>> /\ f = NoRules
       \/ q = <<Try(Delete), load>>
       \/ q = <<Try(Delete), Try(Delete), load>>
IptApplying(f, q) ==
    \A d \in Dirs :
        /\ Left(q, Add(Iso(d), Drop(All))) \/ Armed(f, d)
        /\ Left(q, Flush(Iso(d))) => Left(q, Add(Iso(d), Drop(All)))

\* They will be gone.
NftRemoving(f, q) == (q = <<>> /\ Open(f)) \/ (q = <<Must(Delete)>> /\ f # NoRules)
IptRemoving(f, q) == \A d \in Dirs : Armed(f, d) => Left(q, Flush(Iso(d)))

Applying ==
    IF Nft THEN NftApplying(fw, script, IsolationRules(cmd.allowed)) ELSE IptApplying(fw, script)
Removing == IF Nft THEN NftRemoving(fw, script) ELSE IptRemoving(fw, script)

Flag ==
    /\ Doing({"isolate"}) /\ ~slip => ~failed /\ Applying
    /\ phase = "up" /\ ~slip =>
         /\ holder = "free" \/ Doing({"block", "unblock"}) => Settled
         /\ Doing({"unisolate", "undo"}) => ~failed /\ Removing
    /\ phase = "down" /\ ~slip => fw = NoRules

\* Nobody has still to find out whether the server answers.
Untested == \A k \in Callers : stage[k] \notin {"test", "undo"}

Managed ==
    phase = "up" /\ ~slip /\ isolated /\ Server \notin touched /\ Untested
    /\ (holder # "task" \/ Doing({"block", "unblock"}))
    => Reachable(fw, Server)

\* The rules of one chain drop an address.
Bars(rules, ip) ==
    \E i \in DOMAIN rules :
        rules[i] = Drop(ip) /\ \A j \in 1..(i - 1) : rules[j].drop \/ rules[j].to = Nobody
Shut(f, c, ip) == c \in Present(f) /\ Visited(f, c) /\ Bars(f.chains[c], ip)

Blocked(ip, d) == IF Nft THEN \E k \in Kinds : Shut(fw, <<k, d>>, ip) ELSE Shut(fw, Block(d), ip)

NftBlocking(f, q, ip, d) ==
    \/ Left(q, Insert(d, Drop(ip))) \/ Left(q, Load("block", <<Drop(ip)>>))
    \/ \E k \in Kinds : Shut(f, <<k, d>>, ip)
IptBlocking(f, q, ip, d) ==
    \/ Left(q, Add(Block(d), Drop(ip)))
    \/ Block(d) \in Present(f) /\ Contains(f.chains[Block(d)], Drop(ip))

Blocks ==
    /\ phase = "up" /\ faults = 0 =>
         \A ip \in blocked \ wiped : \A d \in Dirs :
            Blocked(ip, d) \/ (Doing({"unblock"}) /\ cmd.ip = ip)
    /\ Doing({"block"}) /\ faults = 0 /\ ~failed =>
         \A d \in Dirs : IF Nft THEN NftBlocking(fw, script, cmd.ip, d)
                                ELSE IptBlocking(fw, script, cmd.ip, d)

\* iptables: the block chain comes first.
BlockFirst(f, q) ==
    \A d \in Dirs :
      /\ f.hooks[d] \in { <<>>, <<"isolation">>, <<"block", "isolation">> }
      /\ f.hooks[d] = <<"isolation">> => Left(q, Jump(Block(d)))
      /\ f.hooks[d] = <<>> => Before(q, Jump(Iso(d)), Jump(Block(d)))

\* The clean-up will have removed everything.
Unjumping(q) == \A i, j \in DOMAIN q : i < j /\ q[j].step.do = "unjump" => q[i].step.do = "unjump"
IptDraining(f, q) ==
    /\ Unjumping(q)
    /\ \A c \in Chains :
         /\ Visited(f, c) => Left(q, Unjump(c))
         /\ c \in Present(f) => Left(q, Discard(c))
         /\ (c \in Present(f) => f.chains[c] = <<>>) \/ Before(q, Flush(c), Discard(c))
Draining == IF Nft THEN fw = NoRules \/ Left(script, Delete) ELSE IptDraining(fw, script)

Drained ==
    /\ holder = "shutdown" /\ faults = 0 => ~slip
    /\ holder = "shutdown" /\ ~slip => Draining
    /\ phase = "cleaned" /\ ~slip /\ ~late =>
         fw = NoRules /\ (holder = "task" => cmd.op = "undo")

Joined ==
    /\ ~Nft /\ Doing({"isolate", "block"}) /\ Working => Ensuring(fw, script)
    /\ ~Nft /\ faults = 0 /\ crashes = 0 /\ holder # "shutdown" => BlockFirst(fw, script)

IInv == Types /\ Recorded /\ Flag /\ Managed /\ Blocks /\ Joined /\ Drained

-----------------------------------------------------------------------------
(* The packet filter.                                                      *)

LEMMA ChainFacts ==
  /\ Chains = {Iso("in"), Iso("out"), Block("in"), Block("out")}
  /\ \A c \in Chains : c[1] \in Kinds /\ c[2] \in Dirs /\ c = <<c[1], c[2]>>
  /\ \A k \in Kinds, d \in Dirs : <<k, d>> \in Chains /\ <<k, d>>[1] = k /\ <<k, d>>[2] = d
BY DEF Chains, Kinds, Dirs, Iso, Block

LEMMA OrderFacts ==
  /\ Range(<<>>) = {} /\ (\A k : Range(<<k>>) = {k}) /\ (\A k, m : Range(<<k, m>>) = {k, m})
  /\ \A o \in Orders : o \in Seq(Kinds) /\ Range(o) \subseteq Kinds
<1>1. Range(<<>>) = {}
  BY DEF Range
<1>2. \A k : Range(<<k>>) = {k}
  BY DEF Range
<1>3. \A k, m : Range(<<k, m>>) = {k, m}
  BY DEF Range
<1>4. \A o \in Orders : o \in Seq(Kinds)
  <2>1. \A k, m \in Kinds : <<>> \in Seq(Kinds) /\ <<k>> \in Seq(Kinds) /\ <<k, m>> \in Seq(Kinds)
    OBVIOUS
  <2>2. "isolation" \in Kinds /\ "block" \in Kinds
    BY DEF Kinds
  <2> QED BY <2>1, <2>2 DEF Orders
<1>5. \A o \in Orders : Range(o) \subseteq Kinds
  BY <1>1, <1>2, <1>3 DEF Orders, Kinds
<1> QED BY <1>1, <1>2, <1>3, <1>4, <1>5

LEMMA NoRulesFacts ==
  /\ Filter(NoRules) /\ OneTable(NoRules) /\ Present(NoRules) = {}
  /\ \A d \in Dirs : NoRules.hooks[d] = <<>>
  /\ \A c \in Chains : ~Visited(NoRules, c)
<1>1. NoRules.chains = <<>> /\ DOMAIN NoRules.chains = {} /\ NoRules.hooks = [d \in Dirs |-> <<>>]
      /\ NoRules = [chains |-> NoRules.chains, hooks |-> NoRules.hooks]
  BY DEF NoRules
<1>2. <<>> = [c \in {} |-> NoRules.chains[c]]
  OBVIOUS
<1>3. Filter(NoRules)
  BY <1>1, <1>2, OrderFacts DEF Filter, Present, Orders
<1>4. \A c \in Chains : ~Visited(NoRules, c)
  BY <1>1, ChainFacts, OrderFacts DEF Visited
<1> QED BY <1>1, <1>3, <1>4 DEF OneTable, Present

\* A filter is NoRules when it has no chains.
LEMMA EmptyFilter ==
  ASSUME NEW f, Filter(f), Present(f) = {} PROVE f = NoRules
<1>1. f.chains = <<>>
  BY DEF Filter
<1>2. \A d \in Dirs : f.hooks[d] = <<>>
  <2> SUFFICES ASSUME NEW d \in Dirs PROVE f.hooks[d] = <<>>
    OBVIOUS
  <2>1. Range(f.hooks[d]) = {} /\ f.hooks[d] \in Orders
    BY DEF Filter
  <2> QED BY <2>1, OrderFacts DEF Orders
<1>3. f.hooks = [d \in Dirs |-> <<>>]
  BY <1>2 DEF Filter
<1> QED BY <1>1, <1>3 DEF Filter, NoRules

LEMMA SetChainFacts ==
  ASSUME NEW f, Filter(f), NEW c \in Chains, NEW rules \in Seq(RulesOf(c))
  PROVE  LET g == SetChain(f, c, rules) IN
         /\ Filter(g) /\ Present(g) = Present(f) \cup {c} /\ g.hooks = f.hooks
         /\ g.chains[c] = rules /\ \A x \in Present(f) : x # c => g.chains[x] = f.chains[x]
<1> DEFINE D == Present(f) \cup {c}
           m == [x \in D |-> IF x = c THEN rules ELSE f.chains[x]]
           g == [f EXCEPT !.chains = m]
<1>1. SetChain(f, c, rules) = g
  BY DEF SetChain
<1>2. DOMAIN m = D /\ m[c] = rules /\ \A x \in Present(f) : x # c => m[x] = f.chains[x]
  OBVIOUS
<1>3. m = [x \in D |-> m[x]]
  OBVIOUS
<1> HIDE DEF m
<1>4. g.chains = m /\ g.hooks = f.hooks /\ g = [chains |-> g.chains, hooks |-> g.hooks]
  BY DEF Filter
<1> HIDE DEF g, D
<1>5. Present(g) = D
  BY <1>2, <1>4 DEF Present
<1>6. D = Present(f) \cup {c}
  BY DEF D
<1>7. Filter(g)
  <2>1. \A x \in D : m[x] \in Seq(RulesOf(x))
    BY <1>2, <1>6 DEF Filter
  <2> QED BY <1>3, <1>4, <1>5, <1>6, <2>1 DEF Filter
<1> QED BY <1>1, <1>2, <1>4, <1>5, <1>6, <1>7

LEMMA SetHookFacts ==
  ASSUME NEW f, Filter(f), NEW d \in Dirs, NEW kinds \in Orders,
         \A k \in Range(kinds) : <<k, d>> \in Present(f)
  PROVE  LET g == SetHook(f, d, kinds) IN
         /\ Filter(g) /\ g.chains = f.chains /\ Present(g) = Present(f)
         /\ g.hooks[d] = kinds /\ \A e \in Dirs : e # d => g.hooks[e] = f.hooks[e]
<1> DEFINE h == [f.hooks EXCEPT ![d] = kinds]
           g == [f EXCEPT !.hooks = h]
<1>1. SetHook(f, d, kinds) = g
  BY DEF SetHook
<1>2. h \in [Dirs -> Orders] /\ h[d] = kinds /\ \A e \in Dirs : e # d => h[e] = f.hooks[e]
  BY DEF Filter
<1> HIDE DEF h
<1>3. g.chains = f.chains /\ g.hooks = h /\ g = [chains |-> g.chains, hooks |-> g.hooks]
  BY DEF Filter
<1> HIDE DEF g
<1>4. Present(g) = Present(f)
  BY <1>3 DEF Present
<1>5. Filter(g)
  BY <1>2, <1>3, <1>4 DEF Filter
<1> QED BY <1>1, <1>2, <1>3, <1>4, <1>5

-----------------------------------------------------------------------------
(* Sequences.                                                              *)

\* Every non-empty set of numbers has a least one.
LEMMA Least ==
  ASSUME NEW T \in SUBSET Nat, T # {} PROVE \E x \in T : \A y \in T : x <= y
<1> DEFINE R == OpToRel(<, Nat)
<1>1. IsWellFoundedOn(R, Nat)
  BY NatLessThanWellFounded
<1>2. \A x, y \in Nat : <<x, y>> \in R <=> x < y
  BY DEF OpToRel
<1> HIDE DEF R
<1>3. PICK x \in T : \A y \in T : ~(<<y, x>> \in R)
  BY <1>1, WFMin
<1>4. ASSUME NEW y \in T PROVE x <= y
  <2>1. x \in Nat /\ y \in Nat /\ ~(<<y, x>> \in R)
    BY <1>3
  <2>2. ~(y < x)
    BY <1>2, <2>1
  <2> QED BY <2>1, <2>2
<1> QED BY <1>4

\* RemoveFirst removes one occurrence.
LEMMA RemoveFirstFacts ==
  ASSUME NEW S, NEW s \in Seq(S), NEW e, Contains(s, e)
  PROVE  \E i \in 1..Len(s) :
            /\ s[i] = e /\ RemoveFirst(s, e) \in Seq(S) /\ Len(RemoveFirst(s, e)) = Len(s) - 1
            /\ \A j \in 1..(Len(s) - 1) :
                 RemoveFirst(s, e)[j] = IF j < i THEN s[j] ELSE s[j + 1]
<1> DEFINE I == {i \in 1..Len(s) : s[i] = e}
<1>1. I # {} /\ I \in SUBSET Nat
  BY DEF Contains
<1>2. Min(I) \in I
  BY <1>1, Least DEF Min
<1>3. PICK i \in 1..Len(s) : s[i] = e /\ RemoveFirst(s, e) = RemoveAt(s, i)
  BY <1>1, <1>2 DEF RemoveFirst, SelectInSeq
<1> DEFINE a == SubSeq(s, 1, i - 1)
           b == SubSeq(s, i + 1, Len(s))
<1>4. a \in Seq(S) /\ Len(a) = i - 1 /\ \A j \in 1..(i - 1) : a[j] = s[j]
  OBVIOUS
<1>5. b \in Seq(S) /\ Len(b) = Len(s) - i /\ \A j \in 1..(Len(s) - i) : b[j] = s[i + j]
  OBVIOUS
<1>6. RemoveFirst(s, e) = a \o b
  BY <1>3 DEF RemoveAt
<1> HIDE DEF a, b
<1>7. a \o b \in Seq(S) /\ Len(a \o b) = Len(s) - 1
      /\ \A j \in 1..(Len(s) - 1) : (a \o b)[j] = IF j < i THEN a[j] ELSE b[j - (i - 1)]
  <2>1. /\ a \o b \in Seq(S) /\ Len(a \o b) = Len(a) + Len(b)
        /\ \A j \in 1..(Len(a) + Len(b)) : (a \o b)[j] = IF j <= Len(a) THEN a[j] ELSE b[j - Len(a)]
    BY <1>4, <1>5, ConcatProperties
  <2>2. Len(a) + Len(b) = Len(s) - 1 /\ i \in Nat /\ Len(s) \in Nat /\ Len(a) = i - 1
    BY <1>4, <1>5
  <2>3. \A j \in 1..(Len(s) - 1) : j <= Len(a) <=> j < i
    BY <2>2
  <2> HIDE DEF a, b
  <2> QED BY <2>1, <2>2, <2>3
<1>8. \A j \in 1..(Len(s) - 1) : (a \o b)[j] = IF j < i THEN s[j] ELSE s[j + 1]
  <2> SUFFICES ASSUME NEW j \in 1..(Len(s) - 1) PROVE (a \o b)[j] = IF j < i THEN s[j] ELSE s[j + 1]
    OBVIOUS
  <2>1. CASE j < i
    BY <1>4, <1>7, <2>1
  <2>2. CASE ~(j < i)
    <3>1. j - (i - 1) \in 1..(Len(s) - i) /\ i + (j - (i - 1)) = j + 1
      BY <2>2
    <3> QED BY <1>5, <1>7, <2>2, <3>1
  <2> QED BY <2>1, <2>2
<1> QED BY <1>3, <1>6, <1>7, <1>8

LEMMA RankFacts == \A x : Rank(x) \in 0..4
BY DEF Rank

\* What executing the first command does to the rest of the script.
LEMMA TailFacts ==
  ASSUME NEW S, NEW q \in Seq(S), q # <<>>
  PROVE  /\ Head(q) = q[1] /\ q[1] \in S /\ Tail(q) \in Seq(S) /\ 1 \in DOMAIN q
         /\ \A s : Left(Tail(q), s) => Left(q, s)
         /\ \A s : Left(q, s) => q[1].step = s \/ Left(Tail(q), s)
         /\ InOrder(q) => InOrder(Tail(q)) /\ \A i \in DOMAIN q : Rank(q[1]) <= Rank(q[i])
         /\ \A s, x : Before(q, s, x) => q[1].step # x /\ (q[1].step = s \/ Before(Tail(q), s, x))
         /\ Unjumping(q) => Unjumping(Tail(q))
<1> DEFINE t == Tail(q)
<1>1. t \in Seq(S) /\ Len(t) = Len(q) - 1 /\ Len(q) \in Nat \ {0} /\ DOMAIN q = 1..Len(q)
      /\ DOMAIN t = 1..(Len(q) - 1) /\ \A i \in 1..(Len(q) - 1) : t[i] = q[i + 1]
  OBVIOUS
<1>2. Head(q) = q[1] /\ q[1] \in S
  OBVIOUS
<1> HIDE DEF t
<1>3. \A i \in DOMAIN t : i + 1 \in DOMAIN q /\ t[i] = q[i + 1]
  BY <1>1
<1>4. \A i \in DOMAIN q : i = 1 \/ (i - 1 \in DOMAIN t /\ t[i - 1] = q[i])
  BY <1>1
<1>5. \A s : Left(t, s) => Left(q, s)
  BY <1>3 DEF Left
<1>6. \A s : Left(q, s) => q[1].step = s \/ Left(t, s)
  BY <1>4 DEF Left
<1>7. ASSUME InOrder(q) PROVE InOrder(t) /\ \A i \in DOMAIN q : Rank(q[1]) <= Rank(q[i])
  <2>1. InOrder(t)
    <3> SUFFICES ASSUME NEW i \in DOMAIN t, NEW j \in DOMAIN t, i < j
                 PROVE  Rank(t[i]) <= Rank(t[j])
      BY DEF InOrder
    <3>1. i + 1 < j + 1
      BY <1>1
    <3> QED BY <1>3, <1>7, <3>1 DEF InOrder
  <2>2. ASSUME NEW i \in DOMAIN q PROVE Rank(q[1]) <= Rank(q[i])
    <3>1. CASE i = 1
      BY <3>1, RankFacts
    <3>2. CASE 1 < i
      BY <3>2, <1>1, <1>7 DEF InOrder
    <3> QED BY <3>1, <3>2, <1>1
  <2> QED BY <2>1, <2>2
<1>8. ASSUME NEW s, NEW x, Before(q, s, x)
      PROVE  q[1].step # x /\ (q[1].step = s \/ Before(t, s, x))
  <2>1. q[1].step # x
    BY <1>1, <1>8 DEF Before
  <2>2. ASSUME q[1].step # s PROVE Before(t, s, x)
    <3> SUFFICES ASSUME NEW j \in DOMAIN t, t[j].step = x PROVE \E i \in 1..(j - 1) : t[i].step = s
      BY DEF Before
    <3>1. PICK i \in 1..j : q[i].step = s
      <4>1. j + 1 \in DOMAIN q /\ q[j + 1].step = x /\ (j + 1) - 1 = j
        BY <1>1, <1>3
      <4> QED BY <4>1, <1>8 DEF Before
    <3>2. i # 1 /\ i - 1 \in 1..(j - 1) /\ i \in DOMAIN q
      BY <1>1, <2>2, <3>1
    <3> QED BY <1>4, <3>1, <3>2
  <2> QED BY <2>1, <2>2
<1>9. ASSUME Unjumping(q) PROVE Unjumping(t)
  <2> SUFFICES ASSUME NEW i \in DOMAIN t, NEW j \in DOMAIN t, i < j, t[j].step.do = "unjump"
               PROVE  t[i].step.do = "unjump"
    BY DEF Unjumping
  <2>1. i + 1 < j + 1
    BY <1>1
  <2> QED BY <1>3, <1>9, <2>1 DEF Unjumping
<1> QED BY <1>1, <1>2, <1>5, <1>6, <1>7, <1>8, <1>9 DEF t

\* The commands of a script are in order, with ranks from a to b.
Ranked(q, a, b) ==
    InOrder(q) /\ \A i \in DOMAIN q : a <= Rank(q[i]) /\ Rank(q[i]) <= b

LEMMA ConcatFacts ==
  ASSUME NEW S, NEW q \in Seq(S), NEW r \in Seq(S)
  PROVE  /\ q \o r \in Seq(S)
         /\ \A s : Left(q \o r, s) <=> Left(q, s) \/ Left(r, s)
         /\ \A s, x : Before(q, s, x) /\ Before(r, s, x) => Before(q \o r, s, x)
         /\ \A a, b, c \in 0..4 :
              Ranked(q, a, b) /\ Ranked(r, b, c) /\ a <= b /\ b <= c => Ranked(q \o r, a, c)
         /\ Unjumping(q) /\ (\A i \in DOMAIN q : q[i].step.do = "unjump")
            /\ (\A i \in DOMAIN r : r[i].step.do # "unjump") => Unjumping(q \o r)
<1> DEFINE t == q \o r
<1>1. t \in Seq(S) /\ DOMAIN q = 1..Len(q) /\ DOMAIN r = 1..Len(r) /\ DOMAIN t = 1..(Len(q) + Len(r))
      /\ Len(q) \in Nat /\ Len(r) \in Nat
      /\ \A i \in 1..(Len(q) + Len(r)) : t[i] = IF i <= Len(q) THEN q[i] ELSE r[i - Len(q)]
  OBVIOUS
<1> HIDE DEF t
<1>2. \A i \in DOMAIN q : i \in DOMAIN t /\ t[i] = q[i]
  BY <1>1
<1>3. \A i \in DOMAIN r : Len(q) + i \in DOMAIN t /\ t[Len(q) + i] = r[i]
  <2> SUFFICES ASSUME NEW i \in DOMAIN r PROVE Len(q) + i \in DOMAIN t /\ t[Len(q) + i] = r[i]
    OBVIOUS
  <2>1. Len(q) + i \in 1..(Len(q) + Len(r)) /\ ~(Len(q) + i <= Len(q)) /\ (Len(q) + i) - Len(q) = i
    BY <1>1
  <2> QED BY <1>1, <2>1
<1>4. \A i \in DOMAIN t : \/ i \in DOMAIN q /\ t[i] = q[i]
                          \/ i > Len(q) /\ i - Len(q) \in DOMAIN r /\ t[i] = r[i - Len(q)]
  BY <1>1
<1>5. \A s : Left(t, s) <=> Left(q, s) \/ Left(r, s)
  BY <1>2, <1>3, <1>4 DEF Left
<1>6. ASSUME NEW s, NEW x, Before(q, s, x), Before(r, s, x) PROVE Before(t, s, x)
  <2> SUFFICES ASSUME NEW j \in DOMAIN t, t[j].step = x PROVE \E i \in 1..(j - 1) : t[i].step = s
    BY DEF Before
  <2>1. CASE j \in DOMAIN q /\ t[j] = q[j]
    <3>1. PICK i \in 1..(j - 1) : q[i].step = s
      BY <1>6, <2>1 DEF Before
    <3>2. i \in DOMAIN q
      BY <1>1, <2>1
    <3> QED BY <1>2, <3>1, <3>2
  <2>2. CASE j > Len(q) /\ j - Len(q) \in DOMAIN r /\ t[j] = r[j - Len(q)]
    <3>1. PICK i \in 1..((j - Len(q)) - 1) : r[i].step = s
      BY <1>6, <2>2 DEF Before
    <3>2. i \in DOMAIN r /\ Len(q) + i \in 1..(j - 1)
      BY <1>1, <2>2
    <3> QED BY <1>3, <3>1, <3>2
  <2> QED BY <1>4, <2>1, <2>2
<1>7. ASSUME NEW a \in 0..4, NEW b \in 0..4, NEW c \in 0..4,
             Ranked(q, a, b), Ranked(r, b, c), a <= b, b <= c
      PROVE  Ranked(t, a, c)
  <2>1. ASSUME NEW i \in DOMAIN t PROVE a <= Rank(t[i]) /\ Rank(t[i]) <= c
    BY SMTT(60), <1>4, <1>7, RankFacts DEF Ranked
  <2>2. ASSUME NEW i \in DOMAIN t, NEW j \in DOMAIN t, i < j PROVE Rank(t[i]) <= Rank(t[j])
    <3>1. CASE j \in DOMAIN q
      <4>1. i \in DOMAIN q
        BY <1>1, <2>2, <3>1
      <4> QED BY <1>2, <1>7, <2>2, <3>1, <4>1 DEF Ranked, InOrder
    <3>2. CASE i \in DOMAIN q /\ j \notin DOMAIN q
      <4>1. t[i] = q[i] /\ j - Len(q) \in DOMAIN r /\ t[j] = r[j - Len(q)]
        BY <1>2, <1>4, <3>2
      <4>2. Rank(q[i]) <= b /\ b <= Rank(r[j - Len(q)])
        BY <1>7, <3>2, <4>1 DEF Ranked
      <4> QED BY <4>1, <4>2, RankFacts
    <3>3. CASE i \notin DOMAIN q /\ j \notin DOMAIN q
      <4>1. i - Len(q) \in DOMAIN r /\ t[i] = r[i - Len(q)] /\ j - Len(q) \in DOMAIN r
            /\ t[j] = r[j - Len(q)] /\ i - Len(q) < j - Len(q)
        BY <1>1, <1>4, <2>2, <3>3
      <4> QED BY <1>7, <4>1 DEF Ranked, InOrder
    <3> QED BY <3>1, <3>2, <3>3
  <2> QED BY <2>1, <2>2 DEF Ranked, InOrder
<1>8. ASSUME Unjumping(q), \A i \in DOMAIN q : q[i].step.do = "unjump",
             \A i \in DOMAIN r : r[i].step.do # "unjump"
      PROVE  Unjumping(t)
  <2> SUFFICES ASSUME NEW i \in DOMAIN t, NEW j \in DOMAIN t, i < j, t[j].step.do = "unjump"
               PROVE  t[i].step.do = "unjump"
    BY DEF Unjumping
  <2>1. j \in DOMAIN q
    BY <1>4, <1>8
  <2>2. i \in DOMAIN q
    BY <1>1, <2>1
  <2> QED BY <1>2, <1>8, <2>2
<1> QED BY <1>1, <1>5, <1>6, <1>7, <1>8 DEF t

\* Scripts of up to four commands, written out.
LEMMA ShortFacts ==
  ASSUME NEW q, NEW n \in Nat, DOMAIN q = 1..n
  PROVE  /\ \A s : Left(q, s) <=> \E i \in 1..n : q[i].step = s
         /\ (\A i \in 1..n : q[i].step.do # "unjump") \/ (\A i \in 1..n : q[i].step.do = "unjump")
              => Unjumping(q)
         /\ \A k \in 0..4 : (\A i \in 1..n : Rank(q[i]) = k) => Ranked(q, k, k)
         /\ \A s, x : (\A i \in 1..n : q[i].step # x) => Before(q, s, x)
<1>1. \A s : Left(q, s) <=> \E i \in 1..n : q[i].step = s
  BY DEF Left
<1>2. (\A i \in 1..n : q[i].step.do # "unjump") \/ (\A i \in 1..n : q[i].step.do = "unjump")
        => Unjumping(q)
  BY DEF Unjumping
<1>3. \A k \in 0..4 : (\A i \in 1..n : Rank(q[i]) = k) => Ranked(q, k, k)
  BY DEF Ranked, InOrder
<1>4. \A s, x : (\A i \in 1..n : q[i].step # x) => Before(q, s, x)
  BY DEF Before
<1> QED BY <1>1, <1>2, <1>3, <1>4

-----------------------------------------------------------------------------
(* The commands.                                                           *)

LEMMA DeleteCommand ==
  ASSUME NEW f
  PROVE  (Possible(f, Delete) <=> Present(f) # {}) /\ Effect(f, Delete) = NoRules
BY DEF Possible, Effect, Delete

LEMMA ListCommand ==
  ASSUME NEW f PROVE (Possible(f, List) <=> Present(f) # {}) /\ Effect(f, List) = f
BY DEF Possible, Effect, List

LEMMA LoadCommand ==
  ASSUME NEW f, NEW k, NEW rules
  PROVE  /\ Possible(f, Load(k, rules)) <=> Present(f) \subseteq {k} \X Dirs
         /\ Effect(f, Load(k, rules)) = Loaded(f, k, rules)
BY DEF Possible, Effect, Load

LEMMA InsertCommand ==
  ASSUME NEW f, NEW d, NEW r
  PROVE  /\ Possible(f, Insert(d, r)) <=> Present(f) # {}
         /\ Effect(f, Insert(d, r)) =
              SetChain(f, <<TableKind(f), d>>, <<r>> \o f.chains[<<TableKind(f), d>>])
BY DEF Possible, Effect, Insert

LEMMA PurgeCommand ==
  ASSUME NEW f, NEW d, NEW ip
  PROVE  /\ Possible(f, Purge(d, ip)) <=> Present(f) # {}
         /\ Effect(f, Purge(d, ip)) =
              SetChain(f, <<TableKind(f), d>>, Purged(f.chains[<<TableKind(f), d>>], ip))
BY DEF Possible, Effect, Purge

LEMMA MakeCommand ==
  ASSUME NEW f, NEW c
  PROVE  (Possible(f, Make(c)) <=> c \notin Present(f)) /\ Effect(f, Make(c)) = SetChain(f, c, <<>>)
BY DEF Possible, Effect, Make

LEMMA FlushCommand ==
  ASSUME NEW f, NEW c
  PROVE  (Possible(f, Flush(c)) <=> c \in Present(f)) /\ Effect(f, Flush(c)) = SetChain(f, c, <<>>)
BY DEF Possible, Effect, Flush

LEMMA JumpCommand ==
  ASSUME NEW f, NEW c
  PROVE  /\ Possible(f, Jump(c)) <=> c \in Present(f)
         /\ Effect(f, Jump(c)) = IF Visited(f, c) THEN f
                                 ELSE SetHook(f, c[2], <<c[1]>> \o f.hooks[c[2]])
BY DEF Possible, Effect, Jump

LEMMA UnjumpCommand ==
  ASSUME NEW f, NEW c
  PROVE  /\ Possible(f, Unjump(c)) <=> Visited(f, c)
         /\ Effect(f, Unjump(c)) = SetHook(f, c[2], RemoveFirst(f.hooks[c[2]], c[1]))
BY DEF Possible, Effect, Unjump

LEMMA DiscardPossible ==
  ASSUME NEW f, NEW c
  PROVE  Possible(f, Discard(c)) <=> c \in Present(f) /\ ~Visited(f, c) /\ f.chains[c] = <<>>
BY DEF Possible, Discard

LEMMA DiscardCommand ==
  ASSUME NEW f, NEW c
  PROVE  Effect(f, Discard(c)) = [f EXCEPT !.chains = [x \in Present(f) \ {c} |-> f.chains[x]]]
BY DEF Effect, Discard

LEMMA AddCommand ==
  ASSUME NEW f, NEW c, NEW r
  PROVE  /\ Possible(f, Add(c, r)) <=> c \in Present(f)
         /\ Effect(f, Add(c, r)) = SetChain(f, c, Append(f.chains[c], r))
BY DEF Possible, Effect, Add

LEMMA CancelCommand ==
  ASSUME NEW f, NEW c, NEW r
  PROVE  /\ Possible(f, Cancel(c, r)) <=> c \in Present(f) /\ Contains(f.chains[c], r)
         /\ Effect(f, Cancel(c, r)) = SetChain(f, c, RemoveFirst(f.chains[c], r))
BY DEF Possible, Effect, Cancel

-----------------------------------------------------------------------------
(* The rules of one chain.                                                 *)

LEMMA FirstHit ==
  ASSUME NEW S, NEW rules \in Seq(S), NEW A, NEW i \in DOMAIN rules, rules[i].to \in A
  PROVE  \E k \in DOMAIN rules :
            k <= i /\ rules[k].to \in A /\ \A j \in 1..(k - 1) : rules[j].to \notin A
<1> DEFINE T == {k \in 1..Len(rules) : rules[k].to \in A}
<1>1. T \in SUBSET Nat /\ i \in T
  OBVIOUS
<1>2. PICK k \in T : \A y \in T : k <= y
  BY <1>1, Least
<1>3. ASSUME NEW j \in 1..(k - 1), rules[j].to \in A PROVE FALSE
  <2>1. j \in T
    BY <1>2, <1>3
  <2> QED BY <1>2, <2>1
<1> QED BY <1>1, <1>2, <1>3

\* Two chains decide alike about a set of addresses.
Alike(r, t, A) == (Drops(r, A) <=> Drops(t, A)) /\ (Silent(r, A) <=> Silent(t, A))

LEMMA InsertAlike ==
  ASSUME NEW S, NEW rules \in Seq(S), NEW r \in S, NEW A, r.to \notin A
  PROVE  Alike(<<r>> \o rules, rules, A)
<1> DEFINE t == <<r>> \o rules
           n == Len(rules)
<1>1. n \in Nat /\ DOMAIN rules = 1..n /\ DOMAIN t = 1..(n + 1) /\ t[1] = r
      /\ \A i \in 1..n : t[i + 1] = rules[i]
  OBVIOUS
<1> HIDE DEF t, n
<1>2. \A i \in DOMAIN t : i = 1 \/ (i - 1 \in 1..n /\ t[i] = rules[i - 1])
  BY <1>1
<1>3. Silent(rules, A) <=> Silent(t, A)
  <2>1. ASSUME Silent(rules, A), NEW i \in DOMAIN t PROVE t[i].to \notin A
    BY <1>1, <1>2, <2>1 DEF Silent
  <2>2. ASSUME Silent(t, A), NEW i \in DOMAIN rules PROVE rules[i].to \notin A
    <3>1. i + 1 \in DOMAIN t /\ t[i + 1] = rules[i]
      BY <1>1
    <3> QED BY <2>2, <3>1 DEF Silent
  <2> QED BY <2>1, <2>2 DEF Silent
<1>4. ASSUME Drops(rules, A) PROVE Drops(t, A)
  <2>1. PICK i \in 1..n : rules[i].to \in A /\ rules[i].drop /\ \A j \in 1..(i - 1) : rules[j].to \notin A
    BY <1>1, <1>4 DEF Drops
  <2>2. ASSUME NEW j \in 1..i PROVE t[j].to \notin A
    <3>1. j = 1 \/ (j - 1 \in 1..(i - 1) /\ t[j] = rules[j - 1])
      BY <1>1, <1>2, <2>1
    <3> QED BY <1>1, <2>1, <3>1
  <2>3. i + 1 \in DOMAIN t /\ (i + 1) - 1 = i /\ t[i + 1] = rules[i]
    BY <1>1
  <2> QED BY <2>1, <2>2, <2>3 DEF Drops
<1>5. ASSUME Drops(t, A) PROVE Drops(rules, A)
  <2>1. PICK i \in 1..(n + 1) : t[i].to \in A /\ t[i].drop /\ \A j \in 1..(i - 1) : t[j].to \notin A
    BY <1>1, <1>5 DEF Drops
  <2>2. i - 1 \in 1..n /\ t[i] = rules[i - 1]
    BY <1>1, <1>2, <2>1
  <2>3. ASSUME NEW j \in 1..((i - 1) - 1) PROVE rules[j].to \notin A
    <3>1. j + 1 \in 1..(i - 1) /\ j \in 1..n
      BY <1>1, <2>2
    <3> QED BY <1>1, <2>1, <3>1
  <2> QED BY <1>1, <2>1, <2>2, <2>3 DEF Drops
<1> QED BY <1>3, <1>4, <1>5 DEF Alike, t

LEMMA AppendAlike ==
  ASSUME NEW S, NEW rules \in Seq(S), NEW r \in S, NEW A, r.to \notin A
  PROVE  Alike(Append(rules, r), rules, A)
<1> DEFINE t == Append(rules, r)
           n == Len(rules)
<1>1. n \in Nat /\ DOMAIN rules = 1..n /\ DOMAIN t = 1..(n + 1) /\ t[n + 1] = r
      /\ \A i \in 1..n : t[i] = rules[i]
  OBVIOUS
<1> HIDE DEF t, n
<1>2. \A i \in DOMAIN t : i = n + 1 \/ (i \in 1..n /\ t[i] = rules[i])
  BY <1>1
<1>3. Silent(rules, A) <=> Silent(t, A)
  BY <1>1, <1>2 DEF Silent
<1>4. Drops(rules, A) <=> Drops(t, A)
  BY <1>1, <1>2 DEF Drops
<1> QED BY <1>3, <1>4 DEF Alike, t

LEMMA PurgedAlike ==
  ASSUME NEW S, NEW rules \in Seq(S), NEW ip, NEW A, A \cap Mentions[ip] = {}, Nobody \notin A
  PROVE  Alike(Purged(rules, ip), rules, A)
<1> DEFINE t == Purged(rules, ip)
<1>1. DOMAIN t = DOMAIN rules /\ DOMAIN rules = 1..Len(rules)
  BY DEF Purged
<1>2. \A i \in DOMAIN rules : /\ rules[i].to \in A <=> t[i].to \in A
                              /\ rules[i].to \in A => t[i] = rules[i]
  BY DEF Purged, Accept
<1> HIDE DEF t
<1>3. Silent(rules, A) <=> Silent(t, A)
  BY <1>1, <1>2 DEF Silent
<1>4. Drops(rules, A) <=> Drops(t, A)
  BY <1>1, <1>2 DEF Drops
<1> QED BY <1>3, <1>4 DEF Alike, t

LEMMA RemoveAlike ==
  ASSUME NEW S, NEW rules \in Seq(S), NEW r, Contains(rules, r), NEW A, r.to \notin A
  PROVE  Alike(RemoveFirst(rules, r), rules, A)
<1> DEFINE t == RemoveFirst(rules, r)
           n == Len(rules)
<1>1. PICK k \in 1..n : /\ rules[k] = r /\ t \in Seq(S) /\ Len(t) = n - 1
                        /\ \A j \in 1..(n - 1) : t[j] = IF j < k THEN rules[j] ELSE rules[j + 1]
  BY RemoveFirstFacts
<1>2. n \in Nat /\ DOMAIN rules = 1..n /\ DOMAIN t = 1..(n - 1)
  BY <1>1
<1> HIDE DEF t, n
<1>3. \A i \in 1..(n - 1) : IF i < k THEN t[i] = rules[i] /\ i \in 1..n
                                     ELSE t[i] = rules[i + 1] /\ i + 1 \in 1..n
  BY <1>1, <1>2
<1>4. \A i \in 1..n : \/ i = k \/ (i < k /\ i \in 1..(n - 1) /\ t[i] = rules[i])
                      \/ (i > k /\ i - 1 \in 1..(n - 1) /\ t[i - 1] = rules[i])
  <2> SUFFICES ASSUME NEW i \in 1..n, i > k PROVE i - 1 \in 1..(n - 1) /\ t[i - 1] = rules[i]
    BY <1>1, <1>2
  <2>1. i - 1 \in 1..(n - 1) /\ ~(i - 1 < k) /\ (i - 1) + 1 = i
    BY <1>1, <1>2
  <2> QED BY <1>1, <2>1
<1>5. Silent(rules, A) <=> Silent(t, A)
  BY <1>1, <1>2, <1>3, <1>4 DEF Silent
<1>6. ASSUME Drops(rules, A) PROVE Drops(t, A)
  <2>1. PICK i \in 1..n : rules[i].to \in A /\ rules[i].drop /\ \A j \in 1..(i - 1) : rules[j].to \notin A
    BY <1>2, <1>6 DEF Drops
  <2>2. i # k
    BY <1>1, <2>1
  <2>3. CASE i < k
    <3>1. i \in DOMAIN t /\ t[i] = rules[i] /\ \A j \in 1..(i - 1) : t[j] = rules[j]
      BY <1>2, <1>4, <2>3, <1>3
    <3> QED BY <2>1, <3>1 DEF Drops
  <2>4. CASE i > k
    <3>1. i - 1 \in DOMAIN t /\ t[i - 1] = rules[i]
      BY <1>2, <1>4, <2>4
    <3>2. ASSUME NEW j \in 1..((i - 1) - 1) PROVE t[j].to \notin A
      <4>1. j \in 1..(n - 1) /\ j \in 1..(i - 1) /\ j + 1 \in 1..(i - 1)
        BY <1>2
      <4> QED BY <1>3, <2>1, <4>1
    <3> QED BY <2>1, <3>1, <3>2 DEF Drops
  <2> QED BY <1>2, <2>2, <2>3, <2>4
<1>7. ASSUME Drops(t, A) PROVE Drops(rules, A)
  <2>1. PICK i \in 1..(n - 1) : t[i].to \in A /\ t[i].drop /\ \A j \in 1..(i - 1) : t[j].to \notin A
    BY <1>2, <1>7 DEF Drops
  <2>2. CASE i < k
    <3>1. i \in DOMAIN rules /\ t[i] = rules[i] /\ \A j \in 1..(i - 1) : t[j] = rules[j]
      BY <1>2, <1>3, <2>2
    <3> QED BY <2>1, <3>1 DEF Drops
  <2>3. CASE ~(i < k)
    <3>1. i + 1 \in DOMAIN rules /\ t[i] = rules[i + 1] /\ (i + 1) - 1 = i
      BY <1>2, <1>3, <2>3
    <3>2. ASSUME NEW j \in 1..i PROVE rules[j].to \notin A
      <4>1. j \in 1..n
        BY <1>2
      <4>2. j = k \/ (j < k /\ j \in 1..(i - 1) /\ t[j] = rules[j])
                  \/ (j > k /\ j - 1 \in 1..(i - 1) /\ t[j - 1] = rules[j])
        BY <1>2, <1>4, <2>3, <4>1
      <4> QED BY <1>1, <2>1, <4>2
    <3> QED BY <2>1, <3>1, <3>2 DEF Drops
  <2> QED BY <2>2, <2>3
<1> QED BY <1>5, <1>6, <1>7 DEF Alike, t

LEMMA RuleFacts ==
  /\ \A h : Drop(h).to = h /\ Drop(h).drop /\ Accept(h).to = h /\ ~Accept(h).drop
  /\ \A h, g : Drop(h) # Accept(g) /\ (Drop(h) = Drop(g) => h = g)
  /\ Blocking \subseteq Isolating /\ Accept(Nobody) \in Blocking /\ Drop(All) \in Isolating
  /\ (\A ip \in Named : Drop(ip) \in Blocking) /\ \A ip \in Named \cup {Dns} : Accept(ip) \in Isolating
  /\ \A r \in Isolating : r.to # World /\ (r.to = All => r = Drop(All))
  /\ \A r \in Blocking : r.to # All /\ (r.drop \/ r.to = Nobody)
  /\ \A c \in Chains : Blocking \subseteq RulesOf(c) /\ RulesOf(c) \subseteq Isolating
  /\ \A d \in Dirs : RulesOf(Iso(d)) = Isolating /\ RulesOf(Block(d)) = Blocking
<1>1. \A h : Drop(h).to = h /\ Drop(h).drop /\ Accept(h).to = h /\ ~Accept(h).drop
  BY DEF Drop, Accept
<1>2. \A h, g : Drop(h) # Accept(g) /\ (Drop(h) = Drop(g) => h = g)
  BY <1>1
<1>3. Blocking \subseteq Isolating /\ Accept(Nobody) \in Blocking /\ Drop(All) \in Isolating
  BY DEF Blocking, Isolating
<1>4. (\A ip \in Named : Drop(ip) \in Blocking) /\ \A ip \in Named \cup {Dns} : Accept(ip) \in Isolating
  BY DEF Blocking, Isolating
<1>5. \A r \in Blocking : r.to # All /\ r.to # World /\ (r.drop \/ r.to = Nobody)
  <2> SUFFICES ASSUME NEW r \in Blocking PROVE r.to # All /\ r.to # World /\ (r.drop \/ r.to = Nobody)
    OBVIOUS
  <2>1. r = Accept(Nobody) \/ \E h \in Named : r = Drop(h)
    BY DEF Blocking
  <2> QED BY <1>1, <2>1, HostsAssumption DEF Named
<1>6. \A r \in Isolating : r.to # World /\ (r.to = All => r = Drop(All))
  <2> SUFFICES ASSUME NEW r \in Isolating PROVE r.to # World /\ (r.to = All => r = Drop(All))
    OBVIOUS
  <2>1. r \in Blocking \/ r = Drop(All) \/ \E h \in Named \cup {Dns} : r = Accept(h)
    BY DEF Isolating
  <2> QED BY <1>1, <1>5, <2>1, HostsAssumption DEF Named
<1>7. \A c \in Chains : Blocking \subseteq RulesOf(c) /\ RulesOf(c) \subseteq Isolating
  BY <1>3 DEF RulesOf
<1>8. \A d \in Dirs : RulesOf(Iso(d)) = Isolating /\ RulesOf(Block(d)) = Blocking
  BY DEF RulesOf, Iso, Block
<1> QED BY <1>1, <1>2, <1>3, <1>4, <1>5, <1>6, <1>7, <1>8

LEMMA ContainsFacts ==
  ASSUME NEW S, NEW rules \in Seq(S), NEW e
  PROVE  /\ Contains(rules, e) <=> \E i \in DOMAIN rules : rules[i] = e
         /\ ~Contains(<<>>, e)
         /\ \A r \in S : Contains(<<r>> \o rules, e) <=> r = e \/ Contains(rules, e)
         /\ \A r \in S : Contains(Append(rules, r), e) <=> r = e \/ Contains(rules, e)
         /\ \A t \in Seq(S) : Contains(rules \o t, e) <=> Contains(rules, e) \/ Contains(t, e)
<1>1. Contains(rules, e) <=> \E i \in DOMAIN rules : rules[i] = e
  BY DEF Contains
<1>2. ~Contains(<<>>, e)
  BY DEF Contains
<1>3. ASSUME NEW t \in Seq(S), NEW u \in Seq(S)
      PROVE  Contains(t \o u, e) <=> Contains(t, e) \/ Contains(u, e)
  <2> DEFINE v == t \o u
  <2>1. v \in Seq(S) /\ Len(v) = Len(t) + Len(u) /\ Len(t) \in Nat /\ Len(u) \in Nat
        /\ \A i \in 1..(Len(t) + Len(u)) : v[i] = IF i <= Len(t) THEN t[i] ELSE u[i - Len(t)]
    OBVIOUS
  <2> HIDE DEF v
  <2>2. ASSUME NEW i \in 1..Len(v)
        PROVE  (i \in 1..Len(t) /\ v[i] = t[i]) \/ (i - Len(t) \in 1..Len(u) /\ v[i] = u[i - Len(t)])
    BY <2>1
  <2>3. ASSUME NEW i \in 1..Len(t) PROVE i \in 1..Len(v) /\ v[i] = t[i]
    BY <2>1
  <2>4. ASSUME NEW i \in 1..Len(u) PROVE i + Len(t) \in 1..Len(v) /\ v[i + Len(t)] = u[i]
    <3>1. i + Len(t) \in 1..(Len(t) + Len(u)) /\ ~(i + Len(t) <= Len(t)) /\ (i + Len(t)) - Len(t) = i
      BY <2>1
    <3> QED BY <2>1, <3>1
  <2> QED BY ZenonT(60), <2>2, <2>3, <2>4 DEF Contains, v
<1>4. ASSUME NEW r \in S
      PROVE  /\ Contains(<<r>> \o rules, e) <=> r = e \/ Contains(rules, e)
             /\ Contains(Append(rules, r), e) <=> r = e \/ Contains(rules, e)
  <2> DEFINE u == <<r>>
  <2>1. u \in Seq(S) /\ (Contains(u, e) <=> r = e)
    BY DEF Contains
  <2>2. Append(rules, r) = rules \o u
    BY AppendIsConcat
  <2> HIDE DEF u
  <2>3. Contains(u \o rules, e) <=> r = e \/ Contains(rules, e)
    BY <1>3, <2>1
  <2>4. Contains(rules \o u, e) <=> r = e \/ Contains(rules, e)
    BY <1>3, <2>1
  <2> QED BY <2>2, <2>3, <2>4 DEF u
<1> QED BY <1>1, <1>2, <1>3, <1>4

LEMMA PurgedFacts ==
  ASSUME NEW S, Accept(Nobody) \in S, NEW rules \in Seq(S), NEW ip \in Named
  PROVE  /\ Purged(rules, ip) \in Seq(S)
         /\ Contains(Purged(rules, ip), Drop(All)) <=> Contains(rules, Drop(All))
<1> DEFINE t == Purged(rules, ip)
<1>1. t = [i \in 1..Len(rules) |-> IF rules[i].to \in Mentions[ip] THEN Accept(Nobody) ELSE rules[i]]
  BY DEF Purged
<1>2. \A i \in 1..Len(rules) :
        t[i] = IF rules[i].to \in Mentions[ip] THEN Accept(Nobody) ELSE rules[i]
  BY <1>1
<1>3. DOMAIN t = 1..Len(rules) /\ t \in [1..Len(rules) -> S]
  BY <1>1
<1>4. t \in Seq(S) /\ Len(t) = Len(rules)
  <2> HIDE DEF t
  <2>1. Len(rules) \in Nat
    OBVIOUS
  <2> QED BY <1>3, <2>1
<1>5. All \notin Mentions[ip]
  BY HostsAssumption DEF Named
<1> HIDE DEF t
<1>6. ASSUME NEW i \in 1..Len(rules) PROVE t[i] = Drop(All) <=> rules[i] = Drop(All)
  BY <1>2, <1>5, RuleFacts
<1> QED BY <1>4, <1>6 DEF Contains, t

LEMMA BarsFacts ==
  ASSUME NEW S, NEW rules \in Seq(S), NEW ip \in Named
  PROVE  /\ \A x : Drop(x) \in S /\ (x = ip \/ Bars(rules, ip)) => Bars(<<Drop(x)>> \o rules, ip)
         /\ \A t \in Seq(S) : Bars(rules, ip) => Bars(rules \o t, ip)
         /\ \A r \in S : Bars(rules, ip) => Bars(Append(rules, r), ip)
         /\ \A x : ip \notin Mentions[x] /\ Bars(rules, ip) => Bars(Purged(rules, x), ip)
         /\ \A x : x # ip /\ Contains(rules, Drop(x)) /\ Bars(rules, ip)
                   => Bars(RemoveFirst(rules, Drop(x)), ip)
<1> DEFINE n == Len(rules)
<1>1. n \in Nat /\ DOMAIN rules = 1..n
  OBVIOUS
<1>2. ASSUME NEW x, Drop(x) \in S, x = ip \/ Bars(rules, ip) PROVE Bars(<<Drop(x)>> \o rules, ip)
  <2> DEFINE t == <<Drop(x)>> \o rules
  <2>1. DOMAIN t = 1..(n + 1) /\ t[1] = Drop(x) /\ \A i \in 1..n : t[i + 1] = rules[i]
    BY <1>2
  <2> HIDE DEF t, n
  <2>2. CASE x = ip
    <3>1. 1 \in DOMAIN t /\ 1..(1 - 1) = {}
      BY <1>1, <2>1
    <3> QED BY <2>1, <2>2, <3>1 DEF Bars, t
  <2>3. CASE Bars(rules, ip)
    <3>1. PICK i \in 1..n : rules[i] = Drop(ip)
                            /\ \A j \in 1..(i - 1) : rules[j].drop \/ rules[j].to = Nobody
      BY <1>1, <2>3 DEF Bars
    <3>2. ASSUME NEW j \in 1..i PROVE t[j].drop \/ t[j].to = Nobody
      <4>1. CASE j = 1
        BY <2>1, <4>1, RuleFacts
      <4>2. CASE j # 1
        <5>1. j - 1 \in 1..(i - 1) /\ j - 1 \in 1..n /\ (j - 1) + 1 = j
          BY <1>1, <4>2
        <5>2. t[j] = rules[j - 1]
          BY <2>1, <5>1
        <5> QED BY <3>1, <5>1, <5>2
      <4> QED BY <4>1, <4>2
    <3>3. i + 1 \in DOMAIN t /\ (i + 1) - 1 = i /\ t[i + 1] = rules[i]
      BY <1>1, <2>1
    <3> QED BY <3>1, <3>2, <3>3 DEF Bars, t
  <2> QED BY <1>2, <2>2, <2>3
<1>3. ASSUME NEW t \in Seq(S), Bars(rules, ip) PROVE Bars(rules \o t, ip)
  <2> DEFINE u == rules \o t
  <2>1. DOMAIN u = 1..(n + Len(t)) /\ Len(t) \in Nat /\ \A i \in 1..n : u[i] = rules[i]
    OBVIOUS
  <2> HIDE DEF u, n
  <2> QED BY <1>1, <1>3, <2>1 DEF Bars, u
<1>4. ASSUME NEW r \in S, Bars(rules, ip) PROVE Bars(Append(rules, r), ip)
  <2>1. Append(rules, r) = rules \o <<r>> /\ <<r>> \in Seq(S)
    BY AppendIsConcat
  <2> QED BY <1>3, <1>4, <2>1
<1>5. ASSUME NEW x, ip \notin Mentions[x], Bars(rules, ip) PROVE Bars(Purged(rules, x), ip)
  <2> DEFINE t == Purged(rules, x)
  <2>1. DOMAIN t = 1..n /\ \A i \in 1..n :
          t[i] = IF rules[i].to \in Mentions[x] THEN Accept(Nobody) ELSE rules[i]
    BY DEF Purged
  <2> HIDE DEF t, n
  <2>2. PICK i \in 1..n : rules[i] = Drop(ip)
                          /\ \A j \in 1..(i - 1) : rules[j].drop \/ rules[j].to = Nobody
    BY <1>1, <1>5 DEF Bars
  <2>3. t[i] = Drop(ip)
    BY <1>5, <2>1, <2>2, RuleFacts
  <2>4. ASSUME NEW j \in 1..(i - 1) PROVE t[j].drop \/ t[j].to = Nobody
    <3>1. j \in 1..n
      BY <1>1, <2>2
    <3> QED BY <2>1, <2>2, <3>1, RuleFacts
  <2> QED BY <2>1, <2>2, <2>3, <2>4 DEF Bars, t
<1>6. ASSUME NEW x, x # ip, Contains(rules, Drop(x)), Bars(rules, ip)
      PROVE  Bars(RemoveFirst(rules, Drop(x)), ip)
  <2> DEFINE t == RemoveFirst(rules, Drop(x))
  <2>1. PICK k \in 1..n : /\ rules[k] = Drop(x) /\ t \in Seq(S) /\ Len(t) = n - 1
                          /\ \A j \in 1..(n - 1) : t[j] = IF j < k THEN rules[j] ELSE rules[j + 1]
    BY <1>6, RemoveFirstFacts
  <2>2. DOMAIN t = 1..(n - 1)
    BY <2>1
  <2> HIDE DEF t, n
  <2>3. PICK i \in 1..n : rules[i] = Drop(ip)
                          /\ \A j \in 1..(i - 1) : rules[j].drop \/ rules[j].to = Nobody
    BY <1>1, <1>6 DEF Bars
  <2>4. i # k
    BY <1>6, <2>1, <2>3, RuleFacts
  <2>5. CASE i < k
    <3>1. i \in DOMAIN t /\ t[i] = rules[i] /\ \A j \in 1..(i - 1) : t[j] = rules[j]
      BY <1>1, <2>1, <2>2, <2>5
    <3> QED BY <2>3, <3>1 DEF Bars, t
  <2>6. CASE i > k
    <3>1. i - 1 \in DOMAIN t /\ t[i - 1] = rules[i]
      <4>1. i - 1 \in 1..(n - 1) /\ ~(i - 1 < k) /\ (i - 1) + 1 = i
        BY <1>1, <2>6
      <4> QED BY <2>1, <2>2, <4>1
    <3>2. ASSUME NEW j \in 1..((i - 1) - 1) PROVE t[j].drop \/ t[j].to = Nobody
      <4>1. j \in 1..(n - 1) /\ j \in 1..(i - 1) /\ j + 1 \in 1..(i - 1)
        BY <1>1
      <4> QED BY <2>1, <2>3, <4>1
    <3> QED BY <2>3, <3>1, <3>2 DEF Bars, t
  <2> QED BY <1>1, <2>4, <2>5, <2>6
<1> QED BY <1>2, <1>3, <1>4, <1>5, <1>6

\* The block rules are all drops.
LEMMA BarsBlocking ==
  ASSUME NEW rules \in Seq(Blocking), NEW ip, Contains(rules, Drop(ip)) PROVE Bars(rules, ip)
<1>1. PICK i \in 1..Len(rules) : rules[i] = Drop(ip)
  BY DEF Contains
<1>2. \A j \in 1..(i - 1) : rules[j] \in Blocking
  BY <1>1
<1> QED BY <1>1, <1>2, RuleFacts DEF Bars

LEMMA BarsDrops ==
  ASSUME NEW rules \in Seq(Isolating), NEW ip \in Named, Bars(rules, ip)
  PROVE  Drops(rules, {ip, All})
<1>1. PICK i \in DOMAIN rules :
        rules[i] = Drop(ip) /\ \A j \in 1..(i - 1) : rules[j].drop \/ rules[j].to = Nobody
  BY DEF Bars
<1>2. PICK k \in DOMAIN rules :
        k <= i /\ rules[k].to \in {ip, All} /\ \A j \in 1..(k - 1) : rules[j].to \notin {ip, All}
  <2> DEFINE A == {ip, All}
  <2>1. rules[i].to \in A
    BY <1>1, RuleFacts
  <2> HIDE DEF A
  <2>2. \E k \in DOMAIN rules : k <= i /\ rules[k].to \in A /\ \A j \in 1..(k - 1) : rules[j].to \notin A
    BY <2>1, FirstHit
  <2> QED BY <2>2 DEF A
<1>3. Nobody \notin {ip, All}
  BY HostsAssumption DEF Named
<1>4. rules[k].drop
  <2>1. CASE k = i
    BY <1>1, <2>1, RuleFacts
  <2>2. CASE k \in 1..(i - 1)
    BY <1>1, <1>2, <1>3, <2>2
  <2> QED BY <1>2, <2>1, <2>2
<1> QED BY <1>2, <1>4 DEF Drops

\* What a chain decides about the internet is whether it has a "drop all".
LEMMA WorldFacts ==
  ASSUME NEW rules \in Seq(Isolating)
  PROVE  IF Contains(rules, Drop(All)) THEN Drops(rules, {World, All})
                                       ELSE Silent(rules, {World, All})
<1>1. ASSUME NEW i \in DOMAIN rules PROVE rules[i].to \in {World, All} => rules[i] = Drop(All)
  BY RuleFacts
<1>2. CASE ~Contains(rules, Drop(All))
  BY <1>1, <1>2, ContainsFacts DEF Silent
<1>3. CASE Contains(rules, Drop(All))
  <2>1. PICK i \in DOMAIN rules : rules[i] = Drop(All)
    BY <1>3, ContainsFacts
  <2>2. PICK k \in DOMAIN rules :
          rules[k].to \in {World, All} /\ \A j \in 1..(k - 1) : rules[j].to \notin {World, All}
    <3> DEFINE A == {World, All}
    <3>1. rules[i].to \in A
      BY <2>1, RuleFacts
    <3> HIDE DEF A
    <3>2. \E k \in DOMAIN rules : rules[k].to \in A /\ \A j \in 1..(k - 1) : rules[j].to \notin A
      BY <3>1, FirstHit
    <3> QED BY <3>2 DEF A
  <2> QED BY <1>1, <1>3, <2>2, RuleFacts DEF Drops
<1> QED BY <1>2, <1>3

-----------------------------------------------------------------------------
(* What the chains decide together.                                        *)

LEMMA OrderDistinct ==
  \A o \in Orders : /\ \A i, j \in DOMAIN o : o[i] = o[j] => i = j
                    /\ \A i \in DOMAIN o : o[i] \in Kinds /\ o[i] \in Range(o) /\ i \in Nat
                    /\ \A k \in Range(o) : \E i \in DOMAIN o : o[i] = k
<1> SUFFICES ASSUME NEW o \in Orders
             PROVE  /\ \A i, j \in DOMAIN o : o[i] = o[j] => i = j
                    /\ \A i \in DOMAIN o : o[i] \in Kinds /\ o[i] \in Range(o) /\ i \in Nat
                    /\ \A k \in Range(o) : \E i \in DOMAIN o : o[i] = k
  OBVIOUS
<1>1. \A i, j \in DOMAIN o : o[i] = o[j] => i = j
  BY DEF Orders
<1>2. \A i \in DOMAIN o : o[i] \in Kinds /\ i \in Nat
  BY OrderFacts
<1> QED BY <1>1, <1>2 DEF Range

LEMMA VisitFacts ==
  ASSUME NEW f, Filter(f), NEW d \in Dirs, NEW i \in DOMAIN f.hooks[d]
  PROVE  LET k == f.hooks[d][i] IN
         /\ k \in Kinds /\ k \in Range(f.hooks[d]) /\ <<k, d>> \in Present(f) /\ Visited(f, <<k, d>>)
         /\ Visit(f, d, i) = f.chains[<<k, d>>] /\ Visit(f, d, i) \in Seq(RulesOf(<<k, d>>))
         /\ Visit(f, d, i) \in Seq(Isolating)
<1> DEFINE k == f.hooks[d][i]
<1>1. k \in Kinds /\ k \in Range(f.hooks[d]) /\ <<k, d>> \in Present(f)
  BY OrderDistinct DEF Filter
<1>2. Visit(f, d, i) = f.chains[<<k, d>>] /\ Visit(f, d, i) \in Seq(RulesOf(<<k, d>>))
  BY <1>1 DEF Filter, Visit
<1>3. Visited(f, <<k, d>>)
  BY <1>1 DEF Visited
<1>4. RulesOf(<<k, d>>) \subseteq Isolating
  BY <1>1, ChainFacts, RuleFacts
<1> HIDE DEF k
<1>5. Visit(f, d, i) \in Seq(Isolating)
  BY <1>2, <1>4, SeqMonotonic
<1> QED BY <1>1, <1>2, <1>3, <1>5 DEF k

LEMMA SilentDrops ==
  ASSUME NEW rules, NEW A, Silent(rules, A) PROVE ~Drops(rules, A)
BY DEF Silent, Drops

LEMMA BlockSilent ==
  ASSUME NEW rules \in Seq(Blocking) PROVE Silent(rules, {World, All})
<1>1. rules \in Seq(Isolating)
  BY RuleFacts, SeqMonotonic
<1>2. ~Contains(rules, Drop(All))
  BY RuleFacts DEF Contains
<1> QED BY <1>1, <1>2, WorldFacts

LEMMA WorldDropped ==
  ASSUME NEW f, Filter(f), NEW d \in Dirs PROVE Dropped(f, d, World) <=> Cut(f, d)
<1>1. ASSUME Dropped(f, d, World) PROVE Cut(f, d)
  <2>1. PICK i \in DOMAIN f.hooks[d] : Drops(Visit(f, d, i), {World, All})
    BY <1>1 DEF Dropped, DroppedAs
  <2> DEFINE k == f.hooks[d][i]
  <2>2. k \in Kinds /\ <<k, d>> \in Present(f) /\ Visited(f, <<k, d>>)
        /\ Visit(f, d, i) = f.chains[<<k, d>>] /\ Visit(f, d, i) \in Seq(RulesOf(<<k, d>>))
        /\ Visit(f, d, i) \in Seq(Isolating)
    BY VisitFacts
  <2> HIDE DEF k
  <2>3. k # "block"
    <3>1. ASSUME k = "block" PROVE Visit(f, d, i) \in Seq(Blocking)
      BY <2>2, <3>1, RuleFacts DEF Block
    <3> QED BY <2>1, <3>1, BlockSilent, SilentDrops
  <2>4. <<k, d>> = Iso(d)
    BY <2>2, <2>3 DEF Kinds, Iso
  <2>5. Contains(Visit(f, d, i), Drop(All))
    BY <2>1, <2>2, WorldFacts, SilentDrops
  <2> QED BY <2>2, <2>4, <2>5 DEF Cut, Armed
<1>2. ASSUME Cut(f, d) PROVE Dropped(f, d, World)
  <2>1. Iso(d) \in Present(f) /\ Contains(f.chains[Iso(d)], Drop(All)) /\ "isolation" \in Range(f.hooks[d])
    BY <1>2 DEF Cut, Armed, Visited, Iso
  <2>2. PICK i \in DOMAIN f.hooks[d] : f.hooks[d][i] = "isolation"
    BY <2>1, OrderDistinct DEF Filter
  <2>3. Visit(f, d, i) = f.chains[Iso(d)] /\ Visit(f, d, i) \in Seq(Isolating)
    BY <2>2, VisitFacts DEF Iso
  <2>4. Drops(Visit(f, d, i), {World, All})
    BY <2>1, <2>3, WorldFacts
  <2>5. ASSUME NEW j \in 1..(i - 1) PROVE Silent(Visit(f, d, j), {World, All})
    <3>1. f.hooks[d] \in Orders
      BY DEF Filter
    <3>2. j \in DOMAIN f.hooks[d]
      <4>1. f.hooks[d] \in Seq(Kinds)
        BY <3>1, OrderFacts
      <4> QED BY <4>1
    <3>3. f.hooks[d][j] = "block"
      <4>1. j # i
        BY <3>1, OrderDistinct, <2>2
      <4>2. f.hooks[d][j] # "isolation" /\ f.hooks[d][j] \in Kinds
        BY <2>2, <3>1, <3>2, <4>1, OrderDistinct
      <4> QED BY <4>2 DEF Kinds
    <3>4. Visit(f, d, j) \in Seq(Blocking)
      <4>1. Visit(f, d, j) \in Seq(RulesOf(<<f.hooks[d][j], d>>))
        BY <3>2, VisitFacts
      <4>2. RulesOf(<<f.hooks[d][j], d>>) = Blocking
        BY <3>3, RuleFacts DEF Block
      <4> QED BY <4>1, <4>2
    <3> QED BY <3>4, BlockSilent
  <2> QED BY <2>4, <2>5 DEF Dropped, DroppedAs
<1> QED BY <1>1, <1>2

LEMMA ShutDropped ==
  ASSUME NEW f, Filter(f), NEW d \in Dirs, NEW k \in Kinds, NEW ip \in Named,
         Shut(f, <<k, d>>, ip), f.hooks[d][1] = k
  PROVE  Dropped(f, d, ip)
<1>1. <<k, d>> \in Present(f) /\ k \in Range(f.hooks[d]) /\ Bars(f.chains[<<k, d>>], ip)
  BY DEF Shut, Visited
<1>2. 1 \in DOMAIN f.hooks[d]
  <2>1. f.hooks[d] \in Seq(Kinds) /\ f.hooks[d] # <<>>
    BY <1>1, OrderFacts DEF Filter
  <2> QED BY <2>1
<1>3. Visit(f, d, 1) = f.chains[<<k, d>>] /\ Visit(f, d, 1) \in Seq(Isolating)
  BY <1>2, VisitFacts
<1>4. Drops(Visit(f, d, 1), {ip, All})
  BY <1>1, <1>3, BarsDrops
<1>5. \A j \in 1..(1 - 1) : Silent(Visit(f, d, j), {ip, All})
  OBVIOUS
<1> QED BY <1>2, <1>4, <1>5 DEF Dropped, DroppedAs

LEMMA SameDecision ==
  ASSUME NEW f, Filter(f), NEW g, NEW d \in Dirs, NEW A, g.hooks[d] = f.hooks[d],
         \A k \in Range(f.hooks[d]) : Alike(g.chains[<<k, d>>], f.chains[<<k, d>>], A)
  PROVE  DroppedAs(g, d, A) <=> DroppedAs(f, d, A)
<1>1. \A i \in DOMAIN f.hooks[d] : Alike(Visit(g, d, i), Visit(f, d, i), A)
  <2>1. \A i \in DOMAIN f.hooks[d] : f.hooks[d][i] \in Range(f.hooks[d])
    BY OrderDistinct DEF Filter
  <2> QED BY <2>1 DEF Visit
<1>2. \A i \in DOMAIN f.hooks[d] : \A j \in 1..(i - 1) : j \in DOMAIN f.hooks[d]
  <2>1. f.hooks[d] \in Seq(Kinds)
    BY OrderFacts DEF Filter
  <2> QED BY <2>1
<1> QED BY <1>1, <1>2 DEF DroppedAs, Alike

\* A chain whose rules change, but not in what they decide about the server.
LEMMA SameReachable ==
  ASSUME NEW f, Filter(f), NEW c \in Present(f), NEW rules \in Seq(RulesOf(c)),
         Alike(rules, f.chains[c], {Server, All}), Alike(rules, f.chains[c], {Server})
  PROVE  Reachable(SetChain(f, c, rules), Server) <=> Reachable(f, Server)
<1> DEFINE g == SetChain(f, c, rules)
<1>1. c \in Chains
  BY DEF Filter
<1>2. g.hooks = f.hooks /\ g.chains[c] = rules
      /\ \A x \in Present(f) : x # c => g.chains[x] = f.chains[x]
  BY <1>1, SetChainFacts
<1> HIDE DEF g
<1>3. ASSUME NEW d \in Dirs, NEW A, Alike(rules, f.chains[c], A)
      PROVE  DroppedAs(g, d, A) <=> DroppedAs(f, d, A)
  <2>1. \A k \in Range(f.hooks[d]) : <<k, d>> \in Present(f)
    BY DEF Filter
  <2>2. \A k \in Range(f.hooks[d]) : Alike(g.chains[<<k, d>>], f.chains[<<k, d>>], A)
    BY <1>2, <1>3, <2>1 DEF Alike
  <2> QED BY <1>2, <2>2, SameDecision
<1>4. "in" \in Dirs /\ "out" \in Dirs
  BY DEF Dirs
<1> QED BY <1>3, <1>4 DEF Reachable, Dropped, g

-----------------------------------------------------------------------------
(* What the commands do.                                                   *)

LEMMA TableFacts ==
  ASSUME NEW f, OneTable(f), f # NoRules
  PROVE  /\ TableKind(f) \in Kinds /\ Present(f) = {TableKind(f)} \X Dirs /\ Present(f) # {}
         /\ f.hooks = [d \in Dirs |-> <<TableKind(f)>>]
         /\ \A d \in Dirs : /\ <<TableKind(f), d>> \in Present(f) /\ Visited(f, <<TableKind(f), d>>)
                            /\ \A k : Visited(f, <<k, d>>) => k = TableKind(f)
<1>1. PICK k \in Kinds : Present(f) = {k} \X Dirs /\ f.hooks = [d \in Dirs |-> <<k>>]
  BY DEF OneTable
<1>2. "in" \in Dirs
  BY DEF Dirs
<1>3. <<k, "in">> \in Present(f) /\ \A m \in Kinds : <<m, "in">> \in Present(f) => m = k
  BY <1>1, <1>2
<1>4. TableKind(f) = k
  BY <1>3 DEF TableKind
<1>5. \A d \in Dirs : \A m : Visited(f, <<m, d>>) <=> m = k
  BY <1>1, OrderFacts DEF Visited
<1> QED BY <1>1, <1>3, <1>4, <1>5

LEMMA PresentFacts ==
  ASSUME NEW f, Filter(f), OneTable(f) PROVE f = NoRules <=> Present(f) = {}
BY NoRulesFacts, TableFacts

LEMMA PairConcat == ASSUME NEW k, NEW m PROVE <<k>> \o <<m>> = <<k, m>>
<1> DEFINE K == {k, m}
           u == <<k>>
           v == <<m>>
           p == <<k, m>>
<1>1. u \in Seq(K) /\ v \in Seq(K) /\ Len(u) = 1 /\ Len(v) = 1 /\ u[1] = k /\ v[1] = m
  OBVIOUS
<1>2. p \in Seq(K) /\ Len(p) = 2 /\ p[1] = k /\ p[2] = m
  OBVIOUS
<1> DEFINE w == u \o v
<1> HIDE DEF u, v, p, K
<1>3. w \in Seq(K) /\ Len(w) = 1 + 1
      /\ \A i \in 1..(1 + 1) : w[i] = IF i <= 1 THEN u[i] ELSE v[i - 1]
  BY <1>1, ConcatProperties
<1> HIDE DEF w
<1>4. ASSUME NEW i \in 1..2 PROVE w[i] = p[i]
  BY <1>1, <1>2, <1>3
<1>5. w = p
  BY <1>2, <1>3, <1>4, SeqEqual
<1> QED BY <1>5 DEF u, v, w, p

LEMMA OrderChange ==
  ASSUME NEW o \in Orders, NEW k \in Kinds
  PROVE  /\ k \notin Range(o) => <<k>> \o o \in Orders /\ Range(<<k>> \o o) = Range(o) \cup {k}
         /\ k \in Range(o) => /\ RemoveFirst(o, k) \in Orders
                              /\ Range(RemoveFirst(o, k)) = Range(o) \ {k}
<1>1. ASSUME k \notin Range(o)
      PROVE  <<k>> \o o \in Orders /\ Range(<<k>> \o o) = Range(o) \cup {k}
  <2>1. o = <<>> \/ \E m \in Kinds : o = <<m>> /\ m # k
    BY <1>1, OrderFacts DEF Orders, Kinds
  <2>2. CASE o = <<>>
    <3>1. <<k>> \o o = <<k>>
      BY <2>2
    <3> QED BY <2>2, <3>1, OrderFacts DEF Orders, Kinds
  <2>3. ASSUME NEW m \in Kinds, o = <<m>>, m # k
        PROVE  <<k>> \o o \in Orders /\ Range(<<k>> \o o) = Range(o) \cup {k}
    <3>1. <<k>> \o o = <<k, m>>
      BY <2>3, PairConcat
    <3>2. <<k, m>> \in Orders
      BY <2>3 DEF Orders, Kinds
    <3>3. Range(<<k, m>>) = {k, m} /\ Range(<<m>>) = {m}
      BY OrderFacts
    <3> QED BY <2>3, <3>1, <3>2, <3>3
  <2> QED BY <2>1, <2>2, <2>3
<1>2. ASSUME k \in Range(o)
      PROVE  RemoveFirst(o, k) \in Orders /\ Range(RemoveFirst(o, k)) = Range(o) \ {k}
  <2>1. o = <<k>> \/ \E m \in Kinds : m # k /\ (o = <<k, m>> \/ o = <<m, k>>)
    BY <1>2, OrderFacts DEF Orders, Kinds
  <2>2. o \in Seq(Kinds) /\ Contains(o, k)
    <3>1. o \in Seq(Kinds) /\ \E i \in DOMAIN o : o[i] = k
      BY <1>2, OrderFacts, OrderDistinct
    <3> QED BY <3>1 DEF Contains
  <2> DEFINE t == RemoveFirst(o, k)
  <2>3. PICK i \in 1..Len(o) : /\ o[i] = k /\ t \in Seq(Kinds) /\ Len(t) = Len(o) - 1
                               /\ \A j \in 1..(Len(o) - 1) : t[j] = IF j < i THEN o[j] ELSE o[j + 1]
    BY <2>2, RemoveFirstFacts
  <2> HIDE DEF t
  <2>4. CASE o = <<k>>
    <3>1. t = <<>>
      BY <2>3, <2>4
    <3> QED BY <2>4, <3>1, OrderFacts DEF Orders, t
  <2>5. ASSUME NEW m \in Kinds, m # k, o = <<k, m>> \/ o = <<m, k>> PROVE t = <<m>>
    <3>1. Len(o) = 2 /\ Len(t) = 1
      BY <2>3, <2>5
    <3>2. t[1] = m
      <4>1. 1 \in 1..(Len(o) - 1)
        BY <3>1
      <4>2. t[1] = IF 1 < i THEN o[1] ELSE o[2]
        BY <2>3, <4>1
      <4>3. CASE o = <<k, m>>
        <5>1. o[1] = k /\ o[2] = m /\ i = 1
          BY <2>3, <2>5, <3>1, <4>3
        <5> QED BY <4>2, <5>1
      <4>4. CASE o = <<m, k>>
        <5>1. o[1] = m /\ o[2] = k /\ i = 2
          BY <2>3, <2>5, <3>1, <4>4
        <5> QED BY <4>2, <5>1
      <4> QED BY <2>5, <4>3, <4>4
    <3> QED BY <2>3, <3>1, <3>2
  <2>6. ASSUME NEW m \in Kinds, m # k, o = <<k, m>> \/ o = <<m, k>>
        PROVE  t \in Orders /\ Range(t) = Range(o) \ {k}
    <3>1. <<m>> \in Orders
      BY DEF Orders, Kinds
    <3> QED BY <2>5, <2>6, <3>1, OrderFacts
  <2> QED BY <2>1, <2>4, <2>6 DEF t
<1> QED BY <1>1, <1>2

LEMMA JumpFacts ==
  ASSUME NEW f, Filter(f), NEW c \in Present(f)
  PROVE  LET g == Effect(f, Jump(c)) IN
         /\ Filter(g) /\ g.chains = f.chains /\ Present(g) = Present(f)
         /\ Visited(g, c) /\ \A x \in Chains : x # c => (Visited(g, x) <=> Visited(f, x))
         /\ \A d \in Dirs : g.hooks[d] = IF d = c[2] /\ ~Visited(f, c) THEN <<c[1]>> \o f.hooks[d]
                                                                      ELSE f.hooks[d]
<1> DEFINE g == Effect(f, Jump(c))
           d == c[2]
           k == c[1]
           o == <<k>> \o f.hooks[d]
<1>1. c \in Chains /\ k \in Kinds /\ d \in Dirs /\ c = <<k, d>>
  BY ChainFacts DEF Filter
<1>2. g = IF Visited(f, c) THEN f ELSE SetHook(f, d, o)
  BY JumpCommand
<1>3. CASE Visited(f, c)
  BY <1>2, <1>3
<1>4. CASE ~Visited(f, c)
  <2>1. o \in Orders /\ Range(o) = Range(f.hooks[d]) \cup {k}
    BY <1>1, <1>4, OrderChange DEF Visited, Filter
  <2>2. \A m \in Range(o) : <<m, d>> \in Present(f)
    BY <1>1, <2>1 DEF Filter
  <2> HIDE DEF o
  <2>3. Filter(g) /\ g.chains = f.chains /\ Present(g) = Present(f) /\ g.hooks[d] = o
        /\ \A e \in Dirs : e # d => g.hooks[e] = f.hooks[e]
    <3>1. Filter(SetHook(f, d, o)) /\ SetHook(f, d, o).chains = f.chains
          /\ Present(SetHook(f, d, o)) = Present(f) /\ SetHook(f, d, o).hooks[d] = o
          /\ \A e \in Dirs : e # d => SetHook(f, d, o).hooks[e] = f.hooks[e]
      BY <1>1, <2>1, <2>2, SetHookFacts
    <3> QED BY <1>2, <1>4, <3>1
  <2> HIDE DEF g
  <2>4. Visited(g, c)
    BY <2>1, <2>3 DEF Visited
  <2>5. ASSUME NEW x \in Chains, x # c PROVE Visited(g, x) <=> Visited(f, x)
    <3>1. x[2] \in Dirs /\ (x[2] = d => x[1] # k)
      BY <1>1, <2>5, ChainFacts
    <3> QED BY <2>1, <2>3, <3>1 DEF Visited
  <2> QED BY <1>4, <2>3, <2>4, <2>5 DEF o, g
<1> QED BY <1>3, <1>4

LEMMA UnjumpFacts ==
  ASSUME NEW f, Filter(f), NEW c \in Chains, Visited(f, c)
  PROVE  LET g == Effect(f, Unjump(c)) IN
         /\ Filter(g) /\ g.chains = f.chains /\ Present(g) = Present(f)
         /\ ~Visited(g, c) /\ \A x \in Chains : x # c => (Visited(g, x) <=> Visited(f, x))
<1> DEFINE g == Effect(f, Unjump(c))
           d == c[2]
           k == c[1]
           o == RemoveFirst(f.hooks[d], k)
<1>1. k \in Kinds /\ d \in Dirs /\ c = <<k, d>>
  BY ChainFacts
<1>2. g = SetHook(f, d, o)
  BY UnjumpCommand
<1>3. o \in Orders /\ Range(o) = Range(f.hooks[d]) \ {k}
  BY <1>1, OrderChange DEF Visited, Filter
<1>4. \A m \in Range(o) : <<m, d>> \in Present(f)
  BY <1>1, <1>3 DEF Filter
<1> HIDE DEF o
<1>5. Filter(g) /\ g.chains = f.chains /\ Present(g) = Present(f) /\ g.hooks[d] = o
      /\ \A e \in Dirs : e # d => g.hooks[e] = f.hooks[e]
  <2>1. Filter(SetHook(f, d, o)) /\ SetHook(f, d, o).chains = f.chains
        /\ Present(SetHook(f, d, o)) = Present(f) /\ SetHook(f, d, o).hooks[d] = o
        /\ \A e \in Dirs : e # d => SetHook(f, d, o).hooks[e] = f.hooks[e]
    BY <1>1, <1>3, <1>4, SetHookFacts
  <2> QED BY <1>2, <2>1
<1> HIDE DEF g
<1>6. ~Visited(g, c)
  BY <1>3, <1>5 DEF Visited
<1>7. ASSUME NEW x \in Chains, x # c PROVE Visited(g, x) <=> Visited(f, x)
  <2>1. x[2] \in Dirs /\ (x[2] = d => x[1] # k)
    BY <1>1, <1>7, ChainFacts
  <2> QED BY <1>3, <1>5, <2>1 DEF Visited
<1> QED BY <1>5, <1>6, <1>7 DEF g

LEMMA DiscardFacts ==
  ASSUME NEW f, Filter(f), NEW c \in Present(f), ~Visited(f, c)
  PROVE  LET g == Effect(f, Discard(c)) IN
         /\ Filter(g) /\ g.hooks = f.hooks /\ Present(g) = Present(f) \ {c}
         /\ \A x \in Present(g) : g.chains[x] = f.chains[x]
<1> DEFINE D == Present(f) \ {c}
           m == [x \in D |-> f.chains[x]]
           g == [f EXCEPT !.chains = m]
<1>1. Effect(f, Discard(c)) = g
  BY DiscardCommand
<1>2. DOMAIN m = D /\ (\A x \in D : m[x] = f.chains[x]) /\ m = [x \in D |-> m[x]]
  OBVIOUS
<1> HIDE DEF m
<1>3. g.chains = m /\ g.hooks = f.hooks /\ g = [chains |-> g.chains, hooks |-> g.hooks]
  BY DEF Filter
<1> HIDE DEF g
<1>4. Present(g) = D
  BY <1>2, <1>3 DEF Present
<1>5. \A d \in Dirs : \A k \in Range(f.hooks[d]) : <<k, d>> \in D
  <2> SUFFICES ASSUME NEW d \in Dirs, NEW k \in Range(f.hooks[d]), <<k, d>> = c PROVE FALSE
    BY DEF Filter
  <2>1. c[1] = k /\ c[2] = d
    OBVIOUS
  <2> QED BY <2>1 DEF Visited
<1>6. Filter(g)
  BY <1>2, <1>3, <1>4, <1>5 DEF Filter
<1> QED BY <1>1, <1>2, <1>3, <1>4, <1>6

LEMMA LoadFacts ==
  ASSUME NEW f, Filter(f), NEW k \in Kinds, NEW rules, \A d \in Dirs : rules \in Seq(RulesOf(<<k, d>>)),
         Present(f) \subseteq {k} \X Dirs
  PROVE  LET g == Loaded(f, k, rules) IN
         /\ Filter(g) /\ OneTable(g) /\ g # NoRules
         /\ Present(g) = {k} \X Dirs
         /\ \A d \in Dirs :
              /\ Visited(g, <<k, d>>)
              /\ g.chains[<<k, d>>] = IF <<k, d>> \in Present(f) THEN f.chains[<<k, d>>] \o rules
                                                                 ELSE rules
<1> DEFINE D == {k} \X Dirs
           m == [c \in D |-> IF c \in Present(f) THEN f.chains[c] \o rules ELSE rules]
           h == [d \in Dirs |-> <<k>>]
           g == [chains |-> m, hooks |-> h]
<1>1. Loaded(f, k, rules) = g
  BY DEF Loaded
<1>2. /\ DOMAIN m = D /\ m = [x \in D |-> m[x]]
      /\ \A x \in D : m[x] = IF x \in Present(f) THEN f.chains[x] \o rules ELSE rules
  OBVIOUS
<1>3. h \in [Dirs -> Orders] /\ \A d \in Dirs : h[d] = <<k>>
  <2>1. <<k>> \in Orders
    BY DEF Orders, Kinds
  <2> QED BY <2>1
<1> HIDE DEF m
<1>4. g.chains = m /\ g.hooks = h
  OBVIOUS
<1>5. D \subseteq Chains /\ \A d \in Dirs : <<k, d>> \in D
  BY ChainFacts DEF Chains
<1>6. \A x \in D : m[x] \in Seq(RulesOf(x))
  <2> SUFFICES ASSUME NEW x \in D PROVE m[x] \in Seq(RulesOf(x))
    OBVIOUS
  <2>1. rules \in Seq(RulesOf(x))
    OBVIOUS
  <2>2. x \in Present(f) => f.chains[x] \in Seq(RulesOf(x))
    BY DEF Filter
  <2> HIDE DEF D
  <2>3. x \in Present(f) => f.chains[x] \o rules \in Seq(RulesOf(x))
    BY <2>1, <2>2, ConcatProperties
  <2> QED BY <1>2, <2>1, <2>3
<1>7. Present(g) = D
  BY <1>2, <1>4 DEF Present
<1>8. \A d \in Dirs : \A j \in Range(h[d]) : <<j, d>> \in D
  BY <1>3, <1>5, OrderFacts
<1>9. Filter(g)
  BY <1>2, <1>3, <1>4, <1>5, <1>6, <1>7, <1>8 DEF Filter
<1>10. OneTable(g)
  BY <1>4, <1>7 DEF OneTable
<1>11. \A d \in Dirs : Visited(g, <<k, d>>)
  BY <1>3, <1>4, OrderFacts DEF Visited
<1>12. g # NoRules
  <2>1. <<k, "in">> \in Present(g)
    BY <1>5, <1>7 DEF Dirs
  <2> QED BY <2>1, NoRulesFacts
<1> HIDE DEF g
<1>13. \A d \in Dirs : g.chains[<<k, d>>] =
         IF <<k, d>> \in Present(f) THEN f.chains[<<k, d>>] \o rules ELSE rules
  BY <1>2, <1>4, <1>5
<1> QED BY <1>1, <1>7, <1>9, <1>10, <1>11, <1>12, <1>13

-----------------------------------------------------------------------------
(* One command of a script, carried out or refused.                        *)

Done(f, q, g, r) ==
    q # <<>> /\ Possible(f, q[1].step) /\ g = Effect(f, q[1].step) /\ r = Tail(q)
Refused(f, q, g, r) ==
    q # <<>> /\ ~Possible(f, q[1].step) /\ g = f /\ r = IF q[1].must THEN <<>> ELSE Tail(q)

LEMMA ItemFacts ==
  ASSUME NEW s PROVE Try(s).step = s /\ Try(s).must = FALSE /\ Must(s).step = s /\ Must(s).must = TRUE
BY DEF Try, Must

LEMMA DoFacts ==
  /\ \A c : Make(c).do = "new chain" /\ Jump(c).do = "jump" /\ Unjump(c).do = "unjump"
  /\ \A c : Flush(c).do = "flush" /\ Discard(c).do = "delete chain"
  /\ \A c, r : Add(c, r).do = "append" /\ Cancel(c, r).do = "delete"
  /\ Delete.do = "delete table" /\ List.do = "list"
  /\ \A k, r : Load(k, r).do = "load" /\ Insert(k, r).do = "insert" /\ Purge(k, r).do = "purge"
BY DEF Make, Jump, Unjump, Flush, Discard, Add, Cancel, Delete, List, Load, Insert, Purge

LEMMA SameItem ==
  /\ \A c, e : Make(c) = Make(e) => c = e
  /\ \A c, e : Jump(c) = Jump(e) => c = e
  /\ \A c, e : Unjump(c) = Unjump(e) => c = e
  /\ \A c, e : Flush(c) = Flush(e) => c = e
  /\ \A c, e : Discard(c) = Discard(e) => c = e
  /\ \A c, e, r, t : Add(c, r) = Add(e, t) => c = e /\ r = t
  /\ \A k, m, r, t : Insert(k, r) = Insert(m, t) => k = m /\ r = t
<1>1. \A c : Make(c).chain = c /\ Jump(c).chain = c /\ Unjump(c).chain = c
  BY DEF Make, Jump, Unjump
<1>2. \A c : Flush(c).chain = c /\ Discard(c).chain = c
  BY DEF Flush, Discard
<1>3. \A c, r : Add(c, r).chain = c /\ Add(c, r).rule = r
  BY DEF Add
<1>4. \A k, r : Insert(k, r).dir = k /\ Insert(k, r).rule = r
  BY DEF Insert
<1>5. \A c, e : (Make(c) = Make(e) => c = e) /\ (Jump(c) = Jump(e) => c = e)
                /\ (Unjump(c) = Unjump(e) => c = e)
  BY <1>1
<1>6. \A c, e : (Flush(c) = Flush(e) => c = e) /\ (Discard(c) = Discard(e) => c = e)
  BY <1>2
<1>7. \A c, e, r, t : Add(c, r) = Add(e, t) => c = e /\ r = t
  BY <1>3
<1>8. \A k, m, r, t : Insert(k, r) = Insert(m, t) => k = m /\ r = t
  BY <1>4
<1> QED BY <1>5, <1>6, <1>7, <1>8

LEMMA ItemRanks ==
  \A x : /\ x.step.do = "new chain" => Rank(x) = 1
         /\ x.step.do = "jump" => Rank(x) = 2
         /\ x.step.do = "flush" => Rank(x) \in {0, 3} /\ (x.must => Rank(x) = 3)
         /\ x.step.do = "delete table" => Rank(x) = 0
         /\ x.step.do = "append" => Rank(x) = 4
<1>1. \A x : x.step.do = "new chain" => Rank(x) = 1
  BY DEF Rank
<1>2. \A x : x.step.do = "jump" => Rank(x) = 2
  BY DEF Rank
<1>3. ASSUME NEW x, x.step.do = "flush" PROVE Rank(x) \in {0, 3} /\ (x.must => Rank(x) = 3)
  BY <1>3 DEF Rank
<1>4. \A x : x.step.do = "delete table" => Rank(x) = 0
  BY DEF Rank
<1>5. \A x : x.step.do = "append" => Rank(x) = 4
  BY DEF Rank
<1> QED BY <1>1, <1>2, <1>3, <1>4, <1>5

\* Nothing of a lower rank is still to come.
LEMMA RankLeft ==
  ASSUME NEW S, NEW q \in Seq(S), q # <<>>, InOrder(q), NEW s, Left(q, s)
  PROVE  \E x : x.step = s /\ Rank(q[1]) <= Rank(x)
<1>1. PICK i \in DOMAIN q : q[i].step = s
  BY DEF Left
<1>2. Rank(q[1]) <= Rank(q[i])
  BY TailFacts
<1> QED BY <1>1, <1>2

LEMMA EmptyLeft == \A s, x : ~Left(<<>>, s) /\ Before(<<>>, s, x)
BY DEF Left, Before

\* iptables: a chain that is filled or joined is there.
LEMMA MadeFirst ==
  ASSUME NEW S, NEW q \in Seq(S), q # <<>>, InOrder(q), NEW f, NEW c \in Chains, Ensuring(f, q)
  PROVE  /\ Rank(q[1]) >= 2 => c \in Present(f)
         /\ Rank(q[1]) >= 3 => Visited(f, c)
<1>1. ASSUME Rank(q[1]) >= 2, Left(q, Make(c)) PROVE FALSE
  <2>1. PICK x : x.step = Make(c) /\ Rank(q[1]) <= Rank(x)
    BY <1>1, RankLeft
  <2>2. Rank(x) = 1
    BY <2>1, DoFacts, ItemRanks
  <2> QED BY <1>1, <2>1, <2>2, RankFacts
<1>2. ASSUME Rank(q[1]) >= 3, Left(q, Jump(c)) PROVE FALSE
  <2>1. PICK x : x.step = Jump(c) /\ Rank(q[1]) <= Rank(x)
    BY <1>2, RankLeft
  <2>2. Rank(x) = 2
    BY <2>1, DoFacts, ItemRanks
  <2> QED BY <1>2, <2>1, <2>2, RankFacts
<1> QED BY <1>1, <1>2 DEF Ensuring

Stepped(f, q, g, r) == Done(f, q, g, r) \/ Refused(f, q, g, r)

\* What a command to one chain leaves alone.
Only(c, f, g) ==
    /\ Filter(g) /\ Present(g) = Present(f) \cup {c} /\ g.hooks = f.hooks
    /\ \A x \in Present(f) : x # c => g.chains[x] = f.chains[x]

LEMMA SteppedTail ==
  ASSUME NEW f, NEW q, NEW g, NEW r, Stepped(f, q, g, r)
  PROVE  /\ q # <<>> /\ (Done(f, q, g, r) <=> Possible(f, q[1].step))
         /\ (Refused(f, q, g, r) <=> ~Possible(f, q[1].step))
         /\ ~q[1].must \/ Possible(f, q[1].step) => r = Tail(q)
         /\ g = IF Possible(f, q[1].step) THEN Effect(f, q[1].step) ELSE f
<1>1. q # <<>> /\ (Done(f, q, g, r) <=> Possible(f, q[1].step))
      /\ (Refused(f, q, g, r) <=> ~Possible(f, q[1].step))
  BY DEF Stepped, Done, Refused
<1>2. ~q[1].must \/ Possible(f, q[1].step) => r = Tail(q)
  BY DEF Stepped, Done, Refused
<1>3. g = IF Possible(f, q[1].step) THEN Effect(f, q[1].step) ELSE f
  BY DEF Stepped, Done, Refused
<1> QED BY <1>1, <1>2, <1>3

LEMMA OnlyFacts ==
  ASSUME NEW f, Filter(f), NEW c \in Chains, NEW rules \in Seq(RulesOf(c))
  PROVE  Only(c, f, SetChain(f, c, rules)) /\ SetChain(f, c, rules).chains[c] = rules
BY SetChainFacts DEF Only

LEMMA OnlySame ==
  ASSUME NEW f, Filter(f), NEW c \in Present(f) PROVE Only(c, f, f)
BY DEF Only

LEMMA MakeStep ==
  ASSUME NEW f, Filter(f), NEW q, NEW g, NEW r, Stepped(f, q, g, r),
         NEW c \in Chains, q[1] = Try(Make(c))
  PROVE  /\ q[1].step = Make(c) /\ ~q[1].must /\ r = Tail(q) /\ Only(c, f, g)
         /\ IF c \in Present(f) THEN g = f ELSE g.chains[c] = <<>>
<1>1. q[1].step = Make(c) /\ ~q[1].must
  BY ItemFacts
<1>2. Possible(f, q[1].step) <=> c \notin Present(f)
  BY <1>1, MakeCommand
<1>3. r = Tail(q)
  BY <1>1, SteppedTail
<1>4. CASE c \in Present(f)
  <2>1. g = f
    BY <1>2, <1>4, SteppedTail
  <2> QED BY <1>1, <1>3, <1>4, <2>1, OnlySame
<1>5. CASE c \notin Present(f)
  <2>1. g = SetChain(f, c, <<>>)
    BY <1>1, <1>2, <1>5, SteppedTail, MakeCommand
  <2>2. <<>> \in Seq(RulesOf(c))
    OBVIOUS
  <2> QED BY ZenonT(60), <1>1, <1>3, <1>5, <2>1, <2>2, OnlyFacts
<1> QED BY <1>4, <1>5

LEMMA FlushStep ==
  ASSUME NEW f, Filter(f), NEW q, NEW g, NEW r, Stepped(f, q, g, r),
         NEW c \in Chains, q[1].step = Flush(c), ~q[1].must \/ c \in Present(f)
  PROVE  /\ r = Tail(q)
         /\ IF c \in Present(f) THEN Only(c, f, g) /\ g.chains[c] = <<>> ELSE g = f
<1>1. Possible(f, q[1].step) <=> c \in Present(f)
  BY FlushCommand
<1>2. r = Tail(q)
  BY <1>1, SteppedTail
<1>3. CASE c \notin Present(f)
  BY <1>1, <1>2, <1>3, SteppedTail
<1>4. CASE c \in Present(f)
  <2>1. g = SetChain(f, c, <<>>)
    BY <1>1, <1>4, SteppedTail, FlushCommand
  <2>2. <<>> \in Seq(RulesOf(c))
    OBVIOUS
  <2> QED BY <1>2, <1>4, <2>1, <2>2, OnlyFacts
<1> QED BY <1>3, <1>4

LEMMA AddStep ==
  ASSUME NEW f, Filter(f), NEW q, NEW g, NEW r, Stepped(f, q, g, r),
         NEW c \in Chains, NEW x \in RulesOf(c), q[1] = Must(Add(c, x))
  PROVE  /\ q[1].step = Add(c, x) /\ q[1].must
         /\ IF c \in Present(f)
            THEN Only(c, f, g) /\ g.chains[c] = Append(f.chains[c], x) /\ r = Tail(q)
            ELSE g = f /\ Refused(f, q, g, r)
<1>1. q[1].step = Add(c, x) /\ q[1].must
  BY ItemFacts
<1>2. Possible(f, q[1].step) <=> c \in Present(f)
  BY <1>1, AddCommand
<1>3. CASE c \notin Present(f)
  BY <1>1, <1>2, <1>3, SteppedTail
<1>4. CASE c \in Present(f)
  <2>1. r = Tail(q)
    BY <1>2, <1>4, SteppedTail
  <2>2. g = SetChain(f, c, Append(f.chains[c], x))
    BY <1>1, <1>2, <1>4, SteppedTail, AddCommand
  <2>3. Append(f.chains[c], x) \in Seq(RulesOf(c))
    BY <1>4, AppendProperties DEF Filter
  <2>4. Only(c, f, g) /\ g.chains[c] = Append(f.chains[c], x)
    BY ZenonT(60), <2>2, <2>3, OnlyFacts
  <2> QED BY <1>1, <1>4, <2>1, <2>4
<1> QED BY <1>3, <1>4

LEMMA CancelStep ==
  ASSUME NEW f, Filter(f), NEW q, NEW g, NEW r, Stepped(f, q, g, r),
         NEW c \in Chains, NEW x, q[1] = Try(Cancel(c, x))
  PROVE  /\ q[1].step = Cancel(c, x) /\ ~q[1].must /\ r = Tail(q)
         /\ \/ g = f
            \/ /\ c \in Present(f) /\ Contains(f.chains[c], x) /\ Only(c, f, g)
               /\ g.chains[c] = RemoveFirst(f.chains[c], x) /\ g = SetChain(f, c, g.chains[c])
               /\ g.chains[c] \in Seq(RulesOf(c))
<1>1. q[1].step = Cancel(c, x) /\ ~q[1].must
  BY ItemFacts
<1>2. r = Tail(q)
  BY <1>1, SteppedTail
<1>3. CASE ~Possible(f, q[1].step)
  BY <1>1, <1>2, <1>3, SteppedTail
<1>4. CASE Possible(f, q[1].step)
  <2>1. c \in Present(f) /\ Contains(f.chains[c], x)
    BY <1>1, <1>4, CancelCommand
  <2>2. g = SetChain(f, c, RemoveFirst(f.chains[c], x))
    BY <1>1, <1>4, SteppedTail, CancelCommand
  <2>3. f.chains[c] \in Seq(RulesOf(c))
    BY <2>1 DEF Filter
  <2>4. RemoveFirst(f.chains[c], x) \in Seq(RulesOf(c))
    BY <2>1, <2>3, RemoveFirstFacts
  <2>5. Only(c, f, g) /\ g.chains[c] = RemoveFirst(f.chains[c], x)
    BY <2>2, <2>4, OnlyFacts
  <2> QED BY <1>1, <1>2, <2>1, <2>2, <2>4, <2>5
<1> QED BY <1>3, <1>4

\* What a jump leaves alone, besides the chain.
Joins(c, f, g) ==
    /\ Filter(g) /\ g.chains = f.chains /\ Present(g) = Present(f) /\ Visited(g, c)
    /\ \A x \in Chains : x # c => (Visited(g, x) <=> Visited(f, x))
    /\ \A d \in Dirs : g.hooks[d] = IF d = c[2] /\ ~Visited(f, c) THEN <<c[1]>> \o f.hooks[d]
                                                                 ELSE f.hooks[d]

LEMMA JumpStep ==
  ASSUME NEW f, Filter(f), NEW q, NEW g, NEW r, Stepped(f, q, g, r),
         NEW c \in Chains, q[1] = Try(Jump(c))
  PROVE  /\ q[1].step = Jump(c) /\ ~q[1].must /\ r = Tail(q)
         /\ IF c \in Present(f) THEN Joins(c, f, g) ELSE g = f
         /\ Visited(f, c) => g = f
<1>1. q[1].step = Jump(c) /\ ~q[1].must
  BY ItemFacts
<1>2. Possible(f, q[1].step) <=> c \in Present(f)
  BY <1>1, JumpCommand
<1>3. r = Tail(q)
  BY <1>1, SteppedTail
<1>4. CASE c \notin Present(f)
  BY <1>1, <1>2, <1>3, <1>4, SteppedTail
<1>5. CASE c \in Present(f)
  <2>1. g = Effect(f, Jump(c))
    BY <1>1, <1>2, <1>5, SteppedTail
  <2>2. Joins(c, f, g)
    BY <1>5, <2>1, JumpFacts DEF Joins
  <2>3. Visited(f, c) => g = f
    BY <2>1, JumpCommand
  <2> QED BY <1>1, <1>3, <1>5, <2>2, <2>3
<1> QED BY <1>4, <1>5

LEMMA OtherItems ==
  /\ \A c, e : Make(c) # Jump(e) /\ Make(c) # Flush(e) /\ Jump(c) # Flush(e)
  /\ \A c, e, x : Make(c) # Add(e, x) /\ Jump(c) # Add(e, x) /\ Flush(c) # Add(e, x)
  /\ \A c, e, x : Make(c) # Cancel(e, x) /\ Jump(c) # Cancel(e, x) /\ Flush(c) # Cancel(e, x)
  /\ \A c, e : Unjump(c) # Flush(e) /\ Unjump(c) # Discard(e) /\ Flush(c) # Discard(e)
<1>1. \A c, e : Make(c) # Jump(e) /\ Make(c) # Flush(e) /\ Jump(c) # Flush(e)
  BY DoFacts
<1>2. \A c, e, x : Make(c) # Add(e, x) /\ Jump(c) # Add(e, x) /\ Flush(c) # Add(e, x)
  BY DoFacts
<1>3. \A c, e, x : Make(c) # Cancel(e, x) /\ Jump(c) # Cancel(e, x) /\ Flush(c) # Cancel(e, x)
  BY DoFacts
<1>4. \A c, e : Unjump(c) # Flush(e) /\ Unjump(c) # Discard(e) /\ Flush(c) # Discard(e)
  BY DoFacts
<1> QED BY <1>1, <1>2, <1>3, <1>4

\* The iptables commands that isolate and block use.
Building(x) ==
    \/ \E c \in Chains : x = Try(Make(c)) \/ x = Try(Jump(c)) \/ x = Try(Flush(c)) \/ x = Must(Flush(c))
    \/ \E c \in Chains : \E t \in RulesOf(c) : x = Must(Add(c, t))

\* With every chain made in time no required command is refused.
LEMMA EnsuringStep ==
  ASSUME NEW S, NEW q \in Seq(S), InOrder(q), NEW f, Filter(f), Ensuring(f, q), NEW g, NEW r,
         Stepped(f, q, g, r), Building(q[1])
  PROVE  /\ Ensuring(g, r) /\ r = Tail(q)
         /\ \A c \in Chains : \A x : \/ q[1] = Must(Flush(c)) \/ q[1] = Try(Jump(c))
                                     \/ (q[1] = Must(Add(c, x)) /\ x \in RulesOf(c))
                                     => c \in Present(f) /\ Possible(f, q[1].step)
<1>1. q # <<>>
  BY SteppedTail
<1>2. \A s : Left(q, s) => q[1].step = s \/ Left(Tail(q), s)
  BY <1>1, TailFacts
<1>3. ASSUME NEW c \in Chains, q[1] = Try(Make(c)) PROVE Ensuring(g, r) /\ r = Tail(q)
  <2>1. q[1].step = Make(c) /\ r = Tail(q) /\ Only(c, f, g)
    BY <1>3, MakeStep
  <2>2. Ensuring(g, r)
    <3> SUFFICES ASSUME NEW e \in Chains
                 PROVE  /\ e \in Present(g) \/ Left(r, Make(e))
                        /\ Visited(g, e) \/ Left(r, Jump(e))
      BY DEF Ensuring
    <3>1. e \in Present(f) \/ Left(q, Make(e))
      BY DEF Ensuring
    <3>2. Visited(f, e) \/ Left(q, Jump(e))
      BY DEF Ensuring
    <3>3. e \in Present(g) \/ Left(r, Make(e))
      BY <1>2, <2>1, <3>1, SameItem DEF Only
    <3>4. Visited(g, e) \/ Left(r, Jump(e))
      BY <1>2, <2>1, <3>2, OtherItems DEF Only, Visited
    <3> QED BY <3>3, <3>4
  <2> QED BY <2>1, <2>2
<1>4. ASSUME NEW c \in Chains, q[1] = Try(Jump(c))
      PROVE  Ensuring(g, r) /\ r = Tail(q) /\ c \in Present(f) /\ Possible(f, q[1].step)
  <2>1. q[1].step = Jump(c) /\ r = Tail(q) /\ (IF c \in Present(f) THEN Joins(c, f, g) ELSE g = f)
    BY <1>4, JumpStep
  <2>2. Rank(q[1]) = 2
    BY <2>1, DoFacts, ItemRanks
  <2>3. c \in Present(f) /\ Possible(f, q[1].step)
    <3>1. c \in Present(f)
      BY <1>1, <2>2, MadeFirst
    <3> QED BY <2>1, <3>1, JumpCommand
  <2>4. Ensuring(g, r)
    <3> SUFFICES ASSUME NEW e \in Chains
                 PROVE  /\ e \in Present(g) \/ Left(r, Make(e))
                        /\ Visited(g, e) \/ Left(r, Jump(e))
      BY DEF Ensuring
    <3>1. e \in Present(f) \/ Left(q, Make(e))
      BY DEF Ensuring
    <3>2. Visited(f, e) \/ Left(q, Jump(e))
      BY DEF Ensuring
    <3>3. e \in Present(g) \/ Left(r, Make(e))
      BY <1>2, <2>1, <2>3, <3>1, OtherItems DEF Joins
    <3>4. Visited(g, e) \/ Left(r, Jump(e))
      BY <1>2, <2>1, <2>3, <3>2, SameItem DEF Joins
    <3> QED BY <3>3, <3>4
  <2> QED BY <2>1, <2>3, <2>4
<1>5. ASSUME NEW c \in Chains, Only(c, f, g) \/ g = f, r = Tail(q),
             \A e : q[1].step # Make(e) /\ q[1].step # Jump(e)
      PROVE  Ensuring(g, r)
  <2> SUFFICES ASSUME NEW e \in Chains
               PROVE  /\ e \in Present(g) \/ Left(r, Make(e))
                      /\ Visited(g, e) \/ Left(r, Jump(e))
    BY DEF Ensuring
  <2>1. e \in Present(f) \/ Left(q, Make(e))
    BY DEF Ensuring
  <2>2. Visited(f, e) \/ Left(q, Jump(e))
    BY DEF Ensuring
  <2>3. e \in Present(g) \/ Left(r, Make(e))
    BY <1>2, <1>5, <2>1 DEF Only
  <2>4. Visited(g, e) \/ Left(r, Jump(e))
    BY <1>2, <1>5, <2>2 DEF Only, Visited
  <2> QED BY <2>3, <2>4
<1>6. ASSUME NEW c \in Chains, q[1] = Try(Flush(c)) PROVE Ensuring(g, r) /\ r = Tail(q)
  <2>1. q[1].step = Flush(c) /\ ~q[1].must
    BY <1>6, ItemFacts
  <2>2. r = Tail(q) /\ (Only(c, f, g) \/ g = f)
    BY <2>1, FlushStep
  <2>3. \A e : q[1].step # Make(e) /\ q[1].step # Jump(e)
    BY <2>1, OtherItems
  <2> QED BY <1>5, <2>2, <2>3
<1>7. ASSUME NEW c \in Chains, q[1] = Must(Flush(c))
      PROVE  Ensuring(g, r) /\ r = Tail(q) /\ c \in Present(f) /\ Possible(f, q[1].step)
  <2>1. q[1].step = Flush(c) /\ q[1].must
    BY <1>7, ItemFacts
  <2>2. Rank(q[1]) = 3
    BY ZenonT(60), <2>1, DoFacts, ItemRanks
  <2>3. c \in Present(f) /\ Possible(f, q[1].step)
    BY <1>1, <2>1, <2>2, MadeFirst, FlushCommand
  <2>4. r = Tail(q) /\ (Only(c, f, g) \/ g = f)
    BY <2>1, <2>3, FlushStep
  <2>5. \A e : q[1].step # Make(e) /\ q[1].step # Jump(e)
    BY <2>1, OtherItems
  <2> QED BY <1>5, <2>3, <2>4, <2>5
<1>8. ASSUME NEW c \in Chains, NEW x \in RulesOf(c), q[1] = Must(Add(c, x))
      PROVE  Ensuring(g, r) /\ r = Tail(q) /\ c \in Present(f) /\ Possible(f, q[1].step)
  <2>1. q[1].step = Add(c, x)
    BY <1>8, ItemFacts
  <2>2. Rank(q[1]) = 4
    BY ZenonT(60), <2>1, DoFacts, ItemRanks
  <2>3. c \in Present(f) /\ Possible(f, q[1].step)
    BY <1>1, <2>1, <2>2, MadeFirst, AddCommand
  <2>4. r = Tail(q) /\ Only(c, f, g)
    BY <1>8, <2>3, AddStep
  <2>5. \A e : q[1].step # Make(e) /\ q[1].step # Jump(e)
    BY <2>1, OtherItems
  <2> QED BY <1>5, <2>3, <2>4, <2>5
<1>9. Ensuring(g, r) /\ r = Tail(q)
  BY <1>3, <1>4, <1>6, <1>7, <1>8 DEF Building
<1> QED BY <1>4, <1>7, <1>8, <1>9

\* A chain that stays as it is.
LEMMA OnlyArmed ==
  ASSUME NEW f, Filter(f), NEW g, NEW c, Only(c, f, g), NEW d \in Dirs, c # Iso(d)
  PROVE  Armed(g, d) <=> Armed(f, d)
BY DEF Armed, Only

LEMMA OnlyVisited ==
  ASSUME NEW f, NEW g, NEW c, Only(c, f, g), NEW e
  PROVE  Visited(g, e) <=> Visited(f, e)
BY DEF Only, Visited

LEMMA JoinsArmed ==
  ASSUME NEW f, NEW g, NEW c, Joins(c, f, g), NEW d \in Dirs
  PROVE  Armed(g, d) <=> Armed(f, d)
BY DEF Joins, Armed

LEMMA IsoChains ==
  /\ \A d \in Dirs : Iso(d) \in Chains /\ Block(d) \in Chains
  /\ \A d, e : Iso(d) # Block(e) /\ (Iso(d) = Iso(e) => d = e) /\ (Block(d) = Block(e) => d = e)
<1>1. \A d \in Dirs : Iso(d) \in Chains /\ Block(d) \in Chains
  BY ChainFacts DEF Iso, Block, Kinds
<1>2. \A d : Iso(d)[1] = "isolation" /\ Iso(d)[2] = d /\ Block(d)[1] = "block" /\ Block(d)[2] = d
  BY DEF Iso, Block
<1> QED BY <1>1, <1>2

LEMMA IptApplyingStep ==
  ASSUME NEW S, NEW q \in Seq(S), InOrder(q), NEW f, Filter(f), Ensuring(f, q), IptApplying(f, q),
         NEW g, NEW r, Stepped(f, q, g, r), q[1] \in EnsureItems \cup FlushItems \cup FillItems
  PROVE  IptApplying(g, r)
<1> SUFFICES ASSUME NEW d \in Dirs
             PROVE  /\ Left(r, Add(Iso(d), Drop(All))) \/ Armed(g, d)
                    /\ Left(r, Flush(Iso(d))) => Left(r, Add(Iso(d), Drop(All)))
  BY DEF IptApplying
<1> DEFINE ban == Add(Iso(d), Drop(All))
           flush == Flush(Iso(d))
<1>1. (Left(q, ban) \/ Armed(f, d)) /\ (Left(q, flush) => Left(q, ban))
  BY DEF IptApplying
<1>2. q # <<>> /\ \A s : (Left(q, s) => q[1].step = s \/ Left(Tail(q), s))
                         /\ (Left(Tail(q), s) => Left(q, s))
  BY SteppedTail, TailFacts
<1>3. ASSUME NEW c \in Chains, q[1] = Try(Make(c))
      PROVE  (Left(r, ban) \/ Armed(g, d)) /\ (Left(r, flush) => Left(r, ban))
  <2>1. q[1].step = Make(c) /\ r = Tail(q) /\ Only(c, f, g) /\ (c \in Present(f) => g = f)
    BY <1>3, MakeStep
  <2>2. Armed(f, d) => Armed(g, d)
    <3>1. CASE c = Iso(d)
      BY <2>1, <3>1 DEF Armed
    <3>2. CASE c # Iso(d)
      BY <2>1, <3>2, OnlyArmed
    <3> QED BY <3>1, <3>2
  <2>3. q[1].step # ban /\ q[1].step # flush
    BY <2>1, OtherItems
  <2> QED BY <1>1, <1>2, <2>1, <2>2, <2>3
<1>4. ASSUME NEW c \in Chains, q[1] = Try(Jump(c))
      PROVE  (Left(r, ban) \/ Armed(g, d)) /\ (Left(r, flush) => Left(r, ban))
  <2>1. q[1].step = Jump(c) /\ r = Tail(q) /\ (Joins(c, f, g) \/ g = f)
    BY <1>4, JumpStep
  <2>2. Armed(f, d) => Armed(g, d)
    BY <2>1, JoinsArmed
  <2>3. q[1].step # ban /\ q[1].step # flush
    BY <2>1, OtherItems
  <2> QED BY <1>1, <1>2, <2>1, <2>2, <2>3
<1>5. ASSUME NEW e \in Dirs, q[1] = Try(Flush(Iso(e))) \/ q[1] = Must(Flush(Iso(e)))
      PROVE  (Left(r, ban) \/ Armed(g, d)) /\ (Left(r, flush) => Left(r, ban))
  <2>1. q[1].step = Flush(Iso(e)) /\ Iso(e) \in Chains
    BY <1>5, ItemFacts, IsoChains
  <2>2. ~q[1].must \/ Iso(e) \in Present(f)
    <3>1. CASE q[1] = Try(Flush(Iso(e)))
      BY <3>1, ItemFacts
    <3>2. CASE q[1] = Must(Flush(Iso(e)))
      <4>1. q[1].must
        BY <3>2, ItemFacts
      <4>2. q[1].step.do = "flush"
        BY <2>1, DoFacts
      <4>3. Rank(q[1]) = 3
        BY <4>1, <4>2, ItemRanks
      <4> QED BY <1>2, <2>1, <4>3, MadeFirst
    <3> QED BY <1>5, <3>1, <3>2
  <2>3. r = Tail(q) /\ (Only(Iso(e), f, g) \/ g = f)
    BY <2>1, <2>2, FlushStep
  <2>4. q[1].step # ban
    BY <2>1, OtherItems
  <2>5. CASE e = d
    <3>1. q[1].step = flush
      BY <2>1, <2>5
    <3>2. Left(q, flush)
      BY <1>2, <3>1, TailFacts DEF Left
    <3> QED BY <1>1, <1>2, <2>3, <2>4, <3>2
  <2>6. CASE e # d
    <3>1. Iso(e) # Iso(d) /\ q[1].step # flush
      BY <2>1, <2>6, IsoChains, SameItem
    <3>2. Armed(f, d) => Armed(g, d)
      BY <2>3, <3>1, OnlyArmed
    <3> QED BY <1>1, <1>2, <2>3, <2>4, <3>1, <3>2
  <2> QED BY <2>5, <2>6
<1>6. ASSUME NEW e \in Dirs, NEW x \in Isolating, q[1] = Must(Add(Iso(e), x))
      PROVE  (Left(r, ban) \/ Armed(g, d)) /\ (Left(r, flush) => Left(r, ban))
  <2>1. Iso(e) \in Chains /\ x \in RulesOf(Iso(e))
    BY IsoChains, RuleFacts
  <2>2. q[1].step = Add(Iso(e), x)
    BY <1>6, ItemFacts
  <2>3. Rank(q[1]) = 4
    BY ZenonT(60), <2>2, DoFacts, ItemRanks
  <2>4. Iso(e) \in Present(f)
    BY <1>2, <2>1, <2>3, MadeFirst
  <2>5. Only(Iso(e), f, g) /\ g.chains[Iso(e)] = Append(f.chains[Iso(e)], x) /\ r = Tail(q)
    BY <1>6, <2>1, <2>4, AddStep
  <2>6. f.chains[Iso(e)] \in Seq(Isolating)
    BY <2>4, RuleFacts DEF Filter
  <2>7. Armed(f, d) \/ q[1].step = ban => Armed(g, d)
    <3>1. CASE e = d
      <4>1. Iso(d) \in Present(g)
        BY <2>4, <2>5, <3>1 DEF Only
      <4>2. q[1].step = ban => x = Drop(All)
        BY <2>2, SameItem
      <4>3. Contains(f.chains[Iso(e)], Drop(All)) \/ x = Drop(All) => Contains(g.chains[Iso(e)], Drop(All))
        BY <2>5, <2>6, ContainsFacts
      <4> QED BY <3>1, <4>1, <4>2, <4>3 DEF Armed
    <3>2. CASE e # d
      <4>1. Iso(e) # Iso(d) /\ q[1].step # ban
        BY <2>2, <3>2, IsoChains, SameItem
      <4> QED BY <2>5, <4>1, OnlyArmed
    <3> QED BY <3>1, <3>2
  <2>8. ~Left(q, flush)
    <3> SUFFICES ASSUME Left(q, flush) PROVE FALSE
      OBVIOUS
    <3>1. PICK y : y.step = flush /\ Rank(q[1]) <= Rank(y)
      <4> HIDE DEF flush
      <4> QED BY <1>2, RankLeft
    <3>2. Rank(y) \in {0, 3}
      BY <3>1, DoFacts, ItemRanks
    <3> QED BY <2>3, <3>1, <3>2
  <2> QED BY <1>1, <1>2, <2>5, <2>7, <2>8
<1> QED BY <1>3, <1>4, <1>5, <1>6 DEF EnsureItems, FlushItems, FillItems

LEMMA IptRemovingStep ==
  ASSUME NEW S, NEW q \in Seq(S), NEW f, Filter(f), IptRemoving(f, q),
         NEW g, NEW r, Stepped(f, q, g, r), q[1] \in FlushItems
  PROVE  IptRemoving(g, r) /\ ~q[1].must /\ r = Tail(q)
<1>1. PICK e \in Dirs : q[1] = Try(Flush(Iso(e)))
  BY DEF FlushItems
<1>2. q[1].step = Flush(Iso(e)) /\ ~q[1].must /\ Iso(e) \in Chains
  BY <1>1, ItemFacts, IsoChains
<1>3. r = Tail(q) /\ IF Iso(e) \in Present(f) THEN Only(Iso(e), f, g) /\ g.chains[Iso(e)] = <<>> ELSE g = f
  BY <1>2, FlushStep
<1>4. q # <<>> /\ \A s : Left(q, s) => q[1].step = s \/ Left(Tail(q), s)
  BY SteppedTail, TailFacts
<1>5. ASSUME NEW d \in Dirs, Armed(g, d) PROVE Left(r, Flush(Iso(d)))
  <2>1. e # d
    <3>1. CASE Iso(e) \in Present(f)
      BY <1>3, <1>5, <3>1 DEF Armed, Contains
    <3>2. CASE Iso(e) \notin Present(f)
      BY <1>3, <1>5, <3>2 DEF Armed
    <3> QED BY <3>1, <3>2
  <2>2. Iso(e) # Iso(d)
    BY <2>1, IsoChains
  <2>3. Armed(f, d)
    BY <1>3, <1>5, <2>2, OnlyArmed
  <2>4. Left(q, Flush(Iso(d))) /\ q[1].step # Flush(Iso(d))
    BY <1>2, <2>2, <2>3, SameItem DEF IptRemoving
  <2> QED BY <1>3, <1>4, <2>4
<1> QED BY <1>2, <1>3, <1>5 DEF IptRemoving

BlockItems(ip) == {Must(Add(Block(d), Drop(ip))) : d \in Dirs}
CancelItems(ip) == {Try(Cancel(Block(d), Drop(ip))) : d \in Dirs}

LEMMA JointPresent ==
  ASSUME NEW f, Filter(f), NEW c \in Chains, Visited(f, c) PROVE c \in Present(f)
<1>1. c[2] \in Dirs /\ c[1] \in Range(f.hooks[c[2]]) /\ c = <<c[1], c[2]>>
  BY ChainFacts DEF Visited
<1> QED BY <1>1 DEF Filter

\* Commands to the block chain of a direction do not touch the isolation.
LEMMA BlockOnly ==
  ASSUME NEW f, Filter(f), NEW g, NEW d \in Dirs, Only(Block(d), f, g)
  PROVE  /\ \A e \in Dirs : (Armed(g, e) <=> Armed(f, e)) /\ (Cut(g, e) <=> Cut(f, e))
         /\ \A c : Visited(g, c) <=> Visited(f, c)
<1>1. \A c : Visited(g, c) <=> Visited(f, c)
  BY OnlyVisited
<1>2. ASSUME NEW e \in Dirs PROVE Armed(g, e) <=> Armed(f, e)
  BY IsoChains, OnlyArmed
<1> QED BY <1>1, <1>2 DEF Cut

\* block_ip and unblock_ip with iptables leave an isolation as it is, and the
\* server reachable unless its own address is meant.
LEMMA IptKeeps ==
  ASSUME NEW f, Filter(f), NEW q, NEW g, NEW r, Stepped(f, q, g, r), NEW ip \in Named,
         q[1] \in EnsureItems \cup BlockItems(ip) \cup CancelItems(ip)
  PROVE  /\ CutOff(f) /\ Joint(f) =>
              /\ CutOff(g) /\ Joint(g)
              /\ ip # Server => (Reachable(g, Server) <=> Reachable(f, Server))
         /\ Open(f) => Open(g)
<1>1. ASSUME NEW c \in Chains, q[1] = Try(Make(c))
      PROVE  /\ Joint(f) => g = f
             /\ Open(f) => Open(g)
  <2>1. Only(c, f, g) /\ IF c \in Present(f) THEN g = f ELSE g.chains[c] = <<>>
    BY <1>1, MakeStep
  <2>2. Joint(f) => g = f
    BY <2>1, JointPresent DEF Joint
  <2>3. ASSUME Open(f), NEW d \in Dirs, Armed(g, d) PROVE FALSE
    <3>1. CASE c = Iso(d)
      BY <2>1, <2>3, <3>1 DEF Armed, Open, Contains
    <3>2. CASE c # Iso(d)
      BY <2>1, <2>3, <3>2, OnlyArmed DEF Open
    <3> QED BY <3>1, <3>2
  <2> QED BY <2>2, <2>3 DEF Open
<1>2. ASSUME NEW c \in Chains, q[1] = Try(Jump(c))
      PROVE  /\ Joint(f) => g = f
             /\ Open(f) => Open(g)
  <2>1. (Joins(c, f, g) \/ g = f) /\ (Visited(f, c) => g = f)
    BY <1>2, JumpStep
  <2> QED BY <2>1, JoinsArmed DEF Joint, Open
<1>3. ASSUME NEW d \in Dirs, Only(Block(d), f, g)
      PROVE  (CutOff(f) /\ Joint(f) => CutOff(g) /\ Joint(g)) /\ (Open(f) => Open(g))
  BY <1>3, BlockOnly DEF CutOff, Joint, Open
<1>4. {Server, All} \cap {ip} = {} \/ ip = Server
  BY HostsAssumption DEF Named
<1>5. ASSUME NEW d \in Dirs, q[1] = Must(Add(Block(d), Drop(ip)))
      PROVE  /\ CutOff(f) /\ Joint(f) =>
                  /\ CutOff(g) /\ Joint(g)
                  /\ ip # Server => (Reachable(g, Server) <=> Reachable(f, Server))
             /\ Open(f) => Open(g)
  <2>1. Block(d) \in Chains /\ Drop(ip) \in RulesOf(Block(d))
    BY IsoChains, RuleFacts
  <2>2. CASE Block(d) \in Present(f)
    <3> DEFINE t == Append(f.chains[Block(d)], Drop(ip))
    <3>1. Only(Block(d), f, g) /\ g.chains[Block(d)] = t
      BY <1>5, <2>1, <2>2, AddStep
    <3>2. f.chains[Block(d)] \in Seq(RulesOf(Block(d)))
      BY <2>2 DEF Filter
    <3>3. t \in Seq(RulesOf(Block(d)))
      BY <2>1, <3>2, AppendProperties
    <3>4. g = SetChain(f, Block(d), t)
      <4>1. q[1].step = Add(Block(d), Drop(ip))
        BY <1>5, ItemFacts
      <4>2. Possible(f, q[1].step) /\ Effect(f, q[1].step) = SetChain(f, Block(d), t)
        BY <2>2, <4>1, AddCommand
      <4> QED BY <4>2, SteppedTail
    <3>5. ASSUME ip # Server PROVE Reachable(g, Server) <=> Reachable(f, Server)
      <4>1. ASSUME NEW A, ip \notin A PROVE Alike(t, f.chains[Block(d)], A)
        <5>1. Drop(ip).to = ip
          BY RuleFacts
        <5> QED BY <2>1, <3>2, <4>1, <5>1, AppendAlike
      <4>2. ip \notin {Server, All} /\ ip \notin {Server}
        BY <1>4, <3>5
      <4>3. Alike(t, f.chains[Block(d)], {Server, All}) /\ Alike(t, f.chains[Block(d)], {Server})
        BY <4>1, <4>2
      <4> HIDE DEF t
      <4> QED BY <2>2, <3>3, <3>4, <4>3, SameReachable
    <3> QED BY <1>3, <3>1, <3>5
  <2>3. CASE Block(d) \notin Present(f)
    <3>1. g = f
      BY <1>5, <2>1, <2>3, AddStep
    <3> QED BY <3>1
  <2> QED BY <2>2, <2>3
<1>6. ASSUME NEW d \in Dirs, q[1] = Try(Cancel(Block(d), Drop(ip)))
      PROVE  /\ CutOff(f) /\ Joint(f) =>
                  /\ CutOff(g) /\ Joint(g)
                  /\ ip # Server => (Reachable(g, Server) <=> Reachable(f, Server))
             /\ Open(f) => Open(g)
  <2>1. Block(d) \in Chains
    BY IsoChains
  <2> DEFINE t == g.chains[Block(d)]
  <2>2. \/ g = f
        \/ /\ Block(d) \in Present(f) /\ Contains(f.chains[Block(d)], Drop(ip)) /\ Only(Block(d), f, g)
           /\ t = RemoveFirst(f.chains[Block(d)], Drop(ip)) /\ g = SetChain(f, Block(d), t)
           /\ t \in Seq(RulesOf(Block(d)))
    BY <1>6, <2>1, CancelStep
  <2> HIDE DEF t
  <2>3. CASE g = f
    BY <2>3
  <2>4. CASE g # f
    <3>1. f.chains[Block(d)] \in Seq(RulesOf(Block(d)))
      BY <2>2, <2>4 DEF Filter
    <3>2. ASSUME ip # Server PROVE Reachable(g, Server) <=> Reachable(f, Server)
      <4>1. ASSUME NEW A, ip \notin A PROVE Alike(t, f.chains[Block(d)], A)
        <5>1. Drop(ip).to = ip
          BY RuleFacts
        <5> QED BY <2>2, <2>4, <3>1, <4>1, <5>1, RemoveAlike
      <4>2. ip \notin {Server, All} /\ ip \notin {Server}
        BY <1>4, <3>2
      <4>3. Alike(t, f.chains[Block(d)], {Server, All}) /\ Alike(t, f.chains[Block(d)], {Server})
        BY <4>1, <4>2
      <4> QED BY <2>2, <2>4, <4>3, SameReachable
    <3> QED BY <1>3, <2>2, <2>4, <3>2
  <2> QED BY <2>3, <2>4
<1> QED BY <1>1, <1>2, <1>5, <1>6 DEF EnsureItems, BlockItems, CancelItems

\* What blocks an address stays, unless it is cancelled.
LEMMA IptShutStep ==
  ASSUME NEW f, Filter(f), NEW q, NEW g, NEW r, Stepped(f, q, g, r), NEW ip \in Named,
         q[1] \in EnsureItems \cup FlushItems \cup FillItems \cup BlockItems(ip) \cup CancelItems(ip),
         NEW d \in Dirs, NEW h \in Named, Shut(f, Block(d), h), q[1] \in CancelItems(ip) => h # ip
  PROVE  Shut(g, Block(d), h)
<1>1. Block(d) \in Present(f) /\ Visited(f, Block(d)) /\ Bars(f.chains[Block(d)], h)
  BY DEF Shut
<1>2. f.chains[Block(d)] \in Seq(Blocking)
  BY <1>1, RuleFacts DEF Filter
<1>3. ASSUME NEW c, Only(c, f, g), c # Block(d) \/ Bars(g.chains[c], h)
      PROVE  Shut(g, Block(d), h)
  <2>1. Visited(g, Block(d)) /\ Block(d) \in Present(g)
    BY <1>1, <1>3, OnlyVisited DEF Only
  <2>2. Bars(g.chains[Block(d)], h)
    BY <1>1, <1>3 DEF Only
  <2> QED BY <2>1, <2>2 DEF Shut
<1>4. ASSUME NEW c \in Chains, q[1] = Try(Make(c)) PROVE Shut(g, Block(d), h)
  <2>1. Only(c, f, g) /\ (c \in Present(f) => g = f)
    BY <1>4, MakeStep
  <2> QED BY <1>1, <1>3, <2>1
<1>5. ASSUME NEW c \in Chains, q[1] = Try(Jump(c)) PROVE Shut(g, Block(d), h)
  <2>1. Joins(c, f, g) \/ g = f
    BY <1>5, JumpStep
  <2> QED BY <1>1, <2>1, IsoChains DEF Joins, Shut
<1>6. ASSUME NEW e \in Dirs, q[1].step = Flush(Iso(e)) PROVE Shut(g, Block(d), h)
  <2>1. Iso(e) \in Chains /\ Iso(e) # Block(d)
    BY IsoChains
  <2>2. CASE ~q[1].must \/ Iso(e) \in Present(f)
    <3>1. Only(Iso(e), f, g) \/ g = f
      BY <1>6, <2>1, <2>2, FlushStep
    <3> QED BY <1>3, <2>1, <3>1
  <2>3. CASE Iso(e) \notin Present(f)
    <3>1. ~Possible(f, q[1].step)
      BY <1>6, <2>3, FlushCommand
    <3>2. g = f
      BY <3>1, SteppedTail
    <3> QED BY <3>2
  <2> QED BY <2>2, <2>3
<1>7. ASSUME NEW e \in Dirs, NEW x \in Isolating, q[1] = Must(Add(Iso(e), x)) PROVE Shut(g, Block(d), h)
  <2>1. Iso(e) \in Chains /\ Iso(e) # Block(d) /\ x \in RulesOf(Iso(e))
    BY IsoChains, RuleFacts
  <2>2. Only(Iso(e), f, g) \/ g = f
    BY <1>7, <2>1, AddStep
  <2> QED BY <1>3, <2>1, <2>2
<1>8. ASSUME NEW e \in Dirs, q[1] = Must(Add(Block(e), Drop(ip))) PROVE Shut(g, Block(d), h)
  <2>1. Block(e) \in Chains /\ Drop(ip) \in RulesOf(Block(e)) /\ Drop(ip) \in Blocking
    BY IsoChains, RuleFacts
  <2>2. \/ Only(Block(e), f, g) /\ g.chains[Block(e)] = Append(f.chains[Block(e)], Drop(ip))
        \/ g = f
    BY <1>8, <2>1, AddStep
  <2>3. Bars(Append(f.chains[Block(d)], Drop(ip)), h)
    BY <1>1, <1>2, <2>1, BarsFacts
  <2> QED BY <1>3, <2>2, <2>3
<1>9. ASSUME NEW e \in Dirs, q[1] = Try(Cancel(Block(e), Drop(ip))) PROVE Shut(g, Block(d), h)
  <2>1. \/ g = f
        \/ /\ Contains(f.chains[Block(e)], Drop(ip)) /\ Only(Block(e), f, g)
           /\ g.chains[Block(e)] = RemoveFirst(f.chains[Block(e)], Drop(ip))
    BY <1>9, IsoChains, CancelStep
  <2>2. h # ip
    BY <1>9 DEF CancelItems
  <2>3. Contains(f.chains[Block(d)], Drop(ip)) => Bars(RemoveFirst(f.chains[Block(d)], Drop(ip)), h)
    BY <1>1, <1>2, <2>2, BarsFacts
  <2> QED BY <1>3, <2>1, <2>3
<1>10. CASE q[1] \in EnsureItems
  BY <1>4, <1>5, <1>10 DEF EnsureItems
<1>11. CASE q[1] \in FlushItems \cup FillItems
  <2>1. \/ \E e \in Dirs : q[1] = Try(Flush(Iso(e))) \/ q[1] = Must(Flush(Iso(e)))
        \/ \E e \in Dirs, x \in Isolating : q[1] = Must(Add(Iso(e), x))
    BY <1>11 DEF FlushItems, FillItems
  <2>2. ASSUME NEW e \in Dirs, q[1] = Try(Flush(Iso(e))) \/ q[1] = Must(Flush(Iso(e)))
        PROVE  q[1].step = Flush(Iso(e))
    BY <2>2, ItemFacts
  <2> QED BY <1>6, <1>7, <2>1, <2>2
<1>12. CASE q[1] \in BlockItems(ip) \cup CancelItems(ip)
  BY <1>8, <1>9, <1>12 DEF BlockItems, CancelItems
<1> QED BY <1>10, <1>11, <1>12

LEMMA IptBlockingStep ==
  ASSUME NEW S, NEW q \in Seq(S), NEW f, Filter(f), NEW g, NEW r, Stepped(f, q, g, r),
         NEW ip \in Named, q[1] \in EnsureItems \cup BlockItems(ip),
         q[1].must => Possible(f, q[1].step), NEW d \in Dirs, IptBlocking(f, q, ip, d)
  PROVE  IptBlocking(g, r, ip, d)
<1> DEFINE add == Add(Block(d), Drop(ip))
           there(x) == Block(d) \in Present(x) /\ Contains(x.chains[Block(d)], Drop(ip))
<1>1. q # <<>> /\ \A s : Left(q, s) => q[1].step = s \/ Left(Tail(q), s)
  BY SteppedTail, TailFacts
<1>2. Left(q, add) \/ there(f)
  BY DEF IptBlocking
<1>3. ASSUME NEW c \in Chains, q[1] = Try(Make(c)) PROVE Left(r, add) \/ there(g)
  <2>1. q[1].step = Make(c) /\ r = Tail(q) /\ Only(c, f, g) /\ (c \in Present(f) => g = f)
    BY <1>3, MakeStep
  <2>2. q[1].step # add
    BY <2>1, OtherItems
  <2>3. there(f) => there(g)
    BY <2>1 DEF Only
  <2> QED BY <1>1, <1>2, <2>1, <2>2, <2>3
<1>4. ASSUME NEW c \in Chains, q[1] = Try(Jump(c)) PROVE Left(r, add) \/ there(g)
  <2>1. q[1].step = Jump(c) /\ r = Tail(q) /\ (Joins(c, f, g) \/ g = f)
    BY <1>4, JumpStep
  <2>2. q[1].step # add
    BY <2>1, OtherItems
  <2>3. there(f) => there(g)
    BY <2>1 DEF Joins
  <2> QED BY <1>1, <1>2, <2>1, <2>2, <2>3
<1>5. ASSUME NEW e \in Dirs, q[1] = Must(Add(Block(e), Drop(ip))) PROVE Left(r, add) \/ there(g)
  <2>1. Block(e) \in Chains /\ Drop(ip) \in RulesOf(Block(e))
    BY IsoChains, RuleFacts
  <2>2. q[1].step = Add(Block(e), Drop(ip)) /\ q[1].must
    BY <1>5, ItemFacts
  <2>3. Block(e) \in Present(f)
    BY <2>2, AddCommand
  <2>4. Only(Block(e), f, g) /\ g.chains[Block(e)] = Append(f.chains[Block(e)], Drop(ip)) /\ r = Tail(q)
    BY <1>5, <2>1, <2>3, AddStep
  <2>5. f.chains[Block(e)] \in Seq(RulesOf(Block(e)))
    BY <2>3 DEF Filter
  <2>6. Contains(g.chains[Block(e)], Drop(ip)) /\ Block(e) \in Present(g)
    BY <2>1, <2>3, <2>4, <2>5, ContainsFacts DEF Only
  <2>7. CASE e = d
    BY <2>6, <2>7
  <2>8. CASE e # d
    <3>1. Block(e) # Block(d) /\ q[1].step # add
      BY <2>2, <2>8, IsoChains, SameItem
    <3>2. there(f) => there(g)
      BY <2>4, <3>1 DEF Only
    <3> QED BY <1>1, <1>2, <2>4, <3>1, <3>2
  <2> QED BY <2>7, <2>8
<1> QED BY <1>3, <1>4, <1>5 DEF EnsureItems, BlockItems, IptBlocking

\* Commands that leave the jumps alone.
LEMMA HooksKept ==
  ASSUME NEW S, NEW q \in Seq(S), q # <<>>, NEW f, NEW g, BlockFirst(f, q), g.hooks = f.hooks,
         \A c : q[1].step # Jump(c)
  PROVE  BlockFirst(g, Tail(q))
<1>1. \A s : Left(q, s) => q[1].step = s \/ Left(Tail(q), s)
  BY TailFacts
<1>2. \A s, x : Before(q, s, x) => q[1].step = s \/ Before(Tail(q), s, x)
  BY TailFacts
<1> QED BY <1>1, <1>2 DEF BlockFirst

LEMMA BlockFirstStep ==
  ASSUME NEW S, NEW q \in Seq(S), InOrder(q), NEW f, Filter(f), Ensuring(f, q), BlockFirst(f, q),
         NEW g, NEW r, Stepped(f, q, g, r), Building(q[1])
  PROVE  BlockFirst(g, r)
<1>1. r = Tail(q) /\ q # <<>>
  BY EnsuringStep, SteppedTail
<1>2. ASSUME NEW c \in Chains, q[1] = Try(Jump(c)) PROVE BlockFirst(g, r)
  <2>1. c \in Present(f)
    BY <1>2, EnsuringStep
  <2>2. q[1].step = Jump(c) /\ Joins(c, f, g) /\ (Visited(f, c) => g = f)
    BY <1>2, <2>1, JumpStep
  <2> SUFFICES ASSUME NEW d \in Dirs
               PROVE  /\ g.hooks[d] \in { <<>>, <<"isolation">>, <<"block", "isolation">> }
                      /\ g.hooks[d] = <<"isolation">> => Left(r, Jump(Block(d)))
                      /\ g.hooks[d] = <<>> => Before(r, Jump(Iso(d)), Jump(Block(d)))
    BY DEF BlockFirst
  <2>3. /\ f.hooks[d] \in { <<>>, <<"isolation">>, <<"block", "isolation">> }
        /\ f.hooks[d] = <<"isolation">> => Left(q, Jump(Block(d)))
        /\ f.hooks[d] = <<>> => Before(q, Jump(Iso(d)), Jump(Block(d)))
    BY DEF BlockFirst
  <2>4. \A s : Left(q, s) => q[1].step = s \/ Left(r, s)
    BY <1>1, TailFacts
  <2>5. \A s, x : Before(q, s, x) => q[1].step # x /\ (q[1].step = s \/ Before(r, s, x))
    BY <1>1, TailFacts
  <2>6. Range(<<>>) = {} /\ Range(<<"isolation">>) = {"isolation"}
        /\ Range(<<"block", "isolation">>) = {"block", "isolation"}
    BY OrderFacts
  <2>7. CASE c = Iso(d)
    <3>1. c[2] = d /\ c[1] = "isolation"
      BY <2>7 DEF Iso
    <3>2. CASE f.hooks[d] = <<>>
      <4>1. ~Visited(f, c) /\ ~Visited(f, Block(d))
        BY <2>6, <3>1, <3>2 DEF Visited, Block
      <4>2. g.hooks[d] = <<"isolation">> \o <<>>
        BY <2>2, <3>1, <3>2, <4>1 DEF Joins
      <4>3. g.hooks[d] = <<"isolation">>
        BY <4>2
      <4>4. Left(q, Jump(Block(d)))
        BY <4>1, IsoChains DEF Ensuring
      <4>5. Left(r, Jump(Block(d)))
        BY <2>2, <2>4, <2>7, <4>4, IsoChains, SameItem
      <4>6. g.hooks[d] # <<>>
        BY <4>3
      <4> QED BY <4>3, <4>5, <4>6
    <3>3. CASE f.hooks[d] # <<>>
      <4>1. Visited(f, c)
        BY <2>3, <2>6, <3>1, <3>3 DEF Visited
      <4>2. q[1].step # Jump(Block(d))
        BY <2>2, <2>7, IsoChains, SameItem
      <4> QED BY <2>2, <2>3, <2>4, <3>3, <4>1, <4>2
    <3> QED BY <3>2, <3>3
  <2>8. CASE c = Block(d)
    <3>1. c[2] = d /\ c[1] = "block"
      BY <2>8 DEF Block
    <3>2. f.hooks[d] # <<>>
      BY <2>2, <2>3, <2>5, <2>8
    <3>3. CASE f.hooks[d] = <<"isolation">>
      <4>1. ~Visited(f, c)
        BY <2>6, <3>1, <3>3 DEF Visited
      <4>2. g.hooks[d] = <<"block">> \o <<"isolation">>
        BY <2>2, <3>1, <3>3, <4>1 DEF Joins
      <4>3. <<"block">> \o <<"isolation">> = <<"block", "isolation">>
        BY PairConcat
      <4>4. g.hooks[d] = <<"block", "isolation">> /\ g.hooks[d] # <<"isolation">> /\ g.hooks[d] # <<>>
        BY <4>2, <4>3
      <4> QED BY <4>4
    <3>4. CASE f.hooks[d] = <<"block", "isolation">>
      <4>1. Visited(f, c)
        BY <2>6, <3>1, <3>4 DEF Visited
      <4>2. g.hooks[d] = <<"block", "isolation">>
        BY <2>2, <3>4, <4>1
      <4>3. g.hooks[d] # <<"isolation">> /\ g.hooks[d] # <<>>
        BY <4>2
      <4> QED BY <4>2, <4>3
    <3> QED BY <2>3, <3>2, <3>3, <3>4
  <2>9. CASE c # Iso(d) /\ c # Block(d)
    <3>1. c[2] # d
      BY <2>9, ChainFacts DEF Iso, Block, Kinds
    <3>2. g.hooks[d] = f.hooks[d]
      BY <2>2, <3>1 DEF Joins
    <3>3. q[1].step # Jump(Iso(d)) /\ q[1].step # Jump(Block(d))
      BY <2>2, <2>9, SameItem
    <3> QED BY <2>3, <2>4, <2>5, <3>2, <3>3
  <2> QED BY <2>7, <2>8, <2>9
<1>3. ASSUME g.hooks = f.hooks, \A c : q[1].step # Jump(c) PROVE BlockFirst(g, r)
  BY <1>1, <1>3, HooksKept
<1>4. ASSUME NEW c \in Chains, q[1] = Try(Make(c)) PROVE BlockFirst(g, r)
  <2>1. q[1].step = Make(c) /\ Only(c, f, g)
    BY <1>4, MakeStep
  <2>2. \A e : q[1].step # Jump(e)
    BY <2>1, OtherItems
  <2> QED BY <1>3, <2>1, <2>2 DEF Only
<1>5. ASSUME NEW c \in Chains, q[1] = Try(Flush(c)) \/ q[1] = Must(Flush(c)) PROVE BlockFirst(g, r)
  <2>1. q[1].step = Flush(c)
    BY <1>5, ItemFacts
  <2>2. ~q[1].must \/ c \in Present(f)
    <3>1. CASE q[1] = Try(Flush(c))
      BY <3>1, ItemFacts
    <3>2. CASE q[1] = Must(Flush(c))
      BY <3>2, EnsuringStep
    <3> QED BY <1>5, <3>1, <3>2
  <2>3. g.hooks = f.hooks
    BY <2>1, <2>2, FlushStep DEF Only
  <2>4. \A e : q[1].step # Jump(e)
    BY <2>1, OtherItems
  <2> QED BY <1>3, <2>3, <2>4
<1>6. ASSUME NEW c \in Chains, NEW x \in RulesOf(c), q[1] = Must(Add(c, x)) PROVE BlockFirst(g, r)
  <2>1. q[1].step = Add(c, x) /\ (Only(c, f, g) \/ g = f)
    BY <1>6, AddStep
  <2>2. \A e : q[1].step # Jump(e)
    BY <2>1, OtherItems
  <2> QED BY <1>3, <2>1, <2>2 DEF Only
<1> QED BY <1>2, <1>4, <1>5, <1>6 DEF Building

LEMMA UnjumpStep ==
  ASSUME NEW f, Filter(f), NEW q, NEW g, NEW r, Stepped(f, q, g, r),
         NEW c \in Chains, q[1] = Try(Unjump(c))
  PROVE  /\ q[1].step = Unjump(c) /\ r = Tail(q) /\ Filter(g) /\ g.chains = f.chains
         /\ Present(g) = Present(f)
         /\ \A x \in Chains : Visited(g, x) <=> x # c /\ Visited(f, x)
<1>1. q[1].step = Unjump(c) /\ ~q[1].must
  BY ItemFacts
<1>2. Possible(f, q[1].step) <=> Visited(f, c)
  BY <1>1, UnjumpCommand
<1>3. r = Tail(q)
  BY <1>1, SteppedTail
<1>4. CASE ~Visited(f, c)
  <2>1. g = f
    BY <1>2, <1>4, SteppedTail
  <2> QED BY <1>1, <1>3, <1>4, <2>1
<1>5. CASE Visited(f, c)
  <2>1. g = Effect(f, Unjump(c))
    BY <1>1, <1>2, <1>5, SteppedTail
  <2>2. Filter(g) /\ g.chains = f.chains /\ Present(g) = Present(f) /\ ~Visited(g, c)
        /\ \A x \in Chains : x # c => (Visited(g, x) <=> Visited(f, x))
    BY <1>5, <2>1, UnjumpFacts
  <2> QED BY <1>1, <1>3, <2>2
<1> QED BY <1>4, <1>5

LEMMA DiscardStep ==
  ASSUME NEW f, Filter(f), NEW q, NEW g, NEW r, Stepped(f, q, g, r),
         NEW c \in Chains, q[1] = Try(Discard(c))
  PROVE  /\ q[1].step = Discard(c) /\ r = Tail(q) /\ Filter(g) /\ g.hooks = f.hooks
         /\ Present(g) \subseteq Present(f) /\ Present(f) \ {c} \subseteq Present(g)
         /\ \A x \in Present(g) : g.chains[x] = f.chains[x]
         /\ ~Visited(f, c) /\ (c \in Present(f) => f.chains[c] = <<>>) => c \notin Present(g)
<1>1. q[1].step = Discard(c) /\ ~q[1].must
  BY ItemFacts
<1>2. Possible(f, q[1].step) <=> c \in Present(f) /\ ~Visited(f, c) /\ f.chains[c] = <<>>
  BY <1>1, DiscardPossible
<1>3. r = Tail(q)
  BY <1>1, SteppedTail
<1>4. CASE ~Possible(f, q[1].step)
  <2>1. g = f
    BY <1>4, SteppedTail
  <2> QED BY <1>1, <1>2, <1>3, <1>4, <2>1
<1>5. CASE Possible(f, q[1].step)
  <2>1. g = Effect(f, Discard(c))
    BY <1>1, <1>5, SteppedTail
  <2>2. Filter(g) /\ g.hooks = f.hooks /\ Present(g) = Present(f) \ {c}
        /\ \A x \in Present(g) : g.chains[x] = f.chains[x]
    BY <1>2, <1>5, <2>1, DiscardFacts
  <2> QED BY <1>1, <1>3, <2>2
<1> QED BY <1>4, <1>5

LEMMA IptDrainingStep ==
  ASSUME NEW S, NEW q \in Seq(S), NEW f, Filter(f), IptDraining(f, q),
         NEW g, NEW r, Stepped(f, q, g, r), q[1] \in DrainItems
  PROVE  IptDraining(g, r)
<1>1. q # <<>> /\ (Unjumping(q) => Unjumping(Tail(q)))
      /\ \A s : Left(q, s) => q[1].step = s \/ Left(Tail(q), s)
  BY SteppedTail, TailFacts
<1>2. \A s, x : Before(q, s, x) => q[1].step # x /\ (q[1].step = s \/ Before(Tail(q), s, x))
  BY <1>1, TailFacts
<1>3. Unjumping(q) /\ Unjumping(Tail(q))
  BY <1>1 DEF IptDraining
<1>4. \A e \in Chains :
        /\ Visited(f, e) => Left(q, Unjump(e))
        /\ e \in Present(f) => Left(q, Discard(e))
        /\ (e \in Present(f) => f.chains[e] = <<>>) \/ Before(q, Flush(e), Discard(e))
  BY DEF IptDraining
<1>5. ASSUME NEW c \in Chains, q[1] = Try(Unjump(c)) PROVE IptDraining(g, r)
  <2>1. q[1].step = Unjump(c) /\ r = Tail(q) /\ g.chains = f.chains /\ Present(g) = Present(f)
        /\ \A x \in Chains : Visited(g, x) <=> x # c /\ Visited(f, x)
    BY <1>5, UnjumpStep
  <2>2. ASSUME NEW e \in Chains
        PROVE  /\ Visited(g, e) => Left(r, Unjump(e))
               /\ e \in Present(g) => Left(r, Discard(e))
               /\ (e \in Present(g) => g.chains[e] = <<>>) \/ Before(r, Flush(e), Discard(e))
    <3>1. q[1].step # Flush(e) /\ q[1].step # Discard(e) /\ (e # c => q[1].step # Unjump(e))
      BY <2>1, OtherItems, SameItem
    <3> QED BY <1>1, <1>2, <1>4, <2>1, <3>1
  <2> QED BY <1>3, <2>1, <2>2 DEF IptDraining
<1>6. ASSUME NEW c \in Chains, q[1] = Try(Flush(c)) PROVE IptDraining(g, r)
  <2>1. q[1].step = Flush(c) /\ ~q[1].must
    BY <1>6, ItemFacts
  <2>2. r = Tail(q)
        /\ IF c \in Present(f) THEN Only(c, f, g) /\ g.chains[c] = <<>> ELSE g = f
    BY <2>1, FlushStep
  <2>3. Present(g) = Present(f) /\ (c \in Present(g) => g.chains[c] = <<>>)
        /\ \A x \in Present(f) : x # c => g.chains[x] = f.chains[x]
    BY <2>2 DEF Only
  <2>4. \A x : Visited(g, x) <=> Visited(f, x)
    BY <2>2 DEF Only, Visited
  <2>5. ASSUME NEW e \in Chains
        PROVE  /\ Visited(g, e) => Left(r, Unjump(e))
               /\ e \in Present(g) => Left(r, Discard(e))
               /\ (e \in Present(g) => g.chains[e] = <<>>) \/ Before(r, Flush(e), Discard(e))
    <3>1. q[1].step # Unjump(e) /\ q[1].step # Discard(e) /\ (e # c => q[1].step # Flush(e))
      BY <2>1, OtherItems, SameItem
    <3> QED BY <1>1, <1>2, <1>4, <2>2, <2>3, <2>4, <3>1
  <2> QED BY <1>3, <2>2, <2>5 DEF IptDraining
<1>7. ASSUME NEW c \in Chains, q[1] = Try(Discard(c)) PROVE IptDraining(g, r)
  <2>1. q[1].step = Discard(c) /\ r = Tail(q) /\ g.hooks = f.hooks
        /\ Present(g) \subseteq Present(f) /\ Present(f) \ {c} \subseteq Present(g)
        /\ (\A x \in Present(g) : g.chains[x] = f.chains[x])
        /\ (~Visited(f, c) /\ (c \in Present(f) => f.chains[c] = <<>>) => c \notin Present(g))
    BY <1>7, DiscardStep
  <2>2. \A e : ~Left(q, Unjump(e))
    <3> SUFFICES ASSUME NEW e, Left(q, Unjump(e)) PROVE FALSE
      OBVIOUS
    <3>1. PICK j \in DOMAIN q : q[j].step = Unjump(e)
      BY DEF Left
    <3>2. q[j].step.do = "unjump"
      BY <3>1, DoFacts
    <3>3. q[1].step.do = "delete chain"
      BY <2>1, DoFacts
    <3>4. 1 \in DOMAIN q /\ 1 < j
      <4>1. q[j].step.do # q[1].step.do
        BY <3>2, <3>3
      <4>2. j # 1
        BY <4>1
      <4>3. j \in Nat /\ j >= 1 /\ 1 \in DOMAIN q
        BY <1>1
      <4> QED BY <4>2, <4>3
    <3>5. q[1].step.do = "unjump"
      BY <1>3, <3>2, <3>4 DEF Unjumping
    <3> QED BY <3>3, <3>5
  <2>3. \A e \in Chains : ~Visited(f, e)
    BY <1>4, <2>2
  <2>4. c \notin Present(g)
    BY <1>2, <1>4, <2>1, <2>3
  <2>5. \A x : Visited(g, x) <=> Visited(f, x)
    BY <2>1 DEF Visited
  <2>6. ASSUME NEW e \in Chains
        PROVE  /\ Visited(g, e) => Left(r, Unjump(e))
               /\ e \in Present(g) => Left(r, Discard(e))
               /\ (e \in Present(g) => g.chains[e] = <<>>) \/ Before(r, Flush(e), Discard(e))
    <3>1. q[1].step # Flush(e) /\ (e # c => q[1].step # Discard(e))
      BY <2>1, OtherItems, SameItem
    <3>2. e \in Present(g) => e \in Present(f) /\ e # c /\ g.chains[e] = f.chains[e]
      BY <2>1, <2>4
    <3> QED BY <1>1, <1>2, <1>4, <2>1, <2>3, <2>5, <3>1, <3>2
  <2> QED BY <1>3, <2>1, <2>6 DEF IptDraining
<1> QED BY <1>5, <1>6, <1>7 DEF DrainItems

-----------------------------------------------------------------------------
(* The nftables operations.                                                *)

LEMMA SmallTails ==
  \A x, y, z : /\ <<x>> # <<>> /\ <<x, y>> # <<>> /\ <<x, y, z>> # <<>>
               /\ <<x>>[1] = x /\ <<x, y>>[1] = x /\ <<x, y, z>>[1] = x
               /\ Tail(<<x>>) = <<>> /\ Tail(<<x, y>>) = <<y>> /\ Tail(<<x, y, z>>) = <<y, z>>
OBVIOUS

LEMMA DeleteStep ==
  ASSUME NEW f, Filter(f), OneTable(f), NEW q, NEW g, NEW r, Stepped(f, q, g, r), q[1].step = Delete
  PROVE  g = NoRules /\ (~q[1].must \/ f # NoRules => r = Tail(q)) /\ (Possible(f, q[1].step) <=> f # NoRules)
<1>1. Possible(f, q[1].step) <=> f # NoRules
  BY DeleteCommand, PresentFacts
<1>2. g = NoRules
  BY <1>1, SteppedTail, DeleteCommand
<1>3. ~q[1].must \/ f # NoRules => r = Tail(q)
  BY <1>1, SteppedTail
<1> QED BY <1>1, <1>2, <1>3

LEMMA LoadStep ==
  ASSUME NEW f, Filter(f), NEW q, NEW g, NEW r, Stepped(f, q, g, r), NEW k \in Kinds, NEW rules,
         \A d \in Dirs : rules \in Seq(RulesOf(<<k, d>>)), q[1].step = Load(k, rules)
  PROVE  \/ g = f /\ ~Possible(f, q[1].step)
         \/ /\ Possible(f, q[1].step) /\ Present(f) \subseteq {k} \X Dirs /\ r = Tail(q)
            /\ Filter(g) /\ OneTable(g) /\ g # NoRules /\ Present(g) = {k} \X Dirs
            /\ \A d \in Dirs :
                 /\ Visited(g, <<k, d>>)
                 /\ g.chains[<<k, d>>] = IF <<k, d>> \in Present(f) THEN f.chains[<<k, d>>] \o rules
                                                                    ELSE rules
<1>1. CASE ~Possible(f, q[1].step)
  BY <1>1, SteppedTail
<1>2. CASE Possible(f, q[1].step)
  <2>1. Present(f) \subseteq {k} \X Dirs
    BY <1>2, LoadCommand
  <2>2. g = Loaded(f, k, rules) /\ r = Tail(q)
    BY <1>2, SteppedTail, LoadCommand
  <2>3. Filter(g) /\ OneTable(g) /\ g # NoRules /\ Present(g) = {k} \X Dirs
        /\ \A d \in Dirs :
             /\ Visited(g, <<k, d>>)
             /\ g.chains[<<k, d>>] = IF <<k, d>> \in Present(f) THEN f.chains[<<k, d>>] \o rules
                                                                ELSE rules
    BY <2>1, <2>2, LoadFacts
  <2> QED BY <1>2, <2>1, <2>2, <2>3
<1> QED BY <1>1, <1>2

\* What a command to a chain of the table leaves alone.
LEMMA TableStep ==
  ASSUME NEW f, Filter(f), OneTable(f), f # NoRules, NEW d \in Dirs,
         NEW rules \in Seq(RulesOf(<<TableKind(f), d>>))
  PROVE  LET c == <<TableKind(f), d>>
             g == SetChain(f, c, rules)
         IN /\ Filter(g) /\ OneTable(g) /\ c \in Present(f) /\ f.chains[c] \in Seq(RulesOf(c))
            /\ Only(c, f, g) /\ g.chains[c] = rules
<1> DEFINE c == <<TableKind(f), d>>
           g == SetChain(f, c, rules)
<1>1. c \in Present(f) /\ c \in Chains /\ f.chains[c] \in Seq(RulesOf(c))
  BY TableFacts DEF Filter
<1>2. Only(c, f, g) /\ g.chains[c] = rules
  BY <1>1, OnlyFacts
<1> HIDE DEF g
<1>3. Filter(g) /\ Present(g) = Present(f) /\ g.hooks = f.hooks
  BY <1>1, <1>2 DEF Only
<1>4. OneTable(g)
  BY <1>3, TableFacts DEF OneTable
<1> QED BY <1>1, <1>2, <1>3, <1>4 DEF g

Pushed(x, rules) == <<x>> \o rules

LEMMA InsertStep ==
  ASSUME NEW f, Filter(f), OneTable(f), NEW q, NEW g, NEW r, Stepped(f, q, g, r),
         NEW d \in Dirs, NEW x \in Blocking, q[1].step = Insert(d, x)
  PROVE  \/ g = f /\ ~Possible(f, q[1].step)
         \/ LET c == <<TableKind(f), d>> IN
            /\ Possible(f, q[1].step) /\ f # NoRules /\ r = Tail(q)
            /\ Filter(g) /\ OneTable(g) /\ Only(c, f, g)
            /\ c \in Present(f) /\ f.chains[c] \in Seq(RulesOf(c)) /\ x \in RulesOf(c)
            /\ g = SetChain(f, c, Pushed(x, f.chains[c])) /\ g.chains[c] = Pushed(x, f.chains[c])
            /\ Pushed(x, f.chains[c]) \in Seq(RulesOf(c))
<1>1. CASE ~Possible(f, q[1].step)
  BY <1>1, SteppedTail
<1>2. CASE Possible(f, q[1].step)
  <2> DEFINE c == <<TableKind(f), d>>
             t == Pushed(x, f.chains[c])
  <2>1. f # NoRules
    BY <1>2, InsertCommand, PresentFacts
  <2>2. g = SetChain(f, c, t) /\ r = Tail(q)
    BY <1>2, SteppedTail, InsertCommand DEF Pushed
  <2>3. c \in Present(f) /\ c \in Chains /\ f.chains[c] \in Seq(RulesOf(c))
    BY <2>1, TableFacts DEF Filter
  <2>4. x \in RulesOf(c)
    BY <2>3, RuleFacts
  <2>5. t \in Seq(RulesOf(c))
    <3> HIDE DEF c
    <3> QED BY <2>3, <2>4 DEF Pushed
  <2> HIDE DEF t
  <2>6. Filter(g) /\ OneTable(g) /\ Only(c, f, g) /\ g.chains[c] = t
    BY <2>1, <2>2, <2>5, TableStep
  <2> QED BY <1>2, <2>1, <2>2, <2>3, <2>4, <2>5, <2>6 DEF t
<1> QED BY <1>1, <1>2

LEMMA PurgeStep ==
  ASSUME NEW f, Filter(f), OneTable(f), NEW q, NEW g, NEW r, Stepped(f, q, g, r),
         NEW d \in Dirs, NEW ip \in Named, q[1] = Try(Purge(d, ip))
  PROVE  /\ r = Tail(q)
         /\ \/ g = f
            \/ LET c == <<TableKind(f), d>> IN
               /\ f # NoRules /\ Filter(g) /\ OneTable(g) /\ Only(c, f, g)
               /\ c \in Present(f) /\ f.chains[c] \in Seq(RulesOf(c))
               /\ g = SetChain(f, c, Purged(f.chains[c], ip)) /\ g.chains[c] = Purged(f.chains[c], ip)
               /\ Purged(f.chains[c], ip) \in Seq(RulesOf(c))
               /\ Contains(g.chains[c], Drop(All)) <=> Contains(f.chains[c], Drop(All))
<1>1. q[1].step = Purge(d, ip) /\ ~q[1].must
  BY ItemFacts
<1>2. r = Tail(q)
  BY <1>1, SteppedTail
<1>3. CASE ~Possible(f, q[1].step)
  BY <1>2, <1>3, SteppedTail
<1>4. CASE Possible(f, q[1].step)
  <2> DEFINE c == <<TableKind(f), d>>
             t == Purged(f.chains[c], ip)
  <2>1. f # NoRules
    BY <1>1, <1>4, PurgeCommand, PresentFacts
  <2>2. g = SetChain(f, c, t)
    BY <1>1, <1>4, SteppedTail, PurgeCommand
  <2>3. c \in Present(f) /\ c \in Chains /\ f.chains[c] \in Seq(RulesOf(c))
    BY <2>1, TableFacts DEF Filter
  <2>4. Accept(Nobody) \in RulesOf(c)
    BY <2>3, RuleFacts
  <2>5. t \in Seq(RulesOf(c)) /\ (Contains(t, Drop(All)) <=> Contains(f.chains[c], Drop(All)))
    <3> HIDE DEF c
    <3> QED BY <2>3, <2>4, PurgedFacts
  <2> HIDE DEF t
  <2>6. Filter(g) /\ OneTable(g) /\ Only(c, f, g) /\ g.chains[c] = t
    BY <2>1, <2>2, <2>5, TableStep
  <2> QED BY <1>2, <2>1, <2>2, <2>3, <2>5, <2>6 DEF t
<1> QED BY <1>3, <1>4

LEMMA NftApplyingStep ==
  ASSUME NEW f, Filter(f), OneTable(f), NEW q, NEW g, NEW r, Stepped(f, q, g, r),
         NEW rules \in Seq(Isolating), Contains(rules, Drop(All)), NftApplying(f, q, rules)
  PROVE  NftApplying(g, r, rules) /\ (q[1].must => Possible(f, q[1].step))
<1> DEFINE load == Must(Load("isolation", rules))
           del == Try(Delete)
<1>1. del.step = Delete /\ ~del.must /\ load.step = Load("isolation", rules)
  BY ItemFacts
<1>2. q # <<>>
  BY SteppedTail
<1>3. ASSUME q[1] = del PROVE g = NoRules /\ r = Tail(q) /\ ~q[1].must
  BY <1>1, <1>3, DeleteStep
<1>4. CASE q = <<load>> /\ f = NoRules
  <2>1. q[1] = load /\ Tail(q) = <<>>
    BY <1>4, SmallTails
  <2>2. Possible(f, q[1].step)
    BY <1>1, <1>4, <2>1, LoadCommand, NoRulesFacts
  <2>3. "isolation" \in Kinds /\ \A d \in Dirs : rules \in Seq(RulesOf(<<"isolation", d>>))
    BY RuleFacts DEF Iso, Kinds
  <2>4. Present(g) = {"isolation"} \X Dirs /\ r = Tail(q)
        /\ \A d \in Dirs : Visited(g, Iso(d)) /\ g.chains[Iso(d)] = rules
    <3>1. q[1].step = Load("isolation", rules)
      BY <1>1, <2>1
    <3>2. Present(g) = {"isolation"} \X Dirs /\ r = Tail(q)
          /\ \A d \in Dirs :
               /\ Visited(g, <<"isolation", d>>)
               /\ g.chains[<<"isolation", d>>] =
                    IF <<"isolation", d>> \in Present(f) THEN f.chains[<<"isolation", d>>] \o rules
                                                        ELSE rules
      BY <3>1, <2>2, <2>3, LoadStep
    <3> QED BY <3>2, <1>4, NoRulesFacts DEF Iso
  <2>5. CutOff(g)
    BY <2>4 DEF CutOff, Cut, Armed, Iso
  <2> QED BY <2>1, <2>2, <2>4, <2>5 DEF NftApplying
<1>5. CASE q = <<del, load>>
  <2>1. q[1] = del /\ Tail(q) = <<load>>
    BY <1>5, SmallTails
  <2> QED BY <1>3, <2>1 DEF NftApplying
<1>6. CASE q = <<del, del, load>>
  <2>1. q[1] = del /\ Tail(q) = <<del, load>>
    BY <1>6, SmallTails
  <2> QED BY <1>3, <2>1 DEF NftApplying
<1> QED BY <1>2, <1>4, <1>5, <1>6 DEF NftApplying

LEMMA NoRulesOpen == Open(NoRules)
BY NoRulesFacts DEF Open, Armed

LEMMA NftRemovingStep ==
  ASSUME NEW f, Filter(f), OneTable(f), NEW q, NEW g, NEW r, Stepped(f, q, g, r), NftRemoving(f, q)
  PROVE  NftRemoving(g, r) /\ (q[1].must => Possible(f, q[1].step))
<1>1. q = <<Must(Delete)>> /\ f # NoRules
  BY SteppedTail DEF NftRemoving
<1>2. q[1] = Must(Delete) /\ Tail(q) = <<>>
  BY <1>1, SmallTails
<1>3. q[1].step = Delete
  BY <1>2, ItemFacts
<1>4. g = NoRules /\ r = <<>> /\ Possible(f, q[1].step)
  BY <1>1, <1>2, <1>3, DeleteStep
<1> QED BY <1>4, NoRulesOpen DEF NftRemoving

LEMMA OnlySettled ==
  ASSUME NEW f, Filter(f), NEW g, NEW c, Only(c, f, g), c \in Present(f),
         Contains(g.chains[c], Drop(All)) <=> Contains(f.chains[c], Drop(All))
  PROVE  (CutOff(f) => CutOff(g)) /\ (Open(f) => Open(g))
<1>1. ASSUME NEW d \in Dirs PROVE Armed(g, d) <=> Armed(f, d)
  BY DEF Armed, Only
<1>2. \A e : Visited(g, e) <=> Visited(f, e)
  BY OnlyVisited
<1> QED BY <1>1, <1>2 DEF CutOff, Cut, Open

InsertItems(ip) == {Must(Insert(d, Drop(ip))) : d \in Dirs} \cup {Must(Load("block", <<Drop(ip)>>))}
PurgeItems(ip) == {Must(List)} \cup {Try(Purge(d, ip)) : d \in Dirs}

LEMMA LoadRules ==
  ASSUME NEW ip \in Named
  PROVE  "block" \in Kinds /\ <<Drop(ip)>> \in Seq(Blocking)
         /\ \A d \in Dirs : <<Drop(ip)>> \in Seq(RulesOf(<<"block", d>>))
<1>1. Drop(ip) \in Blocking /\ \A d \in Dirs : RulesOf(<<"block", d>>) = Blocking
  BY RuleFacts DEF Block
<1>2. <<Drop(ip)>> \in Seq(Blocking)
  BY <1>1
<1> QED BY <1>1, <1>2 DEF Kinds

\* block_ip and unblock_ip with nftables leave an isolation as it is, and the
\* server reachable unless its rules are meant.
LEMMA NftKeeps ==
  ASSUME NEW f, Filter(f), OneTable(f), NEW q, NEW g, NEW r, Stepped(f, q, g, r), NEW ip \in Named,
         q[1] \in InsertItems(ip) \cup PurgeItems(ip)
  PROVE  /\ CutOff(f) => /\ CutOff(g)
                         /\ ip # Server /\ (q[1] \in InsertItems(ip) \/ Server \notin Mentions[ip])
                            => (Reachable(g, Server) <=> Reachable(f, Server))
         /\ Open(f) => Open(g)
<1>1. ASSUME NEW d \in Dirs, q[1] = Must(Insert(d, Drop(ip)))
      PROVE  /\ CutOff(f) => CutOff(g)
             /\ ip # Server => (Reachable(g, Server) <=> Reachable(f, Server))
             /\ Open(f) => Open(g)
  <2>1. q[1].step = Insert(d, Drop(ip)) /\ Drop(ip) \in Blocking
    BY <1>1, ItemFacts, RuleFacts
  <2> DEFINE c == <<TableKind(f), d>>
             x == Drop(ip)
             t == Pushed(x, f.chains[c])
  <2>2. CASE g = f
    BY <2>2
  <2>3. CASE g # f
    <3>0. q[1].step = Insert(d, x) /\ x \in Blocking /\ x = Drop(ip)
      BY <2>1
    <3> HIDE DEF x
    <3>1. Only(c, f, g) /\ c \in Present(f) /\ f.chains[c] \in Seq(RulesOf(c)) /\ x \in RulesOf(c)
          /\ g = SetChain(f, c, t) /\ g.chains[c] = t /\ t \in Seq(RulesOf(c))
      <4> HIDE DEF c
      <4>1. \/ g = f /\ ~Possible(f, q[1].step)
            \/ /\ Only(c, f, g) /\ c \in Present(f) /\ f.chains[c] \in Seq(RulesOf(c)) /\ x \in RulesOf(c)
               /\ g = SetChain(f, c, Pushed(x, f.chains[c])) /\ g.chains[c] = Pushed(x, f.chains[c])
               /\ Pushed(x, f.chains[c]) \in Seq(RulesOf(c))
        BY <3>0, InsertStep DEF c
      <4> QED BY <2>3, <4>1
    <3> HIDE DEF c
    <3>2. Contains(t, Drop(All)) <=> Contains(f.chains[c], Drop(All))
      <4>1. x # Drop(All)
        BY <3>0, RuleFacts, HostsAssumption DEF Named
      <4> QED BY <3>1, <4>1, ContainsFacts DEF Pushed
    <3>3. (CutOff(f) => CutOff(g)) /\ (Open(f) => Open(g))
      BY <3>1, <3>2, OnlySettled
    <3>4. ASSUME ip # Server PROVE Reachable(g, Server) <=> Reachable(f, Server)
      <4>1. ASSUME NEW A, ip \notin A PROVE Alike(t, f.chains[c], A)
        <5>1. x.to = ip
          BY <3>0, RuleFacts
        <5> QED BY <3>1, <4>1, <5>1, InsertAlike DEF Pushed
      <4>2. ip \notin {Server, All} /\ ip \notin {Server}
        BY <3>4, HostsAssumption DEF Named
      <4>3. Alike(t, f.chains[c], {Server, All}) /\ Alike(t, f.chains[c], {Server})
        BY <4>1, <4>2
      <4> HIDE DEF t
      <4> QED BY <3>1, <4>3, SameReachable
    <3> QED BY <3>3, <3>4
  <2> QED BY <2>2, <2>3
<1>2. ASSUME q[1] = Must(Load("block", <<Drop(ip)>>))
      PROVE  /\ CutOff(f) => CutOff(g)
             /\ CutOff(f) => (Reachable(g, Server) <=> Reachable(f, Server))
             /\ Open(f) => Open(g)
  <2>1. q[1].step = Load("block", <<Drop(ip)>>)
    BY <1>2, ItemFacts
  <2>2. CASE g = f
    BY <2>2
  <2>3. CASE g # f
    <3> DEFINE t == <<Drop(ip)>>
    <3>1. "block" \in Kinds /\ (\A d \in Dirs : t \in Seq(RulesOf(<<"block", d>>))) /\ q[1].step = Load("block", t)
      BY <2>1, LoadRules
    <3> HIDE DEF t
    <3>2. Present(f) \subseteq {"block"} \X Dirs /\ Present(g) = {"block"} \X Dirs
      BY <2>3, <3>1, LoadStep
    <3>3. \A d \in Dirs : Iso(d) \notin {"block"} \X Dirs
      BY DEF Iso
    <3>4. Open(f) /\ Open(g)
      BY <3>2, <3>3 DEF Open, Armed
    <3>5. ~CutOff(f)
      BY <3>4 DEF Open, CutOff, Cut, Dirs
    <3> QED BY <3>4, <3>5
  <2> QED BY <2>2, <2>3
<1>3. ASSUME q[1] = Must(List) PROVE g = f
  <2>1. q[1].step = List
    BY <1>3, ItemFacts
  <2> QED BY <2>1, SteppedTail, ListCommand
<1>4. ASSUME NEW d \in Dirs, q[1] = Try(Purge(d, ip))
      PROVE  /\ CutOff(f) => CutOff(g)
             /\ Server \notin Mentions[ip] => (Reachable(g, Server) <=> Reachable(f, Server))
             /\ Open(f) => Open(g)
  <2> DEFINE c == <<TableKind(f), d>>
             t == Purged(f.chains[c], ip)
  <2>1. CASE g = f
    BY <2>1
  <2>2. CASE g # f
    <3>1. Only(c, f, g) /\ c \in Present(f) /\ f.chains[c] \in Seq(RulesOf(c))
          /\ g = SetChain(f, c, t) /\ g.chains[c] = t /\ t \in Seq(RulesOf(c))
          /\ (Contains(g.chains[c], Drop(All)) <=> Contains(f.chains[c], Drop(All)))
      BY <1>4, <2>2, PurgeStep
    <3> HIDE DEF c
    <3>2. (CutOff(f) => CutOff(g)) /\ (Open(f) => Open(g))
      BY <3>1, OnlySettled
    <3>3. ASSUME Server \notin Mentions[ip] PROVE Reachable(g, Server) <=> Reachable(f, Server)
      <4>1. ASSUME NEW A, A \cap Mentions[ip] = {}, Nobody \notin A PROVE Alike(t, f.chains[c], A)
        BY <3>1, <4>1, PurgedAlike
      <4>2. All \notin Mentions[ip] /\ Nobody # Server /\ Nobody # All
        BY HostsAssumption DEF Named
      <4>3. Alike(t, f.chains[c], {Server, All})
        <5>1. {Server, All} \cap Mentions[ip] = {} /\ Nobody \notin {Server, All}
          BY <3>3, <4>2
        <5> QED BY <4>1, <5>1
      <4>4. Alike(t, f.chains[c], {Server})
        <5>1. {Server} \cap Mentions[ip] = {} /\ Nobody \notin {Server}
          BY <3>3, <4>2
        <5> QED BY <4>1, <5>1
      <4> HIDE DEF t
      <4> QED BY <3>1, <4>3, <4>4, SameReachable
    <3> QED BY <3>2, <3>3
  <2> QED BY <2>1, <2>2
<1>5. CASE q[1] \in InsertItems(ip)
  BY <1>1, <1>2, <1>5 DEF InsertItems
<1>6. CASE q[1] \in PurgeItems(ip) /\ q[1] \notin InsertItems(ip)
  BY <1>3, <1>4, <1>6 DEF PurgeItems
<1> QED BY <1>5, <1>6

LEMMA OnlyShut ==
  ASSUME NEW f, NEW g, NEW c, Only(c, f, g), NEW e, NEW h, Shut(f, e, h),
         c = e => Bars(g.chains[c], h)
  PROVE  Shut(g, e, h)
<1>1. Visited(g, e) /\ e \in Present(g)
  BY OnlyVisited DEF Shut, Only
<1>2. Bars(g.chains[e], h)
  BY DEF Shut, Only
<1> QED BY <1>1, <1>2 DEF Shut

LEMMA PushedBars ==
  ASSUME NEW S, NEW rules \in Seq(S), NEW ip \in Named, NEW x, Drop(x) \in S, x = ip \/ Bars(rules, ip)
  PROVE  Bars(Pushed(Drop(x), rules), ip)
BY BarsFacts DEF Pushed

\* A table that is loaded again keeps its blocks and gets the new one.
LEMMA LoadShut ==
  ASSUME NEW f, Filter(f), OneTable(f), NEW q, NEW g, NEW r, Stepped(f, q, g, r), NEW ip \in Named,
         q[1] = Must(Load("block", <<Drop(ip)>>)), NEW d \in Dirs
  PROVE  /\ Possible(f, q[1].step) => Shut(g, Block(d), ip) /\ r = Tail(q)
         /\ \A h \in Named : (\E k \in Kinds : Shut(f, <<k, d>>, h)) => \E k \in Kinds : Shut(g, <<k, d>>, h)
<1> DEFINE t == <<Drop(ip)>>
           c == <<"block", d>>
<1>1. q[1].step = Load("block", t)
  BY ItemFacts
<1>2. "block" \in Kinds /\ t \in Seq(Blocking) /\ (\A e \in Dirs : t \in Seq(RulesOf(<<"block", e>>)))
      /\ Contains(t, Drop(ip))
  BY LoadRules DEF Contains
<1> HIDE DEF t
<1>3. CASE g = f /\ ~Possible(f, q[1].step)
  BY <1>3
<1>4. CASE ~(g = f /\ ~Possible(f, q[1].step))
  <2>1. /\ Present(f) \subseteq {"block"} \X Dirs /\ r = Tail(q) /\ Present(g) = {"block"} \X Dirs
        /\ Visited(g, c) /\ g.chains[c] = IF c \in Present(f) THEN f.chains[c] \o t ELSE t
    BY <1>1, <1>2, <1>4, LoadStep
  <2>2. c \in Present(g) /\ c = Block(d) /\ c \in Chains
    BY <2>1, ChainFacts DEF Block, Kinds
  <2>3. c \in Present(f) => f.chains[c] \in Seq(Blocking)
    <3>1. RulesOf(c) = Blocking
      BY DEF RulesOf
    <3>2. c \in Present(f) => f.chains[c] \in Seq(RulesOf(c))
      BY DEF Filter
    <3> QED BY <3>1, <3>2
  <2> HIDE DEF c
  <2>4. g.chains[c] \in Seq(Blocking) /\ Contains(g.chains[c], Drop(ip))
    <3>1. CASE c \in Present(f)
      BY <1>2, <2>1, <2>3, <3>1, ContainsFacts, ConcatProperties
    <3>2. CASE c \notin Present(f)
      BY <1>2, <2>1, <3>2
    <3> QED BY <3>1, <3>2
  <2>5. Shut(g, c, ip)
    BY <2>1, <2>2, <2>4, BarsBlocking DEF Shut
  <2>6. ASSUME NEW h \in Named, NEW k \in Kinds, Shut(f, <<k, d>>, h) PROVE Shut(g, c, h)
    <3>1. <<k, d>> \in Present(f)
      BY <2>6 DEF Shut
    <3>2. k = "block" /\ <<k, d>> = c
      BY <2>1, <3>1 DEF c
    <3>3. c \in Present(f) /\ Bars(f.chains[c], h) /\ g.chains[c] = f.chains[c] \o t
      BY <2>1, <2>6, <3>1, <3>2 DEF Shut
    <3>4. Bars(g.chains[c], h)
      BY <1>2, <2>3, <3>3, BarsFacts
    <3> QED BY <2>1, <2>2, <3>4 DEF Shut
  <2>7. c = <<"block", d>>
    BY DEF c
  <2> QED BY <1>2, <2>1, <2>2, <2>5, <2>6, <2>7
<1> QED BY <1>3, <1>4

\* An address dropped in the table stays dropped, unless it is mentioned.
LEMMA NftShutStep ==
  ASSUME NEW f, Filter(f), OneTable(f), NEW q, NEW g, NEW r, Stepped(f, q, g, r), NEW ip \in Named,
         q[1] \in InsertItems(ip) \cup PurgeItems(ip), NEW d \in Dirs, NEW h \in Named,
         \E k \in Kinds : Shut(f, <<k, d>>, h), q[1] \in PurgeItems(ip) => h \notin Mentions[ip]
  PROVE  \E k \in Kinds : Shut(g, <<k, d>>, h)
<1>1. PICK k \in Kinds : Shut(f, <<k, d>>, h)
  OBVIOUS
<1>2. CASE g = f
  BY <1>1, <1>2
<1>3. ASSUME NEW e \in Dirs, q[1] = Must(Insert(e, Drop(ip))), g # f
      PROVE  Shut(g, <<k, d>>, h)
  <2> DEFINE x == Drop(ip)
             c == <<TableKind(f), e>>
  <2>1. q[1].step = Insert(e, x)
    BY <1>3, ItemFacts
  <2>2. x \in Blocking
    BY RuleFacts
  <2>3. Only(c, f, g) /\ f.chains[c] \in Seq(RulesOf(c)) /\ x \in RulesOf(c)
        /\ g.chains[c] = Pushed(x, f.chains[c])
    <3> HIDE DEF x
    <3> QED BY <1>3, <2>1, <2>2, InsertStep
  <2> HIDE DEF c
  <2>4. c = <<k, d>> => Bars(g.chains[c], h)
    BY <1>1, <2>3, PushedBars DEF Shut
  <2> QED BY <1>1, <2>3, <2>4, OnlyShut
<1>4. ASSUME NEW e \in Dirs, q[1] = Try(Purge(e, ip)), g # f
      PROVE  Shut(g, <<k, d>>, h)
  <2> DEFINE c == <<TableKind(f), e>>
  <2>1. Only(c, f, g) /\ f.chains[c] \in Seq(RulesOf(c)) /\ g.chains[c] = Purged(f.chains[c], ip)
    BY <1>4, PurgeStep
  <2>2. h \notin Mentions[ip]
    BY <1>4 DEF PurgeItems
  <2> HIDE DEF c
  <2>3. c = <<k, d>> => Bars(g.chains[c], h)
    BY <1>1, <2>1, <2>2, BarsFacts DEF Shut
  <2> QED BY <1>1, <2>1, <2>3, OnlyShut
<1>5. ASSUME q[1] = Must(List) PROVE g = f
  <2>1. q[1].step = List
    BY <1>5, ItemFacts
  <2> QED BY <2>1, SteppedTail, ListCommand
<1>6. ASSUME q[1] = Must(Load("block", <<Drop(ip)>>)) PROVE \E m \in Kinds : Shut(g, <<m, d>>, h)
  BY <1>1, <1>6, LoadShut
<1>7. CASE q[1] \in InsertItems(ip)
  BY <1>1, <1>2, <1>3, <1>6, <1>7 DEF InsertItems
<1>8. CASE q[1] \in PurgeItems(ip)
  BY <1>1, <1>2, <1>4, <1>5, <1>8 DEF PurgeItems
<1> QED BY <1>7, <1>8

LEMMA InsertNotPurge ==
  ASSUME NEW ip, NEW x \in InsertItems(ip) PROVE x \notin PurgeItems(ip)
<1>1. x.must
  BY ItemFacts DEF InsertItems
<1>2. x.step # List
  <2>1. \A e, y : Insert(e, y) # List /\ Load(e, y) # List
    BY DoFacts
  <2>2. ASSUME NEW e, NEW y, x = Must(Insert(e, y)) \/ x = Must(Load(e, y)) PROVE x.step # List
    <3>1. x.step = Insert(e, y) \/ x.step = Load(e, y)
      BY <2>2, ItemFacts
    <3> QED BY <2>1, <3>1
  <2> QED BY <2>2 DEF InsertItems
<1>3. x \in PurgeItems(ip) => ~x.must \/ x.step = List
  BY ItemFacts DEF PurgeItems
<1> QED BY <1>1, <1>2, <1>3

LEMMA NftBlockingStep ==
  ASSUME NEW S, NEW q \in Seq(S), NEW f, Filter(f), OneTable(f), NEW g, NEW r, Stepped(f, q, g, r),
         NEW ip \in Named, q[1] \in InsertItems(ip), Possible(f, q[1].step),
         NEW d \in Dirs, NftBlocking(f, q, ip, d)
  PROVE  NftBlocking(g, r, ip, d)
<1>1. q # <<>> /\ r = Tail(q)
  BY SteppedTail
<1>2. ASSUME \E k \in Kinds : Shut(f, <<k, d>>, ip) PROVE \E k \in Kinds : Shut(g, <<k, d>>, ip)
  <2>1. q[1] \notin PurgeItems(ip)
    BY InsertNotPurge
  <2> QED BY <1>2, <2>1, NftShutStep
<1>3. ASSUME q[1].step = Insert(d, Drop(ip)) PROVE \E k \in Kinds : Shut(g, <<k, d>>, ip)
  <2> DEFINE x == Drop(ip)
             c == <<TableKind(f), d>>
  <2>1. x \in Blocking /\ q[1].step = Insert(d, x)
    BY <1>3, RuleFacts
  <2>2. Only(c, f, g) /\ c \in Present(f) /\ f.chains[c] \in Seq(RulesOf(c)) /\ x \in RulesOf(c)
        /\ g.chains[c] = Pushed(x, f.chains[c]) /\ f # NoRules
    <3> HIDE DEF x
    <3> QED BY <2>1, InsertStep
  <2>3. TableKind(f) \in Kinds /\ Visited(f, c)
    BY <2>2, TableFacts
  <2> HIDE DEF c
  <2>4. Bars(g.chains[c], ip)
    BY <2>2, PushedBars
  <2>5. Visited(g, c) /\ c \in Present(g)
    BY <2>2, <2>3, OnlyVisited DEF Only
  <2>6. Shut(g, c, ip)
    BY <2>4, <2>5 DEF Shut
  <2> QED BY <2>3, <2>6 DEF c
<1>4. ASSUME q[1].step = Load("block", <<Drop(ip)>>) PROVE \E k \in Kinds : Shut(g, <<k, d>>, ip)
  <2>1. q[1] = Must(Load("block", <<Drop(ip)>>))
    <3>1. \A e, y, k, z : Insert(e, y) # Load(k, z)
      BY DoFacts
    <3>2. ASSUME NEW e \in Dirs, q[1] = Must(Insert(e, Drop(ip))) PROVE FALSE
      <4>1. q[1].step = Insert(e, Drop(ip))
        BY <3>2, ItemFacts
      <4> QED BY <1>4, <3>1, <4>1
    <3> QED BY <3>2 DEF InsertItems
  <2>2. Shut(g, Block(d), ip)
    BY <2>1, LoadShut
  <2> QED BY <2>2 DEF Block, Kinds
<1>5. CASE Left(q, Insert(d, Drop(ip)))
  BY <1>1, <1>3, <1>5, TailFacts DEF NftBlocking
<1>6. CASE Left(q, Load("block", <<Drop(ip)>>))
  BY <1>1, <1>4, <1>6, TailFacts DEF NftBlocking
<1>7. CASE \E k \in Kinds : Shut(f, <<k, d>>, ip)
  BY <1>2, <1>7 DEF NftBlocking
<1> QED BY <1>5, <1>6, <1>7 DEF NftBlocking

-----------------------------------------------------------------------------
(* The scripts of the operations.                                          *)

LEMMA IsolationRulesFacts ==
  ASSUME NEW allowed \in SUBSET Named
  PROVE  IsolationRules(allowed) \in Seq(Isolating) /\ Contains(IsolationRules(allowed), Drop(All))
<1>1. IsFiniteSet(allowed)
  <2>1. allowed \subseteq Hosts
    BY DEF Named
  <2> QED BY <2>1, HostsAssumption, FS_Subset
<1>2. SetToSeq(allowed) \in Seq(Named)
  <2>1. PICK n \in Nat : ExistsBijection(1..n, allowed)
    BY <1>1, FS_NatBijection
  <2>2. n = Cardinality(allowed)
    BY <1>1, <2>1, FS_CountingElements
  <2>3. PICK f \in [1..n -> allowed] : IsInjective(f)
    BY <2>1 DEF ExistsBijection, Bijection, Injection, IsInjective
  <2>4. SetToSeq(allowed) \in [1..n -> allowed]
    BY <2>2, <2>3 DEF SetToSeq
  <2> QED BY <2>4
<1> DEFINE s == SetToSeq(allowed)
           ips == <<Dns, Server>> \o s
           permits == [i \in DOMAIN ips |-> Accept(ips[i])]
           last == <<Drop(All)>>
<1>3. ips \in Seq(Named \cup {Dns})
  <2> HIDE DEF s
  <2>1. <<Dns, Server>> \in Seq(Named \cup {Dns}) /\ s \in Seq(Named \cup {Dns})
    BY <1>2, HostsAssumption DEF s
  <2> QED BY <2>1
<1> HIDE DEF ips
<1>4. permits \in Seq(Isolating)
  <2>1. \A h \in Named \cup {Dns} : Accept(h) \in Isolating
    BY RuleFacts
  <2> QED BY <1>3, <2>1
<1>5. last \in Seq(Isolating) /\ Contains(last, Drop(All))
  BY RuleFacts DEF Contains
<1> HIDE DEF permits, last
<1>6. permits \o last \in Seq(Isolating) /\ Contains(permits \o last, Drop(All))
  BY <1>4, <1>5, ContainsFacts, ConcatProperties
<1>7. IsolationRules(allowed) = permits \o last
  BY DEF IsolationRules, permits, last, ips
<1> QED BY <1>6, <1>7

-----------------------------------------------------------------------------
(* The callers.                                                            *)

Places == {"idle", "locked", "test", "undo", "record", "params", "clear", "forget"}

\* The caller that holds the lock is the one that is locked.
Staged(s, h) ==
    /\ s \in [Callers -> Places]
    /\ (\E k \in Callers : s[k] = "locked") <=> h = "task"
    /\ \A j, k \in Callers : s[j] = "locked" /\ s[k] = "locked" => j = k

LEMMA StagedNow == TypeOK => Staged(stage, holder)
BY DEF TypeOK, Staged, Places

\* What a step of one caller does.
LEMMA Moved ==
  ASSUME Staged(stage, holder), NEW k \in Callers, NEW from, NEW to \in Places, Go(k, from, to)
  PROVE  /\ stage[k] = from /\ stage'[k] = to /\ stage' \in [Callers -> Places]
         /\ \A j \in Callers : j # k => stage'[j] = stage[j]
BY DEF Staged, Go

LEMMA StaysStaged ==
  ASSUME Staged(stage, holder), NEW k \in Callers, NEW from, NEW to \in Places, Go(k, from, to),
         from # "locked", to # "locked"
  PROVE  Staged(stage', holder)
<1>1. /\ stage[k] = from /\ stage'[k] = to /\ stage' \in [Callers -> Places]
      /\ \A j \in Callers : j # k => stage'[j] = stage[j]
  BY Moved
<1>2. \A j \in Callers : stage'[j] = "locked" <=> stage[j] = "locked"
  BY <1>1
<1> QED BY <1>1, <1>2 DEF Staged

LEMMA GetsStaged ==
  ASSUME Staged(stage, holder), NEW k \in Callers, NEW from, Go(k, from, "locked"), holder # "task"
  PROVE  Staged(stage', "task")
<1>1. /\ stage'[k] = "locked" /\ stage' \in [Callers -> Places]
      /\ \A j \in Callers : j # k => stage'[j] = stage[j]
  BY Moved DEF Places
<1>2. \A j \in Callers : stage[j] # "locked"
  BY DEF Staged
<1> QED BY <1>1, <1>2 DEF Staged

LEMMA LeavesStaged ==
  ASSUME Staged(stage, holder), NEW k \in Callers, NEW to \in Places, Go(k, "locked", to), to # "locked"
  PROVE  Staged(stage', "free")
<1>1. /\ stage[k] = "locked" /\ stage'[k] = to /\ stage' \in [Callers -> Places]
      /\ \A j \in Callers : j # k => stage'[j] = stage[j]
  BY Moved
<1>2. \A j \in Callers : stage'[j] # "locked"
  BY <1>1 DEF Staged
<1> QED BY <1>1, <1>2 DEF Staged

\* The records stay as they are, and nobody finishes or begins to write them.
LEMMA SameRecord ==
  ASSUME Recorded, status' = status, params' = params, overtaken' = overtaken, ver' = ver,
         \A k \in Callers : /\ stage[k] = "params" => stage'[k] = "params"
                            /\ stage'[k] = "forget" => stage[k] = "forget"
  PROVE  Recorded'
<1>1. RecordLives'
  BY DEF Recorded, RecordLives
<1>2. Forgetting' => Forgetting
  BY DEF Forgetting
<1> QED BY <1>1, <1>2 DEF Recorded

-----------------------------------------------------------------------------
(* Executing the next command of a script.                                 *)

LEMMA CmdFacts ==
  ASSUME TypeOK
  PROVE  /\ cmd.op \in {"none", "undo", "isolate", "unisolate", "block", "unblock"}
         /\ cmd.op = "isolate" => cmd.allowed \in SUBSET Named
         /\ cmd.op \in {"block", "unblock"} => cmd.ip \in Named
BY DEF TypeOK, Commands

\* Who executes what.
LEMMA HeadFacts ==
  ASSUME Types, script # <<>>
  PROVE  /\ Head(script) = script[1] /\ script[1] \in Items /\ Tail(script) \in Seq(Items)
         /\ script \in Seq(Items) /\ holder \in {"task", "shutdown"}
         /\ holder = "task" => InOrder(script)
         /\ IF Nft
            THEN /\ holder = "shutdown" => script[1] = Try(Delete)
                 /\ Doing({"isolate"}) =>
                      script[1] \in {Try(Delete), Must(Load("isolation", IsolationRules(cmd.allowed)))}
                 /\ Doing({"unisolate", "undo"}) => script[1] = Must(Delete)
                 /\ Doing({"block"}) => script[1] \in InsertItems(cmd.ip)
                 /\ Doing({"unblock"}) => script[1] \in PurgeItems(cmd.ip)
            ELSE /\ holder = "shutdown" => script[1] \in DrainItems
                 /\ Doing({"isolate"}) => script[1] \in EnsureItems \cup FlushItems \cup FillItems
                 /\ Doing({"unisolate", "undo"}) => script[1] \in FlushItems
                 /\ Doing({"block"}) => script[1] \in EnsureItems \cup BlockItems(cmd.ip)
                 /\ Doing({"unblock"}) => script[1] \in CancelItems(cmd.ip)
<1>0. holder = "shutdown" => cmd.op = "none"
  BY DEF Types
<1>1. script \in Seq(Items) /\ holder \in {"task", "shutdown"} /\ (holder = "task" => InOrder(script))
  BY DEF Types, TypeOK
<1>2. Head(script) = script[1] /\ script[1] \in Items /\ Tail(script) \in Seq(Items)
  BY <1>1, TailFacts
<1>3. CASE Nft
  <2>1. script[1] \in NftItems
    BY <1>1, <1>2, <1>3 DEF Items
  <2>2. holder = "shutdown" => NftItems = {Try(Delete)}
    BY <1>0 DEF NftItems
  <2>3. Doing({"isolate"}) =>
          NftItems = {Try(Delete), Must(Load("isolation", IsolationRules(cmd.allowed)))}
    BY DEF NftItems, Doing
  <2>4. Doing({"unisolate", "undo"}) => NftItems = {Must(Delete)}
    BY DEF NftItems, Doing
  <2>5. Doing({"block"}) => NftItems = InsertItems(cmd.ip)
    BY DEF NftItems, Doing, InsertItems
  <2>6. Doing({"unblock"}) => NftItems = PurgeItems(cmd.ip)
    BY DEF NftItems, Doing, PurgeItems
  <2> QED BY <1>1, <1>2, <1>3, <2>1, <2>2, <2>3, <2>4, <2>5, <2>6
<1>4. CASE ~Nft
  <2>1. script[1] \in IptItems
    BY <1>1, <1>2, <1>4 DEF Items
  <2>2. holder = "shutdown" => IptItems = DrainItems
    BY <1>0 DEF IptItems
  <2>3. Doing({"isolate"}) => IptItems = EnsureItems \cup FlushItems \cup FillItems
    BY DEF IptItems, Doing
  <2>4. Doing({"unisolate", "undo"}) => IptItems = FlushItems
    BY DEF IptItems, Doing
  <2>5. Doing({"block"}) => IptItems = EnsureItems \cup BlockItems(cmd.ip)
    BY DEF IptItems, Doing, BlockItems
  <2>6. Doing({"unblock"}) => IptItems = CancelItems(cmd.ip)
    BY DEF IptItems, Doing, CancelItems
  <2> QED BY <1>1, <1>2, <1>4, <2>1, <2>2, <2>3, <2>4, <2>5, <2>6
<1> QED BY <1>3, <1>4

\* Whoever holds the lock is doing something.
LEMMA DoingFacts ==
  ASSUME Types
  PROVE  /\ holder \in {"free", "task", "shutdown"}
         /\ holder = "task" => Doing({"isolate"}) \/ Doing({"unisolate", "undo"}) \/ Doing({"block"})
                               \/ Doing({"unblock"})
         /\ Doing({"isolate"}) => cmd.allowed \in SUBSET Named
         /\ Doing({"block"}) \/ Doing({"unblock"}) => cmd.ip \in Named
         /\ \A ops : Doing(ops) => holder = "task"
BY CmdFacts DEF Types, Doing, TypeOK

LEMMA IptFilterStep ==
  ASSUME NEW f, Filter(f), NEW q, NEW g, NEW r, Stepped(f, q, g, r), NEW ip \in Named,
         q[1] \in EnsureItems \cup FlushItems \cup FillItems \cup BlockItems(ip) \cup CancelItems(ip)
                  \cup DrainItems
  PROVE  Filter(g)
<1>1. ASSUME NEW c \in Chains, q[1] = Try(Make(c)) PROVE Filter(g)
  BY <1>1, MakeStep DEF Only
<1>2. ASSUME NEW c \in Chains, q[1] = Try(Jump(c)) PROVE Filter(g)
  <2>1. Joins(c, f, g) \/ g = f
    BY <1>2, JumpStep
  <2> QED BY <2>1 DEF Joins
<1>3. ASSUME NEW c \in Chains, q[1] = Try(Flush(c)) \/ q[1] = Must(Flush(c)) PROVE Filter(g)
  <2>1. q[1].step = Flush(c)
    BY <1>3, ItemFacts
  <2>2. CASE c \in Present(f)
    BY <2>1, <2>2, FlushStep DEF Only
  <2>3. CASE c \notin Present(f)
    <3>1. ~Possible(f, q[1].step)
      BY <2>1, <2>3, FlushCommand
    <3> QED BY <3>1, SteppedTail
  <2> QED BY <2>2, <2>3
<1>4. ASSUME NEW c \in Chains, NEW x \in RulesOf(c), q[1] = Must(Add(c, x)) PROVE Filter(g)
  BY <1>4, AddStep DEF Only
<1>5. ASSUME NEW c \in Chains, NEW x, q[1] = Try(Cancel(c, x)) PROVE Filter(g)
  BY <1>5, CancelStep DEF Only
<1>6. ASSUME NEW c \in Chains, q[1] = Try(Unjump(c)) PROVE Filter(g)
  BY <1>6, UnjumpStep
<1>7. ASSUME NEW c \in Chains, q[1] = Try(Discard(c)) PROVE Filter(g)
  BY <1>7, DiscardStep
<1>8. CASE q[1] \in EnsureItems
  BY <1>1, <1>2, <1>8 DEF EnsureItems
<1>9. CASE q[1] \in FlushItems \cup FillItems
  BY <1>3, <1>4, <1>9, IsoChains, RuleFacts DEF FlushItems, FillItems
<1>10. CASE q[1] \in BlockItems(ip) \cup CancelItems(ip)
  BY <1>4, <1>5, <1>10, IsoChains, RuleFacts DEF BlockItems, CancelItems
<1>11. CASE q[1] \in DrainItems
  BY <1>3, <1>6, <1>7, <1>11 DEF DrainItems
<1> QED BY <1>8, <1>9, <1>10, <1>11

LEMMA NftFilterStep ==
  ASSUME NEW f, Filter(f), OneTable(f), NEW q, NEW g, NEW r, Stepped(f, q, g, r), NEW ip \in Named,
         NEW allowed \in SUBSET Named,
         q[1] \in {Try(Delete), Must(Delete), Must(Load("isolation", IsolationRules(allowed)))}
                  \cup InsertItems(ip) \cup PurgeItems(ip)
  PROVE  Filter(g) /\ OneTable(g)
<1>1. CASE q[1] \in {Try(Delete), Must(Delete)}
  <2>1. q[1].step = Delete
    BY <1>1, ItemFacts
  <2>2. g = NoRules
    BY <2>1, DeleteStep
  <2> QED BY <2>2, NoRulesFacts
<1>2. CASE q[1] = Must(Load("isolation", IsolationRules(allowed)))
  <2> DEFINE t == IsolationRules(allowed)
  <2>1. q[1].step = Load("isolation", t)
    BY <1>2, ItemFacts
  <2>2. t \in Seq(Isolating)
    BY IsolationRulesFacts
  <2> HIDE DEF t
  <2>3. "isolation" \in Kinds /\ \A d \in Dirs : t \in Seq(RulesOf(<<"isolation", d>>))
    BY <2>2, RuleFacts DEF Iso, Kinds
  <2> QED BY <2>1, <2>3, LoadStep
<1>3. CASE q[1] = Must(Load("block", <<Drop(ip)>>))
  <2> DEFINE t == <<Drop(ip)>>
  <2>1. q[1].step = Load("block", t)
    BY <1>3, ItemFacts
  <2>2. "block" \in Kinds /\ \A d \in Dirs : t \in Seq(RulesOf(<<"block", d>>))
    BY LoadRules
  <2> HIDE DEF t
  <2> QED BY <2>1, <2>2, LoadStep
<1>4. ASSUME NEW d \in Dirs, q[1] = Must(Insert(d, Drop(ip))) PROVE Filter(g) /\ OneTable(g)
  <2> DEFINE x == Drop(ip)
             c == <<TableKind(f), d>>
  <2>1. q[1].step = Insert(d, x)
    BY <1>4, ItemFacts
  <2>2. x \in Blocking
    BY RuleFacts
  <2> HIDE DEF x
  <2>3. g = f \/ (Filter(g) /\ OneTable(g) /\ g.chains[c] = Pushed(x, f.chains[c]))
    BY <2>1, <2>2, InsertStep
  <2> QED BY <2>3
<1>5. CASE q[1] = Must(List)
  <2>1. q[1].step = List
    BY <1>5, ItemFacts
  <2> QED BY <2>1, SteppedTail, ListCommand
<1>6. ASSUME NEW d \in Dirs, q[1] = Try(Purge(d, ip)) PROVE Filter(g) /\ OneTable(g)
  <2>1. g = f \/ (Filter(g) /\ OneTable(g))
    BY ZenonT(60), <1>6, PurgeStep
  <2> QED BY <2>1
<1> QED BY <1>1, <1>2, <1>3, <1>4, <1>5, <1>6 DEF InsertItems, PurgeItems

\* What executing a command leaves alone.
Kept == UNCHANGED <<backend, memory, stage, holder, cmd, ver, phase, touched, wiped, overtaken, late,
                    commands, crashes>>

\* A command is carried out, or refused because of the firewall's state.
Regular ==
    /\ Stepped(fw, script, fw', script')
    /\ failed' \in BOOLEAN
    /\ failed' <=> failed \/ (script[1].must /\ ~Possible(fw, script[1].step))
    /\ UNCHANGED <<slip, faults>> /\ Kept

\* It fails by itself.
Faulty ==
    /\ script # <<>> /\ fw' = fw
    /\ script' = IF script[1].must THEN <<>> ELSE Tail(script)
    /\ failed' \in BOOLEAN /\ (failed' <=> failed \/ script[1].must)
    /\ slip' = TRUE /\ faults < MaxFaults /\ faults' = faults + 1 /\ Kept

LEMMA ExecuteCases ==
  ASSUME Types, Execute PROVE Regular \/ Faulty
<1>1. script # <<>> /\ Head(script) = script[1] /\ failed \in BOOLEAN /\ slip \in BOOLEAN
  <2>1. script # <<>>
    BY DEF Execute, Succeed, Fail
  <2> QED BY <2>1, HeadFacts DEF Types, TypeOK
<1>2. CASE Succeed
  <2>1. Done(fw, script, fw', script')
    BY <1>1, <1>2 DEF Succeed, Done
  <2>2. UNCHANGED <<slip, faults>> /\ Kept /\ failed' = failed
    BY <1>2 DEF Succeed, Kept, seen, bounds
  <2> QED BY <1>1, <2>1, <2>2 DEF Regular, Stepped, Done
<1>3. CASE Fail
  <2>1. Kept /\ fw' = fw /\ failed' = (failed \/ script[1].must)
        /\ script' = IF script[1].must THEN <<>> ELSE Tail(script)
    BY <1>1, <1>3 DEF Fail, Kept
  <2>2. CASE Possible(fw, script[1].step)
    BY <1>1, <1>3, <2>1, <2>2 DEF Fail, Faulty
  <2>3. CASE ~Possible(fw, script[1].step)
    <3>1. Refused(fw, script, fw', script')
      BY <1>1, <2>1, <2>3 DEF Refused
    <3>2. UNCHANGED <<slip, faults>>
      BY <1>1, <1>3, <2>3 DEF Fail
    <3> QED BY <2>1, <2>3, <3>1, <3>2 DEF Regular, Stepped
  <2> QED BY <2>2, <2>3
<1> QED BY <1>2, <1>3 DEF Execute

LEMMA KeptFacts ==
  ASSUME Kept
  PROVE  /\ backend' = backend /\ holder' = holder /\ cmd' = cmd /\ stage' = stage
         /\ isolated' = isolated /\ blocked' = blocked /\ status' = status /\ params' = params
         /\ ver' = ver /\ phase' = phase /\ touched' = touched /\ wiped' = wiped
         /\ overtaken' = overtaken /\ late' = late /\ commands' = commands /\ crashes' = crashes
         /\ Items' = Items /\ Nft' = Nft /\ \A ops : Doing(ops)' <=> Doing(ops)
<1>1. /\ backend' = backend /\ holder' = holder /\ cmd' = cmd /\ stage' = stage
      /\ isolated' = isolated /\ blocked' = blocked /\ status' = status /\ params' = params
      /\ ver' = ver /\ phase' = phase /\ touched' = touched /\ wiped' = wiped
      /\ overtaken' = overtaken /\ late' = late /\ commands' = commands /\ crashes' = crashes
  BY DEF Kept, memory
<1>2. Nft' = Nft /\ \A ops : Doing(ops)' <=> Doing(ops)
  BY <1>1 DEF Nft, Doing
<1>3. NftItems' = NftItems
  BY <1>1 DEF NftItems
<1>4. IptItems' = IptItems
  BY <1>1 DEF IptItems
<1>5. Items' = Items
  BY <1>1, <1>2, <1>3, <1>4 DEF Items
<1> QED BY <1>1, <1>2, <1>5

\* The types of the script and the firewall are what an execution changes.
LEMMA KeptTypes ==
  ASSUME Types, Kept, Filter(fw'), Nft => OneTable(fw'), script' \in Seq(Items),
         holder = "task" => InOrder(script'), script' # <<>> => script # <<>>,
         failed' \in BOOLEAN, slip' \in BOOLEAN, faults' \in 0..MaxFaults,
         ~Nft /\ Doing({"unblock"}) => ~failed'
  PROVE  Types'
<1> USE KeptFacts
<1>1. TypeOK'
  <2>1. script' # <<>> => holder # "free"
    BY DEF Types, TypeOK
  <2>2. DOMAIN fw'.chains \subseteq Kinds \X Dirs
        /\ \A d \in Dirs : \A k \in Range(fw'.hooks[d]) : <<k, d>> \in DOMAIN fw'.chains
    BY DEF Filter, Present, Chains
  <2>3. TypeOK
    BY DEF Types
  <2> QED BY <2>1, <2>2, <2>3 DEF TypeOK
<1>2. /\ Filter(fw') /\ (Nft' => OneTable(fw'))
      /\ script' \in Seq(Items') /\ (holder' = "task" => InOrder(script'))
  OBVIOUS
<1>3. Types /\ (AllIdle' <=> AllIdle)
  BY DEF AllIdle
<1> QED BY <1>1, <1>2, <1>3 DEF Types

LEMMA EmptyInOrder == InOrder(<<>>)
BY DEF InOrder

LEMMA TryCancel ==
  ASSUME NEW x, NEW ip, x \in CancelItems(ip) PROVE ~x.must
BY ItemFacts DEF CancelItems

\* What is left of a script after a command.
LEMMA RestTypes ==
  ASSUME Types, script # <<>>, script' \in {<<>>, Tail(script)}
  PROVE  script' \in Seq(Items) /\ (holder = "task" => InOrder(script'))
<1>1. script \in Seq(Items) /\ Tail(script) \in Seq(Items) /\ (holder = "task" => InOrder(script))
  BY HeadFacts
<1>2. holder = "task" => InOrder(Tail(script))
  BY <1>1, TailFacts
<1>3. CASE script' = <<>>
  <2>1. <<>> \in Seq(Items)
    OBVIOUS
  <2> QED BY <1>3, <2>1, EmptyInOrder
<1>4. CASE script' = Tail(script)
  BY <1>1, <1>2, <1>4
<1> QED BY <1>3, <1>4

LEMMA FilterStep ==
  ASSUME Types, NEW g, NEW r, Stepped(fw, script, g, r) PROVE Filter(g) /\ (Nft => OneTable(g))
<1>1. script # <<>> /\ Filter(fw) /\ (Nft => OneTable(fw)) /\ Server \in Named /\ {} \in SUBSET Named
  BY SteppedTail, HostsAssumption DEF Types
<1>2. holder = "shutdown" \/ Doing({"isolate"}) \/ Doing({"unisolate", "undo"}) \/ Doing({"block"})
      \/ Doing({"unblock"})
  BY <1>1, HeadFacts, DoingFacts
<1>3. CASE Nft
  <2>1. CASE holder = "shutdown" \/ Doing({"unisolate", "undo"})
    <3>1. script[1] \in {Try(Delete), Must(Delete), Must(Load("isolation", IsolationRules({})))}
      BY <1>1, <1>3, <2>1, HeadFacts
    <3> QED BY <1>1, <1>3, <3>1, NftFilterStep
  <2>2. CASE Doing({"isolate"})
    <3>1. script[1] \in {Try(Delete), Must(Delete), Must(Load("isolation", IsolationRules(cmd.allowed)))}
          /\ cmd.allowed \in SUBSET Named
      BY <1>1, <1>3, <2>2, HeadFacts, DoingFacts
    <3> QED BY <1>1, <1>3, <3>1, NftFilterStep
  <2>3. CASE Doing({"block"}) \/ Doing({"unblock"})
    <3>1. script[1] \in InsertItems(cmd.ip) \cup PurgeItems(cmd.ip) /\ cmd.ip \in Named
      BY <1>1, <1>3, <2>3, HeadFacts, DoingFacts
    <3> QED BY <1>1, <1>3, <3>1, NftFilterStep
  <2> QED BY <1>2, <2>1, <2>2, <2>3
<1>4. CASE ~Nft
  <2>1. \E ip \in Named : script[1] \in EnsureItems \cup FlushItems \cup FillItems \cup BlockItems(ip)
                                        \cup CancelItems(ip) \cup DrainItems
    <3>1. CASE holder = "shutdown" \/ Doing({"isolate"}) \/ Doing({"unisolate", "undo"})
      BY <1>1, <1>4, <3>1, HeadFacts
    <3>2. CASE Doing({"block"}) \/ Doing({"unblock"})
      BY <1>1, <1>4, <3>2, HeadFacts, DoingFacts
    <3> QED BY <1>2, <3>1, <3>2
  <2> QED BY <1>1, <1>4, <2>1, IptFilterStep
<1> QED BY <1>3, <1>4

LEMMA ExecuteTypes ==
  ASSUME Types, Regular \/ Faulty PROVE Types'
<1>1. script # <<>> /\ Kept /\ failed' \in BOOLEAN /\ script' \in {<<>>, Tail(script)}
  BY SteppedTail DEF Regular, Faulty, Stepped, Done, Refused
<1>2. script' \in Seq(Items) /\ (holder = "task" => InOrder(script'))
  BY <1>1, RestTypes
<1>3. Filter(fw') /\ (Nft => OneTable(fw'))
  BY FilterStep DEF Regular, Faulty, Types
<1>4. slip' \in BOOLEAN /\ faults' \in 0..MaxFaults
  <2>1. slip \in BOOLEAN /\ faults \in 0..MaxFaults /\ MaxFaults \in Nat
    BY HostsAssumption DEF Types, TypeOK
  <2>2. CASE Regular
    BY <2>1, <2>2 DEF Regular
  <2>3. CASE Faulty
    BY <2>1, <2>3 DEF Faulty
  <2> QED BY <2>2, <2>3
<1>5. ASSUME ~Nft, Doing({"unblock"}) PROVE ~failed'
  <2>1. script[1] \in CancelItems(cmd.ip)
    BY <1>1, <1>5, HeadFacts
  <2>2. ~script[1].must
    BY <2>1, TryCancel
  <2> QED BY <1>5, <2>2 DEF Types, Regular, Faulty
<1> QED BY <1>1, <1>2, <1>3, <1>4, <1>5, KeptTypes

\* The commands that isolate and block use are possible when they are required.
LEMMA IsolateBuilding ==
  ASSUME NEW x \in EnsureItems \cup FlushItems \cup FillItems
  PROVE  /\ Building(x)
         /\ x.must => \E c \in Chains : \E t \in RulesOf(c) : x = Must(Flush(c)) \/ x = Must(Add(c, t))
<1>1. CASE x \in EnsureItems
  <2>1. ~x.must
    BY <1>1, ItemFacts DEF EnsureItems
  <2> QED BY <1>1, <2>1 DEF EnsureItems, Building
<1>2. CASE x \in FlushItems
  <2>1. ~x.must
    BY <1>2, ItemFacts DEF FlushItems
  <2> QED BY <1>2, <2>1, IsoChains DEF FlushItems, Building
<1>3. CASE x \in FillItems
  <2>1. \A d \in Dirs : Drop(All) \in RulesOf(Iso(d)) /\ Isolating = RulesOf(Iso(d)) /\ Iso(d) \in Chains
    BY RuleFacts, IsoChains
  <2> QED BY <1>3, <2>1 DEF FillItems, Building
<1> QED BY <1>1, <1>2, <1>3

LEMMA BlockBuilding ==
  ASSUME NEW ip \in Named, NEW x \in EnsureItems \cup BlockItems(ip)
  PROVE  /\ Building(x)
         /\ x.must => \E c \in Chains : \E t \in RulesOf(c) : x = Must(Flush(c)) \/ x = Must(Add(c, t))
<1>1. CASE x \in EnsureItems
  BY <1>1, IsolateBuilding
<1>2. CASE x \in BlockItems(ip)
  <2>1. \A d \in Dirs : Drop(ip) \in RulesOf(Block(d)) /\ Block(d) \in Chains
    BY RuleFacts, IsoChains
  <2> QED BY <1>2, <2>1 DEF BlockItems, Building
<1> QED BY <1>1, <1>2

\* iptables: what ensure_chains promises.
LEMMA EnsuringHolds ==
  ASSUME Types, NEW g, NEW r, Stepped(fw, script, g, r), ~Nft,
         Doing({"isolate"}) \/ Doing({"block"}), Ensuring(fw, script)
  PROVE  /\ Ensuring(g, r) /\ r = Tail(script) /\ Building(script[1])
         /\ script[1].must => Possible(fw, script[1].step)
<1>1. script # <<>> /\ Filter(fw)
  BY SteppedTail DEF Types
<1>2. script \in Seq(Items) /\ InOrder(script)
  BY <1>1, HeadFacts, DoingFacts
<1>3. Building(script[1])
      /\ (script[1].must => \E c \in Chains : \E t \in RulesOf(c) :
                               script[1] = Must(Flush(c)) \/ script[1] = Must(Add(c, t)))
  BY <1>1, HeadFacts, DoingFacts, IsolateBuilding, BlockBuilding
<1>4. /\ Ensuring(g, r) /\ r = Tail(script)
      /\ \A c \in Chains : \A x : \/ script[1] = Must(Flush(c)) \/ script[1] = Try(Jump(c))
                                  \/ (script[1] = Must(Add(c, x)) /\ x \in RulesOf(c))
                                  => c \in Present(fw) /\ Possible(fw, script[1].step)
  BY <1>1, <1>2, <1>3, EnsuringStep
<1> QED BY <1>3, <1>4

LEMMA WorkingNow == ~slip \/ faults = 0 => Working
BY DEF Working

LEMMA RegularIsolate ==
  ASSUME Types, Flag, Joined, Regular, Doing({"isolate"}), ~slip
  PROVE  ~failed' /\ Applying'
<1>1. Stepped(fw, script, fw', script') /\ script # <<>> /\ Filter(fw)
      /\ (failed' <=> failed \/ (script[1].must /\ ~Possible(fw, script[1].step)))
  BY SteppedTail DEF Regular, Types
<1>2. ~failed /\ Applying
  BY DEF Flag
<1>3. cmd' = cmd /\ Nft' = Nft
  BY KeptFacts DEF Regular
<1>4. CASE Nft
  <2> DEFINE t == IsolationRules(cmd.allowed)
  <2>1. t \in Seq(Isolating) /\ Contains(t, Drop(All)) /\ OneTable(fw)
    BY <1>4, DoingFacts, IsolationRulesFacts DEF Types
  <2>2. NftApplying(fw, script, t)
    BY <1>2, <1>4 DEF Applying
  <2> HIDE DEF t
  <2>3. NftApplying(fw', script', t) /\ (script[1].must => Possible(fw, script[1].step))
    BY <1>1, <2>1, <2>2, NftApplyingStep
  <2>4. Applying'
    BY <1>3, <1>4, <2>3 DEF Applying, t
  <2> QED BY <1>1, <1>2, <2>3, <2>4
<1>5. CASE ~Nft
  <2>1. Ensuring(fw, script)
    BY <1>5, WorkingNow DEF Joined, Doing
  <2>2. script[1].must => Possible(fw, script[1].step)
    BY <1>1, <1>5, <2>1, EnsuringHolds
  <2>3. script \in Seq(Items) /\ InOrder(script) /\ script[1] \in EnsureItems \cup FlushItems \cup FillItems
    BY <1>1, <1>5, HeadFacts, DoingFacts
  <2>4. IptApplying(fw, script)
    BY <1>2, <1>5 DEF Applying
  <2>5. IptApplying(fw', script')
    BY <1>1, <2>1, <2>3, <2>4, IptApplyingStep
  <2>6. Applying'
    BY <1>3, <1>5, <2>5 DEF Applying
  <2> QED BY <1>1, <1>2, <2>2, <2>6
<1> QED BY <1>4, <1>5

LEMMA RegularRemove ==
  ASSUME Types, Regular, Doing({"unisolate", "undo"}), ~failed, Removing
  PROVE  ~failed' /\ Removing'
<1>1. Stepped(fw, script, fw', script') /\ script # <<>> /\ Filter(fw)
      /\ (failed' <=> failed \/ (script[1].must /\ ~Possible(fw, script[1].step)))
  BY SteppedTail DEF Regular, Types
<1>2. Nft' = Nft
  BY KeptFacts DEF Regular
<1>3. CASE Nft
  <2>1. NftRemoving(fw', script') /\ (script[1].must => Possible(fw, script[1].step))
    BY <1>1, <1>3, NftRemovingStep DEF Removing, Types
  <2> QED BY <1>1, <1>2, <1>3, <2>1 DEF Removing
<1>4. CASE ~Nft
  <2>1. IptRemoving(fw, script) /\ script[1] \in FlushItems /\ script \in Seq(Items)
    BY <1>1, <1>4, HeadFacts DEF Removing
  <2>2. IptRemoving(fw', script') /\ ~script[1].must
    BY <1>1, <2>1, IptRemovingStep
  <2> QED BY <1>1, <1>2, <1>4, <2>2 DEF Removing
<1> QED BY <1>3, <1>4

LEMMA RegularSettled ==
  ASSUME Types, Regular, Doing({"block"}) \/ Doing({"unblock"}), Settled
  PROVE  /\ Settled'
         /\ isolated /\ Server \notin touched => (Reachable(fw', Server) <=> Reachable(fw, Server))
<1>1. Stepped(fw, script, fw', script') /\ script # <<>> /\ Filter(fw) /\ cmd.ip \in Named
  BY SteppedTail, DoingFacts DEF Regular, Types
<1>2. Nft' = Nft /\ isolated' = isolated
  BY KeptFacts DEF Regular
<1>3. Server \notin touched => cmd.ip # Server /\ (Nft /\ Doing({"unblock"}) => Server \notin Mentions[cmd.ip])
  BY DEF Types, Doing
<1>4. CASE Nft
  <2>1. script[1] \in InsertItems(cmd.ip) \cup PurgeItems(cmd.ip) /\ OneTable(fw)
        /\ (Doing({"block"}) => script[1] \in InsertItems(cmd.ip))
    BY <1>1, <1>4, HeadFacts DEF Types
  <2>2. /\ CutOff(fw) => /\ CutOff(fw')
                         /\ cmd.ip # Server /\ (script[1] \in InsertItems(cmd.ip) \/ Server \notin Mentions[cmd.ip])
                            => (Reachable(fw', Server) <=> Reachable(fw, Server))
        /\ Open(fw) => Open(fw')
    BY <1>1, <2>1, NftKeeps
  <2>3. Settled'
    BY <1>2, <1>4, <2>2 DEF Settled
  <2>4. isolated => CutOff(fw)
    BY DEF Settled
  <2> QED BY <1>3, <1>4, <2>1, <2>2, <2>3, <2>4
<1>5. CASE ~Nft
  <2>1. script[1] \in EnsureItems \cup BlockItems(cmd.ip) \cup CancelItems(cmd.ip)
    BY <1>1, <1>5, HeadFacts
  <2>2. /\ CutOff(fw) /\ Joint(fw) =>
              /\ CutOff(fw') /\ Joint(fw')
              /\ cmd.ip # Server => (Reachable(fw', Server) <=> Reachable(fw, Server))
        /\ Open(fw) => Open(fw')
    BY <1>1, <2>1, IptKeeps
  <2>3. Settled'
    BY <1>2, <1>5, <2>2 DEF Settled
  <2>4. isolated => CutOff(fw) /\ Joint(fw)
    BY <1>5 DEF Settled
  <2> QED BY <1>3, <2>2, <2>3, <2>4
<1> QED BY <1>4, <1>5

LEMMA RegularFlag ==
  ASSUME Types, Flag, Joined, Managed, Regular PROVE Flag' /\ Managed'
<1>1. script # <<>> /\ holder \in {"task", "shutdown"}
  BY SteppedTail, HeadFacts DEF Regular
<1>2. /\ holder' = holder /\ phase' = phase /\ slip' = slip /\ isolated' = isolated /\ stage' = stage
      /\ touched' = touched /\ \A ops : Doing(ops)' <=> Doing(ops)
  BY KeptFacts DEF Regular
<1>3. phase # "down" /\ (holder = "shutdown" => phase = "stopping")
  BY <1>1 DEF Types, TypeOK, AllIdle
<1>4. Doing({"isolate"}) /\ ~slip => ~failed' /\ Applying'
  BY RegularIsolate
<1>5. Doing({"unisolate", "undo"}) /\ phase = "up" /\ ~slip => ~failed' /\ Removing'
  BY RegularRemove DEF Flag
<1>6. Doing({"block", "unblock"}) <=> Doing({"block"}) \/ Doing({"unblock"})
  BY DEF Doing
<1>7. Doing({"block", "unblock"}) /\ phase = "up" /\ ~slip =>
        Settled' /\ (isolated /\ Server \notin touched => (Reachable(fw', Server) <=> Reachable(fw, Server)))
  BY <1>6, RegularSettled DEF Flag
<1>8. Flag'
  BY <1>1, <1>2, <1>3, <1>4, <1>5, <1>7 DEF Flag
<1>9. Managed'
  BY <1>1, <1>2, <1>3, <1>7 DEF Managed, Untested
<1> QED BY <1>8, <1>9

LEMMA NoCancel ==
  ASSUME NEW ip, NEW h, NEW x \in EnsureItems \cup FlushItems \cup FillItems \cup BlockItems(ip)
  PROVE  x \notin CancelItems(h)
<1>1. ASSUME x \in CancelItems(h) PROVE x.step.do = "delete"
  <2>1. PICK d \in Dirs : x = Try(Cancel(Block(d), Drop(h)))
    BY <1>1 DEF CancelItems
  <2>2. x.step = Cancel(Block(d), Drop(h))
    BY <2>1, ItemFacts
  <2> QED BY <2>2, DoFacts
<1>2. x.step.do # "delete"
  <2>1. ASSUME NEW c, NEW s, s = Make(c) \/ s = Jump(c) \/ s = Flush(c), x = Try(s) \/ x = Must(s)
        PROVE  x.step.do # "delete"
    <3>1. x.step = s
      BY <2>1, ItemFacts
    <3> QED BY <2>1, <3>1, DoFacts
  <2>2. ASSUME NEW c, NEW t, x = Must(Add(c, t)) PROVE x.step.do # "delete"
    <3>1. x.step = Add(c, t)
      BY <2>2, ItemFacts
    <3> QED BY <3>1, DoFacts
  <2>3. CASE x \in EnsureItems
    BY <2>1, <2>3 DEF EnsureItems
  <2>4. CASE x \in FlushItems
    BY <2>1, <2>4 DEF FlushItems
  <2>5. CASE x \in FillItems
    BY <2>1, <2>2, <2>5 DEF FillItems
  <2>6. CASE x \in BlockItems(ip)
    BY <2>2, <2>6 DEF BlockItems
  <2> QED BY <2>3, <2>4, <2>5, <2>6
<1> QED BY <1>1, <1>2

LEMMA RegularBlocked ==
  ASSUME Types, Regular, phase = "up", NEW h \in blocked \ wiped, NEW d \in Dirs,
         Blocked(h, d), ~(Doing({"unblock"}) /\ cmd.ip = h)
  PROVE  Blocked(h, d)'
<1>1. Stepped(fw, script, fw', script') /\ script # <<>> /\ Filter(fw) /\ h \in Named /\ Server \in Named
  BY SteppedTail, HostsAssumption DEF Regular, Types, TypeOK
<1>2. Nft' = Nft
  BY KeptFacts DEF Regular
<1>3. holder = "task"
  BY <1>1, HeadFacts DEF Types
<1>4. CASE Nft
  <2>1. ~Doing({"isolate"}) /\ ~Doing({"unisolate", "undo"})
    BY <1>1, <1>4 DEF Types, Doing
  <2>2. CASE Doing({"block"}) \/ Doing({"unblock"})
    <3>1. script[1] \in InsertItems(cmd.ip) \cup PurgeItems(cmd.ip) /\ OneTable(fw) /\ cmd.ip \in Named
      BY <1>1, <1>4, <2>2, HeadFacts, DoingFacts DEF Types
    <3>2. ASSUME script[1] \in PurgeItems(cmd.ip) PROVE h \notin Mentions[cmd.ip]
      <4>1. CASE Doing({"unblock"})
        BY <1>4, <4>1 DEF Types, Doing
      <4>2. CASE Doing({"block"})
        <5>1. script[1] \in InsertItems(cmd.ip)
          BY <1>1, <1>4, <4>2, HeadFacts
        <5> QED BY <3>2, <5>1, InsertNotPurge
      <4> QED BY <2>2, <4>1, <4>2
    <3>3. \E k \in Kinds : Shut(fw, <<k, d>>, h)
      BY <1>4 DEF Blocked
    <3>4. \E k \in Kinds : Shut(fw', <<k, d>>, h)
      BY <1>1, <3>1, <3>2, <3>3, NftShutStep
    <3> QED BY <1>2, <1>4, <3>4 DEF Blocked
  <2> QED BY <1>3, <2>1, <2>2, DoingFacts
<1>5. CASE ~Nft
  <2>1. Shut(fw, Block(d), h)
    BY <1>5 DEF Blocked
  <2>2. CASE Doing({"isolate"}) \/ Doing({"unisolate", "undo"})
    <3>1. script[1] \in EnsureItems \cup FlushItems \cup FillItems
      BY <1>1, <1>5, <2>2, HeadFacts
    <3>2. script[1] \notin CancelItems(Server)
      BY <3>1, NoCancel
    <3>3. Shut(fw', Block(d), h)
      BY <1>1, <2>1, <3>1, <3>2, IptShutStep
    <3> QED BY <1>2, <1>5, <3>3 DEF Blocked
  <2>3. CASE Doing({"block"})
    <3>1. script[1] \in EnsureItems \cup BlockItems(cmd.ip) /\ cmd.ip \in Named
      BY <1>1, <1>5, <2>3, HeadFacts, DoingFacts
    <3>2. script[1] \notin CancelItems(cmd.ip)
      BY <3>1, NoCancel
    <3>3. Shut(fw', Block(d), h)
      BY <1>1, <2>1, <3>1, <3>2, IptShutStep
    <3> QED BY <1>2, <1>5, <3>3 DEF Blocked
  <2>4. CASE Doing({"unblock"})
    <3>1. script[1] \in CancelItems(cmd.ip) /\ cmd.ip \in Named /\ h # cmd.ip
      BY <1>1, <1>5, <2>4, HeadFacts, DoingFacts
    <3>2. Shut(fw', Block(d), h)
      BY <1>1, <2>1, <3>1, IptShutStep
    <3> QED BY <1>2, <1>5, <3>2 DEF Blocked
  <2> QED BY <1>3, <2>2, <2>3, <2>4, DoingFacts
<1> QED BY <1>4, <1>5

LEMMA RegularBlocking ==
  ASSUME Types, Regular, Doing({"block"}), ~failed', NEW d \in Dirs,
         IF Nft THEN NftBlocking(fw, script, cmd.ip, d) ELSE IptBlocking(fw, script, cmd.ip, d)
  PROVE  IF Nft THEN NftBlocking(fw', script', cmd.ip, d) ELSE IptBlocking(fw', script', cmd.ip, d)
<1>1. Stepped(fw, script, fw', script') /\ script # <<>> /\ Filter(fw)
      /\ (script[1].must => Possible(fw, script[1].step))
  BY SteppedTail DEF Regular, Types
<1>2. cmd.ip \in Named /\ script \in Seq(Items)
  BY <1>1, DoingFacts, HeadFacts
<1>3. CASE Nft
  <2>1. script[1] \in InsertItems(cmd.ip) /\ OneTable(fw)
    BY <1>1, <1>3, HeadFacts DEF Types
  <2>2. script[1].must
    BY <2>1, ItemFacts DEF InsertItems
  <2> QED BY <1>1, <1>2, <1>3, <2>1, <2>2, NftBlockingStep
<1>4. CASE ~Nft
  <2>1. script[1] \in EnsureItems \cup BlockItems(cmd.ip)
    BY <1>1, <1>4, HeadFacts
  <2> QED BY <1>1, <1>2, <1>4, <2>1, IptBlockingStep
<1> QED BY <1>3, <1>4

LEMMA RegularBlocks ==
  ASSUME Types, Blocks, Regular PROVE Blocks'
<1>1. /\ cmd' = cmd /\ phase' = phase /\ faults' = faults /\ blocked' = blocked /\ wiped' = wiped
      /\ Nft' = Nft /\ \A ops : Doing(ops)' <=> Doing(ops)
  BY KeptFacts DEF Regular
<1>2. ASSUME phase = "up", faults = 0, NEW ip \in blocked \ wiped, NEW d \in Dirs
      PROVE  Blocked(ip, d)' \/ (Doing({"unblock"}) /\ cmd.ip = ip)
  BY <1>2, RegularBlocked DEF Blocks
<1>3. ASSUME Doing({"block"}), faults = 0, ~failed', NEW d \in Dirs
      PROVE  IF Nft THEN NftBlocking(fw', script', cmd.ip, d) ELSE IptBlocking(fw', script', cmd.ip, d)
  <2>1. ~failed
    BY <1>3 DEF Regular
  <2> QED BY <1>3, <2>1, RegularBlocking DEF Blocks
<1> QED BY <1>1, <1>2, <1>3 DEF Blocks

LEMMA RegularJoined ==
  ASSUME Types, Joined, Regular PROVE Joined'
<1>1. Stepped(fw, script, fw', script') /\ script # <<>> /\ Filter(fw)
  BY SteppedTail DEF Regular, Types
<1>2. /\ holder' = holder /\ slip' = slip /\ faults' = faults /\ crashes' = crashes
      /\ Nft' = Nft /\ (\A ops : Doing(ops)' <=> Doing(ops)) /\ Working' = Working
  BY KeptFacts DEF Regular, Working
<1>3. script \in Seq(Items) /\ holder \in {"task", "shutdown"} /\ (holder = "task" => InOrder(script))
  BY <1>1, HeadFacts
<1>4. ASSUME ~Nft, Doing({"isolate", "block"}), Working PROVE Ensuring(fw', script')
  <2>1. Ensuring(fw, script)
    BY <1>4 DEF Joined
  <2>2. Doing({"isolate"}) \/ Doing({"block"})
    BY <1>4 DEF Doing
  <2> QED BY <1>1, <1>4, <2>1, <2>2, EnsuringHolds
<1>5. ASSUME ~Nft, faults = 0, crashes = 0, holder # "shutdown" PROVE BlockFirst(fw', script')
  <2>1. BlockFirst(fw, script) /\ holder = "task"
    BY <1>3, <1>5 DEF Joined
  <2>2. CASE Doing({"isolate"}) \/ Doing({"block"})
    <3>1. Ensuring(fw, script)
      BY <1>5, <2>2 DEF Joined, Working, Doing
    <3>2. Building(script[1])
      BY <1>1, <1>5, <2>2, <3>1, EnsuringHolds
    <3> QED BY <1>1, <1>3, <2>1, <3>1, <3>2, BlockFirstStep
  <2>3. CASE Doing({"unisolate", "undo"})
    <3>1. PICK d \in Dirs : script[1] = Try(Flush(Iso(d)))
      BY <1>1, <1>5, <2>3, HeadFacts DEF FlushItems
    <3>2. script[1].step = Flush(Iso(d)) /\ ~script[1].must /\ Iso(d) \in Chains
      BY <3>1, ItemFacts, IsoChains
    <3>3. script' = Tail(script) /\ fw'.hooks = fw.hooks
      BY <1>1, <3>2, FlushStep DEF Only
    <3>4. \A c : script[1].step # Jump(c)
      BY <3>2, OtherItems
    <3> QED BY <1>1, <1>3, <2>1, <3>3, <3>4, HooksKept
  <2>4. CASE Doing({"unblock"})
    <3>1. PICK d \in Dirs : script[1] = Try(Cancel(Block(d), Drop(cmd.ip)))
      BY <1>1, <1>5, <2>4, HeadFacts DEF CancelItems
    <3> DEFINE x == Drop(cmd.ip)
    <3>2. script[1] = Try(Cancel(Block(d), x)) /\ Block(d) \in Chains
      BY <3>1, IsoChains
    <3> HIDE DEF x
    <3>3. script[1].step = Cancel(Block(d), x) /\ script' = Tail(script) /\ fw'.hooks = fw.hooks
      BY <1>1, <3>2, CancelStep DEF Only
    <3>4. \A c : script[1].step # Jump(c)
      BY <3>3, OtherItems
    <3> QED BY <1>1, <1>3, <2>1, <3>3, <3>4, HooksKept
  <2> QED BY <2>1, <2>2, <2>3, <2>4, DoingFacts
<1> QED BY <1>2, <1>4, <1>5 DEF Joined

LEMMA RegularDrained ==
  ASSUME Types, Drained, Regular PROVE Drained'
<1>1. Stepped(fw, script, fw', script') /\ script # <<>> /\ Filter(fw)
  BY SteppedTail DEF Regular, Types
<1>2. /\ holder' = holder /\ slip' = slip /\ faults' = faults /\ cmd' = cmd /\ phase' = phase /\ late' = late
      /\ Nft' = Nft
  BY KeptFacts DEF Regular
<1>3. script \in Seq(Items) /\ holder \in {"task", "shutdown"} /\ (holder = "shutdown" => phase = "stopping")
  BY <1>1, HeadFacts DEF Types
<1>4. ASSUME holder = "shutdown", ~slip PROVE Draining'
  <2>1. CASE Nft
    <3>1. script[1].step = Delete
      BY <1>1, <1>4, <2>1, HeadFacts, ItemFacts
    <3>2. fw' = NoRules
      BY <1>1, <2>1, <3>1, DeleteStep DEF Types
    <3> QED BY <1>2, <2>1, <3>2 DEF Draining
  <2>2. CASE ~Nft
    <3>1. IptDraining(fw, script) /\ script[1] \in DrainItems
      BY <1>1, <1>4, <2>2, HeadFacts DEF Drained, Draining
    <3>2. IptDraining(fw', script')
      BY <1>1, <1>3, <3>1, IptDrainingStep
    <3> QED BY <1>2, <2>2, <3>2 DEF Draining
  <2> QED BY <2>1, <2>2
<1>5. ASSUME phase = "cleaned", ~slip, ~late PROVE fw' = NoRules /\ cmd.op = "undo"
  <2>1. fw = NoRules /\ cmd.op = "undo" /\ Doing({"unisolate", "undo"})
    BY <1>3, <1>5 DEF Drained, Doing
  <2>2. CASE Nft
    <3>1. script[1].step = Delete
      BY <1>1, <2>1, <2>2, HeadFacts, ItemFacts
    <3>2. fw' = NoRules
      BY <1>1, <2>2, <3>1, DeleteStep DEF Types
    <3> QED BY <2>1, <3>2
  <2>3. CASE ~Nft
    <3>1. PICK d \in Dirs : script[1] = Try(Flush(Iso(d)))
      BY <1>1, <2>1, <2>3, HeadFacts DEF FlushItems
    <3>2. script[1].step = Flush(Iso(d)) /\ ~script[1].must /\ Iso(d) \in Chains
      BY <3>1, ItemFacts, IsoChains
    <3>3. fw' = fw
      BY <1>1, <2>1, <3>2, FlushStep, NoRulesFacts
    <3> QED BY <2>1, <3>3
  <2> QED BY <2>2, <2>3
<1> QED BY <1>2, <1>3, <1>4, <1>5 DEF Drained

\* After a fault nothing is promised.
LEMMA FaultyRest ==
  ASSUME Types, slip' = TRUE, faults' = faults + 1
  PROVE  Flag' /\ Managed' /\ Blocks' /\ Joined' /\ Drained'
<1>1. slip' /\ faults' # 0 /\ ~Working'
  <2>1. faults \in Nat
    BY HostsAssumption DEF Types, TypeOK
  <2> QED BY <2>1 DEF Working
<1>2. Flag'
  BY <1>1 DEF Flag
<1>3. Managed'
  BY <1>1 DEF Managed
<1>4. Blocks'
  BY <1>1 DEF Blocks
<1>5. Joined'
  BY <1>1 DEF Joined
<1>6. Drained'
  BY <1>1 DEF Drained
<1> QED BY <1>2, <1>3, <1>4, <1>5, <1>6

LEMMA ExecuteKeeps ==
  ASSUME IInv, Execute PROVE IInv'
<1>1. Regular \/ Faulty
  BY ExecuteCases DEF IInv
<1>2. Types'
  BY <1>1, ExecuteTypes DEF IInv
<1>3. Recorded'
  <2>1. Kept
    BY <1>1 DEF Regular, Faulty
  <2> QED BY <2>1, KeptFacts, SameRecord DEF IInv
<1>4. CASE Regular
  BY <1>2, <1>3, <1>4, RegularFlag, RegularBlocks, RegularJoined, RegularDrained DEF IInv
<1>5. CASE Faulty
  BY <1>2, <1>3, <1>5, FaultyRest DEF IInv, Faulty
<1> QED BY <1>1, <1>4, <1>5

-----------------------------------------------------------------------------
(* What the scripts of the operations do.                                  *)

\* The script has no command of this kind.
Without(q, do) == \A i \in DOMAIN q : q[i].step.do # do

LEMMA WithoutFacts ==
  ASSUME NEW q, NEW do, Without(q, do)
  PROVE  /\ \A s : s.do = do => ~Left(q, s)
         /\ \A s, x : x.do = do => Before(q, s, x)
BY DEF Without, Left, Before

LEMMA UniformRank ==
  ASSUME NEW q, NEW k \in 0..4, \A i \in DOMAIN q : Rank(q[i]) = k PROVE Ranked(q, k, k)
BY DEF Ranked, InOrder

\* One command for each chain, in the order of IsolationChains, AllChains and
\* JumpOrder.
LEMMA ChainLists ==
  /\ DOMAIN AllChains = 1..4 /\ DOMAIN JumpOrder = 1..4 /\ DOMAIN IsolationChains = 1..2
  /\ AllChains[1] = Iso("in") /\ AllChains[2] = Iso("out")
  /\ AllChains[3] = Block("in") /\ AllChains[4] = Block("out")
  /\ JumpOrder[1] = Iso("in") /\ JumpOrder[2] = Block("in")
  /\ JumpOrder[3] = Iso("out") /\ JumpOrder[4] = Block("out")
  /\ IsolationChains[1] = Iso("in") /\ IsolationChains[2] = Iso("out")
<1>1. /\ DOMAIN AllChains = 1..4 /\ AllChains[1] = Iso("in") /\ AllChains[2] = Iso("out")
      /\ AllChains[3] = Block("in") /\ AllChains[4] = Block("out")
  BY DEF AllChains, Iso, Block
<1>2. /\ DOMAIN JumpOrder = 1..4 /\ JumpOrder[1] = Iso("in") /\ JumpOrder[2] = Block("in")
      /\ JumpOrder[3] = Iso("out") /\ JumpOrder[4] = Block("out")
  BY DEF JumpOrder, Iso, Block
<1>3. /\ DOMAIN IsolationChains = 1..2 /\ IsolationChains[1] = Iso("in") /\ IsolationChains[2] = Iso("out")
  BY DEF IsolationChains, Iso
<1> QED BY <1>1, <1>2, <1>3

LEMMA AllFour ==
  /\ \A c \in Chains : \E i \in 1..4 : c = AllChains[i]
  /\ \A c \in Chains : \E i \in 1..4 : c = JumpOrder[i]
  /\ \A i \in 1..4 : AllChains[i] \in Chains /\ JumpOrder[i] \in Chains
<1>1. 1 \in 1..4 /\ 2 \in 1..4 /\ 3 \in 1..4 /\ 4 \in 1..4 /\ \A i \in 1..4 : i \in {1, 2, 3, 4}
  OBVIOUS
<1> QED BY <1>1, ChainFacts, ChainLists

LEMMA MakesFacts ==
  LET q == OnEach(Try, "new chain", AllChains) IN
  /\ q \in Seq(EnsureItems) /\ Ranked(q, 1, 1) /\ (\A c \in Chains : Left(q, Make(c)))
  /\ Without(q, "jump") /\ Without(q, "flush") /\ Without(q, "append")
<1> DEFINE q == OnEach(Try, "new chain", AllChains)
<1>1. DOMAIN q = 1..4 /\ \A i \in 1..4 : q[i] = Try(Make(AllChains[i]))
  BY ChainLists DEF OnEach, Make
<1>2. q = [i \in 1..4 |-> q[i]]
  BY <1>1 DEF OnEach
<1> HIDE DEF q
<1>3. \A i \in 1..4 : q[i].step = Make(AllChains[i]) /\ q[i] \in EnsureItems
  BY <1>1, ItemFacts, AllFour DEF EnsureItems
<1>4. \A i \in 1..4 : q[i].step.do = "new chain"
  BY <1>3, DoFacts
<1>5. \A i \in 1..4 : Rank(q[i]) = 1
  BY <1>4, ItemRanks
<1>6. q \in Seq(EnsureItems)
  BY <1>2, <1>3
<1>7. Ranked(q, 1, 1)
  BY <1>1, <1>5, UniformRank
<1>8. ASSUME NEW c \in Chains PROVE Left(q, Make(c))
  <2>1. PICK i \in 1..4 : c = AllChains[i]
    BY AllFour
  <2>2. q[i].step = Make(c)
    BY <1>3, <2>1
  <2> QED BY <1>1, <2>2 DEF Left
<1>9. Without(q, "jump") /\ Without(q, "flush") /\ Without(q, "append")
  BY <1>1, <1>4 DEF Without
<1> QED BY <1>6, <1>7, <1>8, <1>9 DEF q

LEMMA JumpsFacts ==
  LET q == OnEach(Try, "jump", JumpOrder) IN
  /\ q \in Seq(EnsureItems) /\ Ranked(q, 2, 2) /\ (\A c \in Chains : Left(q, Jump(c)))
  /\ \A d \in Dirs : Before(q, Jump(Iso(d)), Jump(Block(d)))
  /\ Without(q, "flush") /\ Without(q, "append")
<1> DEFINE q == OnEach(Try, "jump", JumpOrder)
<1>1. DOMAIN q = 1..4 /\ \A i \in 1..4 : q[i] = Try(Jump(JumpOrder[i]))
  BY ChainLists DEF OnEach, Jump
<1>2. q = [i \in 1..4 |-> q[i]]
  BY <1>1 DEF OnEach
<1> HIDE DEF q
<1>3. \A i \in 1..4 : q[i].step = Jump(JumpOrder[i]) /\ q[i] \in EnsureItems
  BY <1>1, ItemFacts, AllFour DEF EnsureItems
<1>4. \A i \in 1..4 : q[i].step.do = "jump"
  BY <1>3, DoFacts
<1>5. \A i \in 1..4 : Rank(q[i]) = 2
  BY <1>4, ItemRanks
<1>6. q \in Seq(EnsureItems)
  BY <1>2, <1>3
<1>7. Ranked(q, 2, 2)
  BY <1>1, <1>5, UniformRank
<1>8. ASSUME NEW c \in Chains PROVE Left(q, Jump(c))
  <2>1. PICK i \in 1..4 : c = JumpOrder[i]
    BY AllFour
  <2>2. q[i].step = Jump(c)
    BY <1>3, <2>1
  <2> QED BY <1>1, <2>2 DEF Left
<1>9. Without(q, "flush") /\ Without(q, "append")
  BY <1>1, <1>4 DEF Without
<1>10. ASSUME NEW d \in Dirs PROVE Before(q, Jump(Iso(d)), Jump(Block(d)))
  <2> SUFFICES ASSUME NEW j \in 1..4, q[j].step = Jump(Block(d))
               PROVE  \E i \in 1..(j - 1) : q[i].step = Jump(Iso(d))
    BY <1>1 DEF Before
  <2>1. JumpOrder[j] = Block(d)
    BY <1>3, SameItem
  <2>2. (j = 2 /\ d = "in") \/ (j = 4 /\ d = "out")
    <3>1. j \in {1, 2, 3, 4}
      OBVIOUS
    <3> QED BY <2>1, <3>1, ChainLists, IsoChains DEF Dirs
  <2>3. CASE j = 2 /\ d = "in"
    <3>1. 1 \in 1..(j - 1) /\ 1 \in 1..4
      BY <2>3
    <3> QED BY <1>3, <2>3, <3>1, ChainLists
  <2>4. CASE j = 4 /\ d = "out"
    <3>1. 3 \in 1..(j - 1) /\ 3 \in 1..4
      BY <2>4
    <3> QED BY <1>3, <2>4, <3>1, ChainLists
  <2> QED BY <2>2, <2>3, <2>4
<1> QED BY <1>6, <1>7, <1>8, <1>9, <1>10 DEF q

LEMMA WithoutConcat ==
  ASSUME NEW S, NEW q \in Seq(S), NEW r \in Seq(S), NEW do, Without(q, do), Without(r, do)
  PROVE  Without(q \o r, do)
<1>1. \A i \in DOMAIN (q \o r) : \/ i \in DOMAIN q /\ (q \o r)[i] = q[i]
                                 \/ i - Len(q) \in DOMAIN r /\ (q \o r)[i] = r[i - Len(q)]
  <2>1. DOMAIN (q \o r) = 1..(Len(q) + Len(r)) /\ DOMAIN q = 1..Len(q) /\ DOMAIN r = 1..Len(r)
        /\ \A i \in 1..(Len(q) + Len(r)) : (q \o r)[i] = IF i <= Len(q) THEN q[i] ELSE r[i - Len(q)]
    OBVIOUS
  <2> QED BY <2>1
<1> QED BY <1>1 DEF Without

\* ensure_chains makes and joins every chain, the block chains last.
Ensures(q) ==
    /\ \A c \in Chains : Left(q, Make(c)) /\ Left(q, Jump(c))
    /\ \A d \in Dirs : Before(q, Jump(Iso(d)), Jump(Block(d)))

LEMMA EnsureFacts ==
  /\ ipt_ensure_chains \in Seq(EnsureItems) /\ Ranked(ipt_ensure_chains, 1, 2)
  /\ Ensures(ipt_ensure_chains)
  /\ Without(ipt_ensure_chains, "flush") /\ Without(ipt_ensure_chains, "append")
<1> DEFINE q == OnEach(Try, "new chain", AllChains)
           r == OnEach(Try, "jump", JumpOrder)
<1>1. /\ q \in Seq(EnsureItems) /\ Ranked(q, 1, 1) /\ (\A c \in Chains : Left(q, Make(c)))
      /\ Without(q, "jump") /\ Without(q, "flush") /\ Without(q, "append")
  BY MakesFacts
<1>2. /\ r \in Seq(EnsureItems) /\ Ranked(r, 2, 2) /\ (\A c \in Chains : Left(r, Jump(c)))
      /\ \A d \in Dirs : Before(r, Jump(Iso(d)), Jump(Block(d)))
      /\ Without(r, "flush") /\ Without(r, "append")
  BY JumpsFacts
<1>3. ipt_ensure_chains = q \o r
  BY DEF ipt_ensure_chains
<1> HIDE DEF q, r
<1>4. \A d \in Dirs : Before(q, Jump(Iso(d)), Jump(Block(d)))
  BY <1>1, WithoutFacts, DoFacts
<1>5. q \o r \in Seq(EnsureItems) /\ Ensures(q \o r)
  BY <1>1, <1>2, <1>4, ConcatFacts DEF Ensures
<1>6. Ranked(q \o r, 1, 2)
  <2>1. Ranked(q, 1, 2)
    BY <1>1, RankFacts DEF Ranked
  <2> QED BY <1>1, <1>2, <2>1, ConcatFacts
<1>7. Without(q \o r, "flush") /\ Without(q \o r, "append")
  BY <1>1, <1>2, WithoutConcat
<1> QED BY <1>3, <1>5, <1>6, <1>7

IptIsolateItems == EnsureItems \cup FlushItems \cup FillItems

LEMMA FlushesFacts ==
  /\ LET q == OnEach(Try, "flush", IsolationChains) IN
     /\ q \in Seq(FlushItems) /\ Ranked(q, 0, 0) /\ Without(q, "jump")
     /\ \A d \in Dirs : Left(q, Flush(Iso(d)))
     /\ [i \in DOMAIN q |-> Try(q[i].step)] = q
  /\ LET q == OnEach(Must, "flush", IsolationChains) IN
     q \in Seq(FillItems) /\ Ranked(q, 3, 3) /\ Without(q, "jump")
<1>1. \A i \in 1..2 : \E d \in Dirs : IsolationChains[i] = Iso(d)
  <2>1. \A i \in 1..2 : i = 1 \/ i = 2
    OBVIOUS
  <2> QED BY <2>1, ChainLists DEF Dirs
<1> DEFINE q == OnEach(Try, "flush", IsolationChains)
           r == OnEach(Must, "flush", IsolationChains)
<1>2. /\ q = [i \in 1..2 |-> q[i]] /\ \A i \in 1..2 : q[i] = Try(Flush(IsolationChains[i]))
      /\ r = [i \in 1..2 |-> r[i]] /\ \A i \in 1..2 : r[i] = Must(Flush(IsolationChains[i]))
  BY ChainLists DEF OnEach, Flush
<1> HIDE DEF q, r
<1>3. \A i \in 1..2 : q[i].step = Flush(IsolationChains[i]) /\ ~q[i].must /\ q[i] \in FlushItems
  <2> SUFFICES ASSUME NEW i \in 1..2
               PROVE  q[i].step = Flush(IsolationChains[i]) /\ ~q[i].must /\ q[i] \in FlushItems
    OBVIOUS
  <2>1. PICK d \in Dirs : IsolationChains[i] = Iso(d)
    BY <1>1
  <2>2. q[i] = Try(Flush(Iso(d)))
    BY <1>2, <2>1
  <2>3. q[i] \in FlushItems
    BY <2>2 DEF FlushItems
  <2>4. q[i].step = Flush(Iso(d)) /\ ~q[i].must
    BY <2>2, ItemFacts
  <2> QED BY <2>1, <2>3, <2>4
<1>4. \A i \in 1..2 : r[i].step = Flush(IsolationChains[i]) /\ r[i].must /\ r[i] \in FillItems
  <2> SUFFICES ASSUME NEW i \in 1..2
               PROVE  r[i].step = Flush(IsolationChains[i]) /\ r[i].must /\ r[i] \in FillItems
    OBVIOUS
  <2>1. PICK d \in Dirs : IsolationChains[i] = Iso(d)
    BY <1>1
  <2>2. r[i] = Must(Flush(Iso(d)))
    BY <1>2, <2>1
  <2>3. r[i] \in FillItems
    BY <2>2 DEF FillItems
  <2>4. r[i].step = Flush(Iso(d)) /\ r[i].must
    BY <2>2, ItemFacts
  <2> QED BY <2>1, <2>3, <2>4
<1>5. DOMAIN q = 1..2 /\ DOMAIN r = 1..2 /\ q \in Seq(FlushItems) /\ r \in Seq(FillItems)
  BY <1>2, <1>3, <1>4
<1>6. \A i \in 1..2 : q[i].step.do = "flush" /\ r[i].step.do = "flush"
  BY ZenonT(60), <1>3, <1>4, DoFacts
<1>7. \A i \in 1..2 : Rank(q[i]) = 0 /\ Rank(r[i]) = 3
  BY <1>3, <1>4, <1>6 DEF Rank
<1>8. Ranked(q, 0, 0) /\ Ranked(r, 3, 3)
  BY SMTT(60), <1>5, <1>7, UniformRank
<1>9. Without(q, "jump") /\ Without(r, "jump")
  BY <1>5, <1>6 DEF Without
<1>10. ASSUME NEW d \in Dirs PROVE Left(q, Flush(Iso(d)))
  <2>1. PICK i \in 1..2 : IsolationChains[i] = Iso(d)
    <3>1. 1 \in 1..2 /\ 2 \in 1..2
      OBVIOUS
    <3> QED BY <3>1, ChainLists DEF Dirs
  <2> QED BY <1>3, <1>5, <2>1 DEF Left
<1>11. [i \in DOMAIN q |-> Try(q[i].step)] = q
  <2>1. \A i \in 1..2 : Try(q[i].step) = q[i]
    BY <1>2, <1>3
  <2> QED BY <1>2, <1>5, <2>1
<1> QED BY <1>5, <1>8, <1>9, <1>10, <1>11 DEF q, r

LEMMA FillFacts ==
  ASSUME NEW d \in Dirs, NEW rules \in Seq(Isolating), Contains(rules, Drop(All))
  PROVE  LET q == [i \in DOMAIN rules |->
                     Must([do |-> "append", chain |-> <<"isolation", d>>, rule |-> rules[i]])]
         IN /\ q \in Seq(FillItems) /\ Ranked(q, 4, 4) /\ Without(q, "jump")
            /\ Left(q, Add(Iso(d), Drop(All)))
<1> DEFINE q == [i \in DOMAIN rules |->
                  Must([do |-> "append", chain |-> <<"isolation", d>>, rule |-> rules[i]])]
           n == Len(rules)
<1>1. n \in Nat /\ DOMAIN rules = 1..n /\ \A i \in 1..n : rules[i] \in Isolating
  OBVIOUS
<1>2. q = [i \in 1..n |-> q[i]] /\ \A i \in 1..n : q[i] = Must(Add(Iso(d), rules[i]))
  BY <1>1 DEF Add, Iso
<1> HIDE DEF q, n
<1>3. \A i \in 1..n : q[i].step = Add(Iso(d), rules[i])
  BY <1>2, ItemFacts
<1>4. \A i \in 1..n : q[i] \in FillItems
  BY <1>1, <1>2 DEF FillItems
<1>5. DOMAIN q = 1..n /\ q \in Seq(FillItems)
  BY <1>1, <1>2, <1>4
<1>6. \A i \in 1..n : q[i].step.do = "append"
  BY ZenonT(60), <1>3, DoFacts
<1>7. \A i \in 1..n : Rank(q[i]) = 4
  BY <1>6, ItemRanks
<1>8. Ranked(q, 4, 4)
  <2>1. \A i \in DOMAIN q : Rank(q[i]) = 4
    BY <1>5, <1>7
  <2>2. 4 \in 0..4
    OBVIOUS
  <2> QED BY <2>1, <2>2, UniformRank
<1>9. Without(q, "jump")
  BY <1>5, <1>6 DEF Without
<1>10. PICK i \in 1..n : rules[i] = Drop(All)
  BY <1>1, ContainsFacts
<1>11. Left(q, Add(Iso(d), Drop(All)))
  BY <1>3, <1>5, <1>10 DEF Left
<1> QED BY <1>5, <1>8, <1>9, <1>11 DEF q

LEMMA EnsuresConcat ==
  ASSUME NEW S, NEW q \in Seq(S), NEW r \in Seq(S),
         \/ Ensures(q) /\ Without(r, "jump")
         \/ Without(q, "jump") /\ Ensures(r)
  PROVE  Ensures(q \o r)
<1>1. \A c \in Chains : Left(q \o r, Make(c)) /\ Left(q \o r, Jump(c))
  BY ConcatFacts DEF Ensures
<1>2. \A d \in Dirs : Before(q, Jump(Iso(d)), Jump(Block(d))) /\ Before(r, Jump(Iso(d)), Jump(Block(d)))
  BY WithoutFacts, DoFacts DEF Ensures
<1> QED BY <1>1, <1>2, ConcatFacts DEF Ensures

LEMMA EnsuresFacts ==
  ASSUME NEW q, Ensures(q), NEW f
  PROVE  Ensuring(f, q) /\ (BlockFirst(f, <<>>) => BlockFirst(f, q))
<1>1. Ensuring(f, q)
  BY DEF Ensures, Ensuring
<1>2. ASSUME BlockFirst(f, <<>>) PROVE BlockFirst(f, q)
  BY <1>2, IsoChains DEF BlockFirst, Ensures
<1> QED BY <1>1, <1>2

LEMMA RankedWider ==
  ASSUME NEW q, NEW a \in 0..4, NEW b \in 0..4, NEW c \in 0..4, NEW e \in 0..4, Ranked(q, a, b), c <= a, b <= e
  PROVE  Ranked(q, c, e)
<1>1. \A i \in DOMAIN q : Rank(q[i]) \in 0..4
  BY RankFacts
<1> QED BY <1>1 DEF Ranked

\* apply_isolation with iptables, after the commands of an earlier removal.
LEMMA IptIsolateScript ==
  ASSUME NEW allowed \in SUBSET Named, NEW p \in Seq(FlushItems), Ranked(p, 0, 0), Without(p, "jump")
  PROVE  LET q == p \o ipt_apply_isolation(allowed) IN
         /\ q \in Seq(IptIsolateItems) /\ InOrder(q) /\ Ensures(q)
         /\ \A d \in Dirs : Left(q, Add(Iso(d), Drop(All)))
<1> DEFINE rules == IsolationRules(allowed)
           E == ipt_ensure_chains
           F == OnEach(Must, "flush", IsolationChains)
           Fill(d) == [i \in DOMAIN rules |->
                         Must([do |-> "append", chain |-> <<"isolation", d>>, rule |-> rules[i]])]
           O == Fill("out")
           I == Fill("in")
           S == IptIsolateItems
           s == Add(Iso("out"), Drop(All))
           t == Add(Iso("in"), Drop(All))
<1>1. rules \in Seq(Isolating) /\ Contains(rules, Drop(All))
  BY IsolationRulesFacts
<1>2. ipt_apply_isolation(allowed) = ((E \o F) \o O) \o I
  BY DEF ipt_apply_isolation
<1>3. "out" \in Dirs /\ "in" \in Dirs
  BY DEF Dirs
<1>4. EnsureItems \subseteq S /\ FlushItems \subseteq S /\ FillItems \subseteq S
  BY DEF IptIsolateItems
<1>5. E \in Seq(S) /\ Ranked(E, 1, 2) /\ Ensures(E)
  BY <1>4, EnsureFacts, SeqMonotonic
<1>6. F \in Seq(S) /\ Ranked(F, 3, 3) /\ Without(F, "jump")
  BY <1>4, FlushesFacts, SeqMonotonic
<1>7. O \in Seq(S) /\ Ranked(O, 4, 4) /\ Without(O, "jump") /\ Left(O, s)
  <2>1. O \in Seq(FillItems) /\ Ranked(O, 4, 4) /\ Without(O, "jump") /\ Left(O, s)
    <3> HIDE DEF rules
    <3> QED BY <1>1, <1>3, FillFacts
  <2> QED BY <1>4, <2>1, SeqMonotonic
<1>8. I \in Seq(S) /\ Ranked(I, 4, 4) /\ Without(I, "jump") /\ Left(I, t)
  <2>1. I \in Seq(FillItems) /\ Ranked(I, 4, 4) /\ Without(I, "jump") /\ Left(I, t)
    <3> HIDE DEF rules
    <3> QED BY <1>1, <1>3, FillFacts
  <2> QED BY <1>4, <2>1, SeqMonotonic
<1>9. p \in Seq(S)
  BY <1>4, SeqMonotonic
<1> HIDE DEF E, F, O, I, S, s, t
<1> DEFINE A == E \o F
           B == A \o O
           C == B \o I
<1>10. A \in Seq(S) /\ Ranked(A, 1, 3) /\ Ensures(A)
  <2>1. Ranked(E, 1, 3)
    BY <1>5, RankedWider
  <2> QED BY <1>5, <1>6, <2>1, ConcatFacts, EnsuresConcat
<1> HIDE DEF A
<1>11. B \in Seq(S) /\ Ranked(B, 1, 4) /\ Ensures(B) /\ Left(B, s)
  <2>1. Ranked(A, 1, 4)
    BY <1>10, RankedWider
  <2> QED BY <1>7, <1>10, <2>1, ConcatFacts, EnsuresConcat
<1> HIDE DEF B
<1>12. C \in Seq(S) /\ Ranked(C, 1, 4) /\ Ensures(C) /\ Left(C, s) /\ Left(C, t)
  BY <1>8, <1>11, ConcatFacts, EnsuresConcat
<1>13. C = ipt_apply_isolation(allowed)
  BY <1>2 DEF A, B
<1> HIDE DEF C
<1>14. p \o C \in Seq(S) /\ Ranked(p \o C, 0, 4) /\ Ensures(p \o C) /\ Left(p \o C, s) /\ Left(p \o C, t)
  <2>1. Ranked(C, 0, 4)
    BY <1>12, RankedWider
  <2> QED BY <1>9, <1>12, <2>1, ConcatFacts, EnsuresConcat
<1>15. \A d \in Dirs : Left(p \o C, Add(Iso(d), Drop(All)))
  BY <1>14 DEF Dirs, s, t
<1> QED BY <1>13, <1>14, <1>15 DEF Ranked, S

LEMMA IptBlockScript ==
  ASSUME NEW ip \in Named
  PROVE  LET q == ipt_block_ip(ip) IN
         /\ q \in Seq(EnsureItems \cup BlockItems(ip)) /\ InOrder(q) /\ Ensures(q)
         /\ \A d \in Dirs : Left(q, Add(Block(d), Drop(ip)))
<1> DEFINE E == ipt_ensure_chains
           s == Add(Block("out"), Drop(ip))
           t == Add(Block("in"), Drop(ip))
           x == Must(s)
           y == Must(t)
           B == <<x, y>>
           S == EnsureItems \cup BlockItems(ip)
<1>1. ipt_block_ip(ip) = E \o B
  BY DEF ipt_block_ip, Add, Block
<1>2. x \in BlockItems(ip) /\ y \in BlockItems(ip)
  BY DEF BlockItems, Dirs
<1>3. x.step = s /\ y.step = t
  BY ItemFacts
<1>4. s.do = "append" /\ t.do = "append"
  BY DoFacts
<1>5. E \in Seq(S) /\ Ranked(E, 1, 2) /\ Ensures(E)
  BY EnsureFacts, SeqMonotonic
<1> HIDE DEF E, x, y, s, t
<1>6. B \in Seq(S) /\ DOMAIN B = 1..2 /\ B[1] = x /\ B[2] = y /\ \A i \in 1..2 : B[i] = x \/ B[i] = y
  BY <1>2
<1> HIDE DEF B, S
<1>7. \A i \in 1..2 : B[i].step.do = "append"
  BY <1>3, <1>4, <1>6
<1>8. Ranked(B, 4, 4) /\ Without(B, "jump")
  <2>1. \A i \in 1..2 : Rank(B[i]) = 4
    BY <1>7, ItemRanks
  <2>2. Ranked(B, 4, 4)
    BY <1>6, <2>1, UniformRank
  <2> QED BY <1>6, <1>7, <2>2 DEF Without
<1>9. Left(B, s) /\ Left(B, t)
  <2>1. 1 \in 1..2 /\ 2 \in 1..2
    OBVIOUS
  <2> QED BY <1>3, <1>6, <2>1 DEF Left
<1>10. E \o B \in Seq(S) /\ Ranked(E \o B, 1, 4) /\ Ensures(E \o B) /\ Left(E \o B, s) /\ Left(E \o B, t)
  <2>1. Ranked(E, 1, 4)
    BY <1>5, RankedWider
  <2> QED BY <1>5, <1>6, <1>8, <1>9, <2>1, ConcatFacts, EnsuresConcat
<1>11. \A d \in Dirs : Left(E \o B, Add(Block(d), Drop(ip)))
  BY <1>10 DEF Dirs, s, t
<1> QED BY <1>1, <1>10, <1>11 DEF Ranked, S

LEMMA IptUnblockScript ==
  ASSUME NEW ip \in Named
  PROVE  LET q == ipt_unblock_ip(ip) IN
         q \in Seq(CancelItems(ip)) /\ InOrder(q) /\ Without(q, "jump")
<1> DEFINE s == Cancel(Block("out"), Drop(ip))
           t == Cancel(Block("in"), Drop(ip))
           x == Try(s)
           y == Try(t)
           B == <<x, y>>
<1>1. ipt_unblock_ip(ip) = B
  BY DEF ipt_unblock_ip, Cancel, Block
<1>2. x \in CancelItems(ip) /\ y \in CancelItems(ip)
  BY DEF CancelItems, Dirs
<1>3. x.step = s /\ y.step = t
  BY ItemFacts
<1>4. s.do = "delete" /\ t.do = "delete"
  BY DoFacts
<1> HIDE DEF x, y, s, t
<1>5. B \in Seq(CancelItems(ip)) /\ DOMAIN B = 1..2 /\ \A i \in 1..2 : B[i] = x \/ B[i] = y
  BY <1>2
<1> HIDE DEF B
<1>6. \A i \in 1..2 : B[i].step.do = "delete"
  BY <1>3, <1>4, <1>5
<1>7. \A i \in 1..2 : Rank(B[i]) = 4
  BY <1>6 DEF Rank
<1>8. Ranked(B, 4, 4)
  BY <1>5, <1>7, UniformRank
<1> QED BY <1>1, <1>5, <1>6, <1>8 DEF Ranked, Without

LEMMA SmallConcat ==
  ASSUME NEW x, NEW y, NEW z
  PROVE  <<>> \o <<y, z>> = <<y, z>> /\ <<x>> \o <<y, z>> = <<x, y, z>>
<1> DEFINE S == {x, y, z}
           a == <<x>>
           b == <<y, z>>
           c == <<x, y, z>>
<1>0. a \in Seq(S) /\ b \in Seq(S) /\ Len(a) = 1 /\ Len(b) = 2
  OBVIOUS
<1>1. c \in Seq(S) /\ Len(c) = 3 /\ a[1] = x /\ b[1] = y /\ b[2] = z /\ c[1] = x /\ c[2] = y /\ c[3] = z
  OBVIOUS
<1> HIDE DEF a, b, c, S
<1>2. <<>> \o b = b
  BY <1>0, ConcatEmptySeq
<1> DEFINE w == a \o b
<1>3. w \in Seq(S) /\ Len(w) = 1 + 2
      /\ \A i \in 1..(1 + 2) : w[i] = IF i <= 1 THEN a[i] ELSE b[i - 1]
  <2>1. w \in Seq(S) /\ Len(w) = Len(a) + Len(b)
        /\ \A i \in 1..Len(a) + Len(b) : w[i] = IF i <= Len(a) THEN a[i] ELSE b[i - Len(a)]
    BY <1>0, ConcatProperties
  <2> QED BY <1>0, <2>1
<1> HIDE DEF w
<1>4. ASSUME NEW i \in 1..3 PROVE w[i] = c[i]
  <2>1. w[1] = a[1] /\ w[2] = b[1] /\ w[3] = b[2]
    BY <1>3
  <2>2. i = 1 \/ i = 2 \/ i = 3
    OBVIOUS
  <2> QED BY <1>1, <2>1, <2>2
<1>5. w = c
  BY <1>1, <1>3, <1>4, SeqEqual
<1> QED BY <1>2, <1>5 DEF a, b, c, w

LEMMA NftIsolateScript ==
  ASSUME NEW allowed \in SUBSET Named, NEW p \in {<<>>, <<Try(Delete)>>}
  PROVE  LET q == p \o nft_apply_isolation(allowed)
             rules == IsolationRules(allowed)
         IN /\ q \in Seq({Try(Delete), Must(Load("isolation", rules))}) /\ InOrder(q)
            /\ \A f : NftApplying(f, q, rules)
<1> DEFINE rules == IsolationRules(allowed)
           x == Try(Delete)
           y == Must(Load("isolation", rules))
           S == {x, y}
           q == p \o nft_apply_isolation(allowed)
<1>1. nft_apply_isolation(allowed) = <<x, y>>
  BY DEF nft_apply_isolation, Delete, Load
<1>2. Rank(x) = 0 /\ Rank(y) = 4
  <2>1. x.step = Delete /\ y.step = Load("isolation", rules)
    BY ItemFacts
  <2>2. x.step.do = "delete table" /\ y.step.do = "load"
    BY <2>1, DoFacts
  <2> HIDE DEF x, y
  <2> QED BY <2>2 DEF Rank
<1> HIDE DEF x, y
<1>3. q = <<x, y>> \/ q = <<x, x, y>>
  BY <1>1, SmallConcat DEF x
<1>4. \A f : NftApplying(f, q, rules)
  BY <1>3 DEF NftApplying, x, y
<1>5. <<x, y>> \in Seq(S) /\ <<x, x, y>> \in Seq(S)
  OBVIOUS
<1>6. InOrder(<<x, y>>) /\ InOrder(<<x, x, y>>)
  BY <1>2 DEF InOrder
<1> QED BY <1>3, <1>4, <1>5, <1>6 DEF x, y

LEMMA DeleteScript ==
  LET q == <<Must(Delete)>> IN
  /\ q \in Seq({Must(Delete)}) /\ InOrder(q)
  /\ [i \in DOMAIN q |-> Try(q[i].step)] = <<Try(Delete)>>
  /\ \A f : f # NoRules => NftRemoving(f, q)
<1> DEFINE x == Must(Delete)
<1>1. x.step = Delete
  BY ItemFacts
<1> HIDE DEF x
<1>2. [i \in DOMAIN <<x>> |-> Try(<<x>>[i].step)] = <<Try(Delete)>>
  BY <1>1
<1>3. <<x>> \in Seq({x}) /\ InOrder(<<x>>)
  <2>1. \A i, j \in DOMAIN <<x>> : ~(i < j)
    OBVIOUS
  <2> QED BY <2>1 DEF InOrder
<1>4. \A f : f # NoRules => NftRemoving(f, <<Must(Delete)>>)
  BY DEF NftRemoving
<1> QED BY <1>2, <1>3, <1>4 DEF x

LEMMA NftBlockScript ==
  ASSUME NEW ip \in Named
  PROVE  /\ nft_block_ip(ip) \in Seq(InsertItems(ip)) /\ InOrder(nft_block_ip(ip))
         /\ \A d \in Dirs : NftBlocking(fw, nft_block_ip(ip), ip, d)
<1> DEFINE s == Insert("in", Drop(ip))
           t == Insert("out", Drop(ip))
           l == Load("block", <<Drop(ip)>>)
           x == Must(s)
           y == Must(t)
           z == Must(l)
<1>1. nft_block_ip(ip) = IF Present(fw) # {} THEN <<x, y>> ELSE <<z>>
  BY DEF nft_block_ip, Insert, Load
<1>2. x \in InsertItems(ip) /\ y \in InsertItems(ip) /\ z \in InsertItems(ip)
  BY DEF InsertItems, Dirs
<1>3. x.step = s /\ y.step = t /\ z.step = l
  BY ItemFacts
<1>4. s.do = "insert" /\ t.do = "insert" /\ l.do = "load"
  BY DoFacts
<1> HIDE DEF x, y, z, s, t, l
<1>5. Rank(x) = 4 /\ Rank(y) = 4 /\ Rank(z) = 4
  BY <1>3, <1>4 DEF Rank
<1>6. CASE Present(fw) # {}
  <2>1. <<x, y>> \in Seq(InsertItems(ip)) /\ DOMAIN <<x, y>> = 1..2 /\ <<x, y>>[1] = x /\ <<x, y>>[2] = y
    BY <1>2
  <2>2. InOrder(<<x, y>>)
    BY <1>5 DEF InOrder
  <2>3. Left(<<x, y>>, s) /\ Left(<<x, y>>, t)
    <3>1. 1 \in 1..2 /\ 2 \in 1..2
      OBVIOUS
    <3> QED BY <1>3, <2>1, <3>1 DEF Left
  <2>4. \A d \in Dirs : Left(<<x, y>>, Insert(d, Drop(ip)))
    BY <2>3 DEF Dirs, s, t
  <2> QED BY <1>1, <1>6, <2>1, <2>2, <2>4 DEF NftBlocking
<1>7. CASE Present(fw) = {}
  <2>1. <<z>> \in Seq(InsertItems(ip)) /\ DOMAIN <<z>> = 1..1 /\ <<z>>[1] = z
    BY <1>2
  <2>2. InOrder(<<z>>)
    BY <1>5 DEF InOrder
  <2>3. Left(<<z>>, l)
    <3>1. 1 \in 1..1
      OBVIOUS
    <3> QED BY <1>3, <2>1, <3>1 DEF Left
  <2> QED BY <1>1, <1>7, <2>1, <2>2, <2>3 DEF NftBlocking, l
<1> QED BY <1>6, <1>7

LEMMA NftUnblockScript ==
  ASSUME NEW ip \in Named
  PROVE  nft_unblock_ip(ip) \in Seq(PurgeItems(ip)) /\ InOrder(nft_unblock_ip(ip))
<1> DEFINE s == Purge("in", ip)
           t == Purge("out", ip)
           x == Try(s)
           y == Try(t)
           z == Must(List)
           q == <<z, x, z, y>>
<1>1. nft_unblock_ip(ip) = q
  BY DEF nft_unblock_ip, Purge, List
<1>2. x \in PurgeItems(ip) /\ y \in PurgeItems(ip) /\ z \in PurgeItems(ip)
  BY DEF PurgeItems, Dirs
<1>3. x.step = s /\ y.step = t /\ z.step = List
  BY ItemFacts
<1>4. s.do = "purge" /\ t.do = "purge" /\ List.do = "list"
  BY DoFacts
<1> HIDE DEF x, y, z, s, t
<1>5. Rank(x) = 4 /\ Rank(y) = 4 /\ Rank(z) = 4
  BY <1>3, <1>4 DEF Rank
<1>6. q \in Seq(PurgeItems(ip))
  BY <1>2
<1>7. \A i \in DOMAIN q : q[i] = x \/ q[i] = y \/ q[i] = z
  OBVIOUS
<1> HIDE DEF q
<1>8. InOrder(q)
  <2>1. \A i \in DOMAIN q : Rank(q[i]) = 4
    BY <1>5, <1>7
  <2> QED BY <2>1 DEF InOrder
<1> QED BY <1>1, <1>6, <1>8

LEMMA UnjumpsFacts ==
  LET q == OnEach(Try, "unjump", JumpOrder) IN
  /\ q \in Seq(DrainItems) /\ (\A c \in Chains : Left(q, Unjump(c)))
  /\ (\A i \in DOMAIN q : q[i].step.do = "unjump") /\ Unjumping(q)
<1> DEFINE q == OnEach(Try, "unjump", JumpOrder)
<1>1. DOMAIN q = 1..4 /\ \A i \in 1..4 : q[i] = Try(Unjump(JumpOrder[i]))
  BY ChainLists DEF OnEach, Unjump
<1>2. q = [i \in 1..4 |-> q[i]]
  BY <1>1 DEF OnEach
<1> HIDE DEF q
<1>3. \A i \in 1..4 : q[i].step = Unjump(JumpOrder[i]) /\ q[i] \in DrainItems
  <2> SUFFICES ASSUME NEW i \in 1..4 PROVE q[i].step = Unjump(JumpOrder[i]) /\ q[i] \in DrainItems
    OBVIOUS
  <2>1. q[i] \in DrainItems
    BY <1>1, AllFour DEF DrainItems
  <2>2. q[i].step = Unjump(JumpOrder[i])
    BY <1>1, ItemFacts
  <2> QED BY <2>1, <2>2
<1>4. \A i \in 1..4 : q[i].step.do = "unjump"
  BY <1>3, DoFacts
<1>5. q \in Seq(DrainItems)
  BY <1>2, <1>3
<1>6. ASSUME NEW c \in Chains PROVE Left(q, Unjump(c))
  <2>1. PICK i \in 1..4 : c = JumpOrder[i]
    BY AllFour
  <2>2. q[i].step = Unjump(c)
    BY <1>3, <2>1
  <2> QED BY <1>1, <2>2 DEF Left
<1>7. Unjumping(q)
  BY <1>1, <1>4 DEF Unjumping
<1> QED BY <1>1, <1>4, <1>5, <1>6, <1>7 DEF q

\* A chain is flushed, then removed.
LEMMA DrainFacts ==
  ASSUME NEW c \in Chains
  PROVE  LET q == << Try([do |-> "flush", chain |-> c]), Try([do |-> "delete chain", chain |-> c]) >> IN
         /\ q \in Seq(DrainItems) /\ Without(q, "unjump") /\ Left(q, Discard(c))
         /\ \A e \in Chains : Before(q, Flush(e), Discard(e))
<1> DEFINE s == Flush(c)
           t == Discard(c)
           x == Try(s)
           y == Try(t)
           q == <<x, y>>
<1>1. x \in DrainItems /\ y \in DrainItems
  BY DEF DrainItems
<1>2. x.step = s /\ y.step = t
  BY ItemFacts
<1>3. s.do = "flush" /\ t.do = "delete chain"
  BY DoFacts
<1>4. \A e \in Chains : s # Discard(e) /\ (t = Discard(e) => s = Flush(e))
  BY OtherItems, SameItem
<1> HIDE DEF x, y, s, t
<1>5. q \in Seq(DrainItems) /\ DOMAIN q = 1..2 /\ q[1] = x /\ q[2] = y
      /\ \A i \in 1..2 : i = 1 \/ i = 2
  BY <1>1
<1> HIDE DEF q
<1>6. Without(q, "unjump")
  BY <1>2, <1>3, <1>5 DEF Without
<1>7. Left(q, t)
  BY <1>2, <1>5 DEF Left
<1>8. ASSUME NEW e \in Chains PROVE Before(q, Flush(e), Discard(e))
  <2> SUFFICES ASSUME NEW j \in 1..2, q[j].step = Discard(e)
               PROVE  \E i \in 1..(j - 1) : q[i].step = Flush(e)
    BY <1>5 DEF Before
  <2>1. j = 2 /\ t = Discard(e)
    BY <1>2, <1>4, <1>5
  <2>2. 1 \in 1..(j - 1) /\ q[1].step = Flush(e)
    BY <1>2, <1>4, <1>5, <2>1
  <2> QED BY <2>2
<1>9. q = << Try([do |-> "flush", chain |-> c]), Try([do |-> "delete chain", chain |-> c]) >>
  BY DEF q, x, y, s, t, Flush, Discard
<1> QED BY <1>5, <1>6, <1>7, <1>8, <1>9 DEF t

\* What the clean-up executes after and from the beginning.
Emptying(q) == /\ q \in Seq(DrainItems) /\ Without(q, "unjump")
               /\ \A e \in Chains : Before(q, Flush(e), Discard(e))
Cleaning(q) == /\ q \in Seq(DrainItems) /\ Unjumping(q)
               /\ \A e \in Chains : Left(q, Unjump(e)) /\ Before(q, Flush(e), Discard(e))

LEMMA UnjumpingConcat ==
  ASSUME NEW S, NEW q \in Seq(S), NEW r \in Seq(S), Unjumping(q), Without(r, "unjump")
  PROVE  Unjumping(q \o r)
<1>1. DOMAIN (q \o r) = 1..(Len(q) + Len(r)) /\ DOMAIN q = 1..Len(q) /\ DOMAIN r = 1..Len(r)
      /\ Len(q) \in Nat /\ Len(r) \in Nat
      /\ \A i \in 1..(Len(q) + Len(r)) : (q \o r)[i] = IF i <= Len(q) THEN q[i] ELSE r[i - Len(q)]
  OBVIOUS
<1> SUFFICES ASSUME NEW i \in DOMAIN (q \o r), NEW j \in DOMAIN (q \o r), i < j,
                    (q \o r)[j].step.do = "unjump"
             PROVE  (q \o r)[i].step.do = "unjump"
  BY DEF Unjumping
<1>2. j <= Len(q)
  <2> SUFFICES ASSUME j > Len(q) PROVE FALSE
    BY <1>1
  <2>1. j - Len(q) \in DOMAIN r /\ (q \o r)[j] = r[j - Len(q)]
    BY <1>1
  <2> QED BY <2>1 DEF Without
<1>3. i \in DOMAIN q /\ j \in DOMAIN q /\ (q \o r)[i] = q[i] /\ (q \o r)[j] = q[j]
  BY <1>1, <1>2
<1> QED BY <1>3 DEF Unjumping

LEMMA CleaningConcat ==
  ASSUME NEW q, NEW r, Cleaning(q), Emptying(r)
  PROVE  Cleaning(q \o r) /\ \A s : Left(q \o r, s) <=> Left(q, s) \/ Left(r, s)
<1>1. q \in Seq(DrainItems) /\ r \in Seq(DrainItems)
  BY DEF Cleaning, Emptying
<1>2. Unjumping(q \o r)
  BY <1>1, UnjumpingConcat DEF Cleaning, Emptying
<1>3. q \o r \in Seq(DrainItems) /\ \A s : Left(q \o r, s) <=> Left(q, s) \/ Left(r, s)
  BY <1>1, ConcatFacts
<1>4. \A e \in Chains : Before(q \o r, Flush(e), Discard(e))
  BY <1>1, ConcatFacts DEF Cleaning, Emptying
<1> QED BY <1>2, <1>3, <1>4 DEF Cleaning

LEMMA CleanupFacts ==
  ASSUME ~Nft, NEW f
  PROVE  CleanupScript \in Seq(DrainItems) /\ IptDraining(f, CleanupScript)
<1> DEFINE Drain(c) == << Try([do |-> "flush", chain |-> c]), Try([do |-> "delete chain", chain |-> c]) >>
           U == OnEach(Try, "unjump", JumpOrder)
           a == Drain(AllChains[1])
           b == Drain(AllChains[2])
           c == Drain(AllChains[3])
           d == Drain(AllChains[4])
<1>1. CleanupScript = (((U \o a) \o b) \o c) \o d
  BY DEF CleanupScript
<1>2. ASSUME NEW e \in Chains PROVE Emptying(Drain(e)) /\ Left(Drain(e), Discard(e))
  BY <1>2, DrainFacts DEF Emptying
<1>3. /\ AllChains[1] \in Chains /\ AllChains[2] \in Chains /\ AllChains[3] \in Chains
      /\ AllChains[4] \in Chains
      /\ \A e \in Chains : e = AllChains[1] \/ e = AllChains[2] \/ e = AllChains[3] \/ e = AllChains[4]
  BY ChainFacts, ChainLists
<1> HIDE DEF Drain
<1>4. /\ Emptying(a) /\ Emptying(b) /\ Emptying(c) /\ Emptying(d)
      /\ Left(a, Discard(AllChains[1])) /\ Left(b, Discard(AllChains[2]))
      /\ Left(c, Discard(AllChains[3])) /\ Left(d, Discard(AllChains[4]))
  BY <1>2, <1>3
<1>5. Cleaning(U)
  <2>1. /\ U \in Seq(DrainItems) /\ (\A e \in Chains : Left(U, Unjump(e)))
        /\ (\A i \in DOMAIN U : U[i].step.do = "unjump") /\ Unjumping(U)
    BY UnjumpsFacts
  <2> HIDE DEF U
  <2>2. Without(U, "delete chain")
    BY <2>1 DEF Without
  <2>3. \A e \in Chains : Before(U, Flush(e), Discard(e))
    BY <2>2, WithoutFacts, DoFacts
  <2> QED BY <2>1, <2>3 DEF Cleaning
<1> HIDE DEF U, a, b, c, d
<1> DEFINE A == U \o a
           B == A \o b
           C == B \o c
           D == C \o d
<1>6. Cleaning(A) /\ \A s : Left(A, s) <=> Left(U, s) \/ Left(a, s)
  BY <1>4, <1>5, CleaningConcat
<1> HIDE DEF A
<1>7. Cleaning(B) /\ \A s : Left(B, s) <=> Left(A, s) \/ Left(b, s)
  BY <1>4, <1>6, CleaningConcat
<1> HIDE DEF B
<1>8. Cleaning(C) /\ \A s : Left(C, s) <=> Left(B, s) \/ Left(c, s)
  BY <1>4, <1>7, CleaningConcat
<1> HIDE DEF C
<1>9. Cleaning(D) /\ \A s : Left(D, s) <=> Left(C, s) \/ Left(d, s)
  BY <1>4, <1>8, CleaningConcat
<1>10. D = CleanupScript
  BY <1>1 DEF A, B, C
<1> HIDE DEF D
<1>11. ASSUME NEW e \in Chains PROVE Left(D, Discard(e))
  BY <1>3, <1>4, <1>6, <1>7, <1>8, <1>9
<1>12. D \in Seq(DrainItems) /\ IptDraining(f, D)
  BY <1>9, <1>11 DEF Cleaning, IptDraining
<1> QED BY <1>10, <1>12

LEMMA ScriptIsolate ==
  ASSUME NEW c, c.op = "isolate", c.allowed \in SUBSET Named
  PROVE  LET q == Script(c)
             rules == IsolationRules(c.allowed)
         IN /\ InOrder(q)
            /\ Nft => /\ q \in Seq({Try(Delete), Must(Load("isolation", rules))})
                      /\ NftApplying(fw, q, rules)
            /\ ~Nft => /\ q \in Seq(IptIsolateItems) /\ Ensures(q)
                       /\ \A d \in Dirs : Left(q, Add(Iso(d), Drop(All)))
<1> DEFINE p == IF ~isolated THEN <<>> ELSE [i \in DOMAIN RemoveScript |-> Try(RemoveScript[i].step)]
<1>1. Script(c) = p \o (IF Nft THEN nft_apply_isolation(c.allowed) ELSE ipt_apply_isolation(c.allowed))
  BY DEF Script
<1>2. CASE Nft
  <2>1. RemoveScript = <<Must(Delete)>>
    BY <1>2 DEF RemoveScript, Delete
  <2>2. p \in {<<>>, <<Try(Delete)>>}
    BY <2>1, DeleteScript
  <2> HIDE DEF p
  <2>3. Script(c) = p \o nft_apply_isolation(c.allowed)
    BY <1>1, <1>2
  <2> QED BY <1>2, <2>2, <2>3, NftIsolateScript
<1>3. CASE ~Nft
  <2>1. RemoveScript = OnEach(Try, "flush", IsolationChains)
    BY <1>3 DEF RemoveScript
  <2>2. CASE isolated
    <3>1. p = OnEach(Try, "flush", IsolationChains)
      BY <2>1, <2>2, FlushesFacts
    <3> HIDE DEF p
    <3>2. p \in Seq(FlushItems) /\ Ranked(p, 0, 0) /\ Without(p, "jump")
      BY <3>1, FlushesFacts
    <3>3. Script(c) = p \o ipt_apply_isolation(c.allowed)
      BY <1>1, <1>3
    <3> QED BY <1>3, <3>2, <3>3, IptIsolateScript
  <2>3. CASE ~isolated
    <3>1. p = <<>>
      BY <2>3
    <3> HIDE DEF p
    <3>2. p \in Seq(FlushItems) /\ \A i \in DOMAIN p : FALSE
      BY <3>1
    <3>3. Ranked(p, 0, 0) /\ Without(p, "jump")
      BY <3>2 DEF Ranked, InOrder, Without
    <3>4. Script(c) = p \o ipt_apply_isolation(c.allowed)
      BY <1>1, <1>3
    <3> QED BY <1>3, <3>2, <3>3, <3>4, IptIsolateScript
  <2> QED BY <2>2, <2>3
<1> QED BY <1>2, <1>3

LEMMA ScriptRemove ==
  ASSUME NEW c, c.op \in {"unisolate", "undo"}
  PROVE  LET q == Script(c) IN
         /\ InOrder(q) /\ (~isolated => q = <<>>)
         /\ Nft => /\ q \in Seq({Must(Delete)})
                   /\ isolated /\ fw # NoRules => NftRemoving(fw, q)
         /\ ~Nft => /\ q \in Seq(FlushItems) /\ Without(q, "jump")
                    /\ isolated => IptRemoving(fw, q)
<1>1. Script(c) = IF isolated THEN RemoveScript ELSE <<>>
  BY DEF Script
<1>2. CASE ~isolated
  <2>1. Script(c) = <<>>
    BY <1>1, <1>2
  <2>2. \A i \in DOMAIN Script(c) : FALSE
    BY <2>1
  <2>3. Without(Script(c), "jump")
    BY <2>2 DEF Without
  <2>4. Script(c) \in Seq({Must(Delete)}) /\ Script(c) \in Seq(FlushItems)
    BY <2>1
  <2> QED BY <1>2, <2>1, <2>3, <2>4, EmptyInOrder
<1>3. CASE isolated /\ Nft
  <2>1. Script(c) = <<Must(Delete)>>
    BY <1>1, <1>3 DEF RemoveScript, Delete
  <2> QED BY <1>3, <2>1, DeleteScript
<1>4. CASE isolated /\ ~Nft
  <2>1. Script(c) = OnEach(Try, "flush", IsolationChains)
    BY <1>1, <1>4 DEF RemoveScript
  <2>2. Script(c) \in Seq(FlushItems) /\ Ranked(Script(c), 0, 0) /\ Without(Script(c), "jump")
        /\ \A d \in Dirs : Left(Script(c), Flush(Iso(d)))
    BY <2>1, FlushesFacts
  <2> QED BY <1>4, <2>2 DEF Ranked, IptRemoving
<1> QED BY <1>2, <1>3, <1>4

LEMMA ScriptBlock ==
  ASSUME NEW c, c.op = "block", c.ip \in Named
  PROVE  LET q == Script(c) IN
         /\ InOrder(q)
         /\ Nft => q \in Seq(InsertItems(c.ip)) /\ \A d \in Dirs : NftBlocking(fw, q, c.ip, d)
         /\ ~Nft => /\ q \in Seq(EnsureItems \cup BlockItems(c.ip)) /\ Ensures(q)
                    /\ \A d \in Dirs : IptBlocking(fw, q, c.ip, d)
<1>1. Script(c) = IF Nft THEN nft_block_ip(c.ip) ELSE ipt_block_ip(c.ip)
  BY DEF Script
<1>2. CASE Nft
  BY <1>1, <1>2, NftBlockScript
<1>3. CASE ~Nft
  BY <1>1, <1>3, IptBlockScript DEF IptBlocking
<1> QED BY <1>2, <1>3

LEMMA ScriptUnblock ==
  ASSUME NEW c, c.op = "unblock", c.ip \in Named
  PROVE  LET q == Script(c) IN
         /\ InOrder(q)
         /\ Nft => q \in Seq(PurgeItems(c.ip))
         /\ ~Nft => q \in Seq(CancelItems(c.ip)) /\ Without(q, "jump")
<1>1. Script(c) = IF Nft THEN nft_unblock_ip(c.ip) ELSE ipt_unblock_ip(c.ip)
  BY DEF Script
<1>2. CASE Nft
  BY <1>1, <1>2, NftUnblockScript
<1>3. CASE ~Nft
  BY <1>1, <1>3, IptUnblockScript
<1> QED BY <1>2, <1>3

\* The items of the script that a command begins.
LEMMA NewItems ==
  ASSUME holder' = "task", backend' = backend, NEW c, cmd' = c, NEW q, q \in Seq(Items')
         \/ (c.op = "isolate" /\ Nft /\ q \in Seq({Try(Delete), Must(Load("isolation", IsolationRules(c.allowed)))}))
         \/ (c.op = "isolate" /\ ~Nft /\ q \in Seq(IptIsolateItems))
         \/ (c.op \in {"unisolate", "undo"} /\ Nft /\ q \in Seq({Must(Delete)}))
         \/ (c.op \in {"unisolate", "undo"} /\ ~Nft /\ q \in Seq(FlushItems))
         \/ (c.op = "block" /\ Nft /\ q \in Seq(InsertItems(c.ip)))
         \/ (c.op = "block" /\ ~Nft /\ q \in Seq(EnsureItems \cup BlockItems(c.ip)))
         \/ (c.op = "unblock" /\ Nft /\ q \in Seq(PurgeItems(c.ip)))
         \/ (c.op = "unblock" /\ ~Nft /\ q \in Seq(CancelItems(c.ip)))
  PROVE  q \in Seq(Items')
<1>1. Nft' = Nft
  BY DEF Nft
<1>2. Items' = IF Nft THEN NftItems' ELSE IptItems'
  BY <1>1 DEF Items
<1>3. c.op = "isolate" => /\ NftItems' = {Try(Delete), Must(Load("isolation", IsolationRules(c.allowed)))}
                          /\ IptItems' = IptIsolateItems
  BY DEF NftItems, IptItems, IptIsolateItems
<1>4. c.op \in {"unisolate", "undo"} => NftItems' = {Must(Delete)} /\ IptItems' = FlushItems
  BY DEF NftItems, IptItems
<1>5. c.op = "block" => NftItems' = InsertItems(c.ip) /\ IptItems' = EnsureItems \cup BlockItems(c.ip)
  BY DEF NftItems, IptItems, InsertItems, BlockItems
<1>6. c.op = "unblock" => NftItems' = PurgeItems(c.ip) /\ IptItems' = CancelItems(c.ip)
  BY DEF NftItems, IptItems, PurgeItems, CancelItems
<1> QED BY <1>2, <1>3, <1>4, <1>5, <1>6

LEMMA NoJumpFirst ==
  ASSUME NEW f, NEW q, BlockFirst(f, <<>>), Without(q, "jump") PROVE BlockFirst(f, q)
<1>1. \A d \in Dirs : Before(q, Jump(Iso(d)), Jump(Block(d))) /\ ~Left(<<>>, Jump(Block(d)))
  BY WithoutFacts, DoFacts, EmptyLeft
<1> QED BY <1>1 DEF BlockFirst

LEMMA CommandFacts ==
  ASSUME NEW c \in Commands
  PROVE  /\ c.op \in {"isolate", "unisolate", "block", "unblock"}
         /\ c.op = "isolate" => c.allowed \in SUBSET Named
         /\ c.op \in {"block", "unblock"} => c.ip \in Named
BY DEF Commands

-----------------------------------------------------------------------------
(* A caller begins a command.                                              *)

\* What is true while nobody holds the lock.
LEMMA FreeFacts ==
  ASSUME Types, holder = "free"
  PROVE  /\ script = <<>> /\ cmd.op = "none" /\ phase # "stopping"
         /\ \A ops : ~Doing(ops)
BY DEF Types, TypeOK, Doing

LEMMA ReceiveFacts ==
  ASSUME Types, NEW k \in Callers, NEW c \in Commands, Receive(k, c)
  PROVE  /\ phase # "down" /\ holder = "free" /\ holder' = "task" /\ cmd' = c
         /\ script' = Script(c) /\ ~failed' /\ failed' \in BOOLEAN
         /\ backend' = backend /\ fw' = fw /\ isolated' = isolated /\ blocked' = blocked
         /\ status' = status /\ params' = params /\ ver' = ver /\ phase' = phase
         /\ overtaken' = overtaken /\ faults' = faults /\ crashes' = crashes
         /\ Nft' = Nft /\ \A ops : Doing(ops)' <=> c.op \in ops
<1>1. /\ phase # "down" /\ holder = "free" /\ holder' = "task" /\ cmd' = c
      /\ script' = Script(c) /\ failed' = FALSE
      /\ backend' = backend /\ fw' = fw /\ isolated' = isolated /\ blocked' = blocked
      /\ status' = status /\ params' = params /\ ver' = ver /\ phase' = phase
      /\ overtaken' = overtaken /\ faults' = faults /\ crashes' = crashes
  BY DEF Receive, Lock, memory
<1> QED BY <1>1 DEF Nft, Doing

LEMMA ReceiveStage ==
  ASSUME Types, NEW k \in Callers, NEW c \in Commands, Receive(k, c)
  PROVE  /\ Staged(stage', "task") /\ stage[k] = "idle" /\ stage'[k] = "locked"
         /\ \A j \in Callers : j # k => stage'[j] = stage[j]
<1>1. Staged(stage, holder) /\ holder # "task" /\ Go(k, "idle", "locked")
  BY StagedNow DEF Types, Receive, Lock
<1> QED BY <1>1, Moved, GetsStaged DEF Places

LEMMA ReceiveSeen ==
  ASSUME Types, NEW k \in Callers, NEW c \in Commands, Receive(k, c)
  PROVE  /\ touched' \subseteq Named /\ wiped' \subseteq Named /\ wiped \subseteq wiped'
         /\ c.op # "isolate" => touched \subseteq touched' /\ slip' = slip
         /\ c.op = "isolate" => ~slip'
         /\ c.op \in {"block", "unblock"} =>
              c.ip \in touched' /\ (Nft /\ c.op = "unblock" => Mentions[c.ip] \subseteq touched' \cap wiped')
         /\ Nft /\ c.op \in {"isolate", "unisolate"} => wiped' = Named
         /\ ~Nft => wiped' = {}
         /\ {slip', late'} \subseteq BOOLEAN /\ commands' \in 0..MaxCommands
         /\ phase = "cleaned" => late'
<1>1. touched \subseteq Named /\ wiped \subseteq Named /\ slip \in BOOLEAN /\ late \in BOOLEAN
      /\ commands \in 0..MaxCommands /\ (~Nft => wiped = {})
  BY DEF Types, TypeOK
<1>2. /\ c.op \in {"isolate", "unisolate", "block", "unblock"}
      /\ c.op \in {"block", "unblock"} => c.ip \in Named
  BY CommandFacts
<1>3. \A ip \in Named : ip \in Mentions[ip] /\ Mentions[ip] \subseteq Named
  BY HostsAssumption
<1>4. {slip', late'} \subseteq BOOLEAN /\ commands' \in 0..MaxCommands /\ (phase = "cleaned" => late')
      /\ (c.op # "isolate" => slip' = slip) /\ (c.op = "isolate" => ~slip')
  <2>1. commands' = commands + 1 /\ commands < MaxCommands /\ MaxCommands \in Nat
    BY HostsAssumption DEF Receive
  <2>2. commands' \in 0..MaxCommands
    BY <1>1, <2>1
  <2>3. slip' = (slip /\ c.op # "isolate") /\ late' = (late \/ phase = "cleaned")
    BY DEF Receive
  <2>4. slip' \in BOOLEAN /\ (c.op # "isolate" => slip' = slip) /\ (c.op = "isolate" => ~slip')
    BY <1>1, <2>3
  <2>5. late' \in BOOLEAN /\ (phase = "cleaned" => late')
    BY <1>1, <2>3
  <2> QED BY <2>2, <2>4, <2>5
<1>5. touched' = CASE c.op = "isolate" -> {}
                   [] c.op = "unisolate" -> touched
                   [] c.op = "unblock" /\ Nft -> touched \cup Mentions[c.ip]
                   [] OTHER -> touched \cup {c.ip}
  BY DEF Receive
<1>6. wiped' = CASE ~Nft \/ c.op = "block" -> wiped
                 [] Nft /\ c.op = "unblock" -> wiped \cup Mentions[c.ip]
                 [] OTHER -> Named
  BY DEF Receive
<1>7. touched' \subseteq Named /\ (c.op # "isolate" => touched \subseteq touched')
      /\ (c.op \in {"block", "unblock"} => c.ip \in touched')
      /\ (Nft /\ c.op = "unblock" => Mentions[c.ip] \subseteq touched')
  <2>1. CASE c.op = "isolate"
    BY <1>5, <2>1
  <2>2. CASE c.op = "unisolate"
    BY <1>1, <1>5, <2>2
  <2>3. CASE c.op = "unblock" /\ Nft
    BY <1>1, <1>2, <1>3, <1>5, <2>3
  <2>4. CASE c.op = "block" \/ (c.op = "unblock" /\ ~Nft)
    <3>1. touched' = touched \cup {c.ip}
      BY <1>5, <2>4
    <3> QED BY <1>1, <1>2, <2>4, <3>1
  <2> QED BY <1>2, <2>1, <2>2, <2>3, <2>4
<1>8. wiped' \subseteq Named /\ wiped \subseteq wiped' /\ (~Nft => wiped' = {})
      /\ (Nft /\ c.op = "unblock" => Mentions[c.ip] \subseteq wiped')
      /\ (Nft /\ c.op \in {"isolate", "unisolate"} => wiped' = Named)
  <2>1. CASE ~Nft \/ c.op = "block"
    BY <1>1, <1>6, <2>1
  <2>2. CASE Nft /\ c.op = "unblock"
    BY <1>1, <1>2, <1>3, <1>6, <2>2
  <2>3. CASE Nft /\ c.op \in {"isolate", "unisolate"}
    <3>1. wiped' = Named
      BY <1>6, <2>3
    <3> QED BY <1>1, <2>3, <3>1
  <2> QED BY <1>2, <2>1, <2>2, <2>3
<1> QED BY <1>4, <1>7, <1>8

LEMMA CommandScript ==
  ASSUME NEW c, c.op \in {"isolate", "unisolate", "undo", "block", "unblock"},
         c.op = "isolate" => c.allowed \in SUBSET Named,
         c.op \in {"block", "unblock"} => c.ip \in Named,
         holder' = "task", backend' = backend, cmd' = c
  PROVE  Script(c) \in Seq(Items') /\ InOrder(Script(c))
<1>1. CASE c.op = "isolate"
  BY <1>1, ScriptIsolate, NewItems
<1>2. CASE c.op \in {"unisolate", "undo"}
  <2>1. /\ InOrder(Script(c))
        /\ Nft => Script(c) \in Seq({Must(Delete)})
        /\ ~Nft => Script(c) \in Seq(FlushItems)
    BY <1>2, ScriptRemove
  <2> QED BY <1>2, <2>1, NewItems
<1>3. CASE c.op = "block"
  BY <1>3, ScriptBlock, NewItems
<1>4. CASE c.op = "unblock"
  BY <1>4, ScriptUnblock, NewItems
<1> QED BY <1>1, <1>2, <1>3, <1>4

LEMMA ReceiveTypes ==
  ASSUME Types, NEW k \in Callers, NEW c \in Commands, Receive(k, c) PROVE Types'
<1> USE ReceiveFacts, ReceiveSeen
<1>1. Script(c) \in Seq(Items') /\ InOrder(Script(c))
  BY CommandFacts, CommandScript
<1>2. TypeOK'
  <2>1. TypeOK
    BY DEF Types
  <2>2. Staged(stage', "task")
    BY ReceiveStage
  <2> QED BY <2>1, <2>2 DEF TypeOK, Staged, Places
<1>3. c.op \in {"isolate", "unisolate", "block", "unblock"}
  BY CommandFacts
<1>4. /\ Filter(fw') /\ (Nft' => OneTable(fw'))
      /\ script' \in Seq(Items') /\ (holder' = "task" => InOrder(script'))
  BY <1>1 DEF Types
<1>5. phase' = "stopping" <=> holder' = "shutdown"
  BY FreeFacts
<1>6. /\ phase' = "down" => FALSE
      /\ holder' # "task" <=> cmd'.op = "none"
  BY <1>3
<1>7. /\ Doing({"block", "unblock"})' =>
           cmd'.ip \in touched'
           /\ (Nft' /\ cmd'.op = "unblock" => Mentions[cmd'.ip] \subseteq touched' \cap wiped')
      /\ Nft' /\ Doing({"isolate", "unisolate", "undo"})' => wiped' = Named
      /\ ~Nft' => wiped' = {} /\ (Doing({"unblock"})' => ~failed')
  BY <1>3
<1> QED BY <1>2, <1>4, <1>5, <1>6, <1>7 DEF Types

\* The script of a removal removes what is there.
LEMMA BeginsRemoving ==
  ASSUME Settled, NEW c, c.op \in {"unisolate", "undo"}
  PROVE  IF Nft THEN NftRemoving(fw, Script(c)) ELSE IptRemoving(fw, Script(c))
<1>1. CASE isolated
  <2>1. CutOff(fw)
    BY <1>1 DEF Settled
  <2>2. fw # NoRules
    BY <2>1, NoRulesFacts DEF CutOff, Cut, Armed, Dirs
  <2> QED BY <1>1, <2>2, ScriptRemove
<1>2. CASE ~isolated
  <2>1. Open(fw) /\ Script(c) = <<>>
    BY <1>2, ScriptRemove DEF Settled
  <2>2. NftRemoving(fw, <<>>) /\ IptRemoving(fw, <<>>)
    BY <2>1 DEF NftRemoving, IptRemoving, Open
  <2> QED BY <2>1, <2>2
<1> QED BY <1>1, <1>2

LEMMA ReceiveFlag ==
  ASSUME Types, Flag, Managed, NEW k \in Callers, NEW c \in Commands, Receive(k, c) PROVE Flag' /\ Managed'
<1> USE ReceiveFacts, ReceiveSeen
<1>1. c.op \in {"isolate", "unisolate", "block", "unblock"}
      /\ (c.op = "isolate" => c.allowed \in SUBSET Named)
  BY CommandFacts
<1>2. ASSUME c.op = "isolate" PROVE Applying'
  <2>1. CASE Nft
    <3>1. NftApplying(fw, Script(c), IsolationRules(c.allowed))
      BY <1>1, <1>2, <2>1, ScriptIsolate
    <3> QED BY <2>1, <3>1 DEF Applying
  <2>2. CASE ~Nft
    <3>1. \A d \in Dirs : Left(Script(c), Add(Iso(d), Drop(All)))
      BY <1>1, <1>2, <2>2, ScriptIsolate
    <3>2. IptApplying(fw, Script(c))
      BY <3>1 DEF IptApplying
    <3> QED BY <2>2, <3>2 DEF Applying
  <2> QED BY <2>1, <2>2
<1>3. ASSUME phase = "up", ~slip PROVE Settled
  BY <1>3 DEF Flag
<1>4. ASSUME phase = "up", ~slip, c.op = "unisolate" PROVE Removing'
  BY <1>3, <1>4, BeginsRemoving DEF Removing
<1>5. Settled' <=> Settled
  BY DEF Settled
<1>6. Flag'
  <2>1. Doing({"isolate"})' /\ ~slip' => ~failed' /\ Applying'
    BY <1>2
  <2>2. phase' = "up" /\ ~slip' /\ (holder' = "free" \/ Doing({"block", "unblock"})') => Settled'
    BY <1>3, <1>5
  <2>3. phase' = "up" /\ ~slip' /\ Doing({"unisolate", "undo"})' => ~failed' /\ Removing'
    BY <1>1, <1>4
  <2>4. phase' # "down"
    OBVIOUS
  <2> QED BY <2>1, <2>2, <2>3, <2>4 DEF Flag
<1>7. Managed'
  <2> SUFFICES ASSUME phase' = "up", ~slip', isolated', Server \notin touched', Untested',
                      Doing({"block", "unblock"})'
               PROVE  Reachable(fw', Server)
    BY DEF Managed
  <2>1. c.op \in {"block", "unblock"}
    BY DEF Doing
  <2>2. Untested
    BY ReceiveStage DEF Untested
  <2> QED BY <2>1, <2>2 DEF Managed
<1> QED BY <1>6, <1>7

LEMMA ReceiveRest ==
  ASSUME Types, Recorded, Blocks, Joined, Drained, NEW k \in Callers, NEW c \in Commands, Receive(k, c)
  PROVE  Recorded' /\ Blocks' /\ Joined' /\ Drained'
<1> USE ReceiveFacts
<1>1. c.op \in {"isolate", "unisolate", "block", "unblock"}
      /\ (c.op = "isolate" => c.allowed \in SUBSET Named) /\ (c.op \in {"block", "unblock"} => c.ip \in Named)
  BY CommandFacts
<1>2. script = <<>> /\ \A ops : ~Doing(ops)
  BY FreeFacts
<1>3. Recorded'
  BY ReceiveStage, SameRecord
<1>4. Blocks'
  <2>1. \A ip, d : Blocked(ip, d)' <=> Blocked(ip, d)
    BY SMTT(60) DEF Blocked
  <2>2. wiped \subseteq wiped'
    BY ReceiveSeen
  <2>3. ASSUME phase = "up", faults = 0, NEW ip \in blocked \ wiped', NEW d \in Dirs PROVE Blocked(ip, d)
    BY <1>2, <2>2, <2>3 DEF Blocks
  <2>4. ASSUME c.op = "block", NEW d \in Dirs
        PROVE  IF Nft THEN NftBlocking(fw, Script(c), c.ip, d) ELSE IptBlocking(fw, Script(c), c.ip, d)
    BY <1>1, <2>4, ScriptBlock
  <2>5. phase' = "up" /\ faults' = 0 => \A ip \in blocked' \ wiped' : \A d \in Dirs : Blocked(ip, d)'
    BY <2>1, <2>3
  <2>6. Doing({"block"})' =>
          \A d \in Dirs : IF Nft' THEN NftBlocking(fw', script', cmd'.ip, d)
                                  ELSE IptBlocking(fw', script', cmd'.ip, d)
    BY <2>4
  <2> QED BY <2>5, <2>6 DEF Blocks
<1>5. Joined'
  <2>1. ASSUME ~Nft, c.op \in {"isolate", "block"} PROVE Ensures(Script(c))
    BY <1>1, <2>1, ScriptIsolate, ScriptBlock
  <2>2. ASSUME ~Nft, c.op \in {"unisolate", "unblock"} PROVE Without(Script(c), "jump")
    BY <1>1, <2>2, ScriptRemove, ScriptUnblock
  <2>3. ASSUME ~Nft, faults = 0, crashes = 0 PROVE BlockFirst(fw, Script(c))
    <3>1. BlockFirst(fw, <<>>)
      BY <1>2, <2>3 DEF Joined
    <3> QED BY <1>1, <2>1, <2>2, <2>3, <3>1, EnsuresFacts, NoJumpFirst
  <2> QED BY <2>1, <2>3, EnsuresFacts DEF Joined
<1>6. Drained'
  BY ReceiveSeen DEF Drained
<1> QED BY <1>3, <1>4, <1>5, <1>6

LEMMA ReceiveKeeps ==
  ASSUME IInv, NEW k \in Callers, NEW c \in Commands, Receive(k, c) PROVE IInv'
BY ReceiveTypes, ReceiveFlag, ReceiveRest DEF IInv

-----------------------------------------------------------------------------
(* An operation ends.                                                      *)

\* The types while nobody holds the lock.
LEMMA FreeTypes ==
  ASSUME Types, TypeOK', fw' = fw, backend' = backend, holder' = "free", script' = <<>>, cmd'.op = "none",
         phase' # "stopping", ~Nft => wiped' = {},
         phase' = "down" => /\ AllIdle' /\ ~isolated' /\ blocked' = {} /\ ver' = "idle"
                            /\ status' = "none"
  PROVE  Types'
<1>1. Nft' = Nft /\ \A ops : ~Doing(ops)'
  BY DEF Nft, Doing
<1>2. script' \in Seq(Items')
  OBVIOUS
<1>3. Filter(fw') /\ (Nft' => OneTable(fw'))
  BY <1>1 DEF Types
<1> QED BY <1>1, <1>2, <1>3 DEF Types

\* An operation that ends.
Ended == UNCHANGED <<backend, fw, script, ver, phase, slip, touched, overtaken, late, bounds>>
         /\ UNCHANGED <<status, params>>

LEMMA EndedFacts ==
  ASSUME Types, NEW k \in Callers, NEW ops, NEW next \in {"idle", "test", "clear"}, Release(k, ops, next), Ended
  PROVE  /\ backend' = backend /\ fw' = fw /\ script' = script /\ script = <<>> /\ ver' = ver
         /\ phase' = phase /\ slip' = slip /\ touched' = touched /\ overtaken' = overtaken
         /\ late' = late /\ commands' = commands /\ faults' = faults /\ crashes' = crashes
         /\ status' = status /\ params' = params
         /\ holder = "task" /\ holder' = "free" /\ cmd' = Nothing /\ failed' = FALSE
         /\ Doing(ops) /\ (\A s : ~Doing(s)') /\ Nft' = Nft
         /\ phase # "down" /\ phase # "stopping"
<1>1. /\ backend' = backend /\ fw' = fw /\ script' = script /\ script = <<>> /\ ver' = ver
      /\ phase' = phase /\ slip' = slip /\ touched' = touched /\ overtaken' = overtaken
      /\ late' = late /\ commands' = commands /\ faults' = faults /\ crashes' = crashes
      /\ status' = status /\ params' = params
      /\ holder = "task" /\ holder' = "free" /\ cmd' = Nothing /\ failed' = FALSE /\ cmd.op \in ops
  BY DEF Release, Ended, bounds
<1>2. phase # "stopping"
  BY <1>1 DEF Types
<1>3. phase # "down"
  BY <1>1 DEF Types, TypeOK, AllIdle
<1> QED BY <1>1, <1>2, <1>3 DEF Doing, Nft

LEMMA EndedStage ==
  ASSUME Types, NEW k \in Callers, NEW ops, NEW next \in {"idle", "test", "clear"}, Release(k, ops, next)
  PROVE  /\ Staged(stage', "free") /\ stage[k] = "locked" /\ stage'[k] = next
         /\ \A j \in Callers : j # k => stage'[j] = stage[j]
<1>1. Staged(stage, holder) /\ Go(k, "locked", next) /\ next \in Places /\ next # "locked"
  BY StagedNow DEF Types, Release, Places
<1> QED BY <1>1, Moved, LeavesStaged

LEMMA EndedTypes ==
  ASSUME Types, NEW k \in Callers, NEW ops, NEW next \in {"idle", "test", "clear"},
         Release(k, ops, next), Ended, isolated' \in BOOLEAN, blocked' \subseteq Named, wiped' \subseteq wiped
  PROVE  Types'
<1>0. /\ backend' = backend /\ fw' = fw /\ script' = script /\ script = <<>> /\ ver' = ver
      /\ phase' = phase /\ slip' = slip /\ touched' = touched /\ overtaken' = overtaken
      /\ late' = late /\ commands' = commands /\ faults' = faults /\ crashes' = crashes
      /\ status' = status /\ params' = params /\ holder' = "free" /\ cmd' = Nothing /\ failed' = FALSE
      /\ phase # "down" /\ phase # "stopping"
  BY EndedFacts
<1>1. TypeOK /\ (~Nft => wiped' = {})
  BY DEF Types
<1>2. TypeOK'
  <2>1. cmd' \in Commands \cup [op : {"none", "undo"}]
    <3>1. cmd' = [op |-> "none"]
      BY <1>0 DEF Nothing
    <3> QED BY <3>1
  <2>2. wiped' \subseteq Named /\ touched' \subseteq Named
    BY <1>0, <1>1 DEF TypeOK
  <2>3. {failed', slip', overtaken', late'} \subseteq BOOLEAN
    BY <1>0, <1>1 DEF TypeOK
  <2>8. isolated' \in BOOLEAN /\ blocked' \subseteq Named /\ holder' \in {"free", "task", "shutdown"}
    BY <1>0
  <2>4. script' # <<>> => holder' # "free"
    BY <1>0
  <2>5. Staged(stage', holder')
    BY <1>0, EndedStage
  <2>6. /\ status' \in Active \cup {"none", "failed"} /\ params' \in BOOLEAN
        /\ ver' \in {"idle", "params", "status", "read", "probe", "gone", "open"}
        /\ phase' \in {"up", "stopping", "cleaned", "down"}
        /\ commands' \in 0..MaxCommands /\ faults' \in 0..MaxFaults /\ crashes' \in 0..MaxCrashes
    BY <1>0, <1>1 DEF TypeOK
  <2>7. /\ backend' \in {"nftables", "iptables"} /\ DOMAIN fw'.chains \subseteq Kinds \X Dirs
        /\ \A d \in Dirs : \A m \in Range(fw'.hooks[d]) : <<m, d>> \in DOMAIN fw'.chains
    BY <1>0, <1>1 DEF TypeOK
  <2> QED BY <2>1, <2>2, <2>3, <2>4, <2>5, <2>6, <2>7, <2>8 DEF TypeOK, Staged, Places
<1>3. cmd'.op = "none"
  <2>1. cmd' = [op |-> "none"]
    BY <1>0 DEF Nothing
  <2> QED BY <2>1
<1> QED BY <1>0, <1>1, <1>2, <1>3, FreeTypes

\* What the end of an operation has to show: that the flag is true, that the
\* server can be reached and that the blocks hold.
LEMMA EndedRest ==
  ASSUME Types, Recorded, Joined, Drained, NEW k \in Callers, NEW ops, NEW next \in {"idle", "test", "clear"}, Release(k, ops, next), Ended,
         phase = "up" /\ ~slip => Settled',
         phase = "up" /\ ~slip /\ isolated' /\ Server \notin touched /\ Untested' => Reachable(fw, Server),
         phase = "up" /\ faults = 0 =>
           \A ip \in blocked' \ wiped' : \A d \in Dirs : Blocked(ip, d)
  PROVE  Recorded' /\ Flag' /\ Managed' /\ Blocks' /\ Joined' /\ Drained'
<1> USE EndedFacts
<1>1. Recorded'
  BY EndedStage, SameRecord
<1>2. Flag'
  <2>1. phase' = phase /\ slip' = slip /\ phase # "down"
    OBVIOUS
  <2>2. ~Doing({"isolate"})' /\ ~Doing({"unisolate", "undo"})'
    BY EndedFacts
  <2> QED BY ONLY <2>1, <2>2, phase = "up" /\ ~slip => Settled' DEF Flag
<1>3. Managed'
  BY DEF Managed
<1>4. Blocks'
  <2>1. \A ip, d : Blocked(ip, d)' <=> Blocked(ip, d)
    <3>1. fw' = fw /\ Nft' = Nft
      OBVIOUS
    <3> QED BY ONLY <3>1 DEF Blocked
  <2> QED BY <2>1 DEF Blocks
<1>5. Joined'
  BY DEF Joined
<1>6. Drained'
  BY DEF Drained
<1> QED BY <1>1, <1>2, <1>3, <1>4, <1>5, <1>6

\* A block that is on record holds, when no address is being unblocked.
LEMMA BlocksNow ==
  ASSUME Types, Blocks, phase = "up", faults = 0, ~Doing({"unblock"})
  PROVE  \A ip \in blocked \ wiped : \A d \in Dirs : Blocked(ip, d)
BY DEF Blocks

LEMMA OneDoing ==
  /\ Doing({"isolate"}) => ~Doing({"unblock"}) /\ ~Doing({"block"}) /\ Doing({"isolate", "block"})
  /\ Doing({"unisolate", "undo"}) => ~Doing({"unblock"})
  /\ Doing({"block"}) => ~Doing({"unblock"}) /\ Doing({"block", "unblock"}) /\ Doing({"isolate", "block"})
  /\ Doing({"unblock"}) => Doing({"block", "unblock"})
BY DEF Doing

\* An empty script has nothing left to do.
LEMMA EnsuredNow ==
  ASSUME NEW f, Ensuring(f, <<>>) PROVE \A c \in Chains : c \in Present(f) /\ Visited(f, c)
BY EmptyLeft DEF Ensuring

LEMMA AppliedNow ==
  ASSUME Types, Joined, Doing({"isolate"}), Applying, ~slip, script = <<>>
  PROVE  CutOff(fw) /\ (~Nft => Joint(fw))
<1>1. CASE Nft
  <2>1. NftApplying(fw, <<>>, IsolationRules(cmd.allowed))
    BY <1>1 DEF Applying
  <2> QED BY <1>1, <2>1, SmallTails DEF NftApplying
<1>2. CASE ~Nft
  <2>1. IptApplying(fw, <<>>) /\ Ensuring(fw, <<>>)
    BY <1>2, OneDoing, WorkingNow DEF Applying, Joined
  <2>2. \A d \in Dirs : Armed(fw, d)
    BY <2>1, EmptyLeft DEF IptApplying
  <2>3. \A c \in Chains : Visited(fw, c)
    BY <2>1, EnsuredNow
  <2> QED BY <2>2, <2>3, IsoChains DEF CutOff, Cut, Joint
<1> QED BY <1>1, <1>2

LEMMA ApplyKeeps ==
  ASSUME IInv, NEW k \in Callers, apply_isolation(k) PROVE IInv'
<1> DEFINE next == IF failed THEN "idle" ELSE "test"
<1>0. next \in {"idle", "test", "clear"} /\ (~failed => next = "test")
  OBVIOUS
<1>1. Release(k, {"isolate"}, next) /\ Ended /\ blocked' = blocked /\ wiped' = wiped
      /\ isolated' = (isolated \/ ~failed)
  BY DEF apply_isolation, Ended, seen
<1> HIDE DEF next
<1>2. Types /\ Recorded /\ Flag /\ Blocks /\ Joined /\ Drained
  BY DEF IInv
<1>3. Doing({"isolate"}) /\ script = <<>> /\ Nft' = Nft /\ fw' = fw
  BY <1>0, <1>1, <1>2, EndedFacts
<1>4. isolated \in BOOLEAN /\ blocked \subseteq Named /\ isolated' \in BOOLEAN
  BY <1>1, <1>2 DEF Types, TypeOK
<1>5. Types'
  <2>1. wiped' \subseteq wiped /\ blocked' \subseteq Named
    BY <1>1, <1>4
  <2> QED BY <1>0, <1>1, <1>2, <1>4, <2>1, EndedTypes
<1>6. ~slip => ~failed /\ isolated' /\ CutOff(fw) /\ (~Nft => Joint(fw))
  BY <1>1, <1>2, <1>3, AppliedNow DEF Flag
<1>10. ~slip => ~Untested'
  <2>1. stage'[k] = next
    BY <1>0, <1>1, <1>2, EndedStage
  <2> QED BY <1>0, <1>6, <2>1 DEF Untested
<1>7. ~slip => Settled'
  BY <1>3, <1>6 DEF Settled
<1>8. phase = "up" /\ faults = 0 => \A ip \in blocked' \ wiped' : \A d \in Dirs : Blocked(ip, d)
  BY <1>1, <1>2, <1>3, BlocksNow, OneDoing
<1>9. Recorded' /\ Flag' /\ Managed' /\ Blocks' /\ Joined' /\ Drained'
  BY <1>0, <1>1, <1>2, <1>7, <1>8, <1>10, EndedRest
<1> QED BY <1>5, <1>9 DEF IInv

LEMMA RemovedNow ==
  ASSUME Removing, script = <<>> PROVE Open(fw)
<1>1. CASE Nft
  <2>1. NftRemoving(fw, <<>>)
    BY <1>1 DEF Removing
  <2> QED BY <2>1, SmallTails DEF NftRemoving
<1>2. CASE ~Nft
  <2>1. IptRemoving(fw, <<>>)
    BY <1>2 DEF Removing
  <2> QED BY <2>1, EmptyLeft DEF IptRemoving, Open
<1> QED BY <1>1, <1>2

LEMMA RemoveKeeps ==
  ASSUME IInv, NEW k \in Callers, remove_isolation(k) PROVE IInv'
<1> DEFINE next == IF cmd.op = "unisolate" /\ ~failed THEN "clear" ELSE "idle"
<1>0. next \in {"idle", "test", "clear"}
  OBVIOUS
<1>1. Release(k, {"unisolate", "undo"}, next) /\ Ended /\ blocked' = blocked /\ wiped' = wiped
      /\ isolated' = (isolated /\ failed)
  BY DEF remove_isolation, Ended, seen
<1> HIDE DEF next
<1>2. Types /\ Recorded /\ Flag /\ Blocks /\ Joined /\ Drained
  BY DEF IInv
<1>3. Doing({"unisolate", "undo"}) /\ script = <<>> /\ Nft' = Nft /\ fw' = fw
  BY <1>0, <1>1, <1>2, EndedFacts
<1>4. isolated \in BOOLEAN /\ failed \in BOOLEAN /\ blocked \subseteq Named /\ isolated' \in BOOLEAN
  BY <1>1, <1>2 DEF Types, TypeOK
<1>5. Types'
  <2>1. wiped' \subseteq wiped /\ blocked' \subseteq Named
    BY <1>1, <1>4
  <2> QED BY <1>0, <1>1, <1>2, <1>4, <2>1, EndedTypes
<1>6. phase = "up" /\ ~slip => ~failed /\ ~isolated' /\ Open(fw)
  BY <1>1, <1>2, <1>3, RemovedNow DEF Flag
<1>7. phase = "up" /\ ~slip => Settled'
  BY <1>3, <1>6 DEF Settled
<1>8. phase = "up" /\ faults = 0 => \A ip \in blocked' \ wiped' : \A d \in Dirs : Blocked(ip, d)
  BY <1>1, <1>2, <1>3, BlocksNow, OneDoing
<1>9. Recorded' /\ Flag' /\ Managed' /\ Blocks' /\ Joined' /\ Drained'
  BY <1>0, <1>1, <1>2, <1>6, <1>7, <1>8, EndedRest
<1> QED BY <1>5, <1>9 DEF IInv

\* The block that was asked for is there.
LEMMA BlockedNow ==
  ASSUME Types, Blocks, Joined, Doing({"block"}), faults = 0, ~failed, script = <<>>, NEW d \in Dirs
  PROVE  Blocked(cmd.ip, d)
<1>1. CASE Nft
  <2>1. NftBlocking(fw, <<>>, cmd.ip, d)
    BY <1>1 DEF Blocks
  <2> QED BY <1>1, <2>1, EmptyLeft DEF NftBlocking, Blocked
<1>2. CASE ~Nft
  <2>1. IptBlocking(fw, <<>>, cmd.ip, d) /\ Ensuring(fw, <<>>)
    BY <1>2, OneDoing, WorkingNow DEF Blocks, Joined
  <2>2. Block(d) \in Present(fw) /\ Contains(fw.chains[Block(d)], Drop(cmd.ip))
    BY <2>1, EmptyLeft DEF IptBlocking
  <2>3. Visited(fw, Block(d))
    BY <2>1, EnsuredNow, IsoChains
  <2>4. fw.chains[Block(d)] \in Seq(Blocking)
    BY <2>2, RuleFacts DEF Types, Filter
  <2>5. Bars(fw.chains[Block(d)], cmd.ip)
    BY <2>2, <2>4, BarsBlocking
  <2> QED BY <1>2, <2>2, <2>3, <2>5 DEF Blocked, Shut
<1> QED BY <1>1, <1>2

LEMMA BlockKeeps ==
  ASSUME IInv, NEW k \in Callers, block_ip(k) PROVE IInv'
<1>1. Release(k, {"block"}, "idle") /\ Ended /\ isolated' = isolated
      /\ blocked' = (IF failed THEN blocked ELSE blocked \cup {cmd.ip})
      /\ wiped' = (IF failed THEN wiped ELSE wiped \ {cmd.ip})
  BY DEF block_ip, Ended, seen
<1>2. Types /\ Recorded /\ Flag /\ Managed /\ Blocks /\ Joined /\ Drained
  BY DEF IInv
<1>3. Doing({"block"}) /\ script = <<>> /\ Nft' = Nft /\ fw' = fw /\ cmd.ip \in Named
  BY <1>1, <1>2, EndedFacts, DoingFacts
<1>4. isolated \in BOOLEAN /\ blocked \subseteq Named
  BY <1>2 DEF Types, TypeOK
<1>5. Types'
  <2>1. wiped' \subseteq wiped /\ blocked' \subseteq Named /\ isolated' \in BOOLEAN
    BY <1>1, <1>3, <1>4
  <2> QED BY <1>1, <1>2, <2>1, EndedTypes
<1>6. phase = "up" /\ ~slip => Settled /\ Settled'
  BY <1>1, <1>2, <1>3, OneDoing DEF Flag, Settled
<1>7. phase = "up" /\ ~slip /\ isolated' /\ Server \notin touched /\ Untested' => Reachable(fw, Server)
  <2>1. Untested' => Untested
    BY <1>1, <1>2, EndedStage DEF Untested
  <2> QED BY <1>1, <1>2, <1>3, <2>1, OneDoing DEF Managed
<1>8. ASSUME phase = "up", faults = 0, NEW ip \in blocked' \ wiped', NEW d \in Dirs PROVE Blocked(ip, d)
  <2>1. CASE ip \in blocked \ wiped
    BY <1>2, <1>3, <1>8, <2>1, BlocksNow, OneDoing
  <2>2. CASE ~failed /\ ip = cmd.ip
    BY <1>2, <1>3, <1>8, <2>2, BlockedNow
  <2> QED BY <1>1, <1>8, <2>1, <2>2
<1>9. Recorded' /\ Flag' /\ Managed' /\ Blocks' /\ Joined' /\ Drained'
  BY <1>1, <1>2, <1>6, <1>7, <1>8, EndedRest
<1> QED BY <1>5, <1>9 DEF IInv

LEMMA UnblockKeeps ==
  ASSUME IInv, NEW k \in Callers, unblock_ip(k) PROVE IInv'
<1>1. Release(k, {"unblock"}, "idle") /\ Ended /\ isolated' = isolated
      /\ blocked' = (IF failed THEN blocked ELSE blocked \ {cmd.ip}) /\ wiped' = wiped
  BY DEF unblock_ip, Ended, seen
<1>2. Types /\ Recorded /\ Flag /\ Managed /\ Blocks /\ Joined /\ Drained
  BY DEF IInv
<1>3. Doing({"unblock"}) /\ script = <<>> /\ Nft' = Nft /\ fw' = fw /\ cmd.ip \in Named
  BY <1>1, <1>2, EndedFacts, DoingFacts
<1>4. isolated \in BOOLEAN /\ blocked \subseteq Named
  BY <1>2 DEF Types, TypeOK
<1>5. Types'
  <2>1. wiped' \subseteq wiped /\ blocked' \subseteq Named /\ isolated' \in BOOLEAN
    BY <1>1, <1>4
  <2> QED BY <1>1, <1>2, <2>1, EndedTypes
<1>6. phase = "up" /\ ~slip => Settled /\ Settled'
  BY <1>1, <1>2, <1>3, OneDoing DEF Flag, Settled
<1>7. phase = "up" /\ ~slip /\ isolated' /\ Server \notin touched /\ Untested' => Reachable(fw, Server)
  <2>1. Untested' => Untested
    BY <1>1, <1>2, EndedStage DEF Untested
  <2> QED BY <1>1, <1>2, <1>3, <2>1, OneDoing DEF Managed
<1>8. ASSUME phase = "up", faults = 0, NEW ip \in blocked' \ wiped', NEW d \in Dirs PROVE Blocked(ip, d)
  <2>1. ip \in blocked \ wiped
    BY <1>1, <1>8
  <2>2. ip # cmd.ip
    <3>1. CASE Nft
      <4>1. Mentions[cmd.ip] \subseteq wiped
        BY <1>2, <1>3, <3>1 DEF Types, Doing
      <4> QED BY <1>3, <2>1, <4>1, HostsAssumption
    <3>2. CASE ~Nft
      <4>1. ~failed
        BY <1>2, <1>3, <3>2 DEF Types
      <4> QED BY <1>1, <1>8, <4>1
    <3> QED BY <3>1, <3>2
  <2> QED BY <1>2, <1>8, <2>1, <2>2 DEF Blocks
<1>9. Recorded' /\ Flag' /\ Managed' /\ Blocks' /\ Joined' /\ Drained'
  BY <1>1, <1>2, <1>6, <1>7, <1>8, EndedRest
<1> QED BY <1>5, <1>9 DEF IInv

-----------------------------------------------------------------------------
(* Steps that leave the rules and the flag alone.                          *)

Quiet == UNCHANGED <<backend, fw, isolated, blocked, run, phase, slip, touched, wiped, late, bounds>>

LEMMA QuietFacts ==
  ASSUME Quiet
  PROVE  /\ backend' = backend /\ fw' = fw /\ isolated' = isolated /\ blocked' = blocked
         /\ cmd' = cmd /\ holder' = holder /\ script' = script /\ failed' = failed
         /\ phase' = phase /\ slip' = slip /\ touched' = touched /\ wiped' = wiped /\ late' = late
         /\ commands' = commands /\ faults' = faults /\ crashes' = crashes
         /\ Nft' = Nft /\ (\A ops : Doing(ops)' <=> Doing(ops)) /\ Items' = Items
<1>1. /\ backend' = backend /\ fw' = fw /\ isolated' = isolated /\ blocked' = blocked
      /\ cmd' = cmd /\ holder' = holder /\ script' = script /\ failed' = failed
      /\ phase' = phase /\ slip' = slip /\ touched' = touched /\ wiped' = wiped /\ late' = late
      /\ commands' = commands /\ faults' = faults /\ crashes' = crashes
  BY DEF Quiet, run, bounds
<1>2. Nft' = Nft
  BY <1>1 DEF Nft
<1>3. \A ops : Doing(ops)' <=> Doing(ops)
  BY <1>1 DEF Doing
<1>4. NftItems' = NftItems /\ IptItems' = IptItems
  BY <1>1 DEF NftItems, IptItems
<1>5. Items' = Items
  BY <1>1, <1>2, <1>4 DEF Items
<1> QED BY <1>1, <1>2, <1>3, <1>5

LEMMA QuietTypes ==
  ASSUME Types, Quiet, status' \in Active \cup {"none", "failed"}, params' \in BOOLEAN,
         Staged(stage', holder), ver' \in {"idle", "params", "status", "read", "probe", "gone", "open"}, overtaken' \in BOOLEAN,
         phase = "down" => AllIdle' /\ ver' = "idle" /\ status' = "none"
  PROVE  Types'
<1> USE QuietFacts
<1>1. TypeOK'
  <2>1. TypeOK
    BY DEF Types
  <2>2. {failed', slip', overtaken', late'} \subseteq BOOLEAN
    BY <2>1 DEF TypeOK
  <2> QED BY <2>1, <2>2 DEF TypeOK, Staged, Places
<1>2. script' \in Seq(Items')
  BY DEF Types
<1>3. holder' = "task" => InOrder(script')
  BY DEF Types
<1> QED BY <1>1, <1>2, <1>3 DEF Types

LEMMA QuietKeeps ==
  ASSUME Quiet, Flag, Blocks, Joined, Drained PROVE Flag' /\ Blocks' /\ Joined' /\ Drained'
<1>1. /\ backend' = backend /\ fw' = fw /\ isolated' = isolated /\ blocked' = blocked
      /\ cmd' = cmd /\ holder' = holder /\ script' = script /\ failed' = failed
      /\ phase' = phase /\ slip' = slip /\ touched' = touched /\ wiped' = wiped /\ late' = late
      /\ commands' = commands /\ faults' = faults /\ crashes' = crashes
      /\ Nft' = Nft /\ (\A ops : Doing(ops)' <=> Doing(ops))
  BY QuietFacts
<1>2. Flag'
  <2>1. (Applying' <=> Applying) /\ (Removing' <=> Removing) /\ (Settled' <=> Settled)
    BY <1>1 DEF Applying, Removing, Settled
  <2> QED BY <1>1, <2>1 DEF Flag
<1>3. Blocks'
  <2>1. \A ip, d : Blocked(ip, d)' <=> Blocked(ip, d)
    BY <1>1 DEF Blocked
  <2> QED BY <1>1, <2>1 DEF Blocks
<1>4. Joined'
  BY <1>1 DEF Joined, Working
<1>5. Drained'
  <2>1. Draining' <=> Draining
    BY <1>1 DEF Draining
  <2> QED BY <1>1, <2>1 DEF Drained
<1> QED BY <1>2, <1>3, <1>4, <1>5

\* One that is not the end of a test either.
LEMMA QuietManaged ==
  ASSUME Quiet, Managed, Untested' => Untested PROVE Managed'
BY QuietFacts DEF Managed

\* A caller goes on without the lock.
LEMMA QuietStage ==
  ASSUME Types, Quiet, NEW k \in Callers, NEW from \in Places \ {"idle", "locked"},
         NEW to \in Places \ {"locked"}, Go(k, from, to)
  PROVE  /\ Staged(stage', holder) /\ stage[k] = from /\ stage'[k] = to /\ phase # "down"
         /\ \A j \in Callers : j # k => stage'[j] = stage[j]
<1>1. Staged(stage, holder)
  BY StagedNow DEF Types
<1>2. stage[k] = from /\ stage'[k] = to /\ \A j \in Callers : j # k => stage'[j] = stage[j]
  BY <1>1, Moved
<1>3. phase # "down"
  BY <1>2 DEF Types, AllIdle
<1> QED BY <1>1, <1>2, <1>3, StaysStaged

LEMMA QuietCaller ==
  ASSUME IInv, Quiet, NEW k \in Callers, NEW from \in Places \ {"idle", "locked", "undo"},
         NEW to \in Places \ {"locked"}, Go(k, from, to), ver' = ver,
         status' \in Active \cup {"none", "failed"}, params' \in BOOLEAN, overtaken' \in BOOLEAN,
         Recorded', from = "test" => to = "undo" \/ Reachable(fw, Server)
  PROVE  IInv'
<1>1. Types /\ TypeOK /\ Flag /\ Managed /\ Blocks /\ Joined /\ Drained
  BY DEF IInv, Types
<1>2. /\ Staged(stage', holder) /\ stage[k] = from /\ stage'[k] = to /\ phase # "down"
      /\ \A j \in Callers : j # k => stage'[j] = stage[j]
  BY <1>1, QuietStage
<1>3. Types'
  <2>1. ver' \in {"idle", "params", "status", "read", "probe", "gone", "open"}
    BY <1>1 DEF TypeOK
  <2> QED BY <1>1, <1>2, <2>1, QuietTypes
<1>4. Managed'
  <2>1. CASE from = "test"
    BY <1>1, <1>2, <2>1, QuietFacts DEF Managed, Untested
  <2>2. CASE from # "test"
    <3>1. Untested' => Untested
      BY <1>2, <2>2 DEF Untested
    <3> QED BY <1>1, <3>1, QuietManaged
  <2> QED BY <2>1, <2>2
<1> QED BY <1>1, <1>3, <1>4, QuietKeeps DEF IInv

LEMMA TestedKeeps ==
  ASSUME IInv, NEW k \in Callers, NEW up \in BOOLEAN, Tested(k, up) PROVE IInv'
<1> DEFINE to == IF up /\ Reachable(fw, Server) THEN "record" ELSE "undo"
<1>1. /\ Quiet /\ Go(k, "test", to) /\ ver' = ver /\ status' = status /\ params' = params
      /\ overtaken' = overtaken
  BY DEF Tested, Quiet, memory, seen
<1>2. to \in {"record", "undo"} /\ (to = "undo" \/ Reachable(fw, Server))
  OBVIOUS
<1> HIDE DEF to
<1>3. Types /\ TypeOK /\ Recorded
  BY DEF IInv, Types
<1>4. stage[k] = "test" /\ stage'[k] = to /\ \A j \in Callers : j # k => stage'[j] = stage[j]
  BY <1>1, <1>2, <1>3, QuietStage DEF Places
<1>5. Recorded'
  BY <1>1, <1>2, <1>3, <1>4, SameRecord
<1>6. status' \in Active \cup {"none", "failed"} /\ params' \in BOOLEAN /\ overtaken' \in BOOLEAN
  BY <1>1, <1>3 DEF TypeOK
<1> QED BY <1>1, <1>2, <1>5, <1>6, QuietCaller DEF Places

LEMMA RecordKeeps ==
  ASSUME IInv, NEW k \in Callers, NEW net \in BOOLEAN, Record(k, net) PROVE IInv'
<1>1. /\ Quiet /\ Go(k, "record", "params") /\ ver' = ver /\ status' \in Active /\ params' = params
      /\ overtaken' = (overtaken \/ Forgetting)
  BY DEF Record, Quiet, Active
<1>2. Types /\ TypeOK /\ Recorded
  BY DEF IInv, Types
<1>3. stage[k] = "record" /\ stage'[k] = "params" /\ \A j \in Callers : j # k => stage'[j] = stage[j]
  BY <1>1, <1>2, QuietStage DEF Places
<1>4. status' \in Active \cup {"none", "failed"} /\ params' \in BOOLEAN /\ overtaken' \in BOOLEAN
  BY <1>1, <1>2 DEF TypeOK
<1>5. Recorded'
  <2>1. RecordLives'
    BY <1>3 DEF RecordLives
  <2>2. Forgetting' => Forgetting
    BY <1>3 DEF Forgetting
  <2>3. (overtaken => overtaken') /\ (Forgetting => overtaken')
    BY <1>1
  <2> QED BY <1>1, <1>2, <2>1, <2>2, <2>3 DEF Recorded
<1> QED BY <1>1, <1>4, <1>5, QuietCaller DEF Places

LEMMA ParamsKeeps ==
  ASSUME IInv, NEW k \in Callers, set_verify_params(k) PROVE IInv'
<1>1. /\ Quiet /\ Go(k, "params", "idle") /\ ver' = ver /\ status' = status /\ params' = TRUE
      /\ overtaken' = overtaken
  BY DEF set_verify_params, Quiet, seen
<1>2. Types /\ TypeOK /\ Recorded
  BY DEF IInv, Types
<1>3. stage[k] = "params" /\ stage'[k] = "idle" /\ \A j \in Callers : j # k => stage'[j] = stage[j]
  BY <1>1, <1>2, QuietStage DEF Places
<1>4. status' \in Active \cup {"none", "failed"} /\ params' \in BOOLEAN /\ overtaken' \in BOOLEAN
  BY <1>1, <1>2 DEF TypeOK
<1>5. Recorded'
  <2>1. Forgetting' => Forgetting
    BY <1>3 DEF Forgetting
  <2> QED BY <1>1, <1>2, <2>1 DEF Recorded, RecordLives
<1> QED BY <1>1, <1>4, <1>5, QuietCaller DEF Places

LEMMA ClearStatusKeeps ==
  ASSUME IInv, NEW k \in Callers, clear_current_status(k) PROVE IInv'
<1>1. /\ Quiet /\ Go(k, "clear", "forget") /\ ver' = ver /\ status' = "none" /\ params' = params
      /\ overtaken' = overtaken
  BY DEF clear_current_status, Quiet, seen
<1>2. Types /\ TypeOK /\ Recorded
  BY DEF IInv, Types
<1>3. status' \in Active \cup {"none", "failed"} /\ params' \in BOOLEAN /\ overtaken' \in BOOLEAN
  BY <1>1, <1>2 DEF TypeOK
<1>4. Recorded'
  BY <1>1, <1>2 DEF Recorded, RecordLives, Active
<1> QED BY <1>1, <1>3, <1>4, QuietCaller DEF Places

LEMMA ClearParamsKeeps ==
  ASSUME IInv, NEW k \in Callers, clear_verify_params(k) PROVE IInv'
<1>1. /\ Quiet /\ Go(k, "forget", "idle") /\ ver' = ver /\ status' = status /\ params' = FALSE
      /\ overtaken' = (overtaken \/ ver \notin {"idle", "params"})
  BY DEF clear_verify_params, Quiet
<1>2. Types /\ TypeOK /\ Recorded
  BY DEF IInv, Types
<1>3. stage[k] = "forget" /\ stage'[k] = "idle" /\ \A j \in Callers : j # k => stage'[j] = stage[j]
  BY <1>1, <1>2, QuietStage DEF Places
<1>4. status' \in Active \cup {"none", "failed"} /\ params' \in BOOLEAN /\ overtaken' \in BOOLEAN
  BY <1>1, <1>2 DEF TypeOK
<1>5. Recorded'
  <2>1. Forgetting
    BY <1>3 DEF Forgetting
  <2>2. status \in Active => overtaken
    BY <1>2, <2>1 DEF Recorded
  <2>3. (overtaken => overtaken') /\ (ver \notin {"idle", "params"} => overtaken')
    BY <1>1
  <2> QED BY <1>1, <2>2, <2>3 DEF Recorded, RecordLives
<1> QED BY <1>1, <1>4, <1>5, QuietCaller DEF Places

\* The verifier changes what is on record only when it ends.
LEMMA VerifyFacts ==
  ASSUME TypeOK, Verify
  PROVE  /\ Quiet /\ stage' = stage /\ params' = params /\ phase # "down" /\ overtaken' \in BOOLEAN
         /\ \/ /\ status' = status /\ overtaken' = overtaken /\ ver' \in {"idle", "params"}
            \/ /\ status' = status /\ overtaken' = overtaken
               /\ params \/ ver \notin {"idle", "params"}
               /\ ver' \in {"status", "read", "probe", "gone", "open"}
            \/ /\ ver \notin {"idle", "params"} /\ status' \in {"failed", "partial"}
               /\ ver' = "idle" /\ (overtaken => overtaken') /\ (Forgetting => overtaken')
<1>0. overtaken \in BOOLEAN
  BY DEF TypeOK
<1>1. CASE VerifyBegin
  BY <1>0, <1>1 DEF VerifyBegin, AtVerifier, Quiet, memory, seen
<1>2. CASE VerifyParams
  BY <1>0, <1>2 DEF VerifyParams, AtVerifier, Quiet, memory, seen
<1>3. CASE VerifyStatus
  BY <1>0, <1>3 DEF VerifyStatus, AtVerifier, Quiet, memory, seen
<1>4. CASE VerifyFlag
  BY <1>0, <1>4 DEF VerifyFlag, AtVerifier, Quiet, memory, seen
<1>5. ASSUME NEW net \in BOOLEAN, VerifyProbe(net)
      PROVE  /\ Quiet /\ stage' = stage /\ params' = params /\ phase # "down"
             /\ status' = status /\ overtaken' = overtaken /\ ver \notin {"idle", "params"}
             /\ ver' \in {"idle", "open"}
  BY <1>0, <1>5 DEF VerifyProbe, AtVerifier, Quiet, memory, seen
<1>6. CASE VerifyEnd
  BY <1>0, <1>6 DEF VerifyEnd, Quiet
<1> QED BY <1>0, <1>1, <1>2, <1>3, <1>4, <1>5, <1>6 DEF Verify

LEMMA VerifyKeeps ==
  ASSUME IInv, Verify PROVE IInv'
<1>1. Types /\ TypeOK /\ Recorded /\ Flag /\ Managed /\ Blocks /\ Joined /\ Drained
  BY DEF IInv, Types
<1>2. /\ Quiet /\ stage' = stage /\ params' = params /\ phase # "down" /\ overtaken' \in BOOLEAN
      /\ \/ /\ status' = status /\ overtaken' = overtaken /\ ver' \in {"idle", "params"}
         \/ /\ status' = status /\ overtaken' = overtaken
            /\ params \/ ver \notin {"idle", "params"}
            /\ ver' \in {"status", "read", "probe", "gone", "open"}
         \/ /\ ver \notin {"idle", "params"} /\ status' \in {"failed", "partial"}
            /\ ver' = "idle" /\ (overtaken => overtaken') /\ (Forgetting => overtaken')
  BY <1>1, VerifyFacts
<1>3. Types'
  <2>1. /\ status' \in Active \cup {"none", "failed"} /\ params' \in BOOLEAN
        /\ ver' \in {"idle", "params", "status", "read", "probe", "gone", "open"}
    BY <1>1, <1>2 DEF TypeOK, Active
  <2>2. Staged(stage', holder)
    BY <1>1, <1>2, StagedNow
  <2> QED BY <1>1, <1>2, <2>1, <2>2, QuietTypes
<1>4. Recorded'
  <2>1. status' = status /\ overtaken' = overtaken => RecordLives'
    BY <1>1, <1>2 DEF Recorded, RecordLives
  <2>2. (overtaken => overtaken') /\ (Forgetting' => Forgetting)
    BY <1>2 DEF Forgetting
  <2>3. ver \notin {"idle", "params"} => params' \/ overtaken'
    BY <1>1, <1>2, <2>2 DEF Recorded
  <2>4. RecordLives'
    BY <1>2, <2>1, <2>3 DEF RecordLives
  <2>5. ver' \notin {"idle", "params"} => params' \/ overtaken'
    BY <1>2, <2>3
  <2>6. Forgetting' /\ status' \in Active => overtaken'
    BY <1>1, <1>2, <2>2 DEF Recorded
  <2> QED BY <2>4, <2>5, <2>6 DEF Recorded
<1>5. Managed'
  BY <1>1, <1>2, QuietManaged DEF Untested
<1> QED BY <1>1, <1>2, <1>3, <1>4, <1>5, QuietKeeps DEF IInv

LEMMA StutterKeeps ==
  ASSUME IInv, UNCHANGED vars PROVE IInv'
<1>1. Quiet /\ stage' = stage /\ status' = status /\ params' = params /\ ver' = ver /\ overtaken' = overtaken
  BY DEF vars, Quiet, memory, seen
<1>2. Types /\ TypeOK /\ Recorded /\ Flag /\ Managed /\ Blocks /\ Joined /\ Drained
  BY DEF IInv, Types
<1>3. Types'
  <2>1. /\ status' \in Active \cup {"none", "failed"} /\ params' \in BOOLEAN /\ overtaken' \in BOOLEAN
        /\ ver' \in {"idle", "params", "status", "read", "probe", "gone", "open"}
    BY <1>1, <1>2 DEF TypeOK
  <2>2. Staged(stage', holder)
    BY <1>1, <1>2, StagedNow
  <2>3. phase = "down" => AllIdle' /\ ver' = "idle" /\ status' = "none"
    BY <1>1, <1>2 DEF Types, AllIdle
  <2> QED BY <1>1, <1>2, <2>1, <2>2, <2>3, QuietTypes
<1>4. Recorded'
  BY <1>1, <1>2, SameRecord
<1>5. Managed'
  BY <1>1, <1>2, QuietManaged DEF Untested
<1> QED BY <1>1, <1>2, <1>3, <1>4, <1>5, QuietKeeps DEF IInv

-----------------------------------------------------------------------------
(* The roll-back, the end of the process and its start.                    *)

LEMMA UndoKeeps ==
  ASSUME IInv, NEW k \in Callers, Undo(k) PROVE IInv'
<1> DEFINE c == [op |-> "undo"]
<1>1. c.op = "undo"
  OBVIOUS
<1> HIDE DEF c
<1>2. /\ Go(k, "undo", "locked") /\ cmd' = c /\ holder = "free" /\ holder' = "task"
      /\ script' = Script(c) /\ failed' = FALSE /\ wiped' = (IF Nft THEN Named ELSE wiped)
      /\ backend' = backend /\ fw' = fw /\ isolated' = isolated /\ blocked' = blocked
      /\ status' = status /\ params' = params /\ ver' = ver /\ phase' = phase /\ slip' = slip
      /\ touched' = touched /\ overtaken' = overtaken /\ late' = late
      /\ commands' = commands /\ faults' = faults /\ crashes' = crashes
  BY DEF Undo, Lock, c, memory, bounds
<1>3. Types /\ TypeOK /\ Recorded /\ Flag /\ Managed /\ Blocks /\ Joined /\ Drained
  BY DEF IInv, Types
<1>13. /\ Staged(stage', "task") /\ stage[k] = "undo" /\ stage'[k] = "locked"
       /\ \A j \in Callers : j # k => stage'[j] = stage[j]
  BY <1>2, <1>3, StagedNow, GetsStaged, Moved DEF Places
<1>4. /\ Nft' = Nft /\ script = <<>> /\ cmd.op = "none" /\ phase # "stopping" /\ phase # "down"
      /\ \A ops : ~Doing(ops)
  BY <1>2, <1>3, <1>13, FreeFacts DEF Nft, Types, AllIdle
<1>5. Doing({"unisolate", "undo"})' /\ Doing({"isolate", "unisolate", "undo"})' /\ ~Doing({"isolate"})'
      /\ ~Doing({"block", "unblock"})' /\ ~Doing({"block"})' /\ ~Doing({"unblock"})' /\ ~Doing({"isolate", "block"})'
  BY <1>1, <1>2 DEF Doing
<1>6. Types'
  <2>1. Script(c) \in Seq(Items') /\ InOrder(Script(c))
    BY <1>1, <1>2, CommandScript
  <2>2. TypeOK'
    <3>1. wiped' \subseteq Named
      BY <1>2, <1>3 DEF TypeOK
    <3>2. cmd' \in Commands \cup [op : {"none", "undo"}]
      BY <1>2 DEF c
    <3>3. {failed', slip', overtaken', late'} \subseteq BOOLEAN
      BY <1>2, <1>3 DEF TypeOK
    <3> QED BY <1>2, <1>3, <1>13, <3>1, <3>2, <3>3 DEF TypeOK, Staged, Places
  <2>3. Filter(fw') /\ (Nft' => OneTable(fw'))
    BY <1>2, <1>3, <1>4 DEF Types
  <2>4. (Nft' => wiped' = Named) /\ (~Nft' => wiped' = {})
    BY <1>2, <1>3, <1>4 DEF Types
  <2> QED BY <1>1, <1>2, <1>4, <1>5, <2>1, <2>2, <2>3, <2>4 DEF Types
<1>7. Recorded'
  BY <1>2, <1>3, <1>13, SameRecord
<1>8. Flag'
  <2>1. ASSUME phase = "up", ~slip PROVE Removing'
    <3>1. Settled
      BY <1>2, <1>3, <2>1 DEF Flag
    <3> QED BY <1>1, <1>2, <1>4, <3>1, BeginsRemoving DEF Removing
  <2> QED BY <1>2, <1>4, <1>5, <2>1 DEF Flag
<1>9. Managed'
  BY <1>2, <1>5 DEF Managed
<1>10. Blocks'
  <2>1. \A ip, d : Blocked(ip, d)' <=> Blocked(ip, d)
    BY <1>2, <1>4 DEF Blocked
  <2>2. wiped \subseteq wiped'
    BY <1>2, <1>3 DEF TypeOK
  <2> QED BY <1>2, <1>3, <1>4, <1>5, <2>1, <2>2 DEF Blocks
<1>11. Joined'
  <2>1. ASSUME ~Nft, faults = 0, crashes = 0 PROVE BlockFirst(fw, Script(c))
    <3>1. BlockFirst(fw, <<>>)
      BY <1>2, <1>3, <1>4, <2>1 DEF Joined
    <3>2. Without(Script(c), "jump")
      BY <1>1, <2>1, ScriptRemove
    <3> QED BY <3>1, <3>2, NoJumpFirst
  <2> QED BY <1>2, <1>4, <1>5, <2>1 DEF Joined
<1>12. Drained'
  BY <1>1, <1>2, <1>3, <1>4 DEF Drained
<1> QED BY <1>6, <1>7, <1>8, <1>9, <1>10, <1>11, <1>12 DEF IInv

\* cleanup begins with a script that removes everything.
LEMMA ShutdownKeeps ==
  ASSUME IInv, Shutdown PROVE IInv'
<1>1. /\ phase = "up" /\ phase' = "stopping" /\ holder = "free" /\ holder' = "shutdown"
      /\ script' = CleanupScript /\ failed' = FALSE /\ slip' = FALSE
      /\ backend' = backend /\ fw' = fw /\ isolated' = isolated /\ blocked' = blocked
      /\ status' = status /\ params' = params /\ cmd' = cmd /\ stage' = stage /\ ver' = ver
      /\ touched' = touched /\ wiped' = wiped /\ overtaken' = overtaken /\ late' = late
      /\ commands' = commands /\ faults' = faults /\ crashes' = crashes
  BY DEF Shutdown, Lock, memory, bounds
<1>2. Types /\ TypeOK /\ Recorded
  BY DEF IInv, Types
<1>3. /\ Nft' = Nft /\ script = <<>> /\ cmd.op = "none"
      /\ \A ops : ~Doing(ops)'
  BY <1>1, <1>2, FreeFacts DEF Nft, Doing
<1>4. Items' = IF Nft THEN {Try(Delete)} ELSE DrainItems
  <2>1. NftItems' = {Try(Delete)} /\ IptItems' = DrainItems
    <3>1. cmd'.op = "none"
      BY <1>1, <1>3
    <3> QED BY <1>1, <3>1 DEF NftItems, IptItems
  <2> QED BY <1>1, <1>3, <2>1 DEF Items
<1>5. CleanupScript \in Seq(Items') /\ Draining'
  <2>1. CASE Nft
    <3>1. CleanupScript = <<Try(Delete)>>
      BY <2>1 DEF CleanupScript, Delete
    <3>2. <<Try(Delete)>> \in Seq({Try(Delete)})
      OBVIOUS
    <3>3. Left(<<Try(Delete)>>, Delete)
      <4> DEFINE x == Try(Delete)
      <4>1. x.step = Delete
        BY ItemFacts
      <4> HIDE DEF x
      <4>2. 1 \in DOMAIN <<x>> /\ <<x>>[1].step = Delete
        BY <4>1
      <4>3. Left(<<x>>, Delete)
        BY <4>2 DEF Left
      <4> QED BY <4>3 DEF x
    <3> QED BY <1>1, <1>3, <1>4, <2>1, <3>1, <3>2, <3>3 DEF Draining
  <2>2. CASE ~Nft
    <3>1. CleanupScript \in Seq(DrainItems) /\ IptDraining(fw, CleanupScript)
      BY <2>2, CleanupFacts
    <3> QED BY <1>1, <1>3, <1>4, <2>2, <3>1 DEF Draining
  <2> QED BY <2>1, <2>2
<1>6. Types'
  <2>1. TypeOK'
    <3>1. {failed', slip', overtaken', late'} \subseteq BOOLEAN
      BY <1>1, <1>2 DEF TypeOK
    <3> QED BY <1>1, <1>2, <1>3, <3>1 DEF TypeOK
  <2>2. Filter(fw') /\ (Nft' => OneTable(fw')) /\ (~Nft' => wiped' = {})
    BY <1>1, <1>2, <1>3 DEF Types
  <2> QED BY <1>1, <1>3, <1>5, <2>1, <2>2 DEF Types
<1>7. Recorded'
  BY <1>1, <1>2, SameRecord
<1>8. Flag' /\ Managed' /\ Blocks' /\ Joined'
  BY <1>1, <1>3 DEF Flag, Managed, Blocks, Joined
<1>9. Drained'
  BY <1>1, <1>5 DEF Drained
<1> QED BY <1>6, <1>7, <1>8, <1>9 DEF IInv

\* When nothing of it is left, everything is removed.
LEMMA NothingLeft ==
  ASSUME Types, Draining, script = <<>> PROVE fw = NoRules
<1>1. CASE Nft
  BY <1>1, EmptyLeft DEF Draining
<1>2. CASE ~Nft
  <2>1. Filter(fw) /\ IptDraining(fw, <<>>)
    BY <1>2 DEF Draining, Types
  <2>2. \A c \in Chains : c \notin Present(fw)
    BY <2>1, EmptyLeft DEF IptDraining
  <2>3. Present(fw) = {}
    BY <2>1, <2>2 DEF Filter
  <2> QED BY <2>1, <2>3, EmptyFilter
<1> QED BY <1>1, <1>2

LEMMA NoRulesFirst == BlockFirst(NoRules, <<>>)
<1>1. \A d \in Dirs : NoRules.hooks[d] = <<>> /\ Before(<<>>, Jump(Iso(d)), Jump(Block(d)))
  BY NoRulesFacts, EmptyLeft
<1> QED BY <1>1 DEF BlockFirst

LEMMA CleanedKeeps ==
  ASSUME IInv, CleanedUp PROVE IInv'
<1>1. /\ holder = "shutdown" /\ script = <<>> /\ holder' = "free" /\ phase' = "cleaned"
      /\ backend' = backend /\ fw' = fw /\ isolated' = isolated /\ blocked' = blocked
      /\ status' = status /\ params' = params /\ cmd' = cmd /\ stage' = stage /\ ver' = ver
      /\ script' = script /\ failed' = failed
      /\ slip' = slip /\ touched' = touched /\ wiped' = wiped /\ overtaken' = overtaken /\ late' = late
      /\ commands' = commands /\ faults' = faults /\ crashes' = crashes
  BY DEF CleanedUp, memory, seen, bounds
<1>2. Types /\ TypeOK /\ Recorded /\ Drained
  BY DEF IInv, Types
<1>3. Nft' = Nft /\ cmd.op = "none" /\ \A ops : ~Doing(ops)'
  BY <1>1, <1>2 DEF Nft, Doing, Types, TypeOK
<1>4. ~slip => fw = NoRules
  BY <1>1, <1>2, NothingLeft DEF Drained
<1>5. faults = 0 => ~slip
  BY <1>1, <1>2 DEF Drained
<1>6. Types'
  <2>1. TypeOK'
    <3>1. {failed', slip', overtaken', late'} \subseteq BOOLEAN
      BY <1>1, <1>2 DEF TypeOK
    <3> QED BY <1>1, <1>2, <1>3, <3>1 DEF TypeOK
  <2>2. ~Nft => wiped' = {}
    BY <1>1, <1>2 DEF Types
  <2> QED BY <1>1, <1>2, <1>3, <2>1, <2>2, FreeTypes
<1>7. Recorded'
  BY <1>1, <1>2, SameRecord
<1>8. Flag' /\ Managed' /\ Blocks'
  BY <1>1, <1>3 DEF Flag, Managed, Blocks
<1>9. Joined'
  BY <1>1, <1>3, <1>4, <1>5, NoRulesFirst DEF Joined
<1>10. Drained'
  BY <1>1, <1>4 DEF Drained
<1> QED BY <1>6, <1>7, <1>8, <1>9, <1>10 DEF IInv

LEMMA EndKeeps ==
  ASSUME IInv, Exit \/ Crash PROVE IInv'
<1>1. /\ phase' = "down" /\ isolated' = FALSE /\ blocked' = {} /\ status' = "none" /\ params' = FALSE
      /\ cmd' = Nothing /\ stage' = [j \in Callers |-> "idle"] /\ holder' = "free" /\ script' = <<>>
      /\ failed' = FALSE /\ ver' = "idle" /\ slip' = (slip \/ fw # NoRules) /\ wiped' = {} /\ overtaken' = FALSE
      /\ backend' = backend /\ fw' = fw /\ touched' = touched /\ commands' = commands /\ faults' = faults
      /\ late' = late
  BY DEF Exit, Crash, End
<1>2. Types /\ TypeOK /\ Joined
  BY DEF IInv, Types
<1>3. Nft' = Nft /\ cmd'.op = "none" /\ \A ops : ~Doing(ops)'
  BY <1>1 DEF Nft, Nothing, Doing
<1>4. \/ Exit /\ crashes' = crashes /\ phase = "cleaned" /\ AllIdle
      \/ Crash /\ crashes < MaxCrashes /\ crashes' = crashes + 1
  BY DEF Exit, Crash
<1>5. crashes \in Nat /\ crashes' \in 0..MaxCrashes /\ (Crash => crashes' # 0 \/ Exit)
  BY <1>2, <1>4, HostsAssumption DEF TypeOK
<1>6. Types'
  <2>1. cmd' \in Commands \cup [op : {"none", "undo"}]
    <3>1. cmd' = [op |-> "none"]
      BY <1>1 DEF Nothing
    <3> QED BY <3>1
  <2>2. {failed', slip', overtaken', late'} \subseteq BOOLEAN
    BY <1>1, <1>2 DEF TypeOK
  <2>3. AllIdle' /\ Staged(stage', "free")
    BY <1>1 DEF AllIdle, Staged, Places
  <2>4. TypeOK'
    BY <1>1, <1>2, <1>5, <2>1, <2>2, <2>3 DEF TypeOK, Staged, Places
  <2> QED BY <1>1, <1>2, <1>3, <2>3, <2>4, FreeTypes
<1>7. Recorded'
  BY <1>1 DEF Recorded, RecordLives, Forgetting, Active
<1>8. Flag' /\ Managed' /\ Blocks'
  BY <1>1, <1>3 DEF Flag, Managed, Blocks
<1>9. Joined'
  <2>1. ASSUME Exit, ~Nft, faults = 0, crashes = 0 PROVE BlockFirst(fw, <<>>)
    <3>1. phase = "cleaned" /\ AllIdle
      BY <2>1 DEF Exit
    <3>2. holder = "free"
      BY <1>2, <3>1 DEF Types, TypeOK, AllIdle
    <3> QED BY <1>2, <2>1, <3>2, FreeFacts DEF Joined
  <2>2. ASSUME ~Nft, faults' = 0, crashes' = 0 PROVE BlockFirst(fw', script')
    BY <1>1, <1>4, <1>5, <2>1, <2>2
  <2> QED BY <1>3, <2>2 DEF Joined
<1>10. Drained'
  BY <1>1 DEF Drained
<1> QED BY <1>6, <1>7, <1>8, <1>9, <1>10 DEF IInv

LEMMA StartKeeps ==
  ASSUME IInv, Start PROVE IInv'
<1>1. /\ phase = "down" /\ phase' = "up" /\ late' = FALSE
      /\ backend' = backend /\ fw' = fw /\ isolated' = isolated /\ blocked' = blocked
      /\ status' = status /\ params' = params /\ cmd' = cmd /\ stage' = stage
      /\ holder' = holder /\ script' = script /\ failed' = failed /\ ver' = ver
      /\ slip' = slip /\ touched' = touched /\ wiped' = wiped /\ overtaken' = overtaken
      /\ commands' = commands /\ faults' = faults /\ crashes' = crashes
  BY DEF Start, memory, run, bounds
<1>2. Types /\ TypeOK /\ Recorded /\ Flag /\ Joined
  BY DEF IInv, Types
<1>3. ~isolated /\ blocked = {} /\ holder = "free"
  BY <1>1, <1>2 DEF Types, TypeOK, AllIdle
<1>4. Nft' = Nft /\ script = <<>> /\ cmd.op = "none" /\ \A ops : ~Doing(ops) /\ ~Doing(ops)'
  BY <1>1, <1>2, <1>3, FreeFacts DEF Nft, Doing
<1>5. Types'
  <2>1. {failed', slip', overtaken', late'} \subseteq BOOLEAN
    BY <1>1, <1>2 DEF TypeOK
  <2>2. TypeOK'
    BY <1>1, <1>2, <2>1 DEF TypeOK
  <2>3. ~Nft => wiped' = {}
    BY <1>1, <1>2 DEF Types
  <2> QED BY <1>1, <1>2, <1>3, <1>4, <2>2, <2>3, FreeTypes
<1>6. Recorded'
  BY <1>1, <1>2, SameRecord
<1>7. Flag'
  <2>1. ~slip => Open(fw)
    BY <1>1, <1>2, NoRulesOpen DEF Flag
  <2>2. ~slip => Settled'
    BY <1>1, <1>3, <2>1 DEF Settled
  <2> QED BY <1>1, <1>4, <2>2 DEF Flag
<1>8. Managed' /\ Blocks'
  BY <1>1, <1>3, <1>4 DEF Managed, Blocks
<1>9. Joined'
  BY <1>1, <1>2, <1>3, <1>4 DEF Joined
<1>10. Drained'
  BY <1>1, <1>3 DEF Drained
<1> QED BY <1>5, <1>6, <1>7, <1>8, <1>9, <1>10 DEF IInv

LEMMA TamperKeeps ==
  ASSUME IInv, Tamper PROVE IInv'
<1>1. Kept /\ fw' = NoRules /\ script' = script /\ failed' = failed /\ slip' = TRUE /\ faults < MaxFaults
      /\ faults' = faults + 1 /\ status' = status /\ params' = params /\ ver' = ver /\ overtaken' = overtaken
  BY DEF Tamper, Kept, memory, run
<1>2. Types /\ TypeOK /\ Recorded
  BY DEF IInv, Types
<1>3. Types'
  <2>1. faults' \in 0..MaxFaults /\ failed' \in BOOLEAN
    BY <1>1, <1>2, HostsAssumption DEF TypeOK
  <2>2. script' \in Seq(Items) /\ (holder = "task" => InOrder(script'))
        /\ (~Nft /\ Doing({"unblock"}) => ~failed')
    BY <1>1, <1>2 DEF Types
  <2> QED BY <1>1, <1>2, <2>1, <2>2, NoRulesFacts, KeptTypes
<1>4. Recorded'
  BY <1>1, <1>2, KeptFacts, SameRecord
<1> QED BY <1>1, <1>2, <1>3, <1>4, FaultyRest DEF IInv

-----------------------------------------------------------------------------
(* The theorems.                                                           *)

LEMMA InitKeeps == Init => IInv
<1> SUFFICES ASSUME Init PROVE IInv
  OBVIOUS
<1>1. /\ backend \in {"nftables", "iptables"} /\ fw = NoRules
      /\ isolated = FALSE /\ blocked = {} /\ status = "none" /\ params = FALSE
      /\ cmd.op = "none" /\ stage = [j \in Callers |-> "idle"] /\ holder = "free" /\ script = <<>> /\ failed = FALSE
      /\ ver = "idle" /\ phase = "up"
      /\ slip = FALSE /\ touched = {} /\ wiped = {} /\ overtaken = FALSE /\ late = FALSE
      /\ commands = 0 /\ faults = 0 /\ crashes = 0
  BY DEF Init, Nothing
<1>2. \A ops : ~Doing(ops)
  BY <1>1 DEF Doing
<1>3. TypeOK
  <2>1. cmd \in [op : {"none", "undo"}]
    BY DEF Init, Nothing
  <2>2. DOMAIN fw.chains \subseteq Kinds \X Dirs
        /\ \A d \in Dirs : \A k \in Range(fw.hooks[d]) : <<k, d>> \in DOMAIN fw.chains
    BY <1>1, NoRulesFacts DEF Filter, Present, Chains
  <2>3. {failed, slip, overtaken, late} \subseteq BOOLEAN /\ {isolated, params} \subseteq BOOLEAN
    BY <1>1
  <2>4. commands \in 0..MaxCommands /\ faults \in 0..MaxFaults /\ crashes \in 0..MaxCrashes
    BY <1>1, HostsAssumption
  <2>5. cmd \in Commands \cup [op : {"none", "undo"}]
    BY <2>1
  <2>6. Staged(stage, holder)
    BY <1>1 DEF Staged, Places
  <2> QED BY <1>1, <2>2, <2>3, <2>4, <2>5, <2>6 DEF TypeOK, Staged, Places
<1>4. Types
  <2>1. script \in Seq(Items)
    BY <1>1
  <2> QED BY <1>1, <1>2, <1>3, <2>1, NoRulesFacts DEF Types
<1>5. Flag
  BY <1>1, <1>2, NoRulesOpen DEF Flag, Settled
<1>6. Joined
  BY <1>1, <1>2, NoRulesFirst DEF Joined
<1>7. Recorded /\ Managed /\ Blocks /\ Drained
  BY <1>1, <1>2 DEF Recorded, RecordLives, Forgetting, Active, Managed, Blocks, Drained
<1> QED BY <1>4, <1>5, <1>6, <1>7 DEF IInv

LEMMA NextKeeps == IInv /\ [Next]_vars => IInv'
<1> SUFFICES ASSUME IInv, [Next]_vars PROVE IInv'
  OBVIOUS
<1>1. ASSUME NEW k \in Callers, NEW c \in Commands, Receive(k, c) PROVE IInv'
  BY <1>1, ReceiveKeeps
<1>2. ASSUME NEW k \in Callers, CallerStep(k) PROVE IInv'
  BY <1>2, ApplyKeeps, RemoveKeeps, BlockKeeps, UnblockKeeps, TestedKeeps, UndoKeeps, RecordKeeps,
     ParamsKeeps, ClearStatusKeeps, ClearParamsKeeps DEF CallerStep
<1>3. CASE Execute
  BY <1>3, ExecuteKeeps
<1>4. CASE Verify
  BY <1>4, VerifyKeeps
<1>5. CASE Shutdown
  BY <1>5, ShutdownKeeps
<1>6. CASE CleanedUp
  BY <1>6, CleanedKeeps
<1>7. CASE Exit \/ Crash
  BY <1>7, EndKeeps
<1>8. CASE Start
  BY <1>8, StartKeeps
<1>9. CASE Tamper
  BY <1>9, TamperKeeps
<1>10. CASE UNCHANGED vars
  BY <1>10, StutterKeeps
<1> QED BY <1>1, <1>2, <1>3, <1>4, <1>5, <1>6, <1>7, <1>8, <1>9, <1>10 DEF Next

\* Every reachable state is one in which the rest of the running script of
\* linux_isolation.rs completes what has been done of it.
THEOREM Invariance == Spec => []IInv
<1>1. Init => IInv
  BY InitKeeps
<1>2. IInv /\ [Next]_vars => IInv'
  BY NextKeeps
<1> QED BY <1>1, <1>2, PTL DEF Spec

\* The types of the state; a script is executed by whoever holds the lock of
\* the isolation state.
THEOREM TypeCorrect == Spec => []TypeOK
<1>1. IInv => TypeOK
  BY DEF IInv, Types
<1> QED BY <1>1, Invariance, PTL

\* While nobody changes the rules, the isolated flag of linux_isolation.rs says
\* whether the host is cut off, in both directions, for both back ends; an
\* isolate command makes it true again after a failure or a restart.
THEOREM FlagIsTrue == Spec => []FlagTrue
<1>1. IInv => FlagTrue
  <2> SUFFICES ASSUME IInv, phase = "up", holder = "free", ~slip, NEW d \in Dirs
               PROVE  Dropped(fw, d, World) <=> isolated
    BY DEF FlagTrue
  <2>1. Filter(fw) /\ Settled
    BY DEF IInv, Types, Flag
  <2>2. Dropped(fw, d, World) <=> Cut(fw, d)
    BY <2>1, WorldDropped
  <2> QED BY <2>1, <2>2 DEF Settled, CutOff, Open, Cut
<1> QED BY <1>1, Invariance, PTL

\* An address of blocked_ips that no other command took the rules of is dropped
\* in both directions while every firewall command worked; with iptables, after
\* a crash, unless the isolation chain has come to be before the block chain.
THEOREM BlocksAreHeld == Spec => []BlocksHold
<1>1. IInv => BlocksHold
  <2> SUFFICES ASSUME IInv, holder = "free", faults = 0, phase = "up",
                      NEW ip \in blocked \ wiped, NEW d \in Dirs
               PROVE  Dropped(fw, d, ip) \/ (crashes > 0 /\ fw.hooks[d] = <<"isolation", "block">>)
    BY DEF BlocksHold
  <2>1. Types /\ TypeOK /\ Filter(fw) /\ (Nft => OneTable(fw)) /\ Blocks /\ Joined /\ ip \in Named
    BY DEF IInv, Types, TypeOK
  <2>2. Blocked(ip, d)
    BY <2>1, FreeFacts DEF Blocks
  <2>3. CASE Nft
    <3>1. PICK k \in Kinds : Shut(fw, <<k, d>>, ip)
      BY <2>2, <2>3 DEF Blocked
    <3>2. fw # NoRules
      BY <3>1, NoRulesFacts DEF Shut
    <3>3. fw.hooks[d] = <<TableKind(fw)>> /\ k = TableKind(fw)
      <4>1. Visited(fw, <<k, d>>)
        BY <3>1 DEF Shut
      <4>2. OneTable(fw)
        BY <2>1, <2>3
      <4>3. fw.hooks = [e \in Dirs |-> <<TableKind(fw)>>] /\ (Visited(fw, <<k, d>>) => k = TableKind(fw))
        BY <3>2, <4>2, TableFacts
      <4> QED BY <4>1, <4>3
    <3>4. fw.hooks[d][1] = k
      BY <3>3
    <3> QED BY <2>1, <3>1, <3>4, ShutDropped
  <2>4. CASE ~Nft
    <3>1. Shut(fw, <<"block", d>>, ip) /\ "block" \in Kinds
      BY <2>2, <2>4 DEF Blocked, Block, Kinds
    <3>2. "block" \in Range(fw.hooks[d]) /\ fw.hooks[d] \in Orders
      BY <2>1, <3>1 DEF Shut, Visited, Filter
    <3>3. fw.hooks[d] \in { <<"block">>, <<"block", "isolation">>, <<"isolation", "block">> }
      BY <3>2, OrderFacts DEF Orders
    <3>4. CASE fw.hooks[d] \in { <<"block">>, <<"block", "isolation">> }
      <4>1. fw.hooks[d][1] = "block"
        BY <3>4
      <4> QED BY <2>1, <3>1, <4>1, ShutDropped
    <3>5. CASE fw.hooks[d] = <<"isolation", "block">>
      <4>1. crashes # 0
        <5>1. ASSUME crashes = 0 PROVE FALSE
          <6>1. fw.hooks[d] \in { <<>>, <<"isolation">>, <<"block", "isolation">> }
            BY <2>1, <2>4, <5>1 DEF Joined, BlockFirst
          <6> QED BY <3>5, <6>1
        <5> QED BY <5>1
      <4>2. crashes > 0
        BY <2>1, <4>1, HostsAssumption DEF TypeOK
      <4> QED BY <3>5, <4>2
    <3> QED BY <3>3, <3>4, <3>5
  <2> QED BY <2>3, <2>4
<1> QED BY <1>1, Invariance, PTL

\* Between commands an isolated host reaches its server, which isolate_network
\* tests before it keeps the rules, unless a later command changed the rules of
\* the server's address.
THEOREM StaysManageable == Spec => []Manageable
<1>1. IInv => Manageable
  <2>1. IInv /\ AllIdle => Untested /\ holder # "task"
    BY DEF IInv, Types, TypeOK, AllIdle, Untested
  <2> QED BY <2>1 DEF IInv, Managed, Manageable
<1> QED BY <1>1, Invariance, PTL

\* An isolation on record without parameters comes, whatever callers run
\* commands at once, only from a verify_isolation that was running, or from an
\* isolate_network that wrote its record, while unisolate_network cleared both.
THEOREM RecordIsLive == Spec => []RecordLives
<1>1. IInv => RecordLives
  BY DEF IInv, Recorded
<1> QED BY <1>1, Invariance, PTL

\* A clean exit leaves no rule behind when every command of cleanup worked,
\* unless a caller began a command after it.
THEOREM CleanExits == Spec => CleanExit
<1>1. IInv /\ [Next]_vars => [Exit => fw = NoRules \/ slip \/ late]_vars
  <2> SUFFICES ASSUME IInv, Exit PROVE fw = NoRules \/ slip \/ late
    OBVIOUS
  <2>1. phase = "cleaned"
    BY DEF Exit
  <2> QED BY <2>1 DEF IInv, Drained
<1> QED BY <1>1, Invariance, PTL DEF Spec, CleanExit
=============================================================================
