-------------------------- MODULE NetworkIsolation --------------------------
(***************************************************************************)
(* Network isolation on Linux (src/response/linux_isolation.rs), the       *)
(* commands that use it (src/response/mod.rs) and the periodic             *)
(* verification (src/response/isolation_status.rs, src/main.rs).           *)
(*                                                                         *)
(* Commands come from the server, through the response task, and from the  *)
(* clients of the IPC server, each in a task of its own: several callers,  *)
(* each with one command at a time.  The verifier runs beside them, and    *)
(* shutdown cleans up while all still run.  An operation on the rules is a *)
(* script of firewall commands executed under one lock: each may fail, and *)
(* the process may die between any two.  The tests and the two records,    *)
(* each under a lock of its own, are outside it.  The rules are the        *)
(* kernel's and outlive the process; the flag, the list of blocked         *)
(* addresses and the records do not.                                       *)
(*                                                                         *)
(* The loopback and established-connection permits decide nothing about a  *)
(* new connection to another host and are left out.  The commands that     *)
(* only look (list, -C) tell the truth.                                    *)
(***************************************************************************)
EXTENDS Firewall

CONSTANTS
    Hosts,          \* addresses
    Server,         \* the backend's
    World,          \* the probed internet hosts, which no command names
    Callers,        \* the response task and the clients of the IPC server
    MaxCommands, MaxFaults, MaxCrashes

Named == Hosts \ {World}

ASSUME HostsAssumption ==
    /\ IsFiniteSet(Hosts) /\ Server \in Named /\ World \in Hosts
    /\ All \notin Hosts /\ Nobody \notin Hosts /\ Dns \notin Hosts
    /\ All # Nobody /\ Dns # All /\ Dns # Nobody
    /\ Mentions \in [Named -> SUBSET Named]
    /\ \A ip \in Named : ip \in Mentions[ip]
    /\ MaxCommands \in Nat /\ MaxFaults \in Nat /\ MaxCrashes \in Nat

VARIABLES
    backend,        \* FirewallBackend
    fw,             \* the kernel's rules
    isolated,       \* IsolationState.isolated
    blocked,        \* IsolationState.blocked_ips
    status,         \* GLOBAL_ISOLATION_STATUS
    params,         \* VERIFY_PARAMS is set
    stage,          \* where each caller is in its command
    holder,         \* who holds the lock of the isolation state
    cmd,            \* the command for which it is held
    script, failed, \* what it has left to execute; a required command failed
    ver,            \* the verifier
    phase           \* of the process

\* What the properties observe.
VARIABLES
    slip,           \* since the last isolation or clean-up began, a firewall
                    \* command failed that could have worked, the rules were
                    \* removed from outside, or rules outlived their process
    touched,        \* hosts whose rules block and unblock commands changed
                    \* since the last isolation began
    wiped,          \* addresses whose rules a command for something else took
    overtaken,      \* a de-isolation cleared the records while a verification
                    \* ran or another caller wrote them
    late            \* a command began after the clean-up

VARIABLES commands, faults, crashes      \* bounds

memory == <<isolated, blocked, status, params>>
run == <<holder, cmd, script, failed>>
seen == <<slip, touched, wiped, overtaken, late>>
bounds == <<commands, faults, crashes>>
vars == <<backend, fw, memory, stage, run, ver, phase, seen, bounds>>

Active == {"isolated", "partial"}
Nft == backend = "nftables"
Nothing == [op |-> "none"]

Commands ==
    [op : {"isolate"}, allowed : SUBSET (Named \ {Server})]
    \cup [op : {"unisolate"}]
    \cup [op : {"block", "unblock"}, ip : Named]

Init ==
    /\ backend \in {"nftables", "iptables"} /\ fw = NoRules
    /\ isolated = FALSE /\ blocked = {} /\ status = "none" /\ params = FALSE
    /\ cmd = Nothing /\ stage = [k \in Callers |-> "idle"]
    /\ holder = "free" /\ script = <<>> /\ failed = FALSE
    /\ ver = "idle" /\ phase = "up"
    /\ slip = FALSE /\ touched = {} /\ wiped = {} /\ overtaken = FALSE /\ late = FALSE
    /\ commands = 0 /\ faults = 0 /\ crashes = 0

-----------------------------------------------------------------------------
\* The scripts.  Must ends the operation when it fails (run_cmd(..)?), Try does
\* not (let _ = run_cmd(..)).

Must(s) == [step |-> s, must |-> TRUE]
Try(s) == [step |-> s, must |-> FALSE]
OnEach(Wrap(_), do, chains) == [i \in DOMAIN chains |-> Wrap([do |-> do, chain |-> chains[i]])]

AllChains == << <<"isolation", "in">>, <<"isolation", "out">>,
                <<"block", "in">>, <<"block", "out">> >>
IsolationChains == << <<"isolation", "in">>, <<"isolation", "out">> >>
\* Mutant: the isolation chains are put before the block chains.
JumpOrderSwapped == << <<"block", "in">>, <<"isolation", "in">>,
                       <<"block", "out">>, <<"isolation", "out">> >>

\* Each jump is inserted at the top: the block chains come to be first.
JumpOrder == << <<"isolation", "in">>, <<"block", "in">>,
                <<"isolation", "out">>, <<"block", "out">> >>

IsolationRules(allowed) ==
    LET ips == <<Dns, Server>> \o SetToSeq(allowed)
    IN [i \in DOMAIN ips |-> Accept(ips[i])] \o <<Drop(All)>>

nft_apply_isolation(allowed) ==
    << Try([do |-> "delete table"]),
       Must([do |-> "load", kind |-> "isolation", rules |-> IsolationRules(allowed)]) >>

ipt_ensure_chains == OnEach(Try, "new chain", AllChains) \o OnEach(Try, "jump", JumpOrder)

ipt_apply_isolation(allowed) ==
    LET rules == IsolationRules(allowed)
        Fill(d) == [i \in DOMAIN rules |->
                        Must([do |-> "append", chain |-> <<"isolation", d>>, rule |-> rules[i]])]
    IN ipt_ensure_chains \o OnEach(Must, "flush", IsolationChains) \o Fill("out") \o Fill("in")

\* Mutant: the outbound chain is forgotten.
RemoveScriptInbound ==
    IF Nft THEN << Must([do |-> "delete table"]) >>
    ELSE OnEach(Try, "flush", << <<"isolation", "in">> >>)

\* nft_remove_isolation, ipt_remove_isolation.
RemoveScript ==
    IF Nft THEN << Must([do |-> "delete table"]) >>
    ELSE OnEach(Try, "flush", IsolationChains)

nft_block_ip(ip) ==
    IF Present(fw) # {}
    THEN << Must([do |-> "insert", dir |-> "in", rule |-> Drop(ip)]),
            Must([do |-> "insert", dir |-> "out", rule |-> Drop(ip)]) >>
    ELSE << Must([do |-> "load", kind |-> "block", rules |-> <<Drop(ip)>>]) >>

ipt_block_ip(ip) ==
    ipt_ensure_chains \o
    << Must([do |-> "append", chain |-> <<"block", "out">>, rule |-> Drop(ip)]),
       Must([do |-> "append", chain |-> <<"block", "in">>, rule |-> Drop(ip)]) >>

nft_unblock_ip(ip) ==
    << Must([do |-> "list"]), Try([do |-> "purge", dir |-> "in", ip |-> ip]),
       Must([do |-> "list"]), Try([do |-> "purge", dir |-> "out", ip |-> ip]) >>

ipt_unblock_ip(ip) ==
    << Try([do |-> "delete", chain |-> <<"block", "out">>, rule |-> Drop(ip)]),
       Try([do |-> "delete", chain |-> <<"block", "in">>, rule |-> Drop(ip)]) >>

\* Mutant: the jumps are left behind.
CleanupScriptChains ==
    IF Nft THEN << Try([do |-> "delete table"]) >>
    ELSE OnEach(Try, "flush", IsolationChains) \o OnEach(Try, "delete chain", AllChains)

\* nft_cleanup, ipt_cleanup.
CleanupScript ==
    IF Nft THEN << Try([do |-> "delete table"]) >>
    ELSE LET Drain(c) == << Try([do |-> "flush", chain |-> c]),
                            Try([do |-> "delete chain", chain |-> c]) >>
         IN OnEach(Try, "unjump", JumpOrder)
            \o Drain(AllChains[1]) \o Drain(AllChains[2])
            \o Drain(AllChains[3]) \o Drain(AllChains[4])

\* What the public functions execute: an active isolation is removed before it
\* is applied again, and one that is not active is not removed.
Script(c) ==
    CASE c.op = "isolate" ->
            (IF ~isolated THEN <<>>
             ELSE [i \in DOMAIN RemoveScript |-> Try(RemoveScript[i].step)])
            \o (IF Nft THEN nft_apply_isolation(c.allowed) ELSE ipt_apply_isolation(c.allowed))
      [] c.op \in {"unisolate", "undo"} -> IF isolated THEN RemoveScript ELSE <<>>
      [] c.op = "block" -> IF Nft THEN nft_block_ip(c.ip) ELSE ipt_block_ip(c.ip)
      [] c.op = "unblock" -> IF Nft THEN nft_unblock_ip(c.ip) ELSE ipt_unblock_ip(c.ip)

-----------------------------------------------------------------------------
\* Executing a script under the lock.

Lock(who, s) ==
    /\ holder = "free"
    /\ holder' = who /\ script' = s /\ failed' = FALSE

\* run_cmd succeeds.
Succeed ==
    /\ script # <<>>
    /\ Possible(fw, Head(script).step)
    /\ fw' = Effect(fw, Head(script).step)
    /\ script' = Tail(script)
    /\ UNCHANGED <<backend, memory, stage, holder, cmd, failed, ver, phase, seen, bounds>>

\* run_cmd fails, because of the firewall's state or by itself.
Fail ==
    /\ script # <<>>
    /\ LET s == Head(script)
           fault == Possible(fw, s.step)
       IN /\ fault => faults < MaxFaults /\ s.step.do # "list"
          /\ faults' = IF fault THEN faults + 1 ELSE faults
          /\ slip' = (slip \/ fault)
          /\ script' = IF s.must THEN <<>> ELSE Tail(script)
          /\ failed' = (failed \/ s.must)
    /\ UNCHANGED <<backend, fw, memory, stage, holder, cmd, ver, phase, touched, wiped,
                   overtaken, late, commands, crashes>>

-----------------------------------------------------------------------------
\* The callers.

Go(k, from, to) == stage[k] = from /\ stage' = [stage EXCEPT ![k] = to]
AllIdle == \A k \in Callers : stage[k] = "idle"

\* The next command takes the lock.  Idle callers are alike: one of them gets it.
Receive(k, c) ==
    /\ phase # "down" /\ commands < MaxCommands
    /\ Go(k, "idle", "locked") /\ k = (CHOOSE j \in Callers : stage[j] = "idle")
    /\ cmd' = c
    /\ Lock("task", Script(c))
    /\ commands' = commands + 1
    /\ slip' = (slip /\ c.op # "isolate")
    /\ touched' = CASE c.op = "isolate" -> {}
                    [] c.op = "unisolate" -> touched
                    [] c.op = "unblock" /\ Nft -> touched \cup Mentions[c.ip]
                    [] OTHER -> touched \cup {c.ip}
    /\ wiped' = CASE ~Nft \/ c.op = "block" -> wiped
                  [] Nft /\ c.op = "unblock" -> wiped \cup Mentions[c.ip]
                  [] OTHER -> Named
    /\ late' = (late \/ phase = "cleaned")
    /\ UNCHANGED <<backend, fw, memory, ver, phase, overtaken, faults, crashes>>

\* The operation of a command ends and releases the lock; the caller goes on.
Release(k, ops, next) ==
    /\ holder = "task" /\ script = <<>> /\ cmd.op \in ops
    /\ Go(k, "locked", next)
    /\ holder' = "free" /\ failed' = FALSE /\ cmd' = Nothing

\* apply_isolation returns; when it succeeded the connectivity test follows.
apply_isolation(k) ==
    /\ Release(k, {"isolate"}, IF failed THEN "idle" ELSE "test")
    /\ isolated' = (isolated \/ ~failed)
    /\ UNCHANGED <<backend, fw, blocked, status, params, script, ver, phase, seen, bounds>>

\* remove_isolation returns, to unisolate_network or to the roll-back.
remove_isolation(k) ==
    /\ Release(k, {"unisolate", "undo"},
               IF cmd.op = "unisolate" /\ ~failed THEN "clear" ELSE "idle")
    /\ isolated' = (isolated /\ failed)
    /\ UNCHANGED <<backend, fw, blocked, status, params, script, ver, phase, seen, bounds>>

block_ip(k) ==
    /\ Release(k, {"block"}, "idle")
    /\ blocked' = IF failed THEN blocked ELSE blocked \cup {cmd.ip}
    /\ wiped' = IF failed THEN wiped ELSE wiped \ {cmd.ip}
    /\ UNCHANGED <<backend, fw, isolated, status, params, script, ver, phase,
                   slip, touched, overtaken, late, bounds>>

unblock_ip(k) ==
    /\ Release(k, {"unblock"}, "idle")
    /\ blocked' = IF failed THEN blocked ELSE blocked \ {cmd.ip}
    /\ UNCHANGED <<backend, fw, isolated, status, params, script, ver, phase, seen, bounds>>

\* Mutant: the roll-back is left to the operator.
TestedNoUndo(k, up) ==
    /\ Go(k, "test", "record")
    /\ UNCHANGED <<backend, fw, memory, run, ver, phase, seen, bounds>>

\* isolate_network after the rules: unless the server answers, roll back.
Tested(k, up) ==
    /\ Go(k, "test", IF up /\ Reachable(fw, Server) THEN "record" ELSE "undo")
    /\ UNCHANGED <<backend, fw, memory, run, ver, phase, seen, bounds>>

\* Mutant: the roll-back does not take the lock.
UndoUnlocked(k) ==
    /\ Go(k, "undo", "locked") /\ holder = "free"
    /\ cmd' = [op |-> "undo"] /\ script' = Script([op |-> "undo"]) /\ failed' = FALSE
    /\ wiped' = IF Nft THEN Named ELSE wiped
    /\ UNCHANGED <<backend, fw, memory, holder, ver, phase, slip, touched, overtaken, late,
                   bounds>>

Undo(k) ==
    /\ Go(k, "undo", "locked")
    /\ cmd' = [op |-> "undo"]
    /\ Lock("task", Script([op |-> "undo"]))
    /\ wiped' = IF Nft THEN Named ELSE wiped
    /\ UNCHANGED <<backend, fw, memory, ver, phase, slip, touched, overtaken, late, bounds>>

\* Some caller has cleared the status and not yet the parameters.
Forgetting == \E k \in Callers : stage[k] = "forget"

\* The internet is probed; one of the three connections is to port 53.  It may
\* be out of reach for other reasons.
Probed(net) == net /\ (Reachable(fw, World) \/ ReachableDns(fw, World))

\* The status is recorded, then the parameters of later verifications.
Record(k, net) ==
    /\ Go(k, "record", "params")
    /\ status' = IF Probed(net) THEN "partial" ELSE "isolated"
    /\ overtaken' = (overtaken \/ Forgetting)
    /\ UNCHANGED <<backend, fw, isolated, blocked, params, run, ver, phase, slip, touched,
                   wiped, late, bounds>>

set_verify_params(k) ==
    /\ Go(k, "params", "idle")
    /\ params' = TRUE
    /\ UNCHANGED <<backend, fw, isolated, blocked, status, run, ver, phase, seen, bounds>>

\* Mutant: the status is not cleared.
StatusKept(k) ==
    /\ Go(k, "clear", "forget")
    /\ UNCHANGED <<backend, fw, memory, run, ver, phase, seen, bounds>>

\* unisolate_network after the rules: the status is cleared, then the parameters.
clear_current_status(k) ==
    /\ Go(k, "clear", "forget")
    /\ status' = "none"
    /\ UNCHANGED <<backend, fw, isolated, blocked, params, run, ver, phase, seen, bounds>>

clear_verify_params(k) ==
    /\ Go(k, "forget", "idle")
    /\ params' = FALSE
    /\ overtaken' = (overtaken \/ ver \notin {"idle", "params"})
    /\ UNCHANGED <<backend, fw, isolated, blocked, status, run, ver, phase, slip, touched,
                   wiped, late, bounds>>

-----------------------------------------------------------------------------
\* The verifier: verify_isolation, every minute.

AtVerifier(from) == phase # "down" /\ ver = from

\* An isolation is on record,
VerifyBegin ==
    /\ AtVerifier("idle") /\ status \in Active
    /\ ver' = "params"
    /\ UNCHANGED <<backend, fw, memory, stage, run, phase, seen, bounds>>

\* with parameters,
VerifyParams ==
    /\ AtVerifier("params")
    /\ ver' = IF params THEN "status" ELSE "idle"
    /\ UNCHANGED <<backend, fw, memory, stage, run, phase, seen, bounds>>

\* and still on record.
VerifyStatus ==
    /\ AtVerifier("status")
    /\ ver' = IF status \in Active THEN "read" ELSE "idle"
    /\ UNCHANGED <<backend, fw, memory, stage, run, phase, seen, bounds>>

\* is_isolated waits for the lock.
VerifyFlag ==
    /\ AtVerifier("read") /\ holder = "free"
    /\ ver' = IF isolated THEN "probe" ELSE "gone"
    /\ UNCHANGED <<backend, fw, memory, stage, run, phase, seen, bounds>>

VerifyProbe(net) ==
    /\ AtVerifier("probe")
    /\ ver' = IF Probed(net) THEN "open" ELSE "idle"
    /\ UNCHANGED <<backend, fw, memory, stage, run, phase, seen, bounds>>

\* Mutant: a flag that is gone is not recorded.
VerifyEndOpen ==
    /\ phase # "down" /\ ver \in {"gone", "open"}
    /\ status' = IF ver = "gone" THEN status ELSE "partial"
    /\ ver' = "idle" /\ overtaken' = (overtaken \/ Forgetting)
    /\ UNCHANGED <<backend, fw, isolated, blocked, params, stage, run, phase, slip, touched,
                   wiped, late, bounds>>

\* The new status is stored, whatever was stored since VerifyBegin.
VerifyEnd ==
    /\ phase # "down" /\ ver \in {"gone", "open"}
    /\ status' = IF ver = "gone" THEN "failed" ELSE "partial"
    /\ ver' = "idle" /\ overtaken' = (overtaken \/ Forgetting)
    /\ UNCHANGED <<backend, fw, isolated, blocked, params, stage, run, phase, slip, touched,
                   wiped, late, bounds>>

-----------------------------------------------------------------------------
\* The process.

Shutdown ==
    /\ phase = "up" /\ phase' = "stopping"
    /\ Lock("shutdown", CleanupScript)
    /\ slip' = FALSE
    /\ UNCHANGED <<backend, fw, memory, stage, cmd, ver, touched, wiped, overtaken, late,
                   bounds>>

\* The other tasks still run while the rest of the agent is shut down.
CleanedUp ==
    /\ holder = "shutdown" /\ script = <<>>
    /\ holder' = "free" /\ phase' = "cleaned"
    /\ UNCHANGED <<backend, fw, memory, stage, cmd, script, failed, ver, seen, bounds>>

\* The process is gone, the rules stay.
End ==
    /\ phase' = "down"
    /\ isolated' = FALSE /\ blocked' = {} /\ status' = "none" /\ params' = FALSE
    /\ cmd' = Nothing /\ stage' = [k \in Callers |-> "idle"]
    /\ holder' = "free" /\ script' = <<>> /\ failed' = FALSE /\ ver' = "idle"
    /\ slip' = (slip \/ fw # NoRules)
    /\ wiped' = {} /\ overtaken' = FALSE
    /\ UNCHANGED <<backend, fw, touched, commands, faults>>

\* The runtime waits for the commands that are being carried out.
Exit == phase = "cleaned" /\ AllIdle /\ End /\ UNCHANGED <<late, crashes>>

Crash == phase # "down" /\ crashes < MaxCrashes /\ End
            /\ crashes' = crashes + 1 /\ UNCHANGED late

Start ==
    /\ phase = "down" /\ phase' = "up" /\ late' = FALSE
    /\ UNCHANGED <<backend, fw, memory, stage, run, ver, slip, touched, wiped, overtaken, bounds>>

\* Someone else removes the rules.
Tamper ==
    /\ fw # NoRules /\ faults < MaxFaults
    /\ fw' = NoRules /\ slip' = TRUE /\ faults' = faults + 1
    /\ UNCHANGED <<backend, memory, stage, run, ver, phase, touched, wiped, overtaken, late,
                   commands, crashes>>

CallerStep(k) ==
    \/ apply_isolation(k) \/ remove_isolation(k) \/ block_ip(k) \/ unblock_ip(k)
    \/ (\E up \in BOOLEAN : Tested(k, up)) \/ Undo(k)
    \/ (\E net \in BOOLEAN : Record(k, net)) \/ set_verify_params(k)
    \/ clear_current_status(k) \/ clear_verify_params(k)
Execute == Succeed \/ Fail
Verify ==
    \/ VerifyBegin \/ VerifyParams \/ VerifyStatus \/ VerifyFlag
    \/ (\E net \in BOOLEAN : VerifyProbe(net)) \/ VerifyEnd

Next ==
    \/ \E k \in Callers : CallerStep(k) \/ \E c \in Commands : Receive(k, c)
    \/ Execute \/ Verify
    \/ Shutdown \/ CleanedUp \/ Exit \/ Crash \/ Start \/ Tamper

\* The threads run; nothing obliges the operator, the process or the firewall.
Spec == Init /\ [][Next]_vars
        /\ \A k \in Callers : WF_vars(CallerStep(k))
        /\ WF_vars(Execute) /\ WF_vars(CleanedUp) /\ WF_vars(Verify)

-----------------------------------------------------------------------------
\* The types of the state; a script is executed by whoever holds the lock, and
\* one at a time does.
TypeOK ==
    /\ backend \in {"nftables", "iptables"}
    /\ DOMAIN fw.chains \subseteq Kinds \X Dirs
    /\ \A d \in Dirs : \A k \in Range(fw.hooks[d]) : <<k, d>> \in DOMAIN fw.chains
    /\ isolated \in BOOLEAN /\ blocked \subseteq Named
    /\ status \in Active \cup {"none", "failed"} /\ params \in BOOLEAN
    /\ cmd \in Commands \cup [op : {"none", "undo"}]
    /\ stage \in [Callers -> {"idle", "locked", "test", "undo", "record", "params",
                              "clear", "forget"}]
    /\ holder \in {"free", "task", "shutdown"}
    /\ script # <<>> => holder # "free"
    /\ (\E k \in Callers : stage[k] = "locked") <=> holder = "task"
    /\ \A j, k \in Callers : stage[j] = "locked" /\ stage[k] = "locked" => j = k
    /\ ver \in {"idle", "params", "status", "read", "probe", "gone", "open"}
    /\ phase \in {"up", "stopping", "cleaned", "down"}
    /\ touched \subseteq Named /\ wiped \subseteq Named
    /\ {failed, slip, overtaken, late} \subseteq BOOLEAN
    /\ commands \in 0..MaxCommands /\ faults \in 0..MaxFaults /\ crashes \in 0..MaxCrashes

\* While nobody changes the rules, the isolated flag of linux_isolation.rs says
\* whether the host is cut off, in both directions.  After a firewall command
\* that failed, and after a restart, which forgets the flag and not the rules,
\* it need not: an isolate command makes it true again.
FlagTrue ==
    phase = "up" /\ holder = "free" /\ ~slip
    => \A d \in Dirs : Dropped(fw, d, World) <=> isolated

\* An address of blocked_ips is dropped in both directions, as block_ip says,
\* while every firewall command worked.  With nftables the blocks are in the
\* table that isolation replaces and removes, and unblock_ip also removes the
\* rules of an address that contains the one it unblocks.  With iptables the
\* isolation chain may come first after a crash in the middle of a clean-up: its
\* permits then win.
BlocksHold ==
    holder = "free" /\ faults = 0 /\ phase = "up"
    => \A ip \in blocked \ wiped : \A d \in Dirs :
            Dropped(fw, d, ip) \/ (crashes > 0 /\ fw.hooks[d] = <<"isolation", "block">>)

\* Between commands an isolated host reaches its server (isolate_network tests
\* it and rolls back), unless a later block or unblock command changed the
\* rules of the server's address, or those of an address that is part of it.
Manageable ==
    phase = "up" /\ AllIdle /\ isolated /\ ~slip /\ Server \notin touched
    => Reachable(fw, Server)

\* An isolation on record that the verifier does not look at any more, because
\* the parameters of verify_isolation are gone, comes only from a verification
\* that was running, or an isolate command of another caller that wrote its
\* record, while unisolate_network cleared both records one after the other.
RecordLives ==
    status \in Active => params \/ overtaken \/ \E k \in Callers : stage[k] = "params"

\* What is on record is wrong: the host is not isolated.
Wrong == params /\ status \in Active /\ ~isolated

\* A record that says the host is isolated when it is not, after a roll-back or
\* the de-isolation of another caller, is corrected: by the verifier, which
\* finds the flag gone, or by a command.
Noticed == Wrong ~> ~Wrong \/ phase # "up"

\* A clean exit leaves no rule behind, as the comment of cleanup says, unless
\* a caller, which shutdown does not stop, began a command after the clean-up.
CleanExit == [][Exit => fw = NoRules \/ slip \/ late]_vars
=============================================================================
