-------------------------- MODULE NetConfig_proofs --------------------------
(***************************************************************************)
(* Proofs about NetConfig, for any addresses, configurations and timeouts: *)
(* types, what an OK means, what a timeout means, that an address set by   *)
(* hand stays, and that the progress events tell where a call ended.       *)
(***************************************************************************)
EXTENDS NetConfig, SequenceTheorems, TLAPS

LinkWait == {"link", "link_sleep"}
DhcpWait == {"dhcp", "dhcp_sleep"}

\* The counter belongs to the wait the call is in, and the history to it.
CounterInv ==
    /\ pc \in {"tcpip", "mode", "read", "write"} => retry = 0
    /\ pc \in LinkWait \cup DhcpWait => waited = IF retry < Long THEN retry ELSE Long
    /\ pc \in {"link_sleep", "dhcp_sleep"} => retry < timeout

\* What is asleep has seen nothing, and was asleep for a second at most.
PollInv ==
    /\ pc = "link_sleep" => upFor = 0
    /\ pc = "link" /\ retry # 0 => upFor < 2
    /\ pc = "dhcp_sleep" => leasedFor = 0
    /\ pc = "dhcp" /\ retry # 0 => leasedFor < 2

\* What is behind the call.
PassedInv ==
    /\ pc # "idle" => answer = "none" /\ reported = "none"
    /\ pc \in DhcpWait => cfg.dhcp /\ "link" \in had

\* A client that has not started since the configuration was applied was never
\* seen at work.
TryInv ==
    pc \in LinkWait \cup DhcpWait /\ iface.lease = "off" => "trying" \notin had

\* A static address has been set, and nothing can change it.
Fixed == iface.addr = cfg.addr /\ ~iface.dhcp
FixedInv ==
    ~cfg.dhcp => /\ pc \in LinkWait => Fixed
                 /\ answer = "OK" => Fixed

Inv == TypeOK /\ CounterInv /\ PollInv /\ PassedInv /\ TryInv /\ FixedInv
         /\ OkEarned /\ StaticReported

USE DEF LinkWait, DhcpWait

-----------------------------------------------------------------------------
(* Types.                                                                  *)

\* A wait lasts a second at least.
LEMMA TimeoutType ==
    ASSUME cfg \in Config
    PROVE  timeout \in Nat /\ timeout > 0
BY NetConfigAssumption DEF timeout, Config

\* What the histories are after a step in which no time passes.
LEMMA ObserveType ==
    ASSUME TypeOK, Observe
    PROVE  /\ upFor' \in 0 .. Long /\ leasedFor' \in 0 .. Long
           /\ waited' \in 0 .. Long /\ had' \subseteq {"link", "lease", "trying"}
<1>1. Facts' \subseteq {"link", "lease", "trying"}
  BY DEF Facts
<1> QED
  BY <1>1, NetConfigAssumption DEF TypeOK, Observe, Kept

\* The same after a second.
LEMMA SecondType ==
    ASSUME TypeOK, ObserveSecond
    PROVE  /\ upFor' \in 0 .. Long /\ leasedFor' \in 0 .. Long
           /\ waited' \in 0 .. Long /\ had' \subseteq {"link", "lease", "trying"}
BY NetConfigAssumption DEF TypeOK, ObserveSecond, Steady, More

\* The configurations of a stack.
LEMMA ConfigsType ==
    ASSUME TypeOK, NEW c \in Configs[stack]
    PROVE  c \in Config /\ (stack = "iopip" => ~c.dhcp)
BY NetConfigAssumption DEF TypeOK

\* The initial state is well typed.
LEMMA InitType == Init => TypeOK
BY NetConfigAssumption DEF Init, TypeOK, NoConfig, Config, timeout, Interface,
   Address, Leases, Stacks, Points, Answers

\* What apply_ip_config() writes is an interface's setting.
LEMMA AskedType ==
    ASSUME cfg \in Config, info \in Interface
    PROVE  /\ Asked(cfg, info).addr \in Address
           /\ Asked(cfg, info).dhcp \in BOOLEAN
           /\ ~cfg.dhcp => Asked(cfg, info).addr = cfg.addr /\ ~Asked(cfg, info).dhcp
BY DEF Asked, Config, Interface, Address

\* What the interface may be after ps2ip_setconfig().
LEMMA SetType ==
    ASSUME cfg \in Config, info \in Interface, iface \in Interface,
           NEW i \in SetTo(Asked(cfg, info))
    PROVE  /\ i \in Interface
           /\ ~cfg.dhcp => i.addr = cfg.addr /\ ~i.dhcp
BY AskedType DEF SetTo, Interface, Leases

\* Every step keeps the types: the counter stays in its wait's bounds because no
\* call sleeps when its time is up.
LEMMA StepType == TypeOK /\ CounterInv /\ [Next]_vars => TypeOK'
<1> SUFFICES ASSUME TypeOK, CounterInv, [Next]_vars PROVE TypeOK'
  OBVIOUS
<1> USE DEF call, net, history
<1>0. timeout \in Nat /\ timeout > 0
  BY TimeoutType DEF TypeOK
<1>1. ASSUME NEW c \in Configs[stack], Begin(c) PROVE TypeOK'
  <2>1. c \in Config /\ (stack = "iopip" => ~c.dhcp)
    BY ConfigsType
  <2>2. timeout' \in Nat
    BY <1>1, <2>1, NetConfigAssumption DEF Begin, timeout, Config
  <2> QED
    BY <1>1, <2>1, <2>2 DEF TypeOK, Begin, Points, Answers
<1>2. CASE BeginNull
  <2>1. NoConfig \in Config /\ ~NoConfig.dhcp
    BY DEF NoConfig, Config
  <2>2. timeout' \in Nat
    BY <1>2, NetConfigAssumption DEF BeginNull, timeout, NoConfig
  <2> QED
    BY <1>2, <2>1, <2>2 DEF TypeOK, BeginNull, Points, Answers
<1>3. CASE ps2ipInit
  BY <1>3, ObserveType DEF TypeOK, ps2ipInit, Points, Interface, Address, Leases, timeout
<1>4. CASE NetManSetLinkMode
  BY <1>4, ObserveType DEF TypeOK, NetManSetLinkMode, Return, Points, Answers, timeout
<1>5. CASE ps2ip_getconfig
  BY <1>5, ObserveType DEF TypeOK, ps2ip_getconfig, Return, Points, Answers, timeout
<1>6. CASE ps2ip_setconfig
  <2>1. iface' \in Interface
    BY <1>6, SetType DEF TypeOK, ps2ip_setconfig
  <2> QED
    BY <1>6, <2>1, ObserveType DEF TypeOK, ps2ip_setconfig, Return, Points, Answers,
       timeout
<1>7. CASE LinkFound
  BY <1>0, <1>7, ObserveType DEF TypeOK, LinkFound, Return, Points, Answers, timeout
<1>8. CASE LeaseFound
  BY <1>8, ObserveType DEF TypeOK, LeaseFound, Return, Points, Answers, timeout
<1>9. CASE TimedOut
  BY <1>9, ObserveType DEF TypeOK, TimedOut, Return, Points, Answers, timeout
<1>10. CASE NotYet
  BY <1>10, ObserveType DEF TypeOK, NotYet, Points, timeout
<1>11. CASE usleep
  <2>1. retry < timeout => retry + 1 \in 0 .. timeout
    BY <1>0 DEF TypeOK
  <2> QED
    BY <1>11, <2>1, SecondType DEF TypeOK, CounterInv, usleep, Points, timeout
<1>12. CASE get_current_config
  BY <1>12, ObserveType DEF TypeOK, get_current_config, Interface, timeout
<1>13. CASE LinkChanges
  BY <1>13, ObserveType DEF TypeOK, LinkChanges, timeout
<1>14. CASE LeaseChanges
  <2>1. PICK a \in Address, l \in Leases : iface' = [iface EXCEPT !.lease = l, !.addr = a]
    <3>1. /\ "zero" \in Address /\ "leased" \in Address
          /\ "trying" \in Leases /\ "bound" \in Leases
      BY DEF Address, Leases
    <3>2. CASE iface' = [iface EXCEPT !.lease = "bound", !.addr = "leased"]
      BY <3>1, <3>2
    <3>3. CASE iface' = [iface EXCEPT !.lease = "trying"]
      <4>1. iface \in [addr : Address, dhcp : BOOLEAN, lease : Leases]
        BY DEF TypeOK, Interface
      <4>2. iface.addr \in Address /\ iface' = [iface EXCEPT !.lease = "trying", !.addr = iface.addr]
        BY <3>3, <4>1
      <4> QED
        BY <3>1, <4>2
    <3>4. CASE iface' = [iface EXCEPT !.lease = "trying", !.addr = "zero"]
      BY <3>1, <3>4
    <3> QED
      BY <1>14, <3>2, <3>3, <3>4 DEF LeaseChanges
  <2>2. iface' \in Interface
    BY <2>1 DEF TypeOK, Interface
  <2>3. UNCHANGED <<call, readable, link>> /\ Observe
    BY <1>14 DEF LeaseChanges
  <2> QED
    BY <2>2, <2>3, ObserveType DEF TypeOK, call, timeout
<1>15. CASE ReadabilityChanges
  BY <1>15, ObserveType DEF TypeOK, ReadabilityChanges, timeout
<1>16. CASE SecondPasses
  BY <1>16, SecondType DEF TypeOK, SecondPasses, timeout
<1>17. CASE UNCHANGED vars
  BY <1>17 DEF TypeOK, vars, timeout
<1> QED
  BY <1>1, <1>2, <1>3, <1>4, <1>5, <1>6, <1>7, <1>8, <1>9, <1>10, <1>11, <1>12,
     <1>13, <1>14, <1>15, <1>16, <1>17 DEF Next

-----------------------------------------------------------------------------
(* The counter and the polls.                                              *)

\* Every step keeps the counter and its history in step.
LEMMA StepCounter == TypeOK /\ CounterInv /\ [Next]_vars => CounterInv'
<1> SUFFICES ASSUME TypeOK, CounterInv, [Next]_vars PROVE CounterInv'
  OBVIOUS
<1> USE NetConfigAssumption DEF call, net, history
<1>0. timeout \in Nat /\ timeout > 0
  BY TimeoutType DEF TypeOK
<1>1. ASSUME NEW c \in Configs[stack], Begin(c) PROVE CounterInv'
  BY <1>1 DEF TypeOK, CounterInv, Begin, Stacks
<1>2. CASE BeginNull
  BY <1>2 DEF CounterInv, BeginNull
<1>3. CASE ps2ipInit \/ NetManSetLinkMode \/ ps2ip_getconfig
  BY <1>3 DEF CounterInv, ps2ipInit, NetManSetLinkMode, ps2ip_getconfig, Return
<1>4. CASE ps2ip_setconfig
  BY <1>4 DEF CounterInv, ps2ip_setconfig, Return, Observe, Wait
<1>5. CASE LinkFound
  BY <1>5 DEF CounterInv, LinkFound, Return, Observe, Wait
<1>6. CASE LeaseFound \/ TimedOut
  BY <1>6 DEF CounterInv, LeaseFound, TimedOut, Return
<1>7. CASE NotYet
  BY <1>7 DEF CounterInv, NotYet, Observe, Wait, Expired, timeout
<1>8. CASE usleep
  BY <1>8 DEF TypeOK, CounterInv, usleep, ObserveSecond, Wait, More
<1>9. CASE get_current_config \/ LinkChanges \/ LeaseChanges \/ ReadabilityChanges
  BY <1>9 DEF CounterInv, get_current_config, LinkChanges, LeaseChanges,
     ReadabilityChanges, Observe, timeout
<1>10. CASE SecondPasses \/ UNCHANGED vars
  BY <1>10 DEF CounterInv, SecondPasses, vars, timeout
<1> QED
  BY <1>1, <1>2, <1>3, <1>4, <1>5, <1>6, <1>7, <1>8, <1>9, <1>10 DEF Next

\* Every step keeps what a poll knows of the second before it.
LEMMA StepPoll == TypeOK /\ CounterInv /\ PollInv /\ [Next]_vars => PollInv'
<1> SUFFICES ASSUME TypeOK, CounterInv, PollInv, [Next]_vars PROVE PollInv'
  OBVIOUS
<1> USE NetConfigAssumption DEF call, net, history
<1>1. ASSUME NEW c \in Configs[stack], Begin(c) PROVE PollInv'
  BY <1>1 DEF TypeOK, PollInv, Begin, Stacks
<1>2. CASE BeginNull
  BY <1>2 DEF PollInv, BeginNull
<1>3. CASE ps2ipInit \/ NetManSetLinkMode \/ ps2ip_getconfig
  BY <1>3 DEF PollInv, ps2ipInit, NetManSetLinkMode, ps2ip_getconfig, Return
<1>4. CASE ps2ip_setconfig
  BY <1>4 DEF CounterInv, PollInv, ps2ip_setconfig, Return
<1>5. CASE LinkFound
  BY <1>5 DEF PollInv, LinkFound, Return
<1>6. CASE LeaseFound \/ TimedOut
  BY <1>6 DEF PollInv, LeaseFound, TimedOut, Return
<1>7. CASE NotYet
  BY <1>7 DEF TypeOK, PollInv, NotYet, Observe, Kept, link_is_up, dhcp_is_bound,
     Leased, Interface, Leases
<1>8. CASE usleep
  BY <1>8 DEF TypeOK, PollInv, usleep, ObserveSecond, Steady, More
<1>9. CASE get_current_config \/ LinkChanges \/ LeaseChanges \/ ReadabilityChanges
  BY <1>9 DEF TypeOK, PollInv, get_current_config, LinkChanges, LeaseChanges,
     ReadabilityChanges, Observe, Kept
<1>10. CASE SecondPasses \/ UNCHANGED vars
  BY <1>10 DEF PollInv, SecondPasses, vars
<1> QED
  BY <1>1, <1>2, <1>3, <1>4, <1>5, <1>6, <1>7, <1>8, <1>9, <1>10 DEF Next

-----------------------------------------------------------------------------
(* Answers and addresses.                                                  *)

\* Every step keeps what an answer stands for.
LEMMA StepAnswer ==
    TypeOK /\ PassedInv /\ TryInv /\ OkEarned /\ [Next]_vars
       => PassedInv' /\ OkEarned'
<1> SUFFICES ASSUME TypeOK, PassedInv, TryInv, OkEarned, [Next]_vars
             PROVE  PassedInv' /\ OkEarned'
  OBVIOUS
<1> USE DEF call, net, history
<1>1. ASSUME NEW c \in Configs[stack], Begin(c) PROVE PassedInv' /\ OkEarned'
  BY <1>1 DEF TypeOK, PassedInv, OkEarned, Begin, Stacks
<1>2. CASE BeginNull
  BY <1>2 DEF PassedInv, OkEarned, BeginNull
<1>3. CASE ps2ipInit \/ NetManSetLinkMode \/ ps2ip_getconfig \/ ps2ip_setconfig
  BY <1>3 DEF PassedInv, OkEarned, ps2ipInit, NetManSetLinkMode, ps2ip_getconfig,
     ps2ip_setconfig, Return
<1>4. CASE LinkFound
  <2>1. "link" \in had'
    <3>1. "link" \in Facts'
      BY <1>4 DEF LinkFound, Facts, link_is_up
    <3>2. had' = had \cup Facts'
      BY <1>4 DEF LinkFound, Observe
    <3> QED
      BY <3>1, <3>2
  <2> QED
    BY <1>4, <2>1 DEF PassedInv, OkEarned, LinkFound, Return
<1>5. CASE LeaseFound
  <2>1. had' = had \cup Facts' /\ UNCHANGED iface
    BY <1>5 DEF LeaseFound, Observe
  <2>2. CASE iface.lease = "bound"
    <3>1. "lease" \in Facts'
      BY <1>5, <2>2 DEF LeaseFound, dhcp_is_bound, Leased, Facts
    <3> QED
      BY <1>5, <2>1, <3>1 DEF PassedInv, OkEarned, LeaseFound, Return
  <2>3. CASE iface.lease = "off"
    <3>1. "trying" \notin had /\ "trying" \notin Facts'
      BY <1>5, <2>1, <2>3 DEF TryInv, LeaseFound, Trying, Facts
    <3> QED
      BY <1>5, <2>1, <3>1 DEF PassedInv, OkEarned, LeaseFound, Return
  <2> QED
    BY <1>5, <2>2, <2>3 DEF LeaseFound, dhcp_is_bound
<1>6. CASE TimedOut \/ NotYet \/ usleep
  BY <1>6 DEF PassedInv, OkEarned, TimedOut, NotYet, usleep, Return, Observe,
     ObserveSecond
<1>7. CASE get_current_config \/ LinkChanges \/ LeaseChanges \/ ReadabilityChanges
  BY <1>7 DEF PassedInv, OkEarned, get_current_config, LinkChanges, LeaseChanges,
     ReadabilityChanges, Observe
<1>8. CASE SecondPasses \/ UNCHANGED vars
  BY <1>8 DEF PassedInv, OkEarned, SecondPasses, ObserveSecond, vars
<1> QED
  BY <1>1, <1>2, <1>3, <1>4, <1>5, <1>6, <1>7, <1>8 DEF Next

\* Every step keeps what is known of a client that has not started: no lease
\* goes back to that state.
LEMMA StepTry == TypeOK /\ TryInv /\ [Next]_vars => TryInv'
<1> SUFFICES ASSUME TypeOK, TryInv, [Next]_vars,
                    pc' \in LinkWait \cup DhcpWait, iface'.lease = "off"
             PROVE  "trying" \notin had'
  BY DEF TryInv
<1> USE DEF call, net, history
<1>0. "trying" \notin Facts'
  BY DEF Facts, Trying
<1>1. ASSUME NEW c \in Configs[stack], Begin(c) PROVE FALSE
  BY <1>1 DEF Begin
<1>2. CASE BeginNull
  BY <1>2 DEF BeginNull
<1>3. CASE ps2ipInit \/ NetManSetLinkMode \/ ps2ip_getconfig
  BY <1>3 DEF ps2ipInit, NetManSetLinkMode, ps2ip_getconfig, Return
<1>4. CASE ps2ip_setconfig
  BY <1>0, <1>4 DEF ps2ip_setconfig, Return, Observe
<1>5. CASE LinkFound \/ NotYet
  <2>1. pc \in LinkWait \cup DhcpWait /\ UNCHANGED iface /\ had' = had \cup Facts'
    BY <1>5 DEF LinkFound, NotYet, Return, Observe
  <2> QED
    BY <1>0, <2>1 DEF TryInv
<1>6. CASE LeaseFound \/ TimedOut
  BY <1>6 DEF LeaseFound, TimedOut, Return
<1>7. CASE usleep
  BY <1>7 DEF TryInv, usleep, ObserveSecond
<1>8. CASE LinkChanges \/ ReadabilityChanges \/ get_current_config
  <2>1. UNCHANGED <<pc, iface>> /\ had' = had \cup Facts'
    BY <1>8 DEF LinkChanges, ReadabilityChanges, get_current_config, Observe
  <2> QED
    BY <1>0, <2>1 DEF TryInv
<1>9. CASE LeaseChanges
  <2>1. iface.lease = "off"
    BY <1>9 DEF LeaseChanges, TypeOK, Interface
  <2>2. UNCHANGED pc /\ had' = had \cup Facts'
    BY <1>9 DEF LeaseChanges, Observe
  <2> QED
    BY <1>0, <2>1, <2>2 DEF TryInv
<1>10. CASE SecondPasses \/ UNCHANGED vars
  BY <1>10 DEF TryInv, SecondPasses, ObserveSecond, vars
<1> QED
  BY <1>1, <1>2, <1>3, <1>4, <1>5, <1>6, <1>7, <1>8, <1>9, <1>10 DEF Next

\* Every step keeps the address that was set by hand.
LEMMA StepFixed ==
    TypeOK /\ PassedInv /\ FixedInv /\ StaticReported /\ [Next]_vars
       => FixedInv' /\ StaticReported'
<1> SUFFICES ASSUME TypeOK, PassedInv, FixedInv, StaticReported, [Next]_vars
             PROVE  FixedInv' /\ StaticReported'
  OBVIOUS
<1> USE DEF call, net, history, Fixed
<1>1. ASSUME NEW c \in Configs[stack], Begin(c) PROVE FixedInv' /\ StaticReported'
  BY <1>1 DEF TypeOK, FixedInv, StaticReported, Begin, Stacks
<1>2. CASE BeginNull
  BY <1>2 DEF FixedInv, StaticReported, BeginNull
<1>3. CASE ps2ipInit \/ NetManSetLinkMode \/ ps2ip_getconfig
  BY <1>3 DEF PassedInv, FixedInv, StaticReported, ps2ipInit, NetManSetLinkMode,
     ps2ip_getconfig, Return
<1>4. CASE ps2ip_setconfig
  <2>1. pc' = "link" => iface' \in SetTo(Asked(cfg, info))
    BY <1>4 DEF ps2ip_setconfig, Return
  <2>2. pc' = "link" /\ ~cfg.dhcp => iface'.addr = cfg.addr /\ ~iface'.dhcp
    BY <2>1, SetType DEF TypeOK
  <2>3. UNCHANGED cfg /\ answer' # "OK"
    BY <1>4 DEF ps2ip_setconfig, Return, PassedInv
  <2> QED
    BY <1>4, <2>2, <2>3 DEF FixedInv, StaticReported, ps2ip_setconfig, Return
<1>5. CASE LinkFound \/ LeaseFound \/ TimedOut \/ NotYet \/ usleep
  BY <1>5 DEF PassedInv, FixedInv, StaticReported, LinkFound, LeaseFound, TimedOut,
     NotYet, usleep, Return
<1>6. CASE get_current_config
  BY <1>6 DEF FixedInv, StaticReported, get_current_config
<1>7. CASE LinkChanges \/ LeaseChanges \/ ReadabilityChanges
  BY <1>7 DEF FixedInv, StaticReported, LinkChanges, LeaseChanges, ReadabilityChanges
<1>8. CASE SecondPasses \/ UNCHANGED vars
  BY <1>8 DEF FixedInv, StaticReported, SecondPasses, vars
<1> QED
  BY <1>1, <1>2, <1>3, <1>4, <1>5, <1>6, <1>7, <1>8 DEF Next

-----------------------------------------------------------------------------
(* The theorems.                                                           *)

\* The strengthened invariant is inductive.
THEOREM Inductive == Spec => []Inv
<1>1. Init => Inv
  BY InitType DEF Init, Inv, CounterInv, PollInv, PassedInv, TryInv,
     FixedInv, OkEarned, StaticReported
<1>2. Inv /\ [Next]_vars => Inv'
  BY StepType, StepCounter, StepPoll, StepAnswer, StepTry, StepFixed DEF Inv
<1> QED
  BY <1>1, <1>2, PTL DEF Spec

\* Every variable has its type; no wait counts past its timeout.
THEOREM TypeCorrect == Spec => []TypeOK
<1>1. Inv => TypeOK
  BY DEF Inv
<1> QED
  BY <1>1, Inductive, PTL

\* An OK says that since the call applied its configuration the link was up and,
\* if a lease was asked for, that there was one or that the client had not
\* started when the call looked and was never seen at work before that.
THEOREM OkIsEarned == Spec => []OkEarned
<1>1. Inv => OkEarned
  BY DEF Inv
<1> QED
  BY <1>1, Inductive, PTL

\* An address set by hand is the one reported until the next call.
THEOREM StaticStays == Spec => []StaticReported
<1>1. Inv => StaticReported
  BY DEF Inv
<1> QED
  BY <1>1, Inductive, PTL

\* A timeout is never answered of a link, or of a lease, that has been there for
\* more than a second.
THEOREM TimeoutMissesLastSecond == Spec => SteadyEventSeen
<1>1. Inv /\ TimedOut => CASE pc = "link" -> upFor < 2 [] pc = "dhcp" -> leasedFor < 2
  <2> SUFFICES ASSUME Inv, TimedOut
               PROVE  CASE pc = "link" -> upFor < 2 [] pc = "dhcp" -> leasedFor < 2
    OBVIOUS
  <2>1. retry # 0
    BY TimeoutType DEF Inv, TypeOK, TimedOut, Expired
  <2> QED
    BY <2>1 DEF Inv, PollInv, TimedOut
<1>2. Inv /\ [Next]_vars =>
         [TimedOut => CASE pc = "link" -> upFor < 2 [] pc = "dhcp" -> leasedFor < 2]_vars
  BY <1>1
<1> QED
  BY <1>2, Inductive, PTL DEF Spec, SteadyEventSeen

\* Each wait takes the time asked for, or the default, and no more.
THEOREM WaitsExactly == Spec => WaitsAsLongAsAsked
<1>1. Inv /\ TimedOut => waited = IF timeout < Long THEN timeout ELSE Long
  <2> SUFFICES ASSUME Inv, TimedOut
               PROVE  waited = IF timeout < Long THEN timeout ELSE Long
    OBVIOUS
  <2>1. retry = timeout
    BY TimeoutType DEF Inv, TypeOK, TimedOut, Expired
  <2> QED
    BY <2>1 DEF Inv, CounterInv, TimedOut
<1>2. Inv /\ [Next]_vars =>
         [TimedOut => waited = IF timeout < Long THEN timeout ELSE Long]_vars
  BY <1>1
<1> QED
  BY <1>2, Inductive, PTL DEF Spec, WaitsAsLongAsAsked

-----------------------------------------------------------------------------
(* The progress events.                                                    *)

\* The events before the link mode is set.
Started == IF stack = "eeip" THEN 1 ELSE 0

\* How many events the call has emitted when it is at p, and when it has ended
\* with the answer a after its first event.
EmittedAt(p) ==
    CASE p = "tcpip"        -> 0
      [] p = "mode"         -> Started
      [] p = "read"         -> Started + 1
      [] p = "write"        -> Started + 2
      [] p \in LinkWait     -> Started + 3
      [] p \in DhcpWait     -> Started + 5
      [] OTHER              -> 0
EmittedBy(a) ==
    CASE a = "LINK_MODE_ERROR" -> Started + 1
      [] a = "CONFIG_ERROR"    -> Started + 2
      [] a = "LINK_TIMEOUT"    -> Started + 3
      [] a = "DHCP_TIMEOUT"    -> Started + 5
      [] OTHER                 -> Len(Events)

First(n) == SubSeq(Events, 1, n)

EventNames == {"TCPIP_INIT", "SETTING_LINK_MODE", "APPLYING_IP_CONFIG",
               "WAITING_LINK_UP", "LINK_UP", "WAITING_DHCP", "DHCP_BOUND", "READY"}

\* A call has told the first events of a whole one, as many as it has come to.
ToldInv ==
    /\ pc = "tcpip" => stack = "eeip"
    /\ pc # "idle" => told = First(EmittedAt(pc))
    /\ pc = "idle" /\ answer # "none" =>
          \/ told = << >> /\ answer = "CONFIG_ERROR"
          \/ told = First(EmittedBy(answer)) /\ (answer = "DHCP_TIMEOUT" => cfg.dhcp)

\* A part of a sequence, behind a prefix of length m.
Holds(s, m, t) == \A i \in 1 .. Len(t) : s[m + i] = t[i]

\* What was put behind a sequence is there.
LEMMA JoinedHolds ==
    ASSUME NEW S, NEW s \in Seq(S), NEW t \in Seq(S)
    PROVE  /\ s \o t \in Seq(S) /\ Len(s \o t) = Len(s) + Len(t)
           /\ Holds(s \o t, Len(s), t)
           /\ \A i \in 1 .. Len(s) : (s \o t)[i] = s[i]
<1>1. s \o t \in Seq(S) /\ Len(s \o t) = Len(s) + Len(t)
  BY ConcatProperties
<1>2. \A i \in 1 .. Len(s) + Len(t) :
         (s \o t)[i] = IF i <= Len(s) THEN s[i] ELSE t[i - Len(s)]
  BY ConcatProperties
<1>3. Len(s) \in Nat /\ Len(t) \in Nat
  OBVIOUS
<1>4. ASSUME NEW i \in 1 .. Len(t) PROVE (s \o t)[Len(s) + i] = t[i]
  BY <1>2, <1>3
<1>5. ASSUME NEW i \in 1 .. Len(s) PROVE (s \o t)[i] = s[i]
  BY <1>2, <1>3
<1> QED
  BY <1>1, <1>4, <1>5 DEF Holds

\* Four sequences joined hold each of them, in order.
LEMMA FourJoined ==
    ASSUME NEW S, NEW a \in Seq(S), NEW b \in Seq(S), NEW c \in Seq(S), NEW d \in Seq(S)
    PROVE  LET s == ((a \o b) \o c) \o d
           IN  /\ s \in Seq(S) /\ Len(s) = Len(a) + Len(b) + Len(c) + Len(d)
               /\ Holds(s, 0, a) /\ Holds(s, Len(a), b)
               /\ Holds(s, Len(a) + Len(b), c) /\ Holds(s, Len(a) + Len(b) + Len(c), d)
<1> DEFINE ab == a \o b
           abc == ab \o c
           s == abc \o d
<1>0. /\ Len(a) \in Nat /\ Len(b) \in Nat /\ Len(c) \in Nat /\ Len(d) \in Nat
  OBVIOUS
<1>1. /\ ab \in Seq(S) /\ Len(ab) = Len(a) + Len(b) /\ Holds(ab, Len(a), b)
      /\ \A i \in 1 .. Len(a) : ab[i] = a[i]
  BY JoinedHolds
<1> HIDE DEF ab
<1>2. /\ abc \in Seq(S) /\ Len(abc) = Len(ab) + Len(c) /\ Holds(abc, Len(ab), c)
      /\ \A i \in 1 .. Len(ab) : abc[i] = ab[i]
  BY <1>1, JoinedHolds
<1> HIDE DEF abc
<1>3. /\ s \in Seq(S) /\ Len(s) = Len(abc) + Len(d) /\ Holds(s, Len(abc), d)
      /\ \A i \in 1 .. Len(abc) : s[i] = abc[i]
  BY <1>2, JoinedHolds
<1> HIDE DEF s
<1>4. ASSUME NEW i \in 1 .. Len(a) PROVE s[0 + i] = a[i]
  BY <1>0, <1>1, <1>2, <1>3
<1>5. ASSUME NEW i \in 1 .. Len(b) PROVE s[Len(a) + i] = b[i]
  <2>1. Len(a) + i \in 1 .. Len(ab) /\ Len(a) + i \in 1 .. Len(abc)
    BY <1>0, <1>1, <1>2
  <2>2. ab[Len(a) + i] = b[i]
    BY <1>1 DEF Holds
  <2> QED
    BY <1>2, <1>3, <2>1, <2>2
<1>6. ASSUME NEW i \in 1 .. Len(c) PROVE s[Len(a) + Len(b) + i] = c[i]
  <2>1. Len(a) + Len(b) + i \in 1 .. Len(abc)
    BY <1>0, <1>1, <1>2
  <2>2. abc[Len(a) + Len(b) + i] = c[i]
    BY <1>1, <1>2 DEF Holds
  <2> QED
    BY <1>3, <2>1, <2>2
<1>7. /\ s \in Seq(S) /\ Len(s) = Len(a) + Len(b) + Len(c) + Len(d)
      /\ Holds(s, 0, a) /\ Holds(s, Len(a), b)
      /\ Holds(s, Len(a) + Len(b), c) /\ Holds(s, Len(a) + Len(b) + Len(c), d)
  BY <1>0, <1>1, <1>2, <1>3, <1>4, <1>5, <1>6 DEF Holds
<1> QED
  BY <1>7 DEF s, abc, ab

\* Events of a whole call, by their places.
LEMMA EventsShape ==
    ASSUME stack \in Stacks, cfg \in Config
    PROVE  /\ Events \in Seq(EventNames)
           /\ Len(Events) = Started + (IF cfg.dhcp THEN 7 ELSE 5)
           /\ Started = 1 => Events[1] = "TCPIP_INIT"
           /\ Events[Started + 1] = "SETTING_LINK_MODE"
           /\ Events[Started + 2] = "APPLYING_IP_CONFIG"
           /\ Events[Started + 3] = "WAITING_LINK_UP"
           /\ Events[Started + 4] = "LINK_UP"
           /\ cfg.dhcp => /\ Events[Started + 5] = "WAITING_DHCP"
                          /\ Events[Started + 6] = "DHCP_BOUND"
           /\ Events[Len(Events)] = "READY"
<1> DEFINE a == IF stack = "eeip" THEN <<"TCPIP_INIT">> ELSE << >>
           b == <<"SETTING_LINK_MODE", "APPLYING_IP_CONFIG", "WAITING_LINK_UP", "LINK_UP">>
           c == IF cfg.dhcp THEN <<"WAITING_DHCP", "DHCP_BOUND">> ELSE << >>
           d == <<"READY">>
<1> USE DEF EventNames
<1>1. /\ a \in Seq(EventNames) /\ Len(a) = Started
      /\ Started = 1 => a[1] = "TCPIP_INIT"
  <2>1. CASE stack = "eeip"
    BY <2>1 DEF Started
  <2>2. CASE stack # "eeip"
    BY <2>2 DEF Started
  <2> QED
    BY <2>1, <2>2
<1>2. /\ b \in Seq(EventNames) /\ Len(b) = 4
      /\ b[1] = "SETTING_LINK_MODE" /\ b[2] = "APPLYING_IP_CONFIG"
      /\ b[3] = "WAITING_LINK_UP" /\ b[4] = "LINK_UP"
  OBVIOUS
<1>3. /\ c \in Seq(EventNames) /\ Len(c) = IF cfg.dhcp THEN 2 ELSE 0
      /\ cfg.dhcp => c[1] = "WAITING_DHCP" /\ c[2] = "DHCP_BOUND"
  <2>1. CASE cfg.dhcp
    BY <2>1
  <2>2. CASE ~cfg.dhcp
    BY <2>2
  <2> QED
    BY <2>1, <2>2
<1>4. d \in Seq(EventNames) /\ Len(d) = 1 /\ d[1] = "READY"
  OBVIOUS
<1> HIDE DEF a, b, c, d, EventNames
<1>5. Events = ((a \o b) \o c) \o d
  BY DEF Events, a, b, c, d
<1>6. /\ Events \in Seq(EventNames)
      /\ Len(Events) = Len(a) + Len(b) + Len(c) + Len(d)
      /\ Holds(Events, 0, a) /\ Holds(Events, Len(a), b)
      /\ Holds(Events, Len(a) + Len(b), c) /\ Holds(Events, Len(a) + Len(b) + Len(c), d)
  <2>1. /\ a \in Seq(EventNames) /\ b \in Seq(EventNames)
        /\ c \in Seq(EventNames) /\ d \in Seq(EventNames)
    BY <1>1, <1>2, <1>3, <1>4
  <2> QED
    BY ONLY <1>5, <2>1, FourJoined
<1>7. Started \in {0, 1} /\ Len(c) \in {0, 2}
  BY <1>3 DEF Started
<1>8. Started = 1 => Events[1] = "TCPIP_INIT"
  BY <1>1, <1>6 DEF Holds
<1>9. /\ Events[Started + 1] = b[1] /\ Events[Started + 2] = b[2]
      /\ Events[Started + 3] = b[3] /\ Events[Started + 4] = b[4]
  BY <1>1, <1>2, <1>6 DEF Holds
<1>10. cfg.dhcp => Events[Started + 5] = c[1] /\ Events[Started + 6] = c[2]
  <2> SUFFICES ASSUME cfg.dhcp
               PROVE  Events[Started + 5] = c[1] /\ Events[Started + 6] = c[2]
    OBVIOUS
  <2>1. Len(c) = 2 /\ Holds(Events, Started + 4, c)
    BY <1>1, <1>2, <1>3, <1>6
  <2>2. Events[Started + 4 + 1] = c[1] /\ Events[Started + 4 + 2] = c[2]
    BY <2>1 DEF Holds
  <2> QED
    BY <1>7, <2>2
<1>11. Events[Len(Events)] = "READY"
  <2>1. Len(Events) = Len(a) + Len(b) + Len(c) + 1
    BY <1>4, <1>6
  <2> QED
    BY <1>4, <1>6, <2>1 DEF Holds
<1>12. Len(Events) = Started + (IF cfg.dhcp THEN 7 ELSE 5)
  BY <1>1, <1>2, <1>3, <1>4, <1>6, <1>7
<1> QED
  BY <1>2, <1>3, <1>6, <1>8, <1>9, <1>10, <1>11, <1>12

\* A call that emits one event more.
LEMMA EmitOne ==
    ASSUME stack \in Stacks, cfg \in Config,
           NEW n \in 0 .. Len(Events) - 1, told = First(n),
           NEW m, m = n + 1, NEW e, e = Events[m], emit_progress(<<e>>)
    PROVE  told' = First(m)
<1>1. Events \in Seq(EventNames) /\ Len(Events) \in Nat
  BY EventsShape
<1>2. SubSeq(Events, 1, m) = SubSeq(Events, 1, n) \o <<e>>
  BY <1>1, SubSeqRecursiveSecond
<1> QED
  BY <1>1, <1>2 DEF emit_progress, First

\* A call that emits the two events after those.
LEMMA EmitTwo ==
    ASSUME stack \in Stacks, cfg \in Config,
           NEW n \in 1 .. Len(Events) - 2, told = First(n),
           NEW m, m = n + 2, NEW e, NEW f, e = Events[n + 1], f = Events[m],
           emit_progress(<<e, f>>)
    PROVE  told' = First(m)
<1>1. Events \in Seq(EventNames) /\ Len(Events) \in Nat
  BY EventsShape
<1>2. SubSeq(Events, n + 1, n + 2) = <<Events[n + 1], Events[n + 2]>>
  <2>1. \A i \in n + 1 .. n + 2 : Events[i] \in EventNames
    BY <1>1, ElementOfSeq
  <2>2. /\ SubSeq(Events, n + 1, n + 2) \in Seq(EventNames)
        /\ Len(SubSeq(Events, n + 1, n + 2)) = 2
        /\ \A i \in 1 .. 2 : SubSeq(Events, n + 1, n + 2)[i] = Events[n + i]
    BY <1>1, <2>1, SubSeqProperties
  <2> DEFINE u == SubSeq(Events, n + 1, n + 2)
             v == <<Events[n + 1], Events[n + 2]>>
  <2>3. v \in Seq(EventNames) /\ Len(v) = 2 /\ v[1] = Events[n + 1] /\ v[2] = Events[n + 2]
    BY <1>1, <2>1
  <2> HIDE DEF u, v
  <2>4. ASSUME NEW i \in 1 .. 2 PROVE u[i] = v[i]
    <3>1. u[i] = Events[n + i]
      BY <2>2 DEF u
    <3>2. i = 1 \/ i = 2
      OBVIOUS
    <3> QED
      BY <2>3, <3>1, <3>2
  <2> QED
    BY <2>2, <2>3, <2>4, SeqEqual DEF u, v
<1>3. SubSeq(Events, 1, n) \o SubSeq(Events, n + 1, n + 2) = SubSeq(Events, 1, m)
  BY <1>1, ConcatAdjacentSubSeq
<1> QED
  BY <1>1, <1>2, <1>3 DEF emit_progress, First

\* A step that tells nothing and does not move the call.
LEMMA ToldStays ==
    ASSUME ToldInv, UNCHANGED <<stack, cfg, told, answer>>,
           pc' = pc \/ (pc \in LinkWait /\ pc' \in LinkWait)
                    \/ (pc \in DhcpWait /\ pc' \in DhcpWait)
    PROVE  ToldInv'
<1>1. \A p : First(EmittedAt(p))' = First(EmittedAt(p))
  BY DEF First, Events, EmittedAt, Started
<1>2. First(EmittedBy(answer))' = First(EmittedBy(answer))
  BY DEF First, Events, EmittedBy, Started
<1> QED
  BY <1>1, <1>2 DEF ToldInv, EmittedAt, Started

\* Every step keeps what has been told in step with the call.
LEMMA StepTold == TypeOK /\ PassedInv /\ ToldInv /\ [Next]_vars => ToldInv'
<1> SUFFICES ASSUME TypeOK, PassedInv, ToldInv, [Next]_vars PROVE ToldInv'
  OBVIOUS
<1> USE DEF call, net, history
<1>a. stack \in Stacks /\ cfg \in Config
  BY DEF TypeOK
<1>b. /\ Started \in {0, 1} /\ Len(Events) \in {Started + 5, Started + 7}
      /\ cfg.dhcp => Len(Events) = Started + 7
      /\ ~cfg.dhcp => Len(Events) = Started + 5
  BY <1>a, EventsShape DEF Started
<1>d. /\ Started = 1 => Events[1] = "TCPIP_INIT"
      /\ Events[Started + 1] = "SETTING_LINK_MODE"
      /\ Events[Started + 2] = "APPLYING_IP_CONFIG"
      /\ Events[Started + 3] = "WAITING_LINK_UP"
      /\ Events[Started + 4] = "LINK_UP"
      /\ cfg.dhcp => /\ Events[Started + 5] = "WAITING_DHCP"
                     /\ Events[Started + 6] = "DHCP_BOUND"
                     /\ Events[Started + 7] = "READY"
      /\ ~cfg.dhcp => Events[Started + 5] = "READY"
  BY <1>a, <1>b, EventsShape
<1>c. UNCHANGED <<stack, cfg>> =>
         Started' = Started /\ Events' = Events /\ \A n : First(n)' = First(n)
  BY DEF Started, Events, First
<1>1. ASSUME NEW c \in Configs[stack], Begin(c) PROVE ToldInv'
  <2>1. pc' # "idle" /\ told' = << >> /\ EmittedAt(pc)' = 0 /\ (pc' = "tcpip" => stack' = "eeip")
    BY <1>1 DEF Begin, EmittedAt, Started
  <2>2. First(EmittedAt(pc))' = << >>
    BY <2>1, SubSeqEmpty DEF First
  <2> QED
    BY <2>1, <2>2 DEF ToldInv
<1>2. CASE BeginNull
  BY <1>2 DEF ToldInv, BeginNull
<1>3. CASE ps2ipInit
  <2>1. told = First(0) /\ Started = 1
    BY <1>3 DEF ToldInv, ps2ipInit, EmittedAt, Started
  <2>2. told' = First(1)
    <3>1. emit_progress(<<"TCPIP_INIT">>)
      BY <1>3 DEF ps2ipInit
    <3> QED
      BY <1>a, <1>b, <1>d, <2>1, <3>1, EmitOne
  <2> QED
    BY <1>3, <1>c, <2>1, <2>2 DEF ToldInv, ps2ipInit, EmittedAt
<1>4. CASE NetManSetLinkMode
  <2>1. told = First(Started)
    BY <1>4 DEF ToldInv, NetManSetLinkMode, EmittedAt
  <2>2. told' = First(Started + 1)
    <3>1. emit_progress(<<"SETTING_LINK_MODE">>)
      BY <1>4 DEF NetManSetLinkMode
    <3>2. Started + 1 = (Started) + 1 /\ Started \in 0 .. Len(Events) - 1
      BY <1>b
    <3> QED
      BY <1>a, <1>d, <2>1, <3>1, <3>2, EmitOne
  <2> QED
    BY <1>4, <1>c, <2>2 DEF ToldInv, PassedInv, NetManSetLinkMode, Return, EmittedAt,
       EmittedBy
<1>5. CASE ps2ip_getconfig
  <2>1. told = First(Started + 1)
    BY <1>5 DEF ToldInv, ps2ip_getconfig, EmittedAt
  <2>2. told' = First(Started + 2)
    <3>1. emit_progress(<<"APPLYING_IP_CONFIG">>)
      BY <1>5 DEF ps2ip_getconfig
    <3>2. Started + 2 = (Started + 1) + 1 /\ Started + 1 \in 0 .. Len(Events) - 1
      BY <1>b
    <3> QED
      BY <1>a, <1>d, <2>1, <3>1, <3>2, EmitOne
  <2> QED
    BY <1>5, <1>c, <2>2 DEF ToldInv, PassedInv, ps2ip_getconfig, Return, EmittedAt,
       EmittedBy
<1>6. CASE ps2ip_setconfig
  <2>1. told = First(Started + 2)
    BY <1>6 DEF ToldInv, ps2ip_setconfig, EmittedAt
  <2>2. emit_progress(<<"WAITING_LINK_UP">>) => told' = First(Started + 3)
    <3>2. Started + 3 = (Started + 2) + 1 /\ Started + 2 \in 0 .. Len(Events) - 1
      BY <1>b
    <3> QED
      BY <1>a, <1>d, <2>1, <3>2, EmitOne
  <2>3. told' = told => told' = First(Started + 2)
    BY <2>1
  <2> QED
    BY <1>6, <1>c, <2>2, <2>3 DEF ToldInv, PassedInv, ps2ip_setconfig, Return, EmittedAt,
       EmittedBy
<1>7. CASE LinkFound
  <2>1. told = First(Started + 3)
    BY <1>7 DEF ToldInv, LinkFound, EmittedAt
  <2>2. told' = First(Started + 5)
    <3>1. emit_progress(<<"LINK_UP", IF cfg.dhcp THEN "WAITING_DHCP" ELSE "READY">>)
      BY <1>7 DEF LinkFound
    <3>2. /\ Started + 3 \in 1 .. Len(Events) - 2
          /\ Started + 4 = (Started + 3) + 1 /\ Started + 5 = (Started + 3) + 2
      BY <1>b
    <3>3. Events[Started + 5] = IF cfg.dhcp THEN "WAITING_DHCP" ELSE "READY"
      BY <1>d
    <3> QED
      BY <1>a, <1>d, <2>1, <3>1, <3>2, <3>3, EmitTwo
  <2> QED
    BY <1>7, <1>b, <1>c, <2>2 DEF ToldInv, PassedInv, LinkFound, Return, EmittedAt,
       EmittedBy
<1>8. CASE LeaseFound
  <2>1. told = First(Started + 5) /\ cfg.dhcp
    BY <1>8 DEF ToldInv, PassedInv, LeaseFound, EmittedAt
  <2>2. told' = First(Started + 7)
    <3>1. emit_progress(<<"DHCP_BOUND", "READY">>)
      BY <1>8 DEF LeaseFound
    <3>2. /\ Started + 5 \in 1 .. Len(Events) - 2
          /\ Started + 6 = (Started + 5) + 1 /\ Started + 7 = (Started + 5) + 2
      BY <1>b, <2>1
    <3> QED
      BY <1>a, <1>d, <2>1, <3>1, <3>2, EmitTwo
  <2> QED
    BY <1>8, <1>b, <1>c, <2>1, <2>2 DEF ToldInv, LeaseFound, Return, EmittedBy
<1>9. CASE TimedOut
  <2>1. told = First(EmittedAt(pc)) /\ (pc = "dhcp" => cfg.dhcp)
    BY <1>9 DEF ToldInv, PassedInv, TimedOut
  <2>2. told' = First(EmittedBy(answer))'
    BY <1>9, <1>c, <2>1 DEF TimedOut, Return, EmittedAt, EmittedBy, First
  <2> QED
    BY <1>9, <2>1, <2>2 DEF ToldInv, TimedOut, Return
<1>10. CASE NotYet \/ usleep
  BY <1>10, ToldStays DEF NotYet, usleep
<1>11. CASE get_current_config \/ LinkChanges \/ LeaseChanges \/ ReadabilityChanges
            \/ SecondPasses \/ UNCHANGED vars
  BY <1>11, ToldStays DEF get_current_config, LinkChanges, LeaseChanges,
     ReadabilityChanges, SecondPasses, vars
<1> QED
  BY <1>1, <1>2, <1>3, <1>4, <1>5, <1>6, <1>7, <1>8, <1>9, <1>10, <1>11 DEF Next

\* A prefix of a sequence, of its length.
LEMMA FirstShape ==
    ASSUME stack \in Stacks, cfg \in Config, NEW n \in 1 .. Len(Events)
    PROVE  /\ Len(First(n)) = n /\ First(n) # << >>
           /\ First(n)[n] = Events[n]
<1>1. Events \in Seq(EventNames) /\ Len(Events) \in Nat
  BY EventsShape
<1>2. \A i \in 1 .. n : Events[i] \in EventNames
  BY <1>1, ElementOfSeq
<1>3. /\ Len(SubSeq(Events, 1, n)) = n
      /\ \A i \in 1 .. n : SubSeq(Events, 1, n)[i] = Events[i]
  BY <1>1, <1>2, SubSeqProperties
<1> QED
  BY <1>3 DEF First

\* Between two calls, the events told are those up to the answer.
LEMMA ToldAnswers == TypeOK /\ PassedInv /\ ToldInv => ToldMatchesAnswer
<1> SUFFICES ASSUME TypeOK, PassedInv, ToldInv, answer # "none" PROVE ToldMatchesAnswer
  BY DEF ToldMatchesAnswer
<1>1. stack \in Stacks /\ cfg \in Config /\ answer \in Answers
  BY DEF TypeOK
<1>2. pc = "idle"
  BY DEF PassedInv
<1>3. CASE told = << >> /\ answer = "CONFIG_ERROR"
  <2>1. SubSeq(Events, 1, Len(told)) = << >>
    BY <1>3, SubSeqEmpty
  <2> QED
    BY <1>3, <2>1 DEF ToldMatchesAnswer
<1>4. CASE told = First(EmittedBy(answer)) /\ (answer = "DHCP_TIMEOUT" => cfg.dhcp)
  <2> DEFINE n == EmittedBy(answer)
  <2>1. /\ n \in 1 .. Len(Events)
        /\ Events[n] = CASE answer = "OK"              -> "READY"
                         [] answer = "LINK_MODE_ERROR" -> "SETTING_LINK_MODE"
                         [] answer = "CONFIG_ERROR"    -> "APPLYING_IP_CONFIG"
                         [] answer = "LINK_TIMEOUT"    -> "WAITING_LINK_UP"
                         [] answer = "DHCP_TIMEOUT"    -> "WAITING_DHCP"
    BY <1>1, <1>4, EventsShape DEF Answers, EmittedBy, Started
  <2> HIDE DEF n
  <2>2. Len(told) = n /\ told # << >> /\ told[n] = Events[n] /\ told = SubSeq(Events, 1, n)
    BY <1>1, <1>4, <2>1, FirstShape DEF n, First
  <2> QED
    BY <2>1, <2>2 DEF ToldMatchesAnswer
<1> QED
  BY <1>2, <1>3, <1>4 DEF ToldInv

\* What the application was told is the beginning of the events of a whole call,
\* and ends where the answer says that the call ended.
THEOREM ToldIsPrefix == Spec => []ToldMatchesAnswer
<1>1. Init => ToldInv
  BY DEF Init, ToldInv
<1>2. Inv /\ ToldInv /\ [Next]_vars => ToldInv'
  BY StepTold DEF Inv
<1>3. Inv /\ ToldInv => ToldMatchesAnswer
  BY ToldAnswers DEF Inv
<1> QED
  BY <1>1, <1>2, <1>3, Inductive, PTL DEF Spec
=============================================================================
