----------------------------- MODULE NetConfig -----------------------------
(***************************************************************************)
(* Bringing the network interface up: configure_eeip_network(), its twin   *)
(* configure_iopip_network(), and the *_get_current_config() calls, over   *)
(* an interface whose link, DHCP lease and readability change at any time. *)
(*                                                                         *)
(* A call sets the interface, then polls once a second.  An application    *)
(* may call again whatever the last call answered.                         *)
(***************************************************************************)
EXTENDS Integers, Sequences

CONSTANTS
    Addrs,           \* addresses an application configures by hand
    Configs,         \* Configs[a]: the configurations passed to stack a
    DefaultTimeout,  \* EEIP_ and IOPIP_DEFAULT_TIMEOUT_SECONDS
    Long             \* seconds the histories count no further

Stacks == {"eeip", "iopip"}
Leases == {"off", "trying", "bound"}
Address == Addrs \cup {"zero", "leased"}

Config == [dhcp : BOOLEAN, addr : Addrs \cup {"zero"}, mode : {"auto", "fixed"},
           timeout : Int]
NoConfig == [dhcp |-> FALSE, addr |-> "zero", mode |-> "auto", timeout |-> 0]

ASSUME NetConfigAssumption ==
    /\ DefaultTimeout \in Nat \ {0} /\ Long \in Nat /\ Long > 1
    /\ Configs \in [Stacks -> SUBSET Config]
    /\ \A c \in Configs["iopip"] : ~c.dhcp

VARIABLES
    stack,      \* the driver the application is linked with (constant)
    pc,         \* where the call is; "idle" between calls
    cfg,        \* its configuration
    retry,      \* wait_until()'s counter
    info,       \* the t_ip_info that apply_ip_config() has read
    told,       \* the progress events of the call
    answer,     \* the answer of the last call
    reported,   \* the address *_get_current_config() gave since that answer
    iface,      \* sm0: address, DHCP enabled, state of the lease
    readable,   \* ps2ip_getconfig("sm0") does not fail
    link,       \* the link is up
    upFor,      \* history: seconds for which the link has stayed up
    leasedFor,  \* history: seconds for which there has been a lease
    waited,     \* history: seconds slept in the present wait
    had         \* history: what was the case at some moment of the call since it
                \* applied the configuration ("link", "lease", "trying")

call    == <<stack, pc, cfg, retry, info, told, answer, reported>>
net     == <<iface, readable, link>>
history == <<upFor, leasedFor, waited, had>>
vars    == <<call, net, history>>

-----------------------------------------------------------------------------
(* What the call asks of the interface.                                    *)

timeout == IF cfg.timeout > 0 THEN cfg.timeout ELSE DefaultTimeout

link_is_up == link

\* Slip: DHCP being enabled is taken for a lease.
dhcp_is_bound_Enabled == readable /\ iface.dhcp

dhcp_is_bound == readable /\ iface.dhcp /\ iface.lease \in {"bound", "off"}

\* There is a lease, and it can be read; the client asks for one.  A client that
\* has not started, which the code takes for bound, is neither.
Leased == readable /\ iface.dhcp /\ iface.lease = "bound"
Trying == iface.dhcp /\ iface.lease = "trying"

Facts == (IF link THEN {"link"} ELSE {}) \cup (IF Leased THEN {"lease"} ELSE {})
            \cup (IF Trying THEN {"trying"} ELSE {})

More(n)          == IF n < Long THEN n + 1 ELSE Long
Steady(holds, n) == IF holds THEN More(n) ELSE 0
Kept(holds, n)   == IF holds THEN n ELSE 0

Wait(p) == CASE p \in {"link", "link_sleep"} -> "link"
             [] p \in {"dhcp", "dhcp_sleep"} -> "dhcp"
             [] OTHER -> "none"

\* What an observer knows after a step in which no time passes, and after one
\* second.
Observe ==
    /\ upFor' = Kept(link', upFor) /\ leasedFor' = Kept(Leased', leasedFor)
    /\ waited' = IF Wait(pc') = Wait(pc) THEN waited ELSE 0
    /\ had' = CASE pc = "idle"  -> had
                 [] pc = "write" -> Facts'
                 [] OTHER        -> had \cup Facts'
ObserveSecond ==
    /\ upFor' = Steady(link, upFor) /\ leasedFor' = Steady(Leased, leasedFor)
    /\ waited' = IF Wait(pc) = "none" THEN 0 ELSE More(waited)
    /\ UNCHANGED had

emit_progress(events) == told' = told \o events

-----------------------------------------------------------------------------
(* The steps of a call.                                                    *)

Begin(c) ==
    /\ pc = "idle"
    /\ cfg' = c /\ retry' = 0 /\ told' = << >> /\ answer' = "none"
    /\ pc' = IF stack = "eeip" THEN "tcpip" ELSE "mode"
    /\ reported' = "none"
    /\ had' = {}
    /\ UNCHANGED <<stack, info, net, upFor, leasedFor, waited>>

\* A NULL configuration is refused before anything is done.
BeginNull ==
    /\ pc = "idle"
    /\ cfg' = NoConfig /\ retry' = 0 /\ told' = << >> /\ answer' = "CONFIG_ERROR"
    /\ reported' = "none" /\ had' = {}
    /\ UNCHANGED <<stack, pc, info, net, upFor, leasedFor, waited>>

Return(a) == pc' = "idle" /\ answer' = a

\* Step 1 of EEIP; the stack starts again with zero addresses, without DHCP.
ps2ipInit ==
    /\ pc = "tcpip"
    /\ emit_progress(<<"TCPIP_INIT">>)
    /\ iface' = [addr |-> "zero", dhcp |-> FALSE, lease |-> "off"]
    /\ pc' = "mode"
    /\ UNCHANGED <<stack, cfg, retry, info, answer, reported, readable, link>>
    /\ Observe

NetManSetLinkMode ==
    /\ pc = "mode"
    /\ emit_progress(<<"SETTING_LINK_MODE">>)
    /\ \/ pc' = "read" /\ UNCHANGED answer
       \/ cfg.mode # "auto" /\ Return("LINK_MODE_ERROR")
    /\ UNCHANGED <<stack, cfg, retry, info, reported, net>>
    /\ Observe

\* apply_ip_config(), up to ps2ip_setconfig().
ps2ip_getconfig ==
    /\ pc = "read"
    /\ emit_progress(<<"APPLYING_IP_CONFIG">>)
    /\ IF readable THEN info' = iface /\ pc' = "write" /\ UNCHANGED answer
                   ELSE Return("CONFIG_ERROR") /\ UNCHANGED info
    /\ UNCHANGED <<stack, cfg, retry, reported, net>>
    /\ Observe

\* Slip: a static address does not switch DHCP off.
Asked_KeepsDhcp(c, old) ==
    IF c.dhcp THEN [old EXCEPT !.dhcp = TRUE] ELSE [old EXCEPT !.addr = c.addr]

\* The t_ip_info that apply_ip_config() writes back.
Asked(c, old) ==
    IF c.dhcp THEN [old EXCEPT !.dhcp = TRUE]
              ELSE [old EXCEPT !.addr = c.addr, !.dhcp = FALSE]

\* The interface after ps2ip_setconfig(i): DHCP starts if it did not run.
SetTo(i) ==
    {[addr |-> i.addr, dhcp |-> i.dhcp, lease |-> l] :
        l \in IF ~i.dhcp THEN {"off"} ELSE IF iface.dhcp THEN {iface.lease}
                         ELSE {"off", "trying"}}

\* Slip: the wait is announced before the answer is looked at.
ps2ip_setconfig_TellsFirst ==
    /\ pc = "write" /\ emit_progress(<<"WAITING_LINK_UP">>)
    /\ \/ iface' \in SetTo(Asked(cfg, info)) /\ pc' = "link" /\ UNCHANGED answer
       \/ Return("CONFIG_ERROR") /\ UNCHANGED iface
    /\ UNCHANGED <<stack, cfg, retry, info, reported, readable, link>>
    /\ Observe

ps2ip_setconfig ==
    /\ pc = "write"
    /\ \/ /\ iface' \in SetTo(Asked(cfg, info))
          /\ emit_progress(<<"WAITING_LINK_UP">>)
          /\ pc' = "link" /\ UNCHANGED answer
       \/ Return("CONFIG_ERROR") /\ UNCHANGED <<iface, told>>
    /\ UNCHANGED <<stack, cfg, retry, info, reported, readable, link>>
    /\ Observe

\* Slip: the timeout of a configuration that asks for the default is zero.
Expired_NoDefault == ~(retry < cfg.timeout)

\* Slip: one check more than there are seconds.
Expired_OneMore == retry > timeout

\* wait_until() gives up without a last check.
Expired == ~(retry < timeout)

\* Slip: the wait for the lease goes on with the counter of the wait before.
LinkFound_KeepsCounter ==
    /\ pc = "link" /\ ~Expired /\ link_is_up
    /\ IF cfg.dhcp
       THEN /\ emit_progress(<<"LINK_UP", "WAITING_DHCP">>)
            /\ pc' = "dhcp" /\ UNCHANGED answer
       ELSE emit_progress(<<"LINK_UP", "READY">>) /\ Return("OK")
    /\ UNCHANGED <<stack, cfg, retry, info, reported, net>>
    /\ Observe

LinkFound ==
    /\ pc = "link" /\ ~Expired /\ link_is_up
    /\ retry' = 0
    /\ IF cfg.dhcp
       THEN /\ emit_progress(<<"LINK_UP", "WAITING_DHCP">>)
            /\ pc' = "dhcp" /\ UNCHANGED answer
       ELSE emit_progress(<<"LINK_UP", "READY">>) /\ Return("OK")
    /\ UNCHANGED <<stack, cfg, info, reported, net>>
    /\ Observe

LeaseFound ==
    /\ pc = "dhcp" /\ ~Expired /\ dhcp_is_bound
    /\ emit_progress(<<"DHCP_BOUND", "READY">>) /\ Return("OK")
    /\ UNCHANGED <<stack, cfg, retry, info, reported, net>>
    /\ Observe

TimedOut ==
    /\ pc \in {"link", "dhcp"} /\ Expired
    /\ Return(IF pc = "link" THEN "LINK_TIMEOUT" ELSE "DHCP_TIMEOUT")
    /\ UNCHANGED <<stack, cfg, retry, info, told, reported, net>>
    /\ Observe

\* Not yet: usleep() for a second.
NotYet ==
    /\ \/ pc = "link" /\ ~link_is_up /\ pc' = "link_sleep"
       \/ pc = "dhcp" /\ ~dhcp_is_bound /\ pc' = "dhcp_sleep"
    /\ ~Expired
    /\ UNCHANGED <<stack, cfg, retry, info, told, answer, reported, net>>
    /\ Observe

\* Slip: the counter is not advanced.
usleep_NoCount ==
    /\ \/ pc = "link_sleep" /\ pc' = "link"
       \/ pc = "dhcp_sleep" /\ pc' = "dhcp"
    /\ UNCHANGED <<stack, cfg, retry, info, told, answer, reported, net>>
    /\ ObserveSecond

usleep ==
    /\ \/ pc = "link_sleep" /\ pc' = "link"
       \/ pc = "dhcp_sleep" /\ pc' = "dhcp"
    /\ retry' = retry + 1
    /\ UNCHANGED <<stack, cfg, info, told, answer, reported, net>>
    /\ ObserveSecond

\* eeip_get_current_config(), iopip_get_current_config()
get_current_config ==
    /\ pc = "idle"
    /\ reported' = IF readable THEN iface.addr ELSE "none"
    /\ UNCHANGED <<stack, pc, cfg, retry, info, told, answer, net>>
    /\ Observe

Caller ==
    \/ ps2ipInit \/ NetManSetLinkMode \/ ps2ip_getconfig \/ ps2ip_setconfig
    \/ LinkFound \/ LeaseFound \/ TimedOut \/ NotYet \/ usleep

-----------------------------------------------------------------------------
(* The network.                                                            *)

LinkChanges ==
    /\ link' = ~link
    /\ UNCHANGED <<call, iface, readable>>
    /\ Observe

\* The DHCP client, while it is enabled: a lease needs the link, and is lost
\* without it or with it.
LeaseChanges ==
    /\ iface.dhcp
    /\ \/ /\ link /\ iface.lease # "bound"
          /\ iface' = [iface EXCEPT !.lease = "bound", !.addr = "leased"]
       \/ iface.lease = "off" /\ iface' = [iface EXCEPT !.lease = "trying"]
       \/ /\ iface.lease = "bound"
          /\ iface' = [iface EXCEPT !.lease = "trying", !.addr = "zero"]
    /\ UNCHANGED <<call, readable, link>>
    /\ Observe

ReadabilityChanges ==
    /\ readable' = ~readable
    /\ UNCHANGED <<call, iface, link>>
    /\ Observe

\* The application does something else.
SecondPasses ==
    /\ pc = "idle"
    /\ UNCHANGED <<call, net>>
    /\ ObserveSecond

-----------------------------------------------------------------------------
Init ==
    /\ stack \in Stacks /\ pc = "idle" /\ cfg = NoConfig /\ retry = 0
    /\ iface \in [addr : {"zero"}, dhcp : BOOLEAN, lease : {"off"}]
    /\ info = iface /\ told = << >> /\ answer = "none" /\ reported = "none"
    /\ readable \in BOOLEAN /\ link \in BOOLEAN
    /\ upFor = 0 /\ leasedFor = 0 /\ waited = 0 /\ had = {}

Next ==
    \/ \E c \in Configs[stack] : Begin(c)
    \/ BeginNull
    \/ ps2ipInit \/ NetManSetLinkMode \/ ps2ip_getconfig \/ ps2ip_setconfig
    \/ LinkFound \/ LeaseFound \/ TimedOut \/ NotYet \/ usleep
    \/ get_current_config
    \/ LinkChanges \/ LeaseChanges \/ ReadabilityChanges \/ SecondPasses

\* A call is the application's own thread: it computes, or sleeps for a second.
Spec == Init /\ [][Next]_vars /\ WF_vars(Caller)
-----------------------------------------------------------------------------
(* Properties.                                                             *)

Points == {"idle", "tcpip", "mode", "read", "write", "link", "link_sleep",
           "dhcp", "dhcp_sleep"}
Answers == {"none", "OK", "LINK_MODE_ERROR", "LINK_TIMEOUT", "DHCP_TIMEOUT",
            "CONFIG_ERROR"}
Interface == [addr : Address, dhcp : BOOLEAN, lease : Leases]

\* Every variable has its type; the IOP stack is never asked for a lease.
TypeOK ==
    /\ stack \in Stacks /\ pc \in Points
    /\ cfg \in Config /\ (stack = "iopip" => ~cfg.dhcp)
    /\ retry \in 0 .. timeout /\ answer \in Answers
    /\ iface \in Interface /\ info \in Interface
    /\ reported \in Address \cup {"none"}
    /\ readable \in BOOLEAN /\ link \in BOOLEAN
    /\ upFor \in 0 .. Long /\ leasedFor \in 0 .. Long /\ waited \in 0 .. Long
    /\ had \subseteq {"link", "lease", "trying"}

\* OK is earned in the call itself, after it has applied the configuration: the
\* link was up at some moment and, if a lease was asked for, there was a lease,
\* or the DHCP client was never seen at work (DHCP_STATE_OFF, which the code
\* counts as bound): once it asks, only a lease ends the wait.  What an earlier
\* call or an earlier configuration saw does not count.
OkEarned ==
    answer = "OK" =>
        /\ "link" \in had
        /\ cfg.dhcp => "lease" \in had \/ "trying" \notin had

\* No timeout is answered of what has held for more than a second: what comes
\* up within the last second, after the last check, is all that is missed.
SteadyEventSeen ==
    [][TimedOut => CASE pc = "link" -> upFor < 2 [] pc = "dhcp" -> leasedFor < 2]_vars

\* Each of the two waits gets the time that was asked for, or the default, no
\* second less and none more ("per phase; 0 -> default 10",
\* include/ps2_eeip_driver.h).
WaitsAsLongAsAsked ==
    [][TimedOut => waited = IF timeout < Long THEN timeout ELSE Long]_vars

\* The events of a whole call.
Events ==
    (IF stack = "eeip" THEN <<"TCPIP_INIT">> ELSE << >>)
    \o <<"SETTING_LINK_MODE", "APPLYING_IP_CONFIG", "WAITING_LINK_UP", "LINK_UP">>
    \o (IF cfg.dhcp THEN <<"WAITING_DHCP", "DHCP_BOUND">> ELSE << >>)
    \o <<"READY">>

\* What the application was told ends where the answer says that the call
\* ended, and nothing before that was left out.
ToldMatchesAnswer ==
    answer # "none" =>
        /\ told = SubSeq(Events, 1, Len(told))
        /\ told # << >> =>
              told[Len(told)] =
                 CASE answer = "OK"              -> "READY"
                   [] answer = "LINK_MODE_ERROR" -> "SETTING_LINK_MODE"
                   [] answer = "CONFIG_ERROR"    -> "APPLYING_IP_CONFIG"
                   [] answer = "LINK_TIMEOUT"    -> "WAITING_LINK_UP"
                   [] answer = "DHCP_TIMEOUT"    -> "WAITING_DHCP"
        /\ told = << >> => answer = "CONFIG_ERROR"

\* After an OK for an address set by hand, *_get_current_config() reports that
\* address, until the next call: no DHCP client of an earlier configuration
\* changes it.
StaticReported ==
    answer = "OK" /\ ~cfg.dhcp => reported \in {"none", cfg.addr}

\* Every call returns, whatever the network does.
Returns == pc # "idle" ~> pc = "idle"
=============================================================================
