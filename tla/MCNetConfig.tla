---------------------------- MODULE MCNetConfig ----------------------------
(***************************************************************************)
(* Configurations for TLC: the defaults of the two stacks, and others that *)
(* differ in the timeout, the address and the link mode.                   *)
(***************************************************************************)
EXTENDS NetConfig

Cfg(dhcp, addr, mode, seconds) ==
    [dhcp |-> dhcp, addr |-> addr, mode |-> mode, timeout |-> seconds]

\* eeip_network_config_default_dhcp()
eeip_network_config_default_dhcp == Cfg(TRUE, "zero", "auto", DefaultTimeout)

\* iopip_network_config_default()
iopip_network_config_default == Cfg(FALSE, "zero", "auto", DefaultTimeout)

MCConfigs ==
    [s \in Stacks |->
        IF s = "eeip"
        THEN {eeip_network_config_default_dhcp, Cfg(TRUE, "zero", "fixed", 0),
              Cfg(FALSE, "ip1", "auto", 1), Cfg(FALSE, "ip2", "auto", -1)}
        ELSE {iopip_network_config_default, Cfg(FALSE, "ip1", "fixed", 0),
              Cfg(FALSE, "ip2", "auto", 1)}]
=============================================================================
