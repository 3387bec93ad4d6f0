---------------------------- MODULE MCLocalWatch ----------------------------
(***************************************************************************)
(* A machine for LocalWatch: a physical interface, whose addresses are of  *)
(* every class and one of them there with two prefixes, a VPN tunnel and a *)
(* loopback interface with an address of its own.                          *)
(***************************************************************************)
EXTENDS LocalWatch

TheNames == {"eth0", "tun0", "lo"}
TheKinds == [i \in TheNames |->
    CASE i = "eth0" -> "physical" [] i = "tun0" -> "ptp" [] i = "lo" -> "loopback"]

TheIndexes == [lo |-> 1, eth0 |-> 2, tun0 |-> 3]

TheIPs == [v4 |-> 1, again |-> 1, ula |-> 2, link |-> 3, tunnel6 |-> 4, tunnel4 |-> 5,
           anycast |-> 6]
TheEntries == DOMAIN TheIPs
TheClasses == [e \in TheEntries |->
    CASE e = "ula" -> "ula" [] e = "link" -> "linklocal" [] e = "tunnel6" -> "v6"
      [] OTHER -> "v4"]

TheMachines == {[i \in TheNames |->
        CASE i = "eth0" -> addresses
          [] i = "tun0" -> {"tunnel6", "tunnel4"}
          [] i = "lo"   -> {"anycast"}] :
    addresses \in {{}, {"v4", "ula", "link"}, {"v4", "again"}}}

Setting(only, virtual, noV6, ula) ==
    [only |-> only, virtual |-> virtual, noV6 |-> noV6, ula |-> ula]

TheSettings == {Setting({}, FALSE, FALSE, FALSE), Setting({}, TRUE, FALSE, TRUE),
                Setting({"tun0", "lo"}, FALSE, TRUE, TRUE)}

=============================================================================
