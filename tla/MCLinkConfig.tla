---------------------------- MODULE MCLinkConfig ----------------------------
(* LinkConfig with the configurations of the integration tests and others. *)
EXTENDS LinkConfig

NoValue == "none"
Entry(h, s, n, a) == [hw |-> h, spoof |-> s, name |-> n, addr |-> a]
Eths == <<"eth0", "eth1">>

\* goldenInterfaces with one of its tunnels, and goldenInterfacesBridges with
\* both links in the bridge.
Links == [interfaces |-> <<Entry("m1", None, "uplink0", None),
                           Entry("m2", "s", "lan0", "A"),
                           Entry(None, None, "wg0", "B")>>,
          bridges |-> <<>>, tunnels |-> <<"wg0">>]
Bridge == [interfaces |-> <<Entry(None, None, "wg0", "B"),
                            Entry(None, "s", "lan0", "A")>>,
           bridges |-> <<[name |-> "lan0", members |-> {"m1", "m2"}]>>, tunnels |-> <<"wg0">>]
\* A bridge that keeps the address of its member, and a link known by its name.
Plain == [interfaces |-> <<Entry(None, None, "lan0", "A"), Entry(None, None, "eth0", "B")>>,
          bridges |-> <<[name |-> "lan0", members |-> {"m2"}]>>, tunnels |-> <<>>]

\* A name that the kernel may give to the other link.
Clash == [interfaces |-> <<Entry("m1", None, "eth1", None), Entry("m2", "s", "lan0", "A")>>,
          bridges |-> <<>>, tunnels |-> <<>>]

Some == {Links, Bridge, Plain, Clash}
=============================================================================
