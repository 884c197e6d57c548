----------------------------- MODULE MCTcpLink -----------------------------
(* TLC instances of TcpLink: one device that has an address from the start  *)
(* and one that has not.                                                    *)
EXTENDS TcpLink, TLC

CONSTANTS tcp0, tcp1, a1, a2

SettingsOfEach == (tcp0 :> {"recv", "send", "keepalive"}) @@
                  [d \in Devices \ {tcp0} |-> {}]

AddressOfFirst == (tcp0 :> a1) @@ [d \in Devices \ {tcp0} |-> NoAddr]
=============================================================================
