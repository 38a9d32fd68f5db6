------------------------------ MODULE MCXdpTx ------------------------------
EXTENDS XdpTx
OfKind(kind, at) == [kind |-> kind, at |-> at]
MCXdpWorlds ==
    { [f1 |-> OfKind("skb", <<"a", "b">>), f2 |-> OfKind("frame", <<"a">>)],
      [f1 |-> OfKind("skb", <<"a", "b">>), f2 |-> OfKind("pp", <<"a", "b">>)],
      [f1 |-> OfKind("xsk", <<"a">>), f2 |-> OfKind("xsk", <<"b">>)],
      [f1 |-> OfKind("xsk", <<"b">>), f2 |-> OfKind("rexmit", <<"a", "b">>)] }
=============================================================================
